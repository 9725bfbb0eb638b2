SPECIFICATION FairProtocolSpec
CONSTANTS
  Requests <- MCRequests
  MaxCuts <- MCCuts
  MaxRecord = 20
  Answers <- MCAnswers
  Commands <- MCCommands
  ZeroCommand = "BAD_VERSION"
  Lengths <- MCLengths
  MAX_PACKET_PAYLOAD_SIZE = 8
  MaxHeaders = 5
  LEN16 = 5
  LEN64 = 6
  MAX16 = 8
  Width = 27
  HostOrder16 <- Reversed16
  HostOrder64 <- Reversed64
  MaxHeap = 12
  NULL = NULL
  BLOCK_SIZE = 3
  FileLength = 7
  Base = 5
INVARIANTS
  ReadAnswered
  AvailabilityAnswered
PROPERTIES
  ImplementsExchange
  CrashesOnlyForMissingBlock
  RequestAnswered
CHECK_DEADLOCK FALSE
