SPECIFICATION FairSpec
CONSTANTS
  Requests <- MCRequests
  MaxCuts <- OneCut
  MaxRecord = 20
  Answers <- FewAnswers
  Commands = {0, 1}
  ZeroCommand = 0
  Lengths <- MCLengths
  MAX_PACKET_PAYLOAD_SIZE = 8
  MaxHeaders = 5
  LEN16 = 5
  LEN64 = 6
  MAX16 = 8
  Width = 27
  HostOrder16 <- Reversed16
  HostOrder64 <- Reversed64
  MaxHeap = 12
  NULL = NULL
PROPERTY NoChildWithoutClient
CHECK_DEADLOCK FALSE
