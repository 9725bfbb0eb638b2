SPECIFICATION FairSpec
CONSTANTS
  Readers = {r1}
  BlockNumbers <- MCBlockNumbers
  BLOCK_SIZE = 2
  Width = 16
  MaxLength = 4
  Inodes = {i1, i2}
  NoFile = NoFile
  NULL = NULL
  Unread = Unread
  Garbage = Garbage
INVARIANTS
  TypeOK
  AvailabilityExact
  BlockAsked
PROPERTIES
  GarbageOnlyFromShrunkFile
  GetBlockReturns
  ReadsAreAtomic
