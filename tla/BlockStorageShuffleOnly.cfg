SPECIFICATION Spec
CONSTANTS
  Readers = {r1}
  BlockNumbers <- MCBlockNumbers
  BLOCK_SIZE = 2
  Width = 16
  MaxLength = 5
  Inodes = {}
  NoFile = NoFile
  NULL = NULL
  Unread = Unread
  Garbage = Garbage
INVARIANT NoFileNoBlocks
