SPECIFICATION FairShepooSpec
CONSTANTS
  c1 = c1
  c2 = c2
  Conns = {c1, c2}
  MaxProcs = 2
  MaxBacklog = 1
  Server = Server
  Listen = Listen
  NoConn = NoConn
  Requests <- MCRequests
  MaxLives = 2
  Resets = {c1}
  Earlier = {c1}
  Lengths = {1, 2}
  BlockNumbers = {1}
  BLOCK_SIZE = 1
  Width = 8
  MaxLength = 2
  Inodes = {i1}
  NoFile = NoFile
  NULL = NULL
  Unread = Unread
  Garbage = Garbage
INVARIANTS
  ShepooTypeOK
  PromiseKept
PROPERTIES
  AnsweredOrClosed
  RestartPossible
