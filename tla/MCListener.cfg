SPECIFICATION FairSpec
CONSTANTS
  Conns = {c1, c2, c3}
  MaxProcs = 2
  MaxBacklog = 2
  Server = Server
  Listen = Listen
  NoConn = NoConn
INVARIANTS
  TypeOK
  ChildIsolation
  NoDescriptorLeak
  ConnectionOwned
  NoOrphanBesideServer
PROPERTIES
  QueueDrains
  ClosedWithoutChild
  KeepsPromise
