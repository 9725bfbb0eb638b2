SPECIFICATION FairSpec
CONSTANTS
  CommandLines <- MCCommandLines
  StartDirs = {"/home", "/", "removed"}
  Worlds <- MCWorlds
  Inherited <- MCInherited
  Conns = {c1, c2}
  Server = server
  MaxFd = 6
  NULL = NULL
INVARIANTS
  TypeOK
  PathsKept
  LogInPlace
  LeakEndsWithFirstClient
PROPERTY StartsWhenProper
CHECK_DEADLOCK FALSE
