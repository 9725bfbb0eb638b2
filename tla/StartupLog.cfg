SPECIFICATION Spec
CONSTANTS
  CommandLines <- MCCommandLines
  StartDirs = {"/home", "/", "removed"}
  Worlds <- MCWorlds
  Inherited <- MCInherited
  Conns = {c1, c2}
  Server = server
  MaxFd = 6
  NULL = NULL
CHECK_DEADLOCK FALSE
INVARIANT NoLogToClients
