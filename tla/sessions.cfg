SPECIFICATION Spec
CONSTANTS
  ida = ida
  idw = idw
  Context = {1, 2, 3}
  Id = {ida, idw}
  WsId = {idw}
  Files <- MCFiles
  Visits <- MCVisits
  MaxClients = 2
  MaxContexts = 2
  MaxConn = 3
  MaxReloads = 1
  AllowZeroLengthClientid = TRUE
  PrefixRequired = FALSE
INVARIANTS TypeOK OneOwner CountExact GrantsKept
PROPERTIES KeepsSessions Reclaimed
CHECK_DEADLOCK FALSE
