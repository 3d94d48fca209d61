SPECIFICATION Spec
CONSTANTS
  c1 = c1
  c2 = c2
  A = A
  B = B
  NoConn = NoConn
  NoCall = NoCall
  Conn <- MCConn
  ClassName <- MCClassName
  Request <- MCRequestMost
  Hows = {"select", "trigger"}
  UserTxn = {c1}
  Journals = {"wal", "delete"}
  DiskErrors = TRUE
INVARIANTS
  TypeOK
  FailedLeavesNothing
  LeftOpenIsAcknowledged
  CacheIsCoherent
PROPERTIES
  ImplementsFlexiStore
  EveryCallReturns
CHECK_DEADLOCK FALSE
