SPECIFICATION Spec
CONSTANTS
  c1 = c1
  c2 = c2
  A = A
  B = B
  NoConn = NoConn
  NoCall = NoCall
  Conn <- MCConn
  ClassName <- MCClassName
  Request <- MCRequestSmall
  Hows = {"select"}
  UserTxn = {c1}
  Journals = {"wal"}
  DiskErrors = FALSE
INVARIANT UserTransactionStaysOpen
CHECK_DEADLOCK FALSE
