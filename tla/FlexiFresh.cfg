SPECIFICATION Spec
CONSTANTS
  c1 = c1
  c2 = c2
  A = A
  B = B
  NoConn = NoConn
  NoCall = NoCall
  Conn <- MCConn
  ClassName <- MCClassName
  Request <- MCRequestSmall
  Hows = {"select"}
  UserTxn = {}
  Journals = {"wal"}
  DiskErrors = FALSE
PROPERTY SchemaCheckIsCurrent
CHECK_DEADLOCK FALSE
