SPECIFICATION MCSpec
VIEW View
CONSTANTS
  KeyBits = 18
  MaxWalked = 5
  Key <- MCKey
  Node = {n1, n2, n3, n4, n5, n6, n7, n8, n9, n10}
  RBNIL = RBNIL
  NULL = NULL
INVARIANTS
  TypeOK
  LinksAgree
  Balanced
  SentinelIsIntact
PROPERTIES
  PointersSurvive
  WalksFollowTheOrder
  ImplementsSortedSet
  EveryCallReturns
