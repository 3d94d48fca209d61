SPECIFICATION Spec
CONSTANTS
  Key <- MCKey
  HashCode <- MCHashCode
  Ptr <- MCPtr
  TextOf <- MCTextOf
  Data <- MCData
  DataFor <- MCDataFor
  Elem <- MCElem
  Types = {"DICT_STRING", "DICT_INT"}
  GrowAt = 1
  PerBucket = 1
  NULL = NULL
INVARIANTS
  TypeOK
  ListIsWhole
  BucketsAreRuns
PROPERTIES
  ImplementsDictionary
  FreesWhatItDrops
