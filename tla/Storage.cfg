SPECIFICATION Spec
CONSTANTS
  Class = {c1}
  Property = {1, 2}
  MaxID = 3
  MaxValues = 3
  MaxSteps = 30
  NULL = NULL
INVARIANTS
  TypeOK
  ValuesHaveOwners
  ObjectsHaveClasses
PROPERTIES
  CascadesAreComplete
  StrongObjectsStay
  ReferencesFollow
CHECK_DEADLOCK FALSE
