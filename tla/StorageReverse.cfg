SPECIFICATION Spec
CONSTANTS
  Class = {c1}
  Property = {1, 2}
  MaxID = 2
  MaxValues = 1
  MaxSteps = 30
  NULL = NULL
PROPERTY DeletesReversedReferences
CHECK_DEADLOCK FALSE
