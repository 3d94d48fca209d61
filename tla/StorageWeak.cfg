SPECIFICATION Spec
CONSTANTS
  Class = {c1}
  Property = {1, 2}
  MaxID = 2
  MaxValues = 2
  MaxSteps = 30
  NULL = NULL
PROPERTY WeakObjectsGoLast
CHECK_DEADLOCK FALSE
