SPECIFICATION Spec
CONSTANTS
  N = 2
  Stops = {s1}
  Commands = {k1}
  None = None
  Operator = Operator
  PageSize = 2
PROPERTY
  ChildrenNeverAdopted
CHECK_DEADLOCK FALSE
