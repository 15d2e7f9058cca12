\* The instance that MCChanges checks.
CONSTANTS
  MaxSize = 2
  MaxIndex = 6
  MaxOther = 2
SPECIFICATION Spec
CHECK_DEADLOCK FALSE
INVARIANT CountsTheRange
