SPECIFICATION Spec
CONSTANTS
  Bytes = 5
  BufSize = 4
  Limits = {0, 4}
  Unset = {0, 4}
INVARIANTS WholeLines
CHECK_DEADLOCK FALSE
