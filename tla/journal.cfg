SPECIFICATION FairSpec
CONSTANTS
  Bytes = 5
  BufSize = 4
  Limits = {0, 4}
  Unset = {0, 4}
INVARIANTS TypeOK WithinBuffer NothingLost Bounded
PROPERTIES RotationServed LogKept
CHECK_DEADLOCK FALSE
