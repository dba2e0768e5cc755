SPECIFICATION Spec
CONSTANTS
  Port = {1, 4}
  CpPort = 1
  ChMask = {0, 1}
  Retry = 2
  MaxRaise = 1
  MaxPrep = 0
  MaxFail = 0
INVARIANT CascadeServed
CHECK_DEADLOCK FALSE
