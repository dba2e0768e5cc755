SPECIFICATION Spec
CONSTANTS
  Port = {1, 4}
  CpPort = 1
  ChMask = {0, 1}
  Retry = 2
  MaxRaise = 2
  MaxPrep = 2
  MaxFail = 1
INVARIANTS TypeOK FirstServed PmBalanced PreparedIsReady
PROPERTY Returns
CHECK_DEADLOCK FALSE
