SPECIFICATION Spec
CONSTANTS
  s1 = s1
  s2 = s2
  b1 = b1
  b2 = b2
  Stream = {s1, s2}
  Bus = {b1, b2}
  MasterList <- TwoLinks
  Demand <- NoDemand
  UintMod = 2
  ClkFreq <- WideClock
  FrameInt = 8
  FrameCtrlBits = 1
  Faults = {"bank", "prep"}
INVARIANT CallsConsistent
PROPERTY ImplementsService
CHECK_DEADLOCK FALSE
