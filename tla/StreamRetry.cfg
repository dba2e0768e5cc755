SPECIFICATION Spec
CONSTANTS
  s1 = s1
  s2 = s2
  b1 = b1
  b2 = b2
  Stream = {s1, s2}
  Bus = {b1}
  MasterList <- OneBus
  Demand <- NoDemand
  UintMod = 2
  ClkFreq <- WideClock
  FrameInt = 8
  FrameCtrlBits = 1
  Faults = {"write"}
PROPERTY StopIsSilent
CHECK_DEADLOCK FALSE
