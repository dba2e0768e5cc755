SPECIFICATION Spec
CONSTANTS
  b1 = b1
  b2 = b2
  b3 = b3
  s1 = s1
  s2 = s2
  Bus = {b1, b2, b3}
  Stream = {s1, s2}
  NoOne = NoOne
  MasterLists <- ThreeLinks
  CmdLen = 2
  MaxLen = 1
  IoBus = {}
  ErrThreshold = 0
  HwSyncMinLinks = 1
  Faults = {}
PROPERTY SwitchTogether
