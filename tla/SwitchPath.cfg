SPECIFICATION FairSpec
CONSTANTS
  b1 = b1
  b2 = b2
  b3 = b3
  s1 = s1
  s2 = s2
  Bus = {b1, b2}
  Stream = {s1, s2}
  NoOne = NoOne
  MasterLists <- TwoLinks
  CmdLen = 2
  MaxLen = 1
  IoBus = {b2}
  ErrThreshold = 0
  HwSyncMinLinks = 1
  Faults = {"nack", "lost", "switch_lost", "nomem", "syncgo", "start"}
INVARIANTS TypeOK BankInStep AnswerGoesHome MessageLive
PROPERTIES SwitchTogether Returns
