SPECIFICATION Spec
CONSTANTS
  s1 = s1
  s2 = s2
  s3 = s3
  b1 = b1
  b2 = b2
  x1 = x1
  x2 = x2
  x3 = x3
  x4 = x4
  Stream = {s1, s2, s3}
  Bus = {b1, b2}
  Slave = {x1, x2, x3, x4}
  Cards <- SomeCards
  BusOf <- SomeBusOf
  Playback = {s1, s3}
  Asked <- SomeAsked
  ClkFreq <- OneFreq
  FrameInt = 4
  FrameCtrlBits = 1
  Cols = 4
  Faults <- SomeFaults
  MaxParams = 2
  UintMod = 8
INVARIANTS TypeOK ListsAgree RateKnown CountEnough SlotsDisjoint ColumnsOwned
CHECK_DEADLOCK FALSE
