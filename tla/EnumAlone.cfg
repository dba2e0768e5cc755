SPECIFICATION FairSpec
CONSTANTS
  d1 = d1
  d2 = d2
  x = x
  Device = {d1}
  Stranger = {}
  MaxDevices = 2
  Events = {"alert", "reset", "midwork", "notify"}
INVARIANT TypeOK
PROPERTIES ResumedIsInitialized Numbered Noticed
