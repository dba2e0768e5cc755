SPECIFICATION Spec
CONSTANTS
  d1 = d1
  d2 = d2
  x = x
  Device = {d1, d2, x}
  Stranger = {x}
  MaxDevices = 2
  Events = {"drop", "io", "reset", "power"}
INVARIANT RightAddressee
