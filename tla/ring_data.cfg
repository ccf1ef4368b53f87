SPECIFICATION Spec
CONSTANTS
  a = a
  b = b
  c = c
  Stations = {a, b}
  Address <- Low13
  HSA = 5
  GapWait = 1
  Slaves = {4}
  MaxCycles = 1
  MaxLoss = 0
  MaxLate = 0
  MaxOff = 1
INVARIANTS
  OneToken
  NoContention
