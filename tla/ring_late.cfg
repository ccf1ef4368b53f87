SPECIFICATION Spec
CONSTANTS
  a = a
  b = b
  c = c
  Stations = {a, b}
  Address <- Low13
  HSA = 5
  GapWait = 1
  Slaves = {}
  MaxCycles = 0
  MaxLoss = 2
  MaxLate = 1
  MaxOff = 0
PROPERTIES
  OneTokenAgain
  RingForms
  Rotates
