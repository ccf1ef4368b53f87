SPECIFICATION Spec
CONSTANTS
  a = a
  b = b
  c = c
  Stations = {a, b, c}
  Address <- Low023
  HSA = 5
  GapWait = 1
  Slaves = {}
  MaxCycles = 0
  MaxLoss = 0
  MaxLate = 0
  MaxOff = 1
INVARIANTS
  TypeOK
PROPERTIES
  ImplementsTokenRight
  RingForms
  MembersAreKept
  GapIsPolled
