SPECIFICATION Spec
CONSTANTS
  Listener = 3
  Others = {1, 2, 4, 125}
  MaxChanges = 3
  MaxMissed = 1
INVARIANTS
  SettledLasIsTheRing
  ReadyAfterThreeRotations
PROPERTIES
  LasConverges
