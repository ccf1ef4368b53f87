SPECIFICATION Spec
CONSTANTS
  LastAddress = 2
  Apps <- AllKinds
  Own = 1
  Slave = 2
  MaxChanges = 2
  MaxFaults = 1
  MaxSkips = 0
  MaxOffs = 1
INVARIANTS
  TypeOK
  NextInRange
  ReplyReachesAsker
  EachCycleOnce
  ViewIsTrue
PROPERTIES
  EveryAddressAsked
  ListsConverge
