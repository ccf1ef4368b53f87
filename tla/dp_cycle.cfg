SPECIFICATION Spec
CONSTANTS
  Addresses = {4, 7}
  Inputs = {4}
  Unconfigured = {}
  MaxRetry = 1
  NumSlots = 2
  Order <- Order2
  Careful = TRUE
  Forgetful = TRUE
  Troubled = {7}
  MaxFaults = 2
  MaxCalls = 1
INVARIANTS
  TypeOK
  NoPanic
  ReplyFindsPeripheral
PROPERTIES
  EventsAreTrue
  OfflineAfterRetries
  ComingAndGoingIsReported
  CycleVisitsAll
  KeepsExchanging
