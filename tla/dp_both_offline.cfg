SPECIFICATION Spec
CONSTANTS
  Addresses = {4, 7}
  Inputs = {4}
  Unconfigured = {}
  MaxRetry = 1
  NumSlots = 2
  Order <- Order2
  Careful = TRUE
  Forgetful = TRUE
  Troubled = {4, 7}
  MaxFaults = 2
  MaxCalls = 0
INVARIANTS
  NoPanic
