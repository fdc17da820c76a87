SPECIFICATION Spec
CONSTANTS
  Sessions = {s1, s2}
  Runs = {1, 2, 3}
  Strategies = {agent}
  Registered = {agent}
  MaxTurns = 2
  MaxEvents = 0
  None = None
  MaxConcurrency = 1
  WriteEnabled = FALSE
  MaxFaults = 0
  MaxRestarts = 0
CHECK_DEADLOCK FALSE
SYMMETRY SessionSymmetry
INVARIANTS
  OneActivePerSession
  OwnershipSafe
