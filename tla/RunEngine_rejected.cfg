SPECIFICATION Spec
CONSTANTS
  Sessions = {s1}
  Runs = {1, 2}
  Strategies = {agent}
  Registered = {agent}
  MaxTurns = 2
  MaxEvents = 0
  None = None
  MaxConcurrency = 1
  WriteEnabled = TRUE
  MaxFaults = 0
  MaxRestarts = 0
CHECK_DEADLOCK FALSE
INVARIANTS
  ActiveIsOwned
