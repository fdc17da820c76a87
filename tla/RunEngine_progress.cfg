SPECIFICATION FairSpec
CONSTANTS
  Sessions = {s1, s2}
  Runs = {1, 2}
  Strategies = {agent}
  Registered = {agent}
  MaxTurns = 2
  MaxEvents = 0
  None = None
  MaxConcurrency = 1
  WriteEnabled = FALSE
  MaxFaults = 0
  MaxRestarts = 1
CHECK_DEADLOCK FALSE
PROPERTIES
  QueuedIsPickedUp CancelSettles
