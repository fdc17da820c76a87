SPECIFICATION Spec
CONSTANTS
  Sessions = {s1, s2}
  Runs = {1, 2}
  Strategies = {agent}
  Registered = {agent}
  MaxTurns = 2
  MaxEvents = 3
  None = None
  MaxConcurrency = 1
  WriteEnabled = TRUE
  MaxFaults = 2
  MaxRestarts = 1
CHECK_DEADLOCK FALSE
SYMMETRY SessionSymmetry
INVARIANTS
  TypeOK
  JournalSafe
  AbortAfterCommit
  StoppedIsSettled
  StagedIsLive
PROPERTIES
  TerminalIsFinal
  RefinesLifecycle
