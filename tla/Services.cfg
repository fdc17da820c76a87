SPECIFICATION ServicesSpec
CONSTANTS
  Keys = {k1}
  Ttl = 1
  MaxTurns = 3
  MaxRuns = 3
  MaxAttempts = 4
  MaxTime = 2
  None = None
  TrialExecs = {1, 2}
  PolicyExecs = {2}
  TrialLoads <- MCTrialLoads
  Invalid = {2}
  MaxMessages = 2
  MaxSends = 3
  MaxContexts = 1
  MaxReloads = 1
  MaxStops = 1
  MaxEvents = 3
  PageSize = 2
  MaxStreak = 2
  MaxBreaks = 1
  MaxFaults = 2
  MaxVisits = 1
  Refs = {r1}
  Memories = {m1}
  MaxSteps = 2
  MaxCalls = 2
  ToolConcurrency = 1
  MaxRecordFaults = 1
  MaxCrashRestarts = 2
  MaxSpawns = 3
  SupervisorLoads <- MCSupervisorLoads
  McpCalls = {c1, c2}
  Warmups = {w1}
  MaxDials = 2
  McpLoads <- MCMcpLoads
INVARIANTS ServicesTypeOK ConfirmationSafe TrialSafe IntakeSafe StreamSafe AgentSafe ProcessSafe
PROPERTIES ServicesProgress
CHECK_DEADLOCK FALSE
