SPECIFICATION BackgroundSpec
CONSTANTS
  Runs = {"r"}
  CitedRuns = {}
  Corrections = {"c"}
  Retires = {"t"}
  DrainBatch = 2
  MaxJobAttempts = 2
  MaxRetries = 1
  Workloads <- MCWorkloads
  Scopes = {s1}
  ShadowBatch = 1
  MaxJobs = 3
  ShadowLoads <- MCShadowLoads
  JobsPerDay = 2
  Concurrent = 1
  MaxRetained = 2
  MaxIntakes = 3
  DispatchLoads <- MCDispatchLoads
  Tasks = {"a", "b"}
  DueAt <- MCDueAt
  EventBatch = 1
  MaxSweeps = 2
  LastTime = 2
  NoticeLoads <- MCNoticeLoads
INVARIANTS BackgroundTypeOK MemorySafe AutonomySafe
PROPERTIES QuietAfterStop BackgroundSettles
CHECK_DEADLOCK FALSE
