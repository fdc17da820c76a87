SPECIFICATION ShadowFairSpec
CONSTANTS
  Scopes = {s1}
  ShadowBatch = 1
  MaxJobs = 3
  ShadowLoads <- Backlog
PROPERTIES BacklogDrains
CHECK_DEADLOCK FALSE
