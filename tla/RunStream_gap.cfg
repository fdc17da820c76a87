SPECIFICATION StreamFairSpec
CONSTANTS
  MaxEvents = 3
  PageSize = 2
  MaxStreak = 2
  MaxBreaks = 1
  MaxFaults = 2
  MaxVisits = 1
PROPERTIES GapIsRetried
CHECK_DEADLOCK FALSE
