SPECIFICATION FairSpec
CONSTANTS
  Calls = {c1, c2}
  Runs = {r1, r2}
  Keys = {k1}
  MaxRequests = 1
  MaxPerRun = 1
  MaxProcess = 1
  MaxOutput = 1
  MaxFaults = 1
  MaxAborts = 2
  None = None
INVARIANTS TypeOK BrokerSafe
PROPERTIES NothingAfterRunLeft EveryCallReturns
CHECK_DEADLOCK FALSE
