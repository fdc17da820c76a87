SPECIFICATION Spec
CONSTANTS
  Calls = {c1, c2, c3}
  Runs = {r1}
  Keys = {k1}
  MaxRequests = 3
  MaxPerRun = 1
  MaxProcess = 2
  MaxOutput = 2
  MaxFaults = 0
  MaxAborts = 1
  None = None
SYMMETRY CallSymmetry
INVARIANTS ReuseSafe
PROPERTIES NothingAfterRunLeft
CHECK_DEADLOCK FALSE
