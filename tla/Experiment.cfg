SPECIFICATION FairSweep
CONSTANTS
  d1 = d1
  d2 = d2
  k1 = k1
  k2 = k2
  None = None
  Requests <- MCRequests
  Base <- MCBase
  Docs = {d1, d2}
  Calls = {k1}
  Driver = k1
  MaxSteps = 9
  Retries = 1
  MaxRuns = 3
  MaxTrouble = 1
INVARIANTS OneRunPerCell SettledIsWhole RunsUseTheirIndex
PROPERTIES NothingUndone SweepSettles
CHECK_DEADLOCK FALSE
