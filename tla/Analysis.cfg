SPECIFICATION FairSpec
CONSTANTS
  Analyses = {a1}
  Requests = {q1}
  Calls = {c1, c2}
  None = None
  Retries = 0
  MaxLost = 1
  MaxClears = 1
INVARIANTS RowsWhole OutputsChain NotStrandedUnlessLost
PROPERTIES RowsForward FollowsLifecycle DeletedFencedUnlessLost RunsSettleUnlessLost
CHECK_DEADLOCK FALSE
