SPECIFICATION FairSpec
CONSTANTS
  Docs = {d1}
  Revs = {r1}
  Contents = {c1}
  Handlers = {h1, h2}
  Workers = {w1, w2}
  Retries = 2
  MaxLost = 0
  MaxClears = 1
  CallbackReliable = TRUE
  None = None
INVARIANTS TypeOK ActiveRevisionReady FailureVisible
PROPERTIES DispatchNeverRegresses RunsSettle
CHECK_DEADLOCK FALSE
