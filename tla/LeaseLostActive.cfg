CONSTANTS
  Docs = {d1}
  Revs = {r1}
  Contents = {c1}
  Handlers = {h1}
  Workers = {w1, w2}
  Retries = 0
  MaxLost = 1
  MaxClears = 0
  CallbackReliable = TRUE
  None = None
SPECIFICATION Spec
INVARIANT ActiveRevisionReady
CHECK_DEADLOCK FALSE
