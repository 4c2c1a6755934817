SPECIFICATION Spec
CONSTANTS
  Docs = {d1}
  Revs = {r1, r2}
  Contents = {c1}
  Handlers = {h1}
  Workers = {w1, w2}
  Retries = 0
  MaxLost = 1
  MaxClears = 0
  CallbackReliable = FALSE
  None = None
SYMMETRY Symmetry
INVARIANTS RowsAgree RevisionsOrdered
PROPERTIES OutputFenced ServesForwardUnlessLost
CHECK_DEADLOCK FALSE
