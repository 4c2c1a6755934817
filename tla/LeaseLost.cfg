SPECIFICATION Spec
CONSTANTS
  Docs = {d1}
  Revs = {r1}
  Contents = {c1}
  Handlers = {h1}
  Workers = {w1, w2}
  Retries = 1
  MaxLost = 1
  MaxClears = 0
  CallbackReliable = FALSE
  None = None
SYMMETRY Symmetry
INVARIANTS WorkPresent SourceBytesKept
CHECK_DEADLOCK FALSE
