SPECIFICATION Spec
CONSTANTS
  r1 = r1
  c1 = c1
  c2 = c2
  q1 = q1
  k1 = k1
  k2 = k2
  None = None
  Runs = {r1}
  Cases = {c1, c2}
  Requests = {q1}
  Calls = {k1, k2}
  Retries = 1
  MaxLost = 1
  MaxManual = 1
SYMMETRY Symmetry
INVARIANTS TypeOK FinishedIsWhole
PROPERTIES FollowsLifecycle
CHECK_DEADLOCK FALSE
