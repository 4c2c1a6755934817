SPECIFICATION FairSpec
CONSTANTS
  n1 = n1
  a = a
  b = b
  r1 = r1
  r2 = r2
  r3 = r3
  k1 = k1
  k2 = k2
  Names = {n1}
  Documents = {a, b}
  Keys = {k1, k2}
  Requests = {r1, r2, r3}
  MaxConns = 3
  Edits <- MCEdits
INVARIANTS VersionsWhole
PROPERTIES HistoryKept EditsEnd
CHECK_DEADLOCK FALSE
