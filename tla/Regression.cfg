SPECIFICATION RSpec
CONSTANTS
  r1 = r1
  r2 = r2
  c1 = c1
  c2 = c2
  q1 = q1
  None = None
  Runs = {r1, r2}
  Cases = {c1, c2}
  Requests = {q1}
  Rules <- MCRules
  Corpora <- MCCorpora
  Baselines <- MCBaselines
  Values = {0, 2}
  Retries = 1
  MaxLost = 1
SYMMETRY Symmetry
INVARIANTS VerdictOfLastRun PassIsEarned
CHECK_DEADLOCK FALSE
