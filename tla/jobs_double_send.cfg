SPECIFICATION Spec
CONSTANTS
  a = a
  b = b
  c = c
  d = d
  w1 = w1
  w2 = w2
  Fns = {a, b, c}
  Rank <- MCRank3
  AutoSel = {a, b, c}
  Window = 2
  Workers = {w1, w2}
  CanThrow = FALSE
  Budget <- Auto
SYMMETRY WorkerSymmetry
INVARIANTS NotPaidTwice
\* A job that is done, stopped or never started waits for nobody.
CHECK_DEADLOCK FALSE
