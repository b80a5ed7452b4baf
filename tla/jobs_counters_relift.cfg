SPECIFICATION Spec
CONSTANTS
  a = a
  b = b
  c = c
  d = d
  w1 = w1
  w2 = w2
  Fns = {a, b}
  Rank <- MCRank2
  AutoSel = {a, b}
  Window = 1
  Workers = {w1}
  CanThrow = FALSE
  Budget <- Relifted
INVARIANTS CountersMatch
\* A job that is done, stopped or never started waits for nobody.
CHECK_DEADLOCK FALSE
