SPECIFICATION Spec
CONSTANTS
  a = a
  b = b
  c = c
  d = d
  w1 = w1
  w2 = w2
  Fns = {a, b, c, d}
  Rank <- MCRank4
  AutoSel = {a, b, c, d}
  Window = 2
  Workers = {w1}
  CanThrow = TRUE
  Budget <- Serial
INVARIANTS NotPaidTwice ResultAccounted BooksMatch
PROPERTIES StopHolds
\* A job that is done, stopped or never started waits for nobody.
CHECK_DEADLOCK FALSE
