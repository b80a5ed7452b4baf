SPECIFICATION Spec
CONSTANTS
  f1 = f1
  f2 = f2
  Stages = 4
  Vas = {f1, f2}
  InOrder = TRUE
  Overlap = 1
  Budget <- Deleted
INVARIANTS DeletedIsGone
\* A run that has ended waits for nobody.
CHECK_DEADLOCK FALSE
