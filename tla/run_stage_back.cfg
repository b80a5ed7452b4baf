SPECIFICATION Spec
CONSTANTS
  f1 = f1
  f2 = f2
  Stages = 4
  Vas = {f1, f2}
  InOrder = FALSE
  Overlap = 1
  Budget <- Progress
PROPERTIES RowOnlyForward
\* A run that has ended waits for nobody.
CHECK_DEADLOCK FALSE
