SPECIFICATION FairSpec
CONSTANTS
  f1 = f1
  f2 = f2
  Stages = 3
  Vas = {f1}
  InOrder = TRUE
  Overlap = 1
  Budget <- OneOfEach
INVARIANTS EndShown LiftedTruthful
PROPERTIES RowOnlyForward RunSettles
\* A run that has ended waits for nobody.
CHECK_DEADLOCK FALSE
