SPECIFICATION FairSpec
CONSTANTS
  p1 = p1
  p2 = p2
  p3 = p3
  w1 = w1
  stage = stage
  error = error
  Nobody = Nobody
  Torn = Torn
  None = None
  Ops = {p1, p2, w1}
  Fields = {stage, error}
  Replace = {w1}
  Sets <- MCSets3
  MayFail = TRUE
  Restarts = 1
INVARIANTS TypeOK NothingLeft
PROPERTIES Atomic EveryCallSettles
\* Every call may have been made and answered.
CHECK_DEADLOCK FALSE
