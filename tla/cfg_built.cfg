SPECIFICATION Spec
CONSTANTS
  Size = 4
  Images <- MCImages
  Targets = {0, 3}
  FlowsUsed = {"sequential", "call", "conditional", "jump", "return", "interrupt"}
  Holes <- MCHoles
INVARIANTS NothingLost GraphSound CallsKnownToBoth RetractedGone
\* The analysis ends.
CHECK_DEADLOCK FALSE
