SPECIFICATION FairSpec
CONSTANTS
  Size = 4
  Images <- MCImages
  Targets = {1, 3}
  MinPad = 2
  MaxInsns = 0
INVARIANTS DescentExact MapTruthful
PROPERTIES Terminates
\* The analysis ends.
CHECK_DEADLOCK FALSE
