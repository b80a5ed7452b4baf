SPECIFICATION Spec
CONSTANTS
  Fns <- MCFns
  WorthReview = 20
  MaxAutomatic = 2
  MaxExpanded = 3
  Programs <- MCPrograms
  Earlier <- MCEarlier
  Depths = {1, 2, 7}
  MaxEdits <- MCMaxEdits
  MaxPresses = 2
INVARIANTS SelectionBest PreviewExact StartedAsShown
\* The dialog closes, and a person may leave it alone.
CHECK_DEADLOCK FALSE
