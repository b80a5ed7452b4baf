SPECIFICATION Spec
CONSTANTS
  Runs = {"a", "b"}
  Modes = {"api", "sample"}
  Vas = {1, 2, 3}
  First = 1
  MaxTrail = 3
  Uploads <- MCUploads
  MaxTicks = 2
  Stages <- MCStages
  MaxPolls = 2
  Programs <- MCPrograms
  SampleLifted = {1}
  Images <- MCImages
  Findings = {"f", "g"}
  SampleExplained = {"f"}
  Documents <- MCDocuments
  Needles = {"", "t", "r"}
  Labelled <- MCContains
  Budgets <- MCBudgets
INVARIANTS ScreenIsOneRun UploadWatched StagesInTurn
           LiftWatched TabShowsOwn PathTruthful
           HardenedAsAsked WindowShowsOwn TreeExact
PROPERTIES TrailTellsWay LiftIsNew
\* A session ends.
CHECK_DEADLOCK FALSE
