SPECIFICATION Spec
CONSTANTS
  Fns <- MCFns
  Tasks <- MCTasks
  Callees <- MCCallees
  Path <- MCPath
  Picks <- MCPicks
  Named <- MCNamed
  Excluded = {1}
  Limited = {1}
  Reports <- MCReports
  Engine <- MCEngine
  MaxRows = 1
  Window = 2
  Kept = 2
  Budgets <- MCBudgets
INVARIANTS EvidenceKept StaleTellsTruth ViewsAgree
PROPERTY CalleesFirst
\* The bounds end every behaviour.
CHECK_DEADLOCK FALSE
