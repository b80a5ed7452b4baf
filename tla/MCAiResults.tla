---------------------------- MODULE MCAiResults ----------------------------
(* Instances of ResultViews for TLC: a function that calls another, with   *)
(* two findings of the engine in it, and reports that name one and         *)
(* another that the engine never made.                                     *)
EXTENDS ResultViews

MCFns == {1, 2}
MCCallees == <<{}, {1}>>
MCPath == <<{1}, {2}>>
MCTasks == {"decompile", "bugs", "behaviour"}
MCPicks == [t \in MCTasks |-> IF t = "decompile" THEN {<<1, 2>>} ELSE {<<2>>}]
MCNamed == [t \in MCTasks |-> IF t = "decompile" THEN MCFns ELSE {}]
(* What else may happen, one handler at a time; or little of it and two.   *)
(* Four versions of what is recorded let a third lift pass over two kept.  *)
Budget(h, s, e) == [versions |-> 4, handlers |-> h, starts |-> s, extras |-> e]
MCBudgets == {Budget(1, 2, 2), Budget(2, 2, 1), Budget(2, 3, 0)}
MCReports == {<<>>, <<"copy", "made up">>}
MCEngine ==
    << [function |-> 2, api |-> "log", severity |-> "low", reachable |-> FALSE],
       [function |-> 2, api |-> "copy", severity |-> "high", reachable |-> TRUE],
       [function |-> 2, api |-> "copy", severity |-> "medium", reachable |-> TRUE] >>
=============================================================================
