---------------------------- MODULE ResultViews ----------------------------
(***************************************************************************)
(* What the pages make of the result files of AiResults: the marks of the  *)
(* two symbol trees (ui/SymbolTree.tsx, fed by AiAnalysisView.tsx and      *)
(* AnalysisView.tsx), the Findings box (ui/FindingsBox.tsx) over the       *)
(* engine's findings and the rows of the ai-findings route, what the AI    *)
(* tab says when that list is empty, and the table of ui/SummaryView.tsx.  *)
(*                                                                         *)
(* Everything here is a function of what is stored at one moment.          *)
(***************************************************************************)
EXTENDS AiResults

CONSTANTS
    Engine,         \* findings.json, in order: function, api, severity, reachable
    Limited,        \* Excluded, and the functions with no recovered block
    MaxRows         \* MAX_ROWS, rows the Summary draws

SeverityRank == [high |-> 4, medium |-> 3, low |-> 2, informational |-> 1, none |-> 0]

ASSUME ViewsAssumption ==
    /\ IsFiniteSet(Fns) /\ Reports \subseteq Seq(STRING)
    /\ Engine \in Seq([function : Fns, api : STRING, severity : DOMAIN SeverityRank,
                       reachable : BOOLEAN])
    /\ Excluded \subseteq Limited /\ Limited \subseteq Fns /\ MaxRows \in Nat

Unrated == "none"
NoFinding == [function |-> 0, api |-> "none", severity |-> Unrated, reachable |-> FALSE]

(***************************************************************************)
(* The trees                                                               *)
(***************************************************************************)

Marks ==
    [decompiled |-> Analysed("decompile"),
     analysed |-> UNION {Analysed(t) : t \in Tasks \ {"decompile"}},
     failed |-> UNION {Broken(t) : t \in Tasks}]

(* What a run by choice skips when it is to skip what has a result.        *)
AnyResult == LET m == Marks IN m.decompiled \cup m.analysed

(* stateOf: partial success outranks failure.                              *)
(* Mutant: failure outranks it.                                            *)
StateOf_FailureFirst(f) ==
    LET m == Marks
    IN  IF f \in m.failed THEN "failed"
        ELSE IF f \in m.analysed THEN "ai"
        ELSE IF f \in m.decompiled THEN "decompiled"
        ELSE IF f \in Limited THEN "limited" ELSE "pending"

StateOf(f) ==
    LET m == Marks
    IN  IF f \in m.analysed THEN "ai"
        ELSE IF f \in m.decompiled THEN "decompiled"
        ELSE IF f \in m.failed THEN "failed"
        ELSE IF f \in Limited THEN "limited" ELSE "pending"

(***************************************************************************)
(* The findings                                                            *)
(***************************************************************************)

FirstFinding(f, api) ==
    LET found == {i \in DOMAIN Engine : Engine[i].function = f /\ Engine[i].api = api}
    IN  IF found = {} THEN NoFinding
        ELSE Engine[CHOOSE i \in found : \A j \in found : i <= j]

(* The ai-findings route: a row per issue, with the rating of the engine's *)
(* finding that the issue names, if the function has one.                  *)
AiRows ==
    LET RowOf(f, issue) ==
            LET match == FirstFinding(f, issue)
            IN  [source |-> "ai", function |-> f, api |-> issue, stale |-> Stale(f),
                 severity |-> match.severity, reachable |-> match.reachable,
                 corroborated |-> match # NoFinding]
        RowsOf(f) == [i \in DOMAIN Current("bugs", f).issues |->
                         RowOf(f, Current("bugs", f).issues[i])]
        listed == SetToSeq(AiFindings)
    IN  FlattenSeq([i \in DOMAIN listed |-> RowsOf(listed[i])])

(* The box: engine rows and AI rows, each with the engine's finding.       *)
BoxRows ==
    LET FromEngine(e) == [source |-> "engine", function |-> e.function, api |-> e.api,
                          stale |-> FALSE, severity |-> e.severity, reachable |-> e.reachable,
                          uncorroborated |-> FALSE, finding |-> e]
        FromAi(r) == [source |-> "ai", function |-> r.function, api |-> r.api,
                      stale |-> r.stale, severity |-> r.severity, reachable |-> r.reachable,
                      uncorroborated |-> ~r.corroborated,
                      finding |-> FirstFinding(r.function, r.api)]
        ai == AiRows
    IN  [i \in DOMAIN Engine |-> FromEngine(Engine[i])] \o [i \in DOMAIN ai |-> FromAi(ai[i])]

(* Reachable first, then by severity, the engine before the model.         *)
Above(a, b) ==
    \/ a.reachable /\ ~b.reachable
    \/ a.reachable = b.reachable /\ SeverityRank[a.severity] > SeverityRank[b.severity]
    \/ /\ a.reachable = b.reachable /\ a.severity = b.severity
       /\ a.source = "engine" /\ b.source = "ai"

Filters == {"All", "Reachable", "Engine", "AI"}
Visible(rows, filter) ==
    {i \in DOMAIN rows :
        /\ filter = "Reachable" => rows[i].reachable
        /\ filter = "Engine" => rows[i].source = "engine"
        /\ filter = "AI" => rows[i].source = "ai"}
Impactful(rows) == {i \in Visible(rows, "Reachable") : SeverityRank[rows[i].severity] >= 3}

(* What the AI tab says where it lists the model's defects.                *)
Defects ==
    IF AiRows # <<>> THEN "listed"
    ELSE IF Analysed("bugs") # {} THEN "none in those covered" ELSE "nothing yet"

(***************************************************************************)
(* The Summary                                                             *)
(***************************************************************************)

CellClass(state) ==
    CASE state \in {"done", "issues", "clean"} -> "ok"
      [] state = "failed" -> "bad"
      [] state \in {"waiting", "queued"} -> "wait"
      [] OTHER -> "none"

HasRun(f) == \E t \in Tasks : job[t].items[f] # NoItem
Matching(onlyRun) == {f \in Listed : onlyRun => HasRun(f)}

(* The cap is on what is drawn; the rest is by score, which is any order.  *)
Shown(onlyRun) ==
    LET run == {f \in Matching(onlyRun) : HasRun(f)}
        room == IF Cardinality(run) > MaxRows THEN 0 ELSE MaxRows - Cardinality(run)
        rest == SetToSeq(Matching(onlyRun) \ run)
    IN  IF Cardinality(Matching(onlyRun)) <= MaxRows THEN Matching(onlyRun)
        ELSE run \cup ToSet(SubSeq(rest, 1, room))

(* The line above the table; "done" counts the words of the bug pass only. *)
Cells(states) == {c \in Listed \X Tasks : c[1] \in Outcomes(c[2]) /\ Outcome(c[2], c[1]) \in states}
Totals ==
    [done |-> Cardinality(Cells({"issues", "clean"})),
     failed |-> Cardinality(Cells({"failed"})),
     outstanding |-> Cardinality(Cells({"waiting", "queued"})),
     touched |-> Cardinality({f \in Listed : HasRun(f)})]
Problems == Cells({"failed", "waiting"})
Strip == {t \in Tasks : Active(t)}

(***************************************************************************)
(* Properties                                                              *)
(***************************************************************************)
Usable == {"done", "issues", "clean"}

(* The pages say the same of a function, whatever came late, twice, badly, *)
(* or after a reset.  The tree's mark is what the Summary says of its      *)
(* passes; whatever has run has a row; what waits belongs to a stage shown *)
(* to be active; a finding listed is an issue counted and, for functions   *)
(* of today's job only, the other way round; the behaviour profile         *)
(* explains what was described.                                            *)
TablesAgree ==
    LET rows == Rows
        found == AiFindings
    IN  \A t \in Tasks, f \in Fns :
        LET row == Outcome(t, f)
        IN  /\ f \in Analysed(t) <=> row \in Usable
            /\ f \in Broken(t) => row = "failed"
            /\ f \in Analysed(t) \cup Broken(t) => f \in DOMAIN rows /\ rows[f].tasks[t] = row
            /\ row \in {"waiting", "queued"} => t \in Strip
            /\ f \in found => Outcome("bugs", f) = "issues"
            /\ t = "bugs" /\ row = "issues" /\ job[t].items[f] # NoItem => f \in found
            /\ t = "behaviour" => (f \in Explained <=> row = "done")

TreesAgree ==
    \A f \in Fns :
        LET states == {Outcome(t, f) : t \in Tasks \ {"decompile"}}
            tree == StateOf(f)
        IN  /\ tree = "ai" <=> states \cap Usable # {}
            /\ tree = "decompiled" <=> Outcome("decompile", f) = "done" /\ states \cap Usable = {}
            /\ f \in AnyResult <=> tree \in {"ai", "decompiled"}
            /\ tree = "failed" => \E t \in Tasks : <<f, t>> \in Problems
            /\ HasRun(f) /\ Cardinality(Listed) > MaxRows => f \in Shown(FALSE)

(* A rating is always the engine's: an AI row that shows one stands behind *)
(* the engine's row of the same finding, and one that stands behind none   *)
(* says that it is unconfirmed and shows neither rating nor path.          *)
RatingsAreEngines ==
    LET rows == BoxRows
    IN  \A i \in Visible(rows, "AI") :
            /\ rows[i].uncorroborated <=> rows[i].finding = NoFinding
            /\ rows[i].severity = rows[i].finding.severity
            /\ rows[i].finding # NoFinding =>
                  \E j \in Visible(rows, "Engine") :
                      rows[j].finding = rows[i].finding /\ Above(rows[j], rows[i])

(* The line above the table counts what the trees mark: the bug reports    *)
(* that could be used; the answers that could not, and what was given up   *)
(* before any answer came (an item that failed though its function has an  *)
(* answer counts with the answer).  What is outstanding is in a stage      *)
(* shown to be active.                                                     *)
TotalsAgree ==
    LET line == Totals
        givenUp(t) == {f \in ItemsIn(t, "failed") : stored[t][f] = <<>>}
    IN  /\ line.done = Cardinality(Analysed("bugs") \X {"bugs"})
        /\ line.failed = Cardinality(UNION {(Broken(t) \cup givenUp(t)) \X {t} : t \in Tasks})
        /\ line.outstanding # 0 => Strip # {}

ViewsAgree == TablesAgree /\ TreesAgree /\ TotalsAgree /\ RatingsAreEngines

(* "Telling them apart is the difference between a clean result and a      *)
(* broken pipeline" (AiAnalysisView.tsx, l.268-272): where the tab says    *)
(* that the functions covered have no defects, none of them has one.       *)
CleanIsClean ==
    Defects = "none in those covered" =>
        \A f \in Analysed("bugs") : Current("bugs", f).issues = <<>>

(* "Anything already run is always drawn, however low it scores"           *)
(* (SummaryView.tsx, l.119-121).                                           *)
RunAlwaysDrawn ==
    \A f \in Listed : (\E t \in Tasks : CellClass(Rows[f].tasks[t]) # "none") =>
        f \in Shown(FALSE) \cap Matching(TRUE)
=============================================================================
