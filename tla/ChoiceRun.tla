----------------------------- MODULE ChoiceRun -----------------------------
(***************************************************************************)
(* The dialog of src/frontend-react/src/ui/ChoiceRun.tsx with the routes   *)
(* behind it: the person picks functions and findings, every change asks   *)
(* the server what the selection comes to, and Run starts one batch per    *)
(* stage on what the last preview said.                                    *)
(*                                                                         *)
(* Previews are answered in any order and may fail.  The selection itself  *)
(* is Selection's; a batch is queued in the order selectFunctions gives.   *)
(***************************************************************************)
EXTENDS Selection

CONSTANTS
    Programs,       \* the binaries the dialog is opened on
    Earlier,        \* results that exist when it is opened: [Tasks -> SUBSET Fns]
    Depths,         \* the positions of the depth control that are tried
    MaxEdits(_),    \* bound on the changes made in the dialog, per binary
    MaxPresses      \* bound on the presses of Run that are not refused

ASSUME ChoiceAssumption ==
    /\ \A p \in Programs : IsProgram(p)
    /\ Earlier \subseteq [Tasks -> SUBSET Fns] /\ Depths \subseteq Nat

Stages == <<"decompile", "bugs", "behaviour">>
NoPreview == [of |-> "none"]

VARIABLES
    program, results,   \* the binary and its stored results
    picked,             \* functions ticked by hand
    wanted,             \* findings ticked (positions in program.findings)
    depth, tasks, skip, \* the other controls
    edits,              \* changes made so far; numbers the preview requests
    asked,              \* preview requests under way
    preview,            \* the preview on screen
    error,              \* the message on screen is an error
    run,                \* the press of Run that is being carried out
    started,            \* batches the server was asked to start, in order
    lapsed              \* ghost: an answer came after that of a later change,
                        \* or a preview failed

vars == <<program, results, picked, wanted, depth, tasks, skip, edits, asked,
          preview, error, run, started, lapsed>>
backend == <<program, results>>
controls == <<picked, wanted, depth, tasks, skip, edits>>

Idle(n) == [state |-> "idle", presses |-> n]

(* The functions the ticked findings drag in, by the dialog's own rule.    *)
ViaFindings ==
    UNION {{program.findings[i].fn} \cup ToSet(program.findings[i].path) : i \in wanted}

Analysed == UNION {results[t] : t \in Tasks}

Shown == IF preview = NoPreview THEN <<>> ELSE preview.selected
FinalSelection == Keep(Shown, IF skip THEN Fns \ Analysed ELSE Fns)

Blocked == tasks = {} \/ FinalSelection = <<>>

(* A change in the dialog and the effect that follows it: nothing picked   *)
(* clears the preview at once, anything else asks for a new one.           *)
Ask(p, w, d) ==
    IF p = {} /\ w = {}
    THEN preview' = NoPreview /\ UNCHANGED <<asked, error>>
    ELSE /\ asked' = asked \cup {[n |-> edits + 1, only |-> p, findings |-> w, depth |-> d]}
         /\ error' = FALSE
         /\ UNCHANGED preview

Edit ==
    /\ run.state # "closed" /\ edits < MaxEdits(program)
    /\ edits' = edits + 1
    /\ UNCHANGED <<backend, run, started, lapsed>>

TickFunction(f) ==
    /\ Edit
    /\ f \notin ViaFindings /\ Open(program, f)
    /\ picked' = SymDiff(picked, {f})
    /\ Ask(picked', wanted, depth)
    /\ UNCHANGED <<wanted, depth, tasks, skip>>

ClearPicked ==
    /\ Edit
    /\ picked # {} /\ picked' = {}
    /\ Ask({}, wanted, depth)
    /\ UNCHANGED <<wanted, depth, tasks, skip>>

TickFinding(i) ==
    /\ Edit
    /\ wanted' = SymDiff(wanted, {i})
    /\ Ask(picked, wanted', depth)
    /\ UNCHANGED <<picked, depth, tasks, skip>>

SetDepth(d) ==
    /\ Edit
    /\ d # depth /\ depth' = d
    /\ Ask(picked, wanted, d)
    /\ UNCHANGED <<picked, wanted, tasks, skip>>

TickStage(t) ==
    /\ Edit
    /\ tasks' = SymDiff(tasks, {t})
    /\ UNCHANGED <<picked, wanted, depth, skip, asked, preview, error>>

TickSkip ==
    /\ Edit
    /\ skip' = ~skip
    /\ UNCHANGED <<picked, wanted, depth, tasks, asked, preview, error>>

(* An answer is shown whichever request it belongs to.                     *)
PreviewAnswered(request) ==
    /\ run.state # "closed"
    /\ LET walk == Preview(program, request.only, request.findings, request.depth)
       IN  preview' = [of |-> request, selected |-> walk.selected,
                       truncated |-> walk.truncated]
    /\ asked' = asked \ {request}
    /\ lapsed' = \/ lapsed
                 \/ preview # NoPreview /\ preview.of.n > request.n
                 \/ picked = {} /\ wanted = {}
    /\ UNCHANGED <<backend, controls, error, run, started>>

PreviewFailed(request) ==
    /\ run.state # "closed"
    /\ asked' = asked \ {request}
    /\ error' = TRUE /\ lapsed' = TRUE
    /\ UNCHANGED <<backend, controls, preview, run, started>>

(* Run: refused with a reason, or the stages ticked at that moment are     *)
(* started one after the other on the selection of that moment.            *)
PressRun ==
    /\ run.state = "idle" /\ run.presses < MaxPresses
    /\ IF Blocked
       THEN error' = TRUE /\ UNCHANGED run
       ELSE /\ error' = FALSE
            /\ run' = [state |-> "starting", presses |-> run.presses + 1, next |-> 1,
                       chosen |-> FinalSelection, shown |-> ToSet(Shown), ticked |-> tasks]
    /\ UNCHANGED <<backend, controls, asked, preview, started, lapsed>>

SkipStage ==
    /\ run.state = "starting" /\ run.next <= Len(Stages)
    /\ Stages[run.next] \notin run.ticked
    /\ run' = [run EXCEPT !.next = @ + 1]
    /\ UNCHANGED <<backend, controls, asked, preview, error, started, lapsed>>

(* The server queues what has no result yet, in the order of the task.     *)
(* Mutant: what is ticked when the stage is started is what it is about.   *)
StartStage_AsItStands ==
    /\ run.state = "starting" /\ run.next <= Len(Stages)
    /\ LET t == Stages[run.next]
           batch == SelectFunctions(program, t, NoLimit, ToSet(FinalSelection))
       IN  /\ t \in run.ticked
           /\ started' = Append(started,
                  [task |-> t, batch |-> batch, press |-> run.presses, shown |-> run.shown,
                   queue |-> Keep(batch, Fns \ results[t])])
    /\ run' = [run EXCEPT !.next = @ + 1]
    /\ UNCHANGED <<backend, controls, asked, preview, error, lapsed>>

StartStage ==
    /\ run.state = "starting" /\ run.next <= Len(Stages)
    /\ LET t == Stages[run.next]
           batch == SelectFunctions(program, t, NoLimit, ToSet(run.chosen))
       IN  /\ t \in run.ticked
           /\ started' = Append(started,
                  [task |-> t, batch |-> batch, press |-> run.presses, shown |-> run.shown,
                   queue |-> Keep(batch, Fns \ results[t])])
    /\ run' = [run EXCEPT !.next = @ + 1]
    /\ UNCHANGED <<backend, controls, asked, preview, error, lapsed>>

(* A request that fails ends the press; what it started stays started.     *)
StartFails ==
    /\ run.state = "starting" /\ run.next <= Len(Stages)
    /\ Stages[run.next] \in run.ticked
    /\ run' = Idle(run.presses)
    /\ error' = TRUE
    /\ UNCHANGED <<backend, controls, asked, preview, started, lapsed>>

Finish ==
    /\ run.state = "starting" /\ run.next > Len(Stages)
    /\ run' = [state |-> "closed"]
    /\ UNCHANGED <<backend, controls, asked, preview, error, started, lapsed>>

Init ==
    /\ program \in Programs /\ results \in Earlier
    /\ picked = {} /\ wanted = {} /\ depth = 0
    /\ tasks = {"decompile"} /\ skip = TRUE
    /\ edits = 0 /\ asked = {} /\ preview = NoPreview
    /\ error = FALSE /\ run = Idle(0) /\ started = <<>> /\ lapsed = FALSE

Next ==
    \/ \E f \in Fns : TickFunction(f)
    \/ ClearPicked
    \/ \E i \in DOMAIN program.findings : TickFinding(i)
    \/ \E d \in Depths : SetDepth(d)
    \/ \E t \in Tasks : TickStage(t)
    \/ TickSkip
    \/ \E request \in asked : PreviewAnswered(request) \/ PreviewFailed(request)
    \/ PressRun
    \/ SkipStage
    \/ StartStage
    \/ StartFails
    \/ Finish

Spec == Init /\ [][Next]_vars

(***************************************************************************)
(* Properties                                                              *)
(***************************************************************************)

(* What a batch is about, for the binary the dialog is opened on: asked    *)
(* for no function by name, a lift and a description take the best there   *)
(* is, a hunt what lies nearest to the findings, a lift bottom up; a       *)
(* function asked for by name is always taken, whatever it is.             *)
SelectionBest ==
    edits = 0 =>
        LET Automatic(t) == SelectFunctions(program, t, NoLimit, {})
        IN  /\ BestFirst(program, Automatic("decompile"))
            /\ BestFirst(program, Automatic("behaviour"))
            /\ LeavesFirst(program, Automatic("decompile"))
            /\ IF program.findings = <<>>
               THEN BestFirst(program, Automatic("bugs"))
               ELSE NearestFirst(program, Automatic("bugs"))
            /\ \A t \in Tasks, only \in (SUBSET Fns) \ {{}} :
                   LET batch == SelectFunctions(program, t, NoLimit, only)
                   IN  ToSet(batch) = only /\ Len(batch) = Cardinality(only)

(* What a preview lists is exactly what its request reaches in the call    *)
(* graph - nothing missed on a recursion, nothing twice, nothing nearer    *)
(* cut than what is kept - and contains every function that the dialog     *)
(* itself shows as locked: the rule of selectionForFindings, written       *)
(* twice, agrees with itself.  When every request has been answered, it    *)
(* is the one of the controls as they stand, and there is none when        *)
(* nothing is picked, but for a preview that failed and an answer that     *)
(* came in after the one to a later change: the dialog shows whatever      *)
(* comes last.                                                             *)
PreviewExact ==
    LET Roots(r) == r.only \cup
            UNION {{program.findings[i].fn} \cup ToSet(program.findings[i].path) : i \in r.findings}
        Current == preview # NoPreview /\ preview.of.only = picked
                   /\ preview.of.findings = wanted /\ preview.of.depth = depth
    IN  /\ preview # NoPreview =>
               /\ ExactExpansion(program, Roots(preview.of), preview.of.depth, preview)
               /\ Roots(preview.of) \cap Fns \subseteq ToSet(preview.selected)
               /\ preview.of.findings = wanted => ViaFindings \subseteq ToSet(preview.selected)
        /\ asked = {} /\ ~lapsed =>
               IF picked = {} /\ wanted = {} THEN preview = NoPreview ELSE Current

(* A batch is made of functions that the preview on screen at the press    *)
(* listed, whatever was ticked since; the stages of one press go in order; *)
(* nothing that has a result for the stage is queued, everything else is;  *)
(* and a batch that lifts goes callees first.                              *)
StartedAsShown ==
    \A i \in DOMAIN started :
        LET s == started[i]
        IN  /\ ToSet(s.batch) \subseteq s.shown
            /\ ToSet(s.queue) = ToSet(s.batch) \ results[s.task]
            /\ s.task = "decompile" => LeavesFirst(program, s.batch)
            /\ \A j \in 1 .. i - 1 :
                   started[j].press = s.press =>
                       /\ ToSet(started[j].batch) = ToSet(s.batch)
                       /\ Position(Stages, started[j].task) < Position(Stages, s.task)
=============================================================================
