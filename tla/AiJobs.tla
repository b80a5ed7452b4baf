------------------------------- MODULE AiJobs -------------------------------
(***************************************************************************)
(* The batch queue of backend/aijobs.js, for one run and one AI task.      *)
(*                                                                         *)
(* The whole queue is one JSON file, aijob-<task>.json.  Every handler     *)
(* (a callback of the workflow, a status poll, a click on Start, Stop or   *)
(* Reset, and `pump`, which dispatches) reads that file with `await        *)
(* getJob`, edits the object in memory and writes the whole object back    *)
(* with `await store.writeJson`.  Between the two awaits any other handler *)
(* may run, so a handler is here a read step, which takes a snapshot, and  *)
(* a write step, which replaces the file by what it computed from the      *)
(* snapshot.  Writes to one file are serialised and atomic (temporary file *)
(* and rename), hence one step each.                                       *)
(*                                                                         *)
(* n8n and the model behind it are external: `open[f]` counts the requests *)
(* for f that have left the server and may still be answered.              *)
(***************************************************************************)
EXTENDS Integers, Sequences, FiniteSets, Functions

CONSTANTS
    Fns,        \* the functions of the binary that batches can name
    Rank,       \* Rank[f]: the place of f in the engine's processing_order
    AutoSel,    \* what selectFunctions picks when no list is given
    Window,     \* DISPATCH_WINDOW
    Workers,    \* handlers that can be suspended at an await at one time
    CanThrow,   \* whether dispatchAi may throw (no n8n, unreadable payload)
    Budget      \* bound: how often each user or environment event happens

Events == {"auto", "named", "relift", "stop", "reset", "crash", "reply"}

ASSUME FnsAssumption == IsFiniteSet(Fns) /\ Fns # {}
ASSUME RankAssumption ==
    Rank \in [Fns -> Nat] /\ \A f, g \in Fns : Rank[f] = Rank[g] => f = g
ASSUME AutoSelAssumption == AutoSel \in SUBSET Fns /\ AutoSel # {}
ASSUME WindowAssumption == Window \in Nat \ {0}
ASSUME BudgetAssumption == Budget \in [Events -> Nat]
ASSUME CanThrowAssumption == CanThrow \in BOOLEAN

VARIABLES
    job,        \* the job file; a missing file reads as EmptyJob
    result,     \* the result files: "none", "good", or "bad" (parse_error)
    open,       \* requests n8n holds, per function
    task,       \* what each worker is suspended in
    kicks,      \* calls `void pump(...)` that have not read the job yet
    left        \* what remains of Budget

vars == <<job, result, open, task, kicks, left>>
-----------------------------------------------------------------------------
(* The job document.                                                       *)

ItemStates == {"absent", "queued", "sent", "done", "failed", "stopped"}
JobStates == {"not-started", "running", "done", "stopped"}

\* A pending list: functions in dispatch order, none twice.
Queues == {q \in UNION {[1 .. n -> Fns] : n \in 0 .. Cardinality(Fns)} :
             IsInjective(q)}

Jobs == [state : JobStates, items : [Fns -> ItemStates], pending : Seq(Fns),
         total : Nat, done : Nat, failed : Nat]

EmptyJob == [state |-> "not-started", items |-> [f \in Fns |-> "absent"],
             pending |-> <<>>, total |-> 0, done |-> 0, failed |-> 0]

InState(j, s) == {f \in Fns : j.items[f] = s}
Tracked(j) == Fns \ InState(j, "absent")

Mark(j, S, s) ==
    [j EXCEPT !.items = [f \in Fns |-> IF f \in S THEN s ELSE j.items[f]]]

CountFailed(j) == [j EXCEPT !.failed = Cardinality(InState(j, "failed"))]
CountDone(j) == [j EXCEPT !.done = Cardinality(InState(j, "done"))]

\* Mutant: a job that is not finished is taken to be running.
SettleIfIdle_Running(j) ==
    [j EXCEPT !.state = IF j.pending = <<>> /\ InState(j, "sent") = {}
                        THEN "done" ELSE "running"]

\* The test every handler that finishes an item makes.
SettleIfIdle(j) ==
    IF j.pending = <<>> /\ InState(j, "sent") = {}
    THEN [j EXCEPT !.state = "done"]
    ELSE j

\* Adding an item for a result nobody asked for may raise the total.
WithTotal(j, m) ==
    IF Tracked(m) = Tracked(j) THEN m
    ELSE [m EXCEPT !.total = IF j.total > Cardinality(Tracked(m))
                             THEN j.total ELSE Cardinality(Tracked(m))]

\* Mutant: a result counts only while its item is still out.
AfterResult_OnlySent(j, S) ==
    SettleIfIdle(CountDone(CountFailed(
        WithTotal(j, Mark(j, S \cap InState(j, "sent"), "done")))))

AfterResult(j, S) ==
    SettleIfIdle(CountDone(CountFailed(WithTotal(j, Mark(j, S, "done")))))

AfterFailure(j, f) ==
    SettleIfIdle(CountFailed(Mark(j, {f} \cap Tracked(j), "failed")))

\* Mutants: a state of its own for a timed out item; failed not recounted.
AfterReap_TimedOut(j, late) == SettleIfIdle(CountFailed(Mark(j, late, "timeout")))
AfterReap_NoCount(j, late) == SettleIfIdle(Mark(j, late, "failed"))

AfterReap(j, late) == SettleIfIdle(CountFailed(Mark(j, late, "failed")))

AfterStop(j) ==
    [Mark(j, Range(j.pending), "stopped") EXCEPT
        !.pending = <<>>, !.state = "stopped"]

\* Mutant: what is out does not count against the window.
Room_Whole(j) == Window

Room(j) == Window - Cardinality(InState(j, "sent"))
Going(j) == SubSeq(j.pending, 1,
                   IF Room(j) < Len(j.pending) THEN Room(j) ELSE Len(j.pending))
CanPump(j) == j.state = "running" /\ Room(j) > 0 /\ j.pending # <<>>

\* Mutant: what goes out stays in the pending list.
AfterPump_KeepsPending(j) == Mark(j, Range(Going(j)), "sent")

AfterPump(j) ==
    [Mark(j, Range(Going(j)), "sent") EXCEPT
        !.pending = SubSeq(j.pending, Len(Going(j)) + 1, Len(j.pending))]

\* q lists exactly the functions of S, callees before callers.
Lists(q, S) ==
    /\ Range(q) = S
    /\ \A m, n \in DOMAIN q : m < n => Rank[q[m]] < Rank[q[n]]

\* A set-wide start replaces the job; q is what it found no result for.
Fresh(sel, have, q) ==
    [state |-> IF q = <<>> THEN "done" ELSE "running",
     items |-> [f \in Fns |-> IF f \notin sel THEN "absent"
                              ELSE IF f \in have THEN "done" ELSE "queued"],
     pending |-> q,
     total |-> Cardinality(sel), done |-> Cardinality(have), failed |-> 0]

\* Mutant: joining the job forgets what was already pending.
Merged_DropsPending(j, sel, have, q) ==
    LET m == Mark(Mark(j, sel, "queued"), have, "done")
    IN  [state |-> IF q # <<>> \/ InState(m, "sent") # {}
                   THEN "running" ELSE "done",
         items |-> m.items,
         pending |-> q,
         total |-> Cardinality(Tracked(m)),
         done |-> Cardinality(InState(m, "done")),
         failed |-> Cardinality(InState(m, "failed"))]

\* A start that names functions joins the job; q is what is not pending yet.
Merged(j, sel, have, q) ==
    LET m == Mark(Mark(j, sel, "queued"), have, "done")
        p == j.pending \o q
    IN  [state |-> IF p # <<>> \/ InState(m, "sent") # {}
                   THEN "running" ELSE "done",
         items |-> m.items,
         pending |-> p,
         total |-> Cardinality(Tracked(m)),
         done |-> Cardinality(InState(m, "done")),
         failed |-> Cardinality(InState(m, "failed"))]
-----------------------------------------------------------------------------
(* What a suspended handler remembers.                                     *)

Steps == {"idle", "resultRead", "resultWrite", "startRead", "startMerge",
          "startReplace", "pumpWrite", "dispatch", "failRead", "failWrite",
          "reapWrite", "stopWrite", "resetStop", "resetResults", "resetJob"}

Tasks == [at : Steps,        \* the await it is suspended at
          snap : Jobs,       \* the job as it read it
          sel : SUBSET Fns,  \* the functions it is about
          have : SUBSET Fns, \* of these, the ones a start found done
          going : Seq(Fns)]  \* what a pump has still to dispatch

Idle == [at |-> "idle", snap |-> EmptyJob, sel |-> {}, have |-> {},
         going |-> <<>>]

At(w, step) == task[w].at = step
Become(w, t) == task' = [task EXCEPT ![w] = t]
Finish(w) == Become(w, Idle)
Spend(e) == left[e] > 0 /\ left' = [left EXCEPT ![e] = @ - 1]
KickIf(c) == kicks' = IF c THEN kicks + 1 ELSE kicks

Init ==
    /\ job = EmptyJob
    /\ result = [f \in Fns |-> "none"]
    /\ open = [f \in Fns |-> 0]
    /\ task = [w \in Workers |-> Idle]
    /\ kicks = 0
    /\ left = Budget
-----------------------------------------------------------------------------
(* startBatch.                                                             *)

\* Reads the stored results of the selection.  A parse_error is not a result.
StartSelect(w, sel, next, force) ==
    /\ At(w, "idle")
    /\ Become(w, [Idle EXCEPT
            !.at = next,
            !.sel = sel,
            !.have = IF force THEN {} ELSE {f \in sel : result[f] = "good"}])
    /\ UNCHANGED <<job, result, open, kicks>>

StartAutomatic(w) == StartSelect(w, AutoSel, "startReplace", FALSE) /\ Spend("auto")
StartNamed(w) ==
    /\ Spend("named")
    /\ \E sel \in SUBSET Fns \ {{}} : StartSelect(w, sel, "startRead", FALSE)
Relift(w) ==
    /\ Spend("relift")
    /\ \E f \in Fns : StartSelect(w, {f}, "startRead", TRUE)

StartRead(w) ==
    /\ At(w, "startRead")
    /\ Become(w, [task[w] EXCEPT
            !.at = IF Tracked(job) = {} THEN "startReplace" ELSE "startMerge",
            !.snap = IF Tracked(job) = {} THEN EmptyJob ELSE job])
    /\ UNCHANGED <<job, result, open, kicks, left>>

StartReplace(w) ==
    /\ At(w, "startReplace")
    /\ \E q \in Queues :
         /\ Lists(q, task[w].sel \ task[w].have)
         /\ job' = Fresh(task[w].sel, task[w].have, q)
         /\ KickIf(q # <<>>)
    /\ Finish(w)
    /\ UNCHANGED <<result, open, left>>

StartMerge(w) ==
    /\ At(w, "startMerge")
    /\ \E q \in Queues :
         /\ Lists(q, (task[w].sel \ task[w].have) \ Range(task[w].snap.pending))
         /\ job' = Merged(task[w].snap, task[w].sel, task[w].have, q)
         /\ KickIf(job'.pending # <<>>)
    /\ Finish(w)
    /\ UNCHANGED <<result, open, left>>
-----------------------------------------------------------------------------
(* pump, and the recordFailure it calls when a dispatch throws.            *)

PumpRead(w) ==
    /\ At(w, "idle")
    /\ kicks > 0
    /\ kicks' = kicks - 1
    /\ IF CanPump(job)
       THEN Become(w, [Idle EXCEPT !.at = "pumpWrite", !.snap = job])
       ELSE UNCHANGED task
    /\ UNCHANGED <<job, result, open, left>>

PumpWrite(w) ==
    /\ At(w, "pumpWrite")
    /\ job' = AfterPump(task[w].snap)
    /\ Become(w, [Idle EXCEPT !.at = "dispatch", !.going = Going(task[w].snap)])
    /\ UNCHANGED <<result, open, kicks, left>>

\* The pump's loop moves on to the next function, or is over.
NextDispatch(w) ==
    IF Len(task[w].going) <= 1 THEN Finish(w)
    ELSE Become(w, [Idle EXCEPT !.at = "dispatch", !.going = Tail(task[w].going)])

Dispatch(w) ==
    /\ At(w, "dispatch")
    /\ open' = [open EXCEPT ![Head(task[w].going)] = @ + 1]
    /\ NextDispatch(w)
    /\ UNCHANGED <<job, result, kicks, left>>

DispatchThrows(w) ==
    /\ CanThrow
    /\ At(w, "dispatch")
    /\ Become(w, [task[w] EXCEPT !.at = "failRead"])
    /\ UNCHANGED <<job, result, open, kicks, left>>

FailRead(w) ==
    /\ At(w, "failRead")
    /\ Become(w, [task[w] EXCEPT !.at = "failWrite", !.snap = job])
    /\ UNCHANGED <<job, result, open, kicks, left>>

FailWrite(w) ==
    /\ At(w, "failWrite")
    /\ job' = AfterFailure(task[w].snap, Head(task[w].going))
    /\ KickIf(job'.state = "running")
    /\ NextDispatch(w)
    /\ UNCHANGED <<result, open, left>>
-----------------------------------------------------------------------------
(* recordResult: the callback route of n8n.                                *)

\* The result file is written before the job is read.  n8n's answer uses its
\* request up, unless it is a retry's: the same answer may come again.
StoreResult(w) ==
    /\ At(w, "idle")
    /\ Spend("reply")
    /\ \E f \in Fns, r \in {"good", "bad"} :
         /\ open[f] > 0
         /\ result' = [result EXCEPT ![f] = r]
         /\ \/ open' = [open EXCEPT ![f] = @ - 1]
            \/ UNCHANGED open
         /\ Become(w, [Idle EXCEPT !.at = "resultRead", !.sel = {f}])
    /\ UNCHANGED <<job, kicks>>

ResultRead(w) ==
    /\ At(w, "resultRead")
    /\ Become(w, [task[w] EXCEPT !.at = "resultWrite", !.snap = job])
    /\ UNCHANGED <<job, result, open, kicks, left>>

ResultWrite(w) ==
    /\ At(w, "resultWrite")
    /\ job' = AfterResult(task[w].snap, task[w].sel)
    /\ KickIf(job'.state = "running")
    /\ Finish(w)
    /\ UNCHANGED <<result, open, left>>
-----------------------------------------------------------------------------
(* reapStalled, run by the status poll.  Time is abstracted: any set of    *)
(* sent items may be the ones found older than SEND_TIMEOUT_MS.            *)

ReapRead(w) ==
    /\ At(w, "idle")
    /\ job.state = "running"
    /\ \E late \in SUBSET InState(job, "sent") \ {{}} :
         Become(w, [Idle EXCEPT !.at = "reapWrite", !.snap = job, !.sel = late])
    /\ UNCHANGED <<job, result, open, kicks, left>>

\* Mutant: the poll that reaps does not pump what was waiting.
ReapWrite_NoPump(w) ==
    /\ At(w, "reapWrite")
    /\ job' = AfterReap(task[w].snap, task[w].sel)
    /\ Finish(w)
    /\ UNCHANGED <<result, open, kicks, left>>

ReapWrite(w) ==
    /\ At(w, "reapWrite")
    /\ job' = AfterReap(task[w].snap, task[w].sel)
    /\ KickIf(job'.state = "running" /\ job'.pending # <<>>)
    /\ Finish(w)
    /\ UNCHANGED <<result, open, left>>
-----------------------------------------------------------------------------
(* stopBatch, and the reset route: stopBatch, then resetTask.              *)

StopRead(w) ==
    /\ At(w, "idle")
    /\ job.state = "running"
    /\ Spend("stop")
    /\ Become(w, [Idle EXCEPT !.at = "stopWrite", !.snap = job])
    /\ UNCHANGED <<job, result, open, kicks>>

StopWrite(w) ==
    /\ At(w, "stopWrite")
    /\ job' = AfterStop(task[w].snap)
    /\ Finish(w)
    /\ UNCHANGED <<result, open, kicks, left>>

ResetRead(w) ==
    /\ At(w, "idle")
    /\ Spend("reset")
    /\ IF job.state = "running"
       THEN Become(w, [Idle EXCEPT !.at = "resetStop", !.snap = job])
       ELSE Become(w, [Idle EXCEPT !.at = "resetResults"])
    /\ UNCHANGED <<job, result, open, kicks>>

ResetStop(w) ==
    /\ At(w, "resetStop")
    /\ job' = AfterStop(task[w].snap)
    /\ Become(w, [Idle EXCEPT !.at = "resetResults"])
    /\ UNCHANGED <<result, open, kicks, left>>

ResetResults(w) ==
    /\ At(w, "resetResults")
    /\ result' = [f \in Fns |-> "none"]
    /\ Become(w, [Idle EXCEPT !.at = "resetJob"])
    /\ UNCHANGED <<job, open, kicks, left>>

ResetJob(w) ==
    /\ At(w, "resetJob")
    /\ job' = EmptyJob
    /\ Finish(w)
    /\ UNCHANGED <<result, open, kicks, left>>
-----------------------------------------------------------------------------
(* The environment.                                                        *)

\* A request or its answer is lost: n8n unreachable, restarted, refused.
Lose ==
    /\ \E f \in Fns : open[f] > 0 /\ open' = [open EXCEPT ![f] = @ - 1]
    /\ UNCHANGED <<job, result, task, kicks, left>>

\* The server process dies and is started again; files and n8n survive.
Restart ==
    /\ Spend("crash")
    /\ task' = [w \in Workers |-> Idle]
    /\ kicks' = 0
    /\ UNCHANGED <<job, result, open>>

Start(w) == StartAutomatic(w) \/ StartNamed(w) \/ Relift(w)
StartWrite(w) == StartReplace(w) \/ StartMerge(w)

\* What a handler does once it is running, and the pumps already called.
Proceed(w) ==
    \/ StartRead(w) \/ StartWrite(w)
    \/ PumpRead(w) \/ PumpWrite(w) \/ Dispatch(w) \/ DispatchThrows(w)
    \/ FailRead(w) \/ FailWrite(w)
    \/ ResultRead(w) \/ ResultWrite(w)
    \/ ReapWrite(w) \/ StopWrite(w)
    \/ ResetStop(w) \/ ResetResults(w) \/ ResetJob(w)

Next ==
    \/ \E w \in Workers :
         \/ Start(w) \/ StoreResult(w) \/ ReapRead(w)
         \/ StopRead(w) \/ ResetRead(w) \/ Proceed(w)
    \/ Lose
    \/ Restart

Spec == Init /\ [][Next]_vars

(* The event loop runs every ready continuation, and the page polls the    *)
(* status route while a job is running, so an overdue item is found.       *)
FairSpec ==
    /\ Spec
    /\ \A w \in Workers : WF_vars(Proceed(w)) /\ WF_vars(ReapRead(w))
-----------------------------------------------------------------------------
(* Properties.                                                             *)

TypeOK ==
    /\ job \in Jobs
    /\ result \in [Fns -> {"none", "good", "bad"}]
    /\ open \in [Fns -> Nat]
    /\ task \in [Workers -> Tasks]
    /\ kicks \in Nat
    /\ left \in [Events -> Nat]

\* A job the page must keep polling has something to wait for, and a job it
\* has stopped polling has nothing left (l.588-593, l.608-612, l.662-668 and
\* the state expressions of startBatch).
WaitsForSomething(j) ==
    /\ j.state = "running" => j.pending # <<>> \/ InState(j, "sent") # {}
    /\ j.state # "running" => j.pending = <<>>
    /\ j.state \in {"done", "not-started"} => InState(j, "sent") = {}

\* No item is queued without standing in the pending list, where pump would
\* never find it, and none stands there while it is out or twice.
QueueMatchesItems(j) ==
    /\ IsInjective(j.pending)
    /\ InState(j, "queued") \subseteq Range(j.pending)
    /\ Range(j.pending) \cap
           (InState(j, "absent") \cup InState(j, "sent") \cup InState(j, "stopped")) = {}

\* By the job's own book no more than DISPATCH_WINDOW items are out.
WindowOnPaper(j) == Cardinality(InState(j, "sent")) <= Window

JobOK(j) == WaitsForSomething(j) /\ QueueMatchesItems(j) /\ WindowOnPaper(j)

\* The three hold of the job file whatever the interleaving of handlers.
JobConsistent == JobOK(job)

\* They do because every handler derives the file it writes from a file that
\* satisfied them, however old: this is what suspended handlers hold on to.
HandlersOK ==
    \A w \in Workers :
        /\ JobOK(task[w].snap)
        /\ At(w, "pumpWrite") => CanPump(task[w].snap)
        /\ task[w].at \in {"dispatch", "failRead", "failWrite"}
             => task[w].going # <<>>

IInv == TypeOK /\ JobConsistent /\ HandlersOK

\* With a page that polls and no restart, a running job comes to rest even if
\* every reply is lost (the comment of reapStalled, l.617-634).
JobSettles == (job.state = "running") ~> (job.state # "running")

(* What holds when no two handlers overlap, and is lost when they do.      *)

Quiet == kicks = 0 /\ \A w \in Workers : At(w, "idle")

\* Each function a batch asks for once is sent to the model once (l.493-496).
NotPaidTwice == \A f \in Fns : open[f] <= 1

\* Once every handler has finished, a function whose result is on disk is
\* done in the job, even if its result came after it was reaped (l.577-584).
ResultAccounted ==
    Quiet => \A f \in Fns : result[f] # "none" => job.items[f] = "done"

\* The counters the progress bar shows are those of the items, so that
\* done + failed reaches total exactly when nothing is left (l.620-624).
CountersMatch ==
    /\ job.total = Cardinality(Tracked(job))
    /\ job.done = Cardinality(InState(job, "done"))
    /\ job.failed = Cardinality(InState(job, "failed"))

\* Of the items still to be answered, no more than DISPATCH_WINDOW have a
\* request with the model (l.33-42).
OpenWithinWindow ==
    Cardinality({f \in Fns : open[f] > 0 /\ job.items[f] \in {"queued", "sent"}})
        <= Window

\* The job's books: what it counts is what its items say, and what it holds
\* back is held back from the model too.
BooksMatch == CountersMatch /\ OpenWithinWindow

\* A stopped job runs again only when somebody starts a batch (l.771-779).
StopHolds ==
    [][job.state = "stopped" /\ job'.state = "running"
         => \E w \in Workers : StartWrite(w)]_vars

\* After a reset nothing is queued or out until a batch starts (l.799-806).
ResetHolds ==
    [][job.state = "not-started" /\ job'.state = "running"
         => \E w \in Workers : StartWrite(w)]_vars
=============================================================================
