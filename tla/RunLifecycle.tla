---------------------------- MODULE RunLifecycle ----------------------------
(***************************************************************************)
(* One analysis run: how meta.json, which the page polls and the Reports   *)
(* table lists, follows the engine process (backend/runner.js), the lift   *)
(* callbacks and the delete route (backend/server.js) through patchMeta    *)
(* (backend/store.js).                                                     *)
(*                                                                         *)
(* patchMeta reads the file to see whether the run exists, and only then   *)
(* queues the merge; a merge is itself a read and an atomic write, one at  *)
(* a time (JsonStore).  Most callers do not wait for it.                   *)
(*                                                                         *)
(* External: the engine may print any line, write image.json or not, and   *)
(* exit with any code; n8n may answer at any time.                         *)
(***************************************************************************)
EXTENDS Integers, Sequences, SequencesExt, FiniteSets

CONSTANTS
    Stages,       \* the number of stages a running analysis passes: STAGES
    Vas,        \* functions whose lift n8n may deliver
    InOrder,    \* whether the reads of patchMeta answer in the order made
    Overlap,    \* how many handlers that refresh the summary may overlap
    Budget      \* bound: how often each event happens

Events == {"line", "lift", "reset", "delete", "crash"}

ASSUME StagesAssumption == Stages \in Nat /\ Stages >= 2
ASSUME VasAssumption == IsFiniteSet(Vas) /\ Vas \cap {"close", "reset"} = {}
ASSUME InOrderAssumption == InOrder \in BOOLEAN
ASSUME OverlapAssumption == Overlap \in Nat \ {0}
ASSUME BudgetAssumption == Budget \in [Events -> Nat]

VARIABLES
    meta,       \* meta.json: a document; a missing file is NoDoc
    image,      \* whether analysis/image.json is on disk
    lifts,      \* the functions with a result in ai/decompile
    engine,     \* the engine process, as the server sees it
    reached,    \* stageIndex
    noStart,    \* startupFailed
    reads,      \* patchMeta calls whose read has not answered, oldest first
    queue,      \* merges queued for meta.json
    taken,      \* what the merge at the head of the queue has read, if it has
    summary,    \* summary[h]: how far handler h is with refreshing the summary
    seen,       \* seen[h]: the number of results h counted
    left        \* what remains of Budget

vars == <<meta, image, lifts, engine, reached, noStart, reads, queue, taken,
          summary, seen, left>>
-----------------------------------------------------------------------------
(* Documents and patches have some of the fields.  Stages are numbered:    *)
(* 1 is "uploaded", 2 "loading"; "done" and "failed" follow the last.      *)

Done == Stages + 1
Failed == Stages + 2

Keys == {"run_id", "stage", "error", "lifted_count"}
Errors == {"none", "spawn", "exit", "image", "post"}
Has(d, k) == k \in DOMAIN d
IsDoc(d) ==
    /\ DOMAIN d \subseteq Keys
    /\ Has(d, "run_id") => d["run_id"] = 1
    /\ Has(d, "stage") => d["stage"] \in 1 .. Failed
    /\ Has(d, "error") => d["error"] \in Errors
    /\ Has(d, "lifted_count") => d["lifted_count"] \in Nat
NoDoc == [k \in {} |-> 0]

Merge(d, p) ==
    [k \in DOMAIN d \cup DOMAIN p |-> IF k \in DOMAIN p THEN p[k] ELSE d[k]]

Handlers == Vas \cup {"close", "reset"}
Busy == {h \in Handlers : summary[h] # "idle"}
Free == Cardinality(Busy) < Overlap

Spend(e) == left[e] > 0 /\ left' = [left EXCEPT ![e] = @ - 1]
deleted == left["delete"] < Budget["delete"]
restarted == left["crash"] < Budget["crash"]

\* A call of patchMeta, which the caller does not wait for.
Patch(p) == reads' = Append(reads, p)

Failure(cause) == [stage |-> Failed, error |-> cause]

Init ==
    /\ meta = NoDoc
    /\ image = FALSE
    /\ lifts = {}
    /\ engine = "none"
    /\ reached = 0
    /\ noStart = FALSE
    /\ reads = <<>>
    /\ queue = <<>>
    /\ taken = <<>>
    /\ summary = [h \in Handlers |-> "idle"]
    /\ seen = [h \in Handlers |-> 0]
    /\ left = Budget
-----------------------------------------------------------------------------
(* POST /runs and startAnalysis.                                           *)

Upload ==
    /\ engine = "none"
    /\ engine' = "new"
    /\ meta' = [run_id |-> 1, stage |-> 1, error |-> "none"]
    /\ UNCHANGED <<image, lifts, reached, noStart, reads, queue, taken,
                   summary, seen, left>>

Spawn ==
    /\ engine = "new"
    /\ engine' = "up"
    /\ reached' = 2
    /\ Patch([stage |-> 2, error |-> "none"])
    /\ UNCHANGED <<meta, image, lifts, noStart, queue, taken, summary, seen, left>>

\* Mutant: a spawn that throws is only logged.
SpawnThrows_Silent ==
    /\ engine = "new"
    /\ engine' = "gone"
    /\ UNCHANGED <<meta, image, lifts, reached, noStart, reads, queue, taken,
                   summary, seen, left>>

SpawnThrows ==
    /\ engine = "new"
    /\ engine' = "gone"
    /\ Patch(Failure("spawn"))
    /\ UNCHANGED <<meta, image, lifts, reached, noStart, queue, taken, summary,
                   seen, left>>

\* The 'error' event of a child that did not start; 'close' follows it.
StartError ==
    /\ engine = "up"
    /\ reached = 2
    /\ ~image
    /\ engine' = "unborn"
    /\ noStart' = TRUE
    /\ Patch(Failure("spawn"))
    /\ UNCHANGED <<meta, image, lifts, reached, queue, taken, summary, seen, left>>

\* Mutant: the stage of the line is written whatever was reached.
Line_Any ==
    /\ engine = "up"
    /\ Spend("line")
    /\ \E s \in 2 .. Stages :
         /\ reached' = s
         /\ Patch([stage |-> s])
    /\ UNCHANGED <<meta, image, lifts, engine, noStart, queue, taken, summary, seen>>

\* A line on stderr that names stage s, or one that names none.
Line ==
    /\ engine = "up"
    /\ Spend("line")
    /\ \E s \in {0} \cup 2 .. Stages :
         /\ reached' = IF s > reached THEN s ELSE reached
         /\ Patch(IF s > reached THEN [stage |-> s] ELSE NoDoc)
    /\ UNCHANGED <<meta, image, lifts, engine, noStart, queue, taken, summary, seen>>

WriteImage ==
    /\ engine = "up"
    /\ ~image
    /\ image' = TRUE
    /\ UNCHANGED <<meta, lifts, engine, reached, noStart, reads, queue, taken,
                   summary, seen, left>>

\* Mutant: 'close' does not look at startupFailed.
Close_Overwrites ==
    /\ engine \in {"up", "unborn"}
    /\ engine' = "gone"
    /\ Patch(Failure("exit"))
    /\ UNCHANGED <<meta, image, lifts, reached, noStart, queue, taken, summary,
                   seen, left>>

\* 'close' after an exit code other than 0, or after 'error'.
Close ==
    /\ engine \in {"up", "unborn"}
    /\ engine' = "gone"
    /\ IF noStart THEN UNCHANGED reads ELSE Patch(Failure("exit"))
    /\ UNCHANGED <<meta, image, lifts, reached, noStart, queue, taken, summary,
                   seen, left>>

CloseOK ==
    /\ engine = "up"
    /\ engine' = "closing"
    /\ UNCHANGED <<meta, image, lifts, reached, noStart, reads, queue, taken,
                   summary, seen, left>>

\* Mutant: exit code 0 is taken for success.
CheckImage_Trusting ==
    /\ engine = "closing"
    /\ engine' = "gone"
    /\ summary' = [summary EXCEPT !["close"] = "count"]
    /\ UNCHANGED <<meta, image, lifts, reached, noStart, reads, queue, taken, seen, left>>

CheckImage ==
    /\ engine = "closing"
    /\ engine' = "gone"
    /\ IF image THEN /\ summary' = [summary EXCEPT !["close"] = "count"]
                     /\ UNCHANGED reads
                ELSE Patch(Failure("image")) /\ UNCHANGED summary
    /\ UNCHANGED <<meta, image, lifts, reached, noStart, queue, taken, seen, left>>

\* A file of the engine's output does not parse.
PostFails ==
    /\ \/ engine = "closing" /\ engine' = "gone" /\ UNCHANGED summary
       \/ /\ summary["close"] = "count"
          /\ summary' = [summary EXCEPT !["close"] = "idle"]
          /\ UNCHANGED engine
    /\ image
    /\ Patch(Failure("post"))
    /\ UNCHANGED <<meta, image, lifts, reached, noStart, queue, taken, seen, left>>
-----------------------------------------------------------------------------
(* The handlers that refresh the summary: summarise, then patchMeta.       *)

\* recordResult stores the lift, then the route summarises.
Lift(f) ==
    /\ summary[f] = "idle"
    /\ Free
    /\ engine = "gone" /\ image
    /\ Spend("lift")
    /\ lifts' = lifts \cup {f}
    /\ summary' = [summary EXCEPT ![f] = "count"]
    /\ UNCHANGED <<meta, image, engine, reached, noStart, reads, queue, taken, seen>>

\* Mutant: resetting does not refresh the summary.
ResetLifts_Stale ==
    /\ summary["reset"] = "idle"
    /\ Free
    /\ Spend("reset")
    /\ lifts' = {}
    /\ UNCHANGED <<meta, image, engine, reached, noStart, reads, queue, taken,
                   summary, seen>>

ResetLifts ==
    /\ summary["reset"] = "idle"
    /\ Free
    /\ Spend("reset")
    /\ lifts' = {}
    /\ summary' = [summary EXCEPT !["reset"] = "count"]
    /\ UNCHANGED <<meta, image, engine, reached, noStart, reads, queue, taken, seen>>

Count(h) ==
    /\ summary[h] = "count"
    /\ summary' = [summary EXCEPT ![h] = "patch"]
    /\ seen' = [seen EXCEPT ![h] = Cardinality(lifts)]
    /\ UNCHANGED <<meta, image, lifts, engine, reached, noStart, reads, queue,
                   taken, left>>

PatchSummary(h) ==
    /\ summary[h] = "patch"
    /\ summary' = [summary EXCEPT ![h] = "idle"]
    /\ Patch(IF h = "close"
             THEN [lifted_count |-> seen[h], stage |-> Done, error |-> "none"]
             ELSE [lifted_count |-> seen[h]])
    /\ UNCHANGED <<meta, image, lifts, engine, reached, noStart, queue, taken,
                   seen, left>>
-----------------------------------------------------------------------------
(* patchMeta and the write queue of meta.json.                             *)

\* Mutant: patchMeta does not look whether the run exists.
Checked_Blind ==
    /\ reads # <<>>
    /\ queue' = Append(queue, Head(reads))
    /\ reads' = Tail(reads)
    /\ UNCHANGED <<meta, image, lifts, engine, reached, noStart, taken, summary,
                   seen, left>>

\* The read of the i-th call answers: nothing is written for a missing run.
Checked ==
    /\ \E i \in DOMAIN reads :
         /\ InOrder => i = 1
         /\ reads' = RemoveAt(reads, i)
         /\ queue' = IF meta = NoDoc THEN queue ELSE Append(queue, reads[i])
    /\ UNCHANGED <<meta, image, lifts, engine, reached, noStart, taken, summary,
                   seen, left>>

MergeRead ==
    /\ queue # <<>> /\ taken = <<>>
    /\ taken' = <<meta>>
    /\ UNCHANGED <<meta, image, lifts, engine, reached, noStart, reads, queue,
                   summary, seen, left>>

MergeWrite ==
    /\ taken # <<>>
    /\ meta' = Merge(taken[1], Head(queue))
    /\ queue' = Tail(queue)
    /\ taken' = <<>>
    /\ UNCHANGED <<image, lifts, engine, reached, noStart, reads, summary, seen, left>>
-----------------------------------------------------------------------------
\* DELETE /runs/:id removes the directory of a run that has metadata.
Delete ==
    /\ meta # NoDoc
    /\ Spend("delete")
    /\ meta' = NoDoc
    /\ image' = FALSE
    /\ lifts' = {}
    /\ UNCHANGED <<engine, reached, noStart, reads, queue, taken, summary, seen>>

\* The server stops and is started again: nobody listens to the engine then.
Restart ==
    /\ Spend("crash")
    /\ engine # "none"
    /\ engine' = "gone"
    /\ reads' = <<>>
    /\ queue' = <<>>
    /\ taken' = <<>>
    /\ summary' = [h \in Handlers |-> "idle"]
    /\ UNCHANGED <<meta, image, lifts, reached, noStart, seen>>

\* What the server goes on with by itself, given an engine that ends.
Proceed ==
    \/ Spawn \/ SpawnThrows \/ Close \/ CloseOK \/ CheckImage \/ PostFails
    \/ \E h \in Handlers : Count(h) \/ PatchSummary(h)
    \/ Checked \/ MergeRead \/ MergeWrite

Next ==
    \/ Upload \/ Proceed \/ StartError \/ Line \/ WriteImage
    \/ \E f \in Vas : Lift(f)
    \/ ResetLifts \/ Delete \/ Restart

Spec == Init /\ [][Next]_vars

\* The event loop runs what is ready, and the engine ends.
FairSpec == Spec /\ WF_vars(Proceed)
-----------------------------------------------------------------------------
TypeOK ==
    /\ IsDoc(meta)
    /\ image \in BOOLEAN
    /\ lifts \subseteq Vas
    /\ engine \in {"none", "new", "up", "unborn", "closing", "gone"}
    /\ reached \in 0 .. Stages
    /\ noStart \in BOOLEAN
    /\ \A q \in {reads, queue, taken} : \A i \in DOMAIN q : IsDoc(q[i])
    /\ Len(taken) <= 1
    /\ summary \in [Handlers -> {"idle", "count", "patch"}]
    /\ seen \in [Handlers -> Nat]
    /\ left \in [Events -> Nat]

Settled == reads = <<>> /\ queue = <<>> /\ Busy = {}
Over == engine = "gone" /\ Settled /\ ~deleted /\ ~restarted

\* When the engine is gone the page can tell: the run is done, or it failed for
\* the reason that came first, a cause and not a symptom (l.110-112, l.142-148);
\* and a run the page takes for done has the file it loads first (l.227-229).
EndShown ==
    /\ Over => /\ meta["stage"] \in {Done, Failed}
               /\ (meta["stage"] = Done) = (meta["error"] = "none")
               /\ noStart => meta["error"] = "spawn"
    /\ Has(meta, "stage") /\ meta["stage"] = Done /\ ~deleted => image

\* The Reports table counts the lifts on disk (server.js l.532, l.1170-1173).
LiftedTruthful ==
    Over /\ meta["stage"] = Done => meta["lifted_count"] = Cardinality(lifts)

\* Every analysis ends, as the page sees it.
RunSettles ==
    engine = "new" ~> \/ Has(meta, "stage") /\ meta["stage"] >= Done
                      \/ deleted \/ restarted

\* The progress bar never jumps back (runner.js l.191-194), and a failure or
\* the end is not followed by another stage.
StageNeverBack ==
    Has(meta, "stage") /\ Has(meta', "stage") => meta["stage"] <= meta'["stage"]

\* Once a run is deleted and no write to its row is queued, a late callback or
\* refresh does not bring the row back (store.js l.186-191).
StaysGone == deleted /\ meta = NoDoc /\ queue = <<>> => meta' = NoDoc /\ queue' = <<>>

\* The row of a run never goes back in time.
RowOnlyForward == [][StageNeverBack /\ StaysGone]_vars

\* A deleted run has no row, whatever was under way when it was deleted.
DeletedIsGone == deleted => meta = NoDoc
=============================================================================
