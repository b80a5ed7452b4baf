----------------------------- MODULE AiResults -----------------------------
(***************************************************************************)
(* What the model answered: the versioned result files of                  *)
(* src/backend/aijobs.js, the prompts built from them (buildAiPayload of   *)
(* src/backend/server.js), and the five views that read them - the marks   *)
(* of the symbol tree, the outcome rows of the Summary tab, the AI rows of *)
(* the Findings box, the lift pane and the behaviour profile.              *)
(*                                                                         *)
(* recordResult is a read of the file and a write: results that land       *)
(* together may read the same previous version.  The races of the job file *)
(* are AiJobs's; here each handler changes the job in one step.  A         *)
(* version_id, origin and time, is a number that grows.                    *)
(***************************************************************************)
EXTENDS Naturals, FiniteSets, Sequences, SequencesExt

CONSTANTS
    Fns,            \* the functions with an exported detail
    Tasks,          \* a subset of TASKS that includes the first two
    Callees,        \* [Fns -> SUBSET Fns]
    Path,           \* the call path of the findings of a function, itself included
    Picks,          \* per task, the selections an automatic start may make, in order
    Named,          \* per task, the functions a person may ask for by name
    Excluded,       \* thunks, import stubs and library code
    Reports,        \* what a bug report may list: for each issue, the API of
                    \* the engine's finding it names
    Window,         \* DISPATCH_WINDOW
    Kept,           \* versions kept beside the current one
    Budgets         \* bounds, one of which each behaviour gets: versions
                    \* recorded; handlers, the calls of recordResult that
                    \* overlap; starts, automatic and by name; extras: a review,
                    \* a reset, an item given up, a bad answer, a repeated one

ASSUME ResultsAssumption ==
    /\ Tasks \subseteq {"decompile", "bugs", "behaviour"} /\ {"decompile", "bugs"} \subseteq Tasks
    /\ Callees \in [Fns -> SUBSET Fns] /\ Path \in [Fns -> SUBSET Fns]
    /\ Picks \in [Tasks -> SUBSET Seq(Fns)] /\ Named \in [Tasks -> SUBSET Fns]
    /\ Excluded \subseteq Fns /\ <<>> \in Reports
    /\ Window \in Nat \ {0} /\ Kept \in Nat \ {0}
    /\ Budgets \subseteq [versions : Nat, handlers : Nat, starts : Nat, extras : Nat]
(* What is lifted follows the engine's order, and nothing is taken twice.  *)
ASSUME PicksAssumption ==
    \A c, d \in Picks["decompile"] :
        \A i, j \in DOMAIN c, k, l \in DOMAIN d :
            c[i] = d[k] /\ c[j] = d[l] /\ i < j => k < l

VARIABLES
    stored,     \* result files: versions, newest first; <<>> is no file
    job,        \* per task: pending, and the items with their batch
    asked,      \* prompts the model has not answered for good
    recording,  \* calls of recordResult between their read and their write
    reset,      \* the tasks a reset has still to clear
    now,        \* the clock version_id is made from
    left,       \* what remains of the bounds
    torn        \* ghost: result files a record or a reset took a version from
                \* that another handler was holding

vars == <<stored, job, asked, recording, reset, now, left, torn>>

Started == left.starts > 0 /\ left' = [left EXCEPT !.starts = @ - 1]
Extra == left.extras > 0 /\ left' = [left EXCEPT !.extras = @ - 1]

Nothing == [id |-> 0, text |-> 0, bad |-> FALSE, issues |-> <<>>, derived |-> 0, read |-> 0]
NoItem == [state |-> "absent", batch |-> 0]
EmptyJob == [pending |-> <<>>, items |-> [f \in Fns |-> NoItem]]
TaskOrder ==
    IF "behaviour" \in Tasks THEN <<"decompile", "bugs", "behaviour">> ELSE <<"decompile", "bugs">>

(* getResult and currentVersionId.                                         *)
Current(t, f) == IF stored[t][f] = <<>> THEN Nothing ELSE Head(stored[t][f])
Good(v) == v.id # 0 /\ ~v.bad
CurrentVersionId(f) == Current("decompile", f).id

ItemsIn(t, s) == {f \in Fns : job[t].items[f].state = s}
Mark(j, S, s, b) ==
    [j EXCEPT !.items = [f \in Fns |->
        IF f \in S THEN [state |-> s, batch |-> b] ELSE @[f]]]

(***************************************************************************)
(* The queue, as far as the results depend on it                           *)
(***************************************************************************)

(* Batches are numbered down as their budget is spent.                     *)
NewBatch == left.starts

(* The functions of a selection that have no usable result, in its order.  *)
Unfinished(t, chosen) ==
    LET queue[i \in 0 .. Len(chosen)] ==
            IF i = 0 THEN <<>>
            ELSE IF Good(Current(t, chosen[i])) THEN queue[i - 1]
            ELSE Append(queue[i - 1], chosen[i])
    IN  queue[Len(chosen)]

(* A set-wide start replaces the job; a usable result counts as done.      *)
StartAutomatic(t) ==
    /\ Started
    /\ \E chosen \in Picks[t] :
         LET queue == Unfinished(t, chosen)
             fresh == Mark(EmptyJob, ToSet(chosen), "done", NewBatch)
         IN  job' = [job EXCEPT ![t] =
                        [Mark(fresh, ToSet(queue), "queued", NewBatch) EXCEPT !.pending = queue]]
    /\ UNCHANGED <<stored, asked, recording, reset, now, torn>>

(* A function asked for by name is queued whatever it has, behind the      *)
(* others, and only once.                                                  *)
Relift(t, f) ==
    /\ Started
    /\ LET j == job[t]
           waiting == IF Contains(j.pending, f) THEN j.pending ELSE Append(j.pending, f)
       IN  job' = [job EXCEPT ![t] = [Mark(j, {f}, "queued", NewBatch) EXCEPT !.pending = waiting]]
    /\ UNCHANGED <<stored, asked, recording, reset, now, torn>>

(* buildAiPayload: what the prompt says of other functions is what the     *)
(* disk holds when it is built, a stored failure included.                 *)
Context(t, f) == Callees[f] \cup (IF t = "bugs" THEN Path[f] ELSE {})
Prompt(t, f) ==
    [task |-> t, fn |-> f,
     told |-> [g \in Context(t, f) |-> Current("decompile", g)]]

(* Which of the pending list goes.  Mutant: the newest goes first.         *)
Going_Last(t) == Len(job[t].pending)
Going(t) == 1

Dispatch(t) ==
    /\ job[t].pending # <<>> /\ Cardinality(ItemsIn(t, "sent")) < Window
    /\ LET j == job[t]
           f == j.pending[Going(t)]
       IN  /\ job' = [job EXCEPT ![t] =
                         [Mark(j, {f}, "sent", j.items[f].batch) EXCEPT
                             !.pending = RemoveAt(j.pending, Going(t))]]
           /\ asked' = asked \cup {Prompt(t, f)}
    /\ UNCHANGED <<stored, recording, reset, now, left, torn>>

(* reapStalled: an answer that is late counts as failed; it may still come.*)
Reap(t, f) ==
    /\ job[t].items[f].state = "sent"
    /\ job' = [job EXCEPT ![t] = Mark(@, {f}, "failed", @.items[f].batch)]
    /\ Extra
    /\ UNCHANGED <<stored, asked, recording, reset, now, torn>>

(* stopBatch and resetTask, for one task after the other.                  *)
Reset ==
    /\ reset = <<>> /\ Extra
    /\ reset' = TaskOrder
    /\ UNCHANGED <<stored, job, asked, recording, now, torn>>

ResetTask ==
    /\ reset # <<>>
    /\ stored' = [stored EXCEPT ![Head(reset)] = [f \in Fns |-> <<>>]]
    /\ job' = [job EXCEPT ![Head(reset)] = EmptyJob]
    /\ reset' = Tail(reset)
    /\ torn' = torn \cup {<<t, r.fn>> : t \in Tasks, r \in recording}
    /\ UNCHANGED <<asked, recording, now, left>>

(***************************************************************************)
(* recordResult                                                            *)
(***************************************************************************)

Arriving == now <= left.versions /\ Cardinality(recording) < left.handlers

(* The callback stamps a bug report with the lift there is now, and reads  *)
(* the previous version.  The model may answer badly, and answer again.    *)
DerivedFrom(t, f) == IF t = "bugs" THEN CurrentVersionId(f) ELSE 0

(* Ghost: the text the prompt carried, when its lift is still the current. *)
ReadAt(p) ==
    IF p.task = "bugs" /\ p.fn \in DOMAIN p.told /\ Current("decompile", p.fn) = p.told[p.fn]
    THEN p.told[p.fn].text ELSE 0

Answer(p, bad, again, issues) ==
    /\ Arriving
    /\ IF bad \/ again THEN Extra ELSE UNCHANGED left
    /\ recording' = recording \cup
         {[task |-> p.task, fn |-> p.fn, previous |-> stored[p.task][p.fn],
           version |-> [id |-> now, text |-> now, bad |-> bad, issues |-> issues,
                        derived |-> DerivedFrom(p.task, p.fn), read |-> ReadAt(p)]]}
    /\ now' = now + 1
    /\ asked' = IF again THEN asked ELSE asked \ {p}
    /\ UNCHANGED <<stored, job, reset, torn>>

(* The review route records the current lift again, with the verdict.      *)
Review(f) ==
    /\ Arriving /\ Extra
    /\ stored["decompile"][f] # <<>>
    /\ recording' = recording \cup
         {[task |-> "decompile", fn |-> f, previous |-> stored["decompile"][f],
           version |-> [Current("decompile", f) EXCEPT !.id = now]]}
    /\ now' = now + 1
    /\ UNCHANGED <<stored, job, asked, reset, torn>>

(* Mutant: the current version is counted among those kept.               *)
Versions_OneShort(r) ==
    <<r.version>> \o SubSeq(r.previous, 1,
                            IF Len(r.previous) < Kept THEN Len(r.previous) ELSE Kept - 1)
Versions(r) ==
    <<r.version>> \o SubSeq(r.previous, 1, IF Len(r.previous) < Kept THEN Len(r.previous) ELSE Kept)

Record(r) ==
    /\ recording' = recording \ {r}
    /\ stored' = [stored EXCEPT ![r.task][r.fn] = Versions(r)]
    /\ torn' = IF stored[r.task][r.fn] = r.previous THEN torn ELSE torn \cup {<<r.task, r.fn>>}
    /\ job' = [job EXCEPT ![r.task] = Mark(@, {r.fn}, "done", @.items[r.fn].batch)]
    /\ UNCHANGED <<asked, reset, now, left>>

Init ==
    /\ stored = [t \in Tasks |-> [f \in Fns |-> <<>>]]
    /\ job = [t \in Tasks |-> EmptyJob]
    /\ asked = {} /\ recording = {} /\ reset = <<>> /\ now = 1 /\ torn = {}
    /\ left \in Budgets

Next ==
    \/ \E t \in Tasks : StartAutomatic(t) \/ Dispatch(t)
    \/ \E t \in Tasks, f \in Fns : (f \in Named[t] /\ Relift(t, f)) \/ Reap(t, f)
    \/ Reset
    \/ ResetTask
    \/ \E p \in asked, bad, again \in BOOLEAN :
         \E issues \in IF p.task = "bugs" /\ ~bad THEN Reports ELSE {<<>>} :
             Answer(p, bad, again, issues)
    \/ \E f \in Fns : Review(f)
    \/ \E r \in recording : Record(r)

Spec == Init /\ [][Next]_vars

(***************************************************************************)
(* The views                                                               *)
(***************************************************************************)

(* analysedFunctions: the marks of the symbol tree.                        *)
Analysed(t) == {f \in Fns : stored[t][f] # <<>> /\ ~Current(t, f).bad}
Broken(t) == {f \in Fns : stored[t][f] # <<>> /\ Current(t, f).bad}

(* outcomeRow: a result on disk speaks first, then the job's item.         *)
(* Mutant: the item speaks first.                                          *)
Outcome_ItemFirst(t, f) ==
    LET item == job[t].items[f].state
        v == Current(t, f)
    IN  IF item = "sent" THEN "waiting"
        ELSE IF item \in {"queued", "failed"} THEN item
        ELSE IF v.id = 0 THEN "skipped"
        ELSE IF v.bad THEN "failed"
        ELSE IF t # "bugs" THEN "done"
        ELSE IF v.issues # <<>> THEN "issues" ELSE "clean"

Outcome(t, f) ==
    LET item == job[t].items[f].state
        v == Current(t, f)
    IN  IF v.id # 0
        THEN IF v.bad THEN "failed"
             ELSE IF t # "bugs" THEN "done"
             ELSE IF v.issues # <<>> THEN "issues" ELSE "clean"
        ELSE IF item = "sent" THEN "waiting"
        ELSE IF item \in {"queued", "failed"} THEN item
        ELSE "skipped"

(* outcomes: a row for every item of the job and for every result file.    *)
Outcomes(t) == {f \in Fns : job[t].items[f] # NoItem \/ stored[t][f] # <<>>}

(* summary: the functions worth a call, and whatever was run on others;    *)
(* a row tells the latest batch that named the function.                   *)
Touched == UNION {Outcomes(t) : t \in Tasks}
Origin(f) ==
    LET batches == {job[t].items[f].batch : t \in Tasks} \ {0}
    IN  IF batches = {} THEN 0
        ELSE CHOOSE b \in batches : \A c \in batches : b <= c   \* the latest
Listed == {f \in Fns : f \in Touched \/ f \notin Excluded}
Rows ==
    [f \in Listed |->
        [origin |-> Origin(f),
         tasks |-> [t \in Tasks |-> IF f \in Outcomes(t) THEN Outcome(t, f) ELSE "none"]]]
Active(t) == job[t].pending # <<>> \/ ItemsIn(t, "sent") # {}

(* The ai-findings route: what the functions of today's job were found to  *)
(* have, each with whether its lift has been replaced since.               *)
(* Mutant: a lift that has superseded another makes the reports stale.     *)
Stale_Superseded(f) == Len(stored["decompile"][f]) > 1 /\ Current("bugs", f).derived # 0

Stale(f) ==
    LET derived == Current("bugs", f).derived
    IN  derived # 0 /\ CurrentVersionId(f) # 0 /\ CurrentVersionId(f) # derived
AiFindings == {f \in Fns : job["bugs"].items[f] # NoItem /\ Current("bugs", f).issues # <<>>}

(* The lift pane: the current version and those it superseded.             *)
Lifted(f) ==
    LET s == stored["decompile"][f]
    IN  [version |-> CurrentVersionId(f),
         superseded |-> {s[i].id : i \in 2 .. Len(s)}]

(* The behaviour profile explains what was described, and only that.       *)
Explained == {f \in Fns : "behaviour" \in Tasks /\ Good(Current("behaviour", f))}

(***************************************************************************)
(* Properties                                                              *)
(***************************************************************************)
Reviewed(v) == v.id # v.text      \* a review repeats the text of a lift

(* A bug report points to a lift that can still be read, current or        *)
(* superseded (the reason recordResult gives for keeping versions), until  *)
(* as many later lifts as are kept have pushed it out.  Left out are a     *)
(* reset that is half way, and functions on whose lift two handlers        *)
(* overlapped, where the code loses a version; handlers that overlap on    *)
(* the reports lose none that is needed.                                   *)
EvidenceKept ==
    \A f \in Fns :
        \A i \in DOMAIN stored["bugs"][f] :
            LET d == stored["bugs"][f][i].derived
                kept == Lifted(f).superseded
            IN  d # 0 /\ reset = <<>> /\ <<"decompile", f>> \notin torn =>
                    \/ d \in {Lifted(f).version} \cup kept
                    \/ Cardinality(kept) = Kept /\ \A e \in kept : d < e

(* A report that is not marked stale was reasoned from the text the pane   *)
(* shows; one that is marked was reasoned from another, or that text has   *)
(* been reviewed since.  Left out are the reports whose lift changed while *)
(* they were on their way, which are stamped with a lift the model never   *)
(* read, and those whose prompt had no lift in it.                         *)
StaleTellsTruth ==
    \A f \in Fns :
        LET b == Current("bugs", f)
            lift == Current("decompile", f)
        IN  b.read # 0 /\ lift.id # 0 =>
                /\ ~Stale(f) => lift.text = b.read
                /\ Stale(f) => lift.text # b.read \/ Reviewed(lift)

(* A lift of an automatic batch is told of every callee that the batch     *)
(* took before it, but for the ones that are out, failed or were stopped:  *)
(* at most Window - 1 are out.                                             *)
CalleesFirst ==
    [][\A p \in asked' \ asked :
          LET items == job["decompile"].items
              batch == items[p.fn].batch
              untold == {g \in Callees[p.fn] \ {p.fn} :
                            /\ items[g].batch = batch /\ p.told[g].id = 0
                            /\ \E chosen \in Picks["decompile"] :
                                 /\ ToSet(chosen) = {h \in Fns : items[h].batch = batch}
                                 /\ \E i, j \in DOMAIN chosen :
                                      i < j /\ chosen[i] = g /\ chosen[j] = p.fn}
          IN  p.task = "decompile" =>
                /\ \A g \in untold : items[g].state \in {"sent", "failed"}
                /\ Cardinality({g \in untold : items[g].state = "sent"}) < Window
      ]_vars
=============================================================================
