----------------------------- MODULE UploadPage -----------------------------
(***************************************************************************)
(* src/frontend-react/src/ui/UploadView.tsx: a binary is sent, its run is  *)
(* polled every 900 ms, and opened in the workspace when it is done.       *)
(*                                                                         *)
(* A tick does not wait for the one before, and all of them stop the timer *)
(* that pollRef names, which a later upload may have set.                  *)
(***************************************************************************)
EXTENDS Workspace

CONSTANTS
    Uploads,    \* bound: uploads, a sequence of the runs they become
    MaxTicks    \* bound: status requests of one upload under way at once

ASSUME UploadsAssumption == Uploads \in Seq(Runs)

VARIABLES
    page,       \* busy: a binary is on its way or analysed; its upload
    upload,     \* per upload: stage, and the mode its closures were made with
    poll,       \* pollRef
    timers,     \* the intervals that are set
    ticks,      \* status requests under way, per upload
    opened,     \* ghost: how often each upload's run was opened
    slow        \* ghost: an answer took longer than the interval

uploadVars == <<page, upload, poll, timers, ticks, opened, slow>>
Numbers == DOMAIN Uploads

(* uploadBinary ends one way or the other; getRunStatus, which says of     *)
(* every run that it is done when the sample is shown.                     *)
UploadBinary(u, outcome) ==
    /\ upload[u].stage = "sending"
    /\ upload' = [upload EXCEPT ![u].stage = outcome]
GetRunStatus(u) == IF client.mode = "sample" THEN "done" ELSE upload[u].stage

(* start: the file card replaces the drop zone until the end or an error.  *)
SendFile(u) ==
    /\ Spend("upload")
    /\ app.view = "upload" /\ page = [busy |-> FALSE, upload |-> u - 1]
    /\ page' = [busy |-> TRUE, upload |-> u]
    /\ upload' = [upload EXCEPT ![u] = [stage |-> "sending", mode |-> app.mode]]
    /\ UNCHANGED <<client, appVars, poll, timers, ticks, opened, slow>>

FileSent(u) ==
    /\ UploadBinary(u, "analysing")
    /\ poll' = u /\ timers' = timers \cup {u}
    /\ UNCHANGED <<client, left, appVars, page, ticks, opened, slow>>

SendFails(u) ==
    /\ Spend("failure")
    /\ UploadBinary(u, "over")
    /\ page' = [page EXCEPT !.busy = FALSE]
    /\ UNCHANGED <<client, appVars, poll, timers, ticks, opened, slow>>

(* The server settles the run.                                             *)
RunSettles(u) ==
    /\ upload[u].stage = "analysing"
    /\ \E s \in {"done", "failed"} : upload' = [upload EXCEPT ![u].stage = s]
    /\ UNCHANGED <<client, left, appVars, page, poll, timers, ticks, opened, slow>>

Tick(u) ==
    /\ u \in timers /\ ticks[u] < MaxTicks
    /\ ticks' = [ticks EXCEPT ![u] = @ + 1]
    /\ slow' = (slow \/ ticks[u] > 0)
    /\ UNCHANGED <<client, left, appVars, page, upload, poll, timers, opened>>

TickOver(u) == ticks[u] > 0 /\ ticks' = [ticks EXCEPT ![u] = @ - 1]

(* Mutant: the timer is left to run.                                       *)
Ended_TimerKept == page' = [page EXCEPT !.busy = FALSE] /\ UNCHANGED timers
Ended == page' = [page EXCEPT !.busy = FALSE] /\ timers' = timers \ {poll}

TickDone(u) ==
    /\ TickOver(u)
    /\ GetRunStatus(u) = "done"
    /\ Ended
    /\ opened' = [opened EXCEPT ![u] = @ + 1]
    /\ LoadRun(Uploads[u], upload[u].mode, TRUE)
    /\ UNCHANGED <<left, detail, selected, replaying, opens, upload, poll, slow>>

(* A run that failed, a request that failed, or five minutes.              *)
TickEnds(u) ==
    /\ TickOver(u)
    /\ IF GetRunStatus(u) = "failed" THEN UNCHANGED left ELSE Spend("failure")
    /\ Ended
    /\ UNCHANGED <<client, appVars, upload, poll, opened, slow>>

TickWaits(u) ==
    /\ TickOver(u)
    /\ GetRunStatus(u) = "analysing"
    /\ UNCHANGED <<client, left, appVars, page, upload, poll, timers, opened, slow>>

UploadInit ==
    /\ page = [busy |-> FALSE, upload |-> 0]
    /\ upload = [u \in Numbers |-> [stage |-> "none", mode |-> "api"]]
    /\ poll = 0 /\ timers = {} /\ ticks = [u \in Numbers |-> 0]
    /\ opened = [u \in Numbers |-> 0] /\ slow = FALSE

(***************************************************************************)
(* Properties                                                              *)
(***************************************************************************)

(* While the page says that a binary is being analysed its run is polled,  *)
(* so it will be noticed to end ("or open the workspace afterwards",       *)
(* l.35-38); when it is not, no timer is left; and a run is opened at most *)
(* once, unless an answer took longer than the interval.                   *)
UploadWatched ==
    ~slow =>
        /\ page.busy => \/ upload[page.upload].stage = "sending"
                        \/ timers = {page.upload} /\ poll = page.upload
        /\ ~page.busy => timers = {} /\ \A u \in Numbers : ticks[u] = 0
        /\ \A u \in Numbers : opened[u] <= 1
=============================================================================
