---------------------------- MODULE AutomatedRun ----------------------------
(***************************************************************************)
(* src/frontend-react/src/ui/AutomatedRun.tsx: one press of a button runs  *)
(* the three stages, each when the one before has settled.                 *)
(*                                                                         *)
(* What drives it is a timer of the page; each tick asks for the jobs of   *)
(* the run that the client module points to at that moment, and acts on    *)
(* the stage it was set up with.  The server's jobs are AiJobs's, reduced  *)
(* to their states; "full" is a job that says "running" although what it   *)
(* counted as done and failed reaches its total.                           *)
(***************************************************************************)
EXTENDS Workspace

CONSTANTS
    Stages,         \* the tasks, in order
    MaxPolls        \* bound: ticks under way at once

ASSUME StagesAssumption == Len(Stages) \in Nat \ {0}

VARIABLES
    auto,       \* state, stage (0 is none), and the guard runningRef
    polls,      \* ticks under way: the stage they were set up with, what they read
    posts,      \* batches being started: number, run and stage
    stops,      \* the stages an open Stop has still to stop
    clearing,   \* runs whose reset is under way
    jobs,       \* server: [Sources -> [1 .. Len(Stages) -> states]]
    target,     \* ghost: the source Start was pressed for
    behind,     \* ghost: stages left while at work, as their counters told
    strained    \* ghost: an answer was overtaken, lost, or of another run

autoVars == <<auto, polls, posts, stops, clearing, jobs, target, behind, strained>>

StageNumbers == 1 .. Len(Stages)
Working == {"running", "full"}
Settled == {"done", "empty"}
Unread == "unread"

Here == Source(client)
Stage(src, k) == [source |-> src, stage |-> k]

(* startAiBatch, getAiJob, stopAiBatch and resetAi; the sample has no jobs. *)
PostTo(src, k) == posts' = posts \cup {[n |-> Fresh(posts), source |-> src, stage |-> k]}
GetAiJob(k) == IF Here = Sample THEN "not-started" ELSE jobs[Here][k]
StopAiBatch(k) ==
    jobs' = IF GetAiJob(k) \in Working THEN [jobs EXCEPT ![Here][k] = "stopped"] ELSE jobs
ResetAi(src) ==
    jobs' = IF src = Sample THEN jobs
            ELSE [jobs EXCEPT ![src] = [k \in StageNumbers |-> "not-started"]]

(* Mutant: a stage is over once it has begun.                              *)
Over_Begun(read) == read \in Settled \cup Working
Over(read) == read \in Settled \cup {"full"}

(* What a tick acts on.                                                    *)
Tells(read) == read \in Settled \cup {"full", "stopped"}

PressStart ==
    /\ Spend("start")
    /\ Loaded /\ auto.state # "running" /\ ~auto.guard
    /\ auto' = [state |-> "running", stage |-> 1, guard |-> TRUE]
    /\ PostTo(Here, 1) /\ target' = Here
    /\ strained' = (strained \/ stops # <<>> \/ clearing # {} \/ \E t \in polls : Tells(t.read))
    /\ UNCHANGED <<client, appVars, polls, stops, clearing, jobs, behind>>

(* The batch joins or replaces the job of its stage; a batch of nothing    *)
(* leaves the job file as it is (aijobs.js l.340-349).                     *)
PostLands(p) ==
    /\ posts' = posts \ {p}
    /\ IF p.source = Sample
       THEN /\ UNCHANGED <<jobs, behind>>
            /\ auto' = IF p.stage = 1 THEN [auto EXCEPT !.state = "blocked", !.guard = FALSE]
                       ELSE auto
       ELSE /\ \E s \in {"running", "done", jobs[p.source][p.stage]} :
                   jobs' = [jobs EXCEPT ![p.source][p.stage] = s]
            /\ behind' = behind \ {Stage(p.source, p.stage)}
            /\ UNCHANGED auto
    /\ UNCHANGED <<client, left, appVars, polls, stops, clearing, target, strained>>

(* An engine without n8n takes the batch, and fails one item of it after   *)
(* the other.                                                              *)
PostBlocked(p) ==
    /\ Spend("failure")
    /\ p.source # Sample /\ p.stage = 1
    /\ posts' = posts \ {p}
    /\ jobs' = [jobs EXCEPT ![p.source][1] = "running"]
    /\ behind' = behind \cup {Stage(p.source, 1)}
    /\ auto' = [auto EXCEPT !.state = "blocked", !.guard = FALSE]
    /\ UNCHANGED <<client, appVars, polls, stops, clearing, target, strained>>

PostRefused(p) ==
    /\ Spend("failure")
    /\ p.source # Sample
    /\ posts' = posts \ {p}
    /\ auto' = [auto EXCEPT !.state = IF p.stage = 1 THEN "idle" ELSE "done", !.guard = FALSE]
    /\ strained' = (strained \/ posts # {p} \/ jobs[p.source][p.stage] \in Working)
    /\ UNCHANGED <<client, appVars, polls, stops, clearing, jobs, target, behind>>

JobMoves(src, k, from, to) ==
    /\ jobs[src][k] \in from
    /\ jobs' = [jobs EXCEPT ![src][k] = to]
    /\ UNCHANGED <<client, appVars, auto, polls, posts, stops, clearing, target, behind, strained>>

JobEnds(src, k) == JobMoves(src, k, Working, "done") /\ UNCHANGED left

(* An answer is counted as done for an item that is queued or out again,   *)
(* until a later one is counted with the item where it is.                 *)
CountersFill(src, k) == Spend("late") /\ JobMoves(src, k, {"running"}, "full")
CountersRight(src, k) == JobMoves(src, k, {"full"}, "running") /\ UNCHANGED left

(* The timer: refresh asks for the jobs one after the other.               *)
Poll ==
    /\ auto.state = "running" /\ Cardinality(polls) < MaxPolls
    /\ polls' = polls \cup {[n |-> Fresh(polls), stage |-> auto.stage, read |-> Unread]}
    /\ UNCHANGED <<client, left, appVars, auto, posts, stops, clearing, jobs, target, behind, strained>>

Overtaken(t) == Here # target \/ posts # {} \/ t.stage # auto.stage

ReadJob(t) ==
    /\ t.read = Unread
    /\ \E r \in {GetAiJob(t.stage), "null"} :
         /\ r = "null" => left["failure"] > 0
         /\ left' = IF r = "null" THEN [left EXCEPT !["failure"] = @ - 1] ELSE left
         /\ polls' = (polls \ {t}) \cup {[t EXCEPT !.read = r]}
         /\ strained' = (strained \/ (Tells(r) /\ Overtaken(t)))
    /\ UNCHANGED <<client, appVars, auto, posts, stops, clearing, jobs, target, behind>>

PollOver(t) ==
    /\ t.read # Unread /\ polls' = polls \ {t}
    /\ UNCHANGED <<client, left, appVars, stops, clearing, jobs, target>>

PollStopped(t) ==
    /\ PollOver(t) /\ t.read = "stopped"
    /\ auto' = [auto EXCEPT !.state = "stopped", !.guard = FALSE]
    /\ UNCHANGED <<posts, behind, strained>>

Leave(t) ==
    behind' = IF t.read = "full" THEN behind \cup {Stage(target, t.stage)} ELSE behind

PollAdvances(t) ==
    /\ PollOver(t) /\ Over(t.read) /\ t.stage < Len(Stages)
    /\ auto' = [auto EXCEPT !.stage = t.stage + 1]
    /\ PostTo(Here, t.stage + 1) /\ Leave(t)
    /\ strained' = (strained \/ Here # target \/ auto.state # "running"
                      \/ auto.stage \notin {t.stage, t.stage + 1}
                      \/ \E u \in polls : u.stage = t.stage + 1 /\ Tells(u.read))

PollFinishes(t) ==
    /\ PollOver(t) /\ Over(t.read) /\ t.stage = Len(Stages)
    /\ auto' = [auto EXCEPT !.state = "done", !.guard = FALSE]
    /\ Leave(t) /\ UNCHANGED <<posts, strained>>

PollWaits(t) ==
    /\ PollOver(t) /\ ~Over(t.read) /\ t.read # "stopped"
    /\ UNCHANGED <<auto, posts, behind, strained>>

(* Stop: the page at once, then one stage after the other on the server.   *)
StopsAll == [k \in StageNumbers |-> k]

PressStop ==
    /\ Spend("stop")
    /\ auto.state = "running"
    /\ auto' = [auto EXCEPT !.state = "stopped", !.guard = FALSE]
    /\ stops' = StopsAll
    /\ strained' = (strained \/ posts # {})
    /\ UNCHANGED <<client, appVars, polls, posts, clearing, jobs, target, behind>>

StopLands ==
    /\ stops # <<>> /\ stops' = Tail(stops)
    /\ StopAiBatch(Head(stops))
    /\ strained' = (strained \/ Here # target)
    /\ UNCHANGED <<client, left, appVars, auto, polls, posts, clearing, target, behind>>

StopFails ==
    /\ Spend("failure")
    /\ stops # <<>> /\ stops' = <<>> /\ strained' = TRUE
    /\ UNCHANGED <<client, appVars, auto, polls, posts, clearing, jobs, target, behind>>

(* Reset, which is disabled while a run is going.                          *)
PressReset ==
    /\ Spend("reset")
    /\ Loaded /\ auto.state # "running"
    /\ clearing' = clearing \cup {Here}
    /\ UNCHANGED <<client, appVars, auto, polls, posts, stops, jobs, target, behind, strained>>

ResetLands(src) ==
    /\ clearing' = clearing \ {src}
    /\ ResetAi(src)
    /\ auto' = [state |-> "idle", stage |-> 0, guard |-> FALSE]
    /\ UNCHANGED <<client, left, appVars, polls, posts, stops, target, behind, strained>>

ResetFails(src) ==
    /\ Spend("failure")
    /\ clearing' = clearing \ {src}
    /\ UNCHANGED <<client, appVars, auto, polls, posts, stops, jobs, target, behind, strained>>

AutoInit ==
    /\ auto = [state |-> "idle", stage |-> 0, guard |-> FALSE]
    /\ polls = {} /\ posts = {} /\ stops = <<>> /\ clearing = {}
    /\ jobs = [r \in Runs |-> [k \in StageNumbers |-> "not-started"]]
    /\ target = "none" /\ behind = {} /\ strained = FALSE

(***************************************************************************)
(* Properties                                                              *)
(***************************************************************************)

(* "Decompile has to finish before Find bugs" (l.8-13): however ticks      *)
(* overlap, two stages of a run are at work together only if the page was  *)
(* told by the counters of one that it had nothing left (l.117), a stage   *)
(* starts only when the one before has settled or told so, and once the    *)
(* page says that the run is over and its Stop has been carried out,       *)
(* nothing else of it is at work or will be started.                       *)
(* strained leaves out: an answer that a stage is over or stopped which is *)
(* read while a batch is being started, or of a stage the page has left,   *)
(* or which is acted on after a Stop, a new Start, the answer to a later   *)
(* stage or a change of the open run; Stop pressed while a batch is being  *)
(* started, Start pressed while a Stop or a Reset is under way, a Stop     *)
(* that fails, and the failure of one of two requests for a stage.         *)
StagesInTurn ==
    ~strained =>
        /\ \A r \in Runs, j, k \in StageNumbers :
               jobs[r][j] \in Working /\ jobs[r][k] \in Working =>
                  j = k \/ Stage(r, j) \in behind \/ Stage(r, k) \in behind
        /\ \A p \in posts : p.stage > 1 /\ p.source # Sample =>
               \/ jobs[p.source][p.stage - 1] \in Settled
               \/ Stage(p.source, p.stage - 1) \in behind
        /\ auto.state # "running" /\ stops = <<>> =>
               /\ posts = {}
               /\ \A r \in Runs, k \in StageNumbers :
                     jobs[r][k] \in Working => Stage(r, k) \in behind

(* "A run in progress keeps going" when another is opened (the title of    *)
(* Home in AiAnalysisView, l.176-182): its stages are started on it.       *)
OnlyTheRunAskedFor == \A p \in posts : p.source = target
=============================================================================
