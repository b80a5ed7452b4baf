----------------------------- MODULE Workspace -----------------------------
(***************************************************************************)
(* The shell, src/frontend-react/src/App.tsx, with the selection of        *)
(* ui/AnalysisView.tsx: which run is open, which function is on screen,    *)
(* and the trail of those visited.                                         *)
(*                                                                         *)
(* Every load is a request whose answer changes the state whatever has     *)
(* happened in between: answers come in any order, or not at all.          *)
(***************************************************************************)
EXTENDS Client

CONSTANTS
    Vas,        \* addresses; every binary has a function at each
    First,      \* functions[0].va
    MaxTrail    \* the trail's cap, 40

None == 0       \* no address

ASSUME WorkspaceAssumption ==
    First \in Vas /\ None \notin Vas /\ MaxTrail \in Nat \ {0, 1}

VARIABLES
    app,        \* mode and run of App; data: what it shows; view; asking: the
                \* context prompt is open; root: the pinned function
    detail,     \* the function of the Analysis tab
    selected,   \* App's mirror of it, which the AI tab shows
    nav,        \* trail and index
    replaying,  \* replayingTo
    loads,      \* loadRun calls under way
    opens,      \* openFunction and selectFunction calls under way
    answered,   \* ghost: the newest load and the newest open were answered last,
                \* and the newest load was made in the mode of the menu
    mixed       \* ghost: functions were asked for at the same time as others,
                \* as a run, or in vain

appVars == <<app, detail, selected, nav, replaying, loads, opens, answered, mixed>>

NoFunction == [source |-> "none", va |-> None]
NoTrail == [trail |-> <<>>, index |-> 0]
Views == {"upload", "ai", "security", "summary", "reports"}
Loaded == app.data # "none"
Gone(o) == \A k \in opens : k.n # o.n
Asked(s) == {o \in opens : o.by = s}

(***************************************************************************)
(* Runs                                                                    *)
(***************************************************************************)

Asking(src, ask) ==
    Older(loads) \cup {[n |-> Fresh(loads), newest |-> TRUE, source |-> src, ask |-> ask]}

(* loadRun, with the mode its closure was made with.  Trail and root are   *)
(* addresses in the outgoing binary; the function on screen stays.         *)
LoadRun(id, m, ask) ==
    /\ Configure(m, id)
    /\ app' = [app EXCEPT !.run = id, !.root = None]
    /\ nav' = NoTrail
    /\ loads' = Asking(Source([mode |-> m, run |-> id]), ask)
    /\ answered' = [answered EXCEPT !.load = FALSE, !.source = m = app.mode]
    /\ mixed' = (mixed \/ opens # {})

OpenReport(id) ==
    /\ Spend("open")
    /\ app.view = "reports"
    /\ LoadRun(id, app.mode, FALSE)
    /\ UNCHANGED <<detail, selected, replaying, opens>>

Reload ==
    /\ Spend("open")
    /\ Loaded /\ LoadRun(app.run, app.mode, FALSE)
    /\ UNCHANGED <<detail, selected, replaying, opens>>

(* The effect on the data source: reload what the client points to.        *)
(* Mutant: the new source is not asked.                                    *)
SwitchMode_NoReload(m) ==
    /\ Spend("mode")
    /\ m # app.mode
    /\ app' = [app EXCEPT !.mode = m] /\ client' = [client EXCEPT !.mode = m]
    /\ UNCHANGED <<detail, selected, nav, replaying, loads, opens, answered, mixed>>

SwitchMode(m) ==
    /\ Spend("mode")
    /\ m # app.mode
    /\ IF Loaded
       THEN /\ Configure(m, client.run)
            /\ app' = [app EXCEPT !.mode = m, !.run = client.run, !.root = None]
            /\ nav' = NoTrail
            /\ loads' = Asking(Source([client EXCEPT !.mode = m]), FALSE)
            /\ answered' = [answered EXCEPT !.load = FALSE, !.source = TRUE]
            /\ mixed' = (mixed \/ opens # {})
       ELSE /\ app' = [app EXCEPT !.mode = m] /\ client' = [client EXCEPT !.mode = m]
            /\ answered' = [answered EXCEPT !.source = loads = {}]
            /\ UNCHANGED <<nav, loads, mixed>>
    /\ UNCHANGED <<detail, selected, replaying, opens>>

(* openFunction and selectFunction up to their answer.                     *)
Request(va, by, jump) ==
    {[n |-> Fresh(opens), newest |-> by = "analysis", source |-> Source(client),
      va |-> va, by |-> by, jump |-> jump]}
Ask(va, by, jump) ==
    /\ opens' = (IF by = "analysis" THEN Older(opens) ELSE opens) \cup Request(va, by, jump)
    /\ answered' = IF by = "analysis" THEN [answered EXCEPT !.open = FALSE] ELSE answered
    /\ mixed' = (mixed \/ (by = "analysis" /\ (Asked("analysis") # {} \/ loads # {})))

(* The first function is opened when nothing is on screen yet.             *)
LoadAnswered(l) ==
    /\ loads' = loads \ {l}
    /\ app' = [app EXCEPT !.data = l.source, !.view = "analysis", !.asking = @ \/ l.ask]
    /\ IF detail = NoFunction
       THEN /\ opens' = Older(opens) \cup Request(First, "analysis", FALSE)
            /\ answered' = [answered EXCEPT !.load = l.newest, !.open = FALSE]
            /\ mixed' = (mixed \/ Asked("analysis") # {} \/ loads' # {})
       ELSE /\ answered' = [answered EXCEPT !.load = l.newest]
            /\ UNCHANGED <<opens, mixed>>
    /\ UNCHANGED <<client, left, detail, selected, nav, replaying>>

LoadFails(l) ==
    /\ Spend("failure")
    /\ loads' = loads \ {l}
    /\ UNCHANGED <<client, app, detail, selected, nav, replaying, opens, answered, mixed>>

(***************************************************************************)
(* Functions                                                               *)
(***************************************************************************)

(* A click in the Analysis tab, or a search that leads there.              *)
OpenFunction(va) ==
    /\ Spend("visit") /\ Loaded
    /\ app' = [app EXCEPT !.view = "analysis"]
    /\ Ask(va, "analysis", FALSE)
    /\ UNCHANGED <<client, detail, selected, nav, replaying, loads>>

(* A click in the AI tab's tree (or in the Summary, which then shows the   *)
(* Analysis tab): only App's mirror is set.                                *)
SelectFunction(va) ==
    /\ Spend("visit") /\ Loaded
    /\ app.view \in {"ai", "summary"}
    /\ app' = IF app.view = "summary" THEN [app EXCEPT !.view = "analysis"] ELSE app
    /\ Ask(va, "shell", FALSE)
    /\ UNCHANGED <<client, detail, selected, nav, replaying, loads>>

(* recordVisit                                                             *)
(* Mutant: what was ahead of the pointer is kept.                          *)
Visited_KeepsForward(va) ==
    LET kept == Append(nav.trail, va)
        capped == IF Len(kept) > MaxTrail THEN Tail(kept) ELSE kept
    IN  IF replaying = va \/ (nav.index > 0 /\ nav.trail[nav.index] = va) THEN nav
        ELSE [trail |-> capped, index |-> nav.index + 1]

Visited(va) ==
    LET kept == Append(SubSeq(nav.trail, 1, nav.index), va)
        capped == IF Len(kept) > MaxTrail THEN Tail(kept) ELSE kept
    IN  IF replaying = va \/ (nav.index > 0 /\ nav.trail[nav.index] = va) THEN nav
        ELSE [trail |-> capped, index |-> Len(capped)]

(* goToHistory: the pointer moves at once, the function follows.           *)
Jump(i) ==
    /\ Spend("jump") /\ Loaded
    /\ i \in DOMAIN nav.trail \ {nav.index}
    /\ replaying' = nav.trail[i]
    /\ nav' = [nav EXCEPT !.index = i]
    /\ app' = [app EXCEPT !.view = "analysis"]
    /\ Ask(nav.trail[i], "analysis", TRUE)
    /\ UNCHANGED <<client, detail, selected, loads>>

OpenAnswered(o) ==
    /\ opens' = opens \ {o}
    /\ selected' = [source |-> o.source, va |-> o.va]
    /\ IF o.by = "analysis"
       THEN /\ detail' = selected'
            /\ nav' = Visited(o.va)
            /\ replaying' = None
            /\ answered' = [answered EXCEPT !.open = o.newest]
       ELSE UNCHANGED <<detail, nav, replaying, answered>>
    /\ UNCHANGED <<client, left, app, loads, mixed>>

(* No detail, or no answer: a message, and nothing else changes.           *)
OpenFails(o) ==
    /\ Spend("failure")
    /\ opens' = opens \ {o}
    /\ mixed' = TRUE
    /\ UNCHANGED <<client, app, detail, selected, nav, replaying, loads, answered>>

(* The tabs; the pinned function is the one the pointer is at.             *)
ShowView(v) ==
    /\ Spend(IF v = "security" THEN "security" ELSE "view")
    /\ v # app.view /\ (v \in {"upload", "reports"} \/ Loaded)
    /\ app' = [app EXCEPT !.view = v]
    /\ UNCHANGED <<client, detail, selected, nav, replaying, loads, opens, answered, mixed>>

PinRoot ==
    /\ Spend("view")
    /\ app.view = "analysis" /\ nav.index > 0
    /\ app' = [app EXCEPT !.root = nav.trail[nav.index]] /\ app' # app
    /\ UNCHANGED <<client, detail, selected, nav, replaying, loads, opens, answered, mixed>>

WorkspaceInit ==
    /\ client = [mode |-> "api", run |-> "current"]
    /\ app = [mode |-> "api", run |-> "sample-notepad", data |-> "none", view |-> "upload",
              asking |-> FALSE, root |-> None]
    /\ detail = NoFunction /\ selected = NoFunction
    /\ nav = NoTrail /\ replaying = None
    /\ loads = {} /\ opens = {}
    /\ answered = [load |-> TRUE, open |-> TRUE, source |-> TRUE] /\ mixed = FALSE

(***************************************************************************)
(* Properties                                                              *)
(***************************************************************************)

(* What is on screen is the run all requests go to, in the mode the menu   *)
(* ticks, once the loads have been answered and the last one was answered  *)
(* last: the run that was opened first does not end up under the id of the *)
(* other.  Functions opened since are of that run too; the one that was    *)
(* open before, loadRun leaves on screen.                                  *)
ScreenIsOneRun ==
    loads = {} /\ Loaded /\ answered.load /\ answered.source =>
        /\ app.data = Source(client)
        /\ app.run = client.run
        /\ app.mode = client.mode
        /\ nav.trail # <<>> /\ ~mixed => detail.source = app.data

(* The crumb at the pointer is the function on screen, and retracing only  *)
(* moves the pointer: a function reached by a jump is not visited again.   *)
(* Left out are functions asked for while another, or a run, was on its    *)
(* way, and those that never came.                                         *)
TrailTellsWay ==
    [][~mixed' =>
        /\ Asked("analysis")' = {} /\ answered'.open /\ nav'.trail # <<>> =>
              /\ nav'.index \in DOMAIN nav'.trail
              /\ nav'.trail[nav'.index] = detail'.va
        /\ \A i \in 1 .. Len(nav'.trail) - 1 : nav'.trail[i] # nav'.trail[i + 1]
        /\ \A o \in opens : o.jump /\ Gone(o)' => nav' = nav
      ]_appVars

(* "Both end at the same piece of state, so the two views never disagree   *)
(* about what is selected" (App.tsx, l.360-361).                           *)
OneSelection == opens = {} => detail = selected

(* "Without this the trail would grow every time you tried to retrace it"  *)
(* (App.tsx, l.298-299).                                                   *)
RetracingKeepsTrail ==
    [][\A o \in opens : o.jump /\ Gone(o)' => nav'.trail = nav.trail]_appVars
=============================================================================
