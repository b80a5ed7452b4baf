---------------------------- MODULE AnalysisTab -----------------------------
(***************************************************************************)
(* What the Analysis tab shows beside the listing: the decompiler pane     *)
(* (ui/Decompiler.tsx), the call card with the cache behind it             *)
(* (ui/CallCard.tsx, ui/useFunctionBlurb.ts, AnalysisView.tsx) and the     *)
(* path from the pinned root (ui/RootPath.tsx).                            *)
(*                                                                         *)
(* The pane lives as long as one address is on screen.  The poll of a lift *)
(* is not its effect: it goes on after the pane is gone, asks about its    *)
(* own address in whatever run is open, and its five minutes end on their  *)
(* own clock.  Stored lifts are AiResults's, reduced to the current one.   *)
(* What the pane itself asks for is answered at once; what the card asks   *)
(* for is not.                                                             *)
(***************************************************************************)
EXTENDS Workspace, CallPaths

CONSTANTS
    Programs,       \* assignments of a call graph to each run and the sample
    SampleLifted    \* the functions the sample has a lift of

VARIABLES
    lifts,      \* stored: [Sources -> [Vas -> versions]]
    model,      \* lifts the model has been asked for: source and address
    pane,       \* mount counts the panes there have been; lifted, state, busy
    fetch,      \* the pane's first getLifted is under way: its source, or none
    waits,      \* polls of lifts
    cache,      \* useFunctionBlurb's: [Vas -> what was last read]
    lookups,    \* its requests under way
    card,       \* the call card: address and pinned
    program,    \* the call graph of each source
    graph,      \* RootPath's graph: its source, or none while it is fetched
    told,       \* ghost: functions whose lift has come in through a poll, and
                \* which no lookup has read before it or failed to read since
    foreign,    \* ghost: a run was opened over a function of another
    reviewed    \* ghost: a version has been reviewed

tabVars == <<lifts, model, pane, fetch, waits, cache, lookups, card, program, graph,
             told, foreign, reviewed>>
paneVars == <<pane, fetch, waits>>
cardVars == <<cache, lookups, card>>
serverVars == <<lifts, model>>

Sources == Runs \cup {Sample}

ASSUME GraphsAssumption ==
    \A p \in Programs, s \in Sources :
        IsGraph(p[s]) /\ Vas \subseteq DOMAIN p[s].calls

Unasked == [known |-> "unasked"]
Unanswered == [known |-> "unread"]
NoCard == [va |-> None, pinned |-> FALSE]

(* A version: its id (none in the sample) and its text.                    *)
Version(src, va, id, text) ==
    [known |-> "lift", source |-> src, va |-> va, id |-> id, text |-> text]
NoLift == [known |-> "absent", source |-> "none", va |-> None, id |-> None, text |-> 0]
OnScreen == app.view = "analysis" /\ detail # NoFunction
Waiting == pane.state \in {"queued", "running"}
Mine(w) == w.mount = pane.mount

(***************************************************************************)
(* The server                                                              *)
(***************************************************************************)

(* The answer of the workflow: a new version, or none ever comes.          *)
ModelAnswers(q) ==
    /\ model' = model \ {q}
    /\ LET old == lifts[q.source][q.va]
           n == IF old = NoLift THEN 1 ELSE old.id + 1
       IN  lifts' = [lifts EXCEPT ![q.source][q.va] = Version(q.source, q.va, n, n)]
    /\ UNCHANGED <<paneVars, cardVars, program, graph, told, foreign, reviewed>>

(***************************************************************************)
(* The pane                                                                *)
(***************************************************************************)

(* The function on screen changes: a new address gets a new pane, which    *)
(* asks for its lift; the card goes.  The same address keeps its pane.     *)
Follows ==
    /\ IF detail'.va # detail.va
       THEN /\ pane' = [mount |-> pane.mount + 1, lifted |-> NoLift,
                        state |-> "not-run", busy |-> FALSE]
            /\ fetch' = Source(client)
            /\ card' = NoCard
       ELSE UNCHANGED <<pane, fetch, card>>
    /\ foreign' = (foreign \/ detail'.source # Source(client)
                           \/ (detail'.va = detail.va /\ detail'.source # detail.source))
    /\ UNCHANGED <<serverVars, waits, cache, lookups, program, graph, told, reviewed>>

(* A run is opened, the source switched, or another tab shown: the pane    *)
(* stays, the path goes when its root or the tab does.                     *)
Leaves ==
    /\ graph' = IF app'.root = None \/ app'.view # "analysis" THEN "none" ELSE graph
    /\ foreign' = (foreign \/ (detail # NoFunction /\ Source(client') # Source(client)))
    /\ UNCHANGED <<serverVars, paneVars, cardVars, program, told, reviewed>>

FetchAnswered ==
    /\ fetch # "none" /\ fetch' = "none"
    /\ LET read == lifts[fetch][detail.va]
       IN  pane' = [pane EXCEPT !.lifted = read,
                                !.state = IF read = NoLift THEN "not-run" ELSE "done"]
    /\ UNCHANGED <<serverVars, waits, cardVars, program, graph, told, foreign, reviewed>>

(* The pane says what went wrong, and stays as it was.                     *)
FetchFails ==
    /\ Spend("failure")
    /\ fetch \notin {"none", Sample} /\ fetch' = "none"
    /\ UNCHANGED <<serverVars, pane, waits, cardVars, program, graph, told, foreign, reviewed>>

(* requestLift and reviewLift, which do nothing in the sample.  A review   *)
(* makes a new version of the text that is stored.                         *)
RequestLift ==
    model' = IF client.mode = "sample" THEN model
             ELSE model \cup {[source |-> Source(client), va |-> detail.va]}
ReviewLift ==
    LET stored == lifts[Source(client)][detail.va]
    IN  lifts' = IF client.mode = "sample" \/ stored = NoLift THEN lifts
                 ELSE [lifts EXCEPT ![Source(client)][detail.va].id = @ + 1]

(* onLift up to the answer to the POST.  A lift in the sample changes      *)
(* nothing; one of a run is queued, or under way when it is answered.      *)
PressLift ==
    /\ Spend("lift")
    /\ OnScreen /\ ~pane.busy /\ pane.state # "running"
    /\ pane' = [pane EXCEPT !.busy = TRUE]
    /\ waits' = waits \cup {[n |-> Fresh(waits), mount |-> pane.mount, va |-> detail.va,
                             before |-> pane.lifted, source |-> Source(client),
                             at |-> "asked"]}
    /\ RequestLift
    /\ UNCHANGED <<lifts, fetch, cardVars, program, graph, told, foreign, reviewed>>

(* The pane, if it is still there; a pane that is gone takes no state.     *)
SetPane(w, p) == pane' = IF Mine(w) THEN p ELSE pane
Now(w, at) == waits' = (waits \ {w}) \cup {[w EXCEPT !.at = at]}

LiftQueued(w) ==
    /\ w.at = "asked" /\ w.source # Sample
    /\ \E s \in {"queued", "running"} : SetPane(w, [pane EXCEPT !.state = s, !.busy = FALSE])
    /\ Now(w, "polling")
    /\ UNCHANGED <<serverVars, fetch, cardVars, program, graph, told, foreign, reviewed>>

(* forgetBlurb                                                             *)
(* Mutant: the cache is left alone.                                        *)
Forget_Kept(va) == UNCHANGED <<cache, lookups>>
Forget(va) ==
    /\ cache' = [cache EXCEPT ![va] = Unasked]
    /\ lookups' = {[l EXCEPT !.joined = @ /\ l.va # va] : l \in lookups}

(* A reply that is neither: what is stored is shown.                       *)
LiftOver(w) ==
    /\ w.at = "asked"
    /\ LET stored == lifts[Source(client)][w.va]
       IN  SetPane(w, [pane EXCEPT !.lifted = stored, !.busy = FALSE,
                           !.state = IF w.source = Sample /\ w.va \notin SampleLifted
                                     THEN "not-run" ELSE "done"])
    /\ Forget(w.va)
    /\ waits' = waits \ {w}
    /\ UNCHANGED <<serverVars, fetch, card, program, graph, told, foreign, reviewed>>

LiftFails(w) ==
    /\ Spend("failure")
    /\ w.at = "asked"
    /\ SetPane(w, [pane EXCEPT !.state = "failed", !.busy = FALSE])
    /\ waits' = waits \ {w}
    /\ UNCHANGED <<serverVars, fetch, cardVars, program, graph, told, foreign, reviewed>>

(* isNew                                                                   *)
(* Mutant: any version will do.                                            *)
IsNew_Any(w, read) == read # NoLift
IsNew(w, read) ==
    /\ read # NoLift
    /\ \/ w.before.id = None
       \/ <<read.source, read.id>> # <<w.before.source, w.before.id>>

(* A tick of the poll asks for its address in the run that is open now; a  *)
(* version that is not new changes nothing.                                *)
PollLands(w) ==
    LET read == lifts[Source(client)][w.va]
    IN  /\ w.at = "polling" /\ IsNew(w, read)
        /\ SetPane(w, [pane EXCEPT !.lifted = read, !.state = "done"])
        /\ Forget(w.va)
        /\ Now(w, "landed")
        /\ told' = IF \E l \in lookups : l.va = w.va /\ l.read = NoLift THEN told
                   ELSE told \cup {w.va}
        /\ UNCHANGED <<serverVars, fetch, card, program, graph, foreign, reviewed>>

(* Five minutes after the request, whether the poll has landed or not.     *)
(* Mutant: the poll stops and says nothing.                                *)
GivenUp_Silently(w) == pane
GivenUp(w) == IF Waiting THEN [pane EXCEPT !.state = "failed"] ELSE pane

Expire(w) ==
    /\ w.at \in {"polling", "landed"}
    /\ waits' = waits \ {w}
    /\ SetPane(w, GivenUp(w))
    /\ UNCHANGED <<serverVars, fetch, cardVars, program, graph, told, foreign, reviewed>>

(* Accept or reject: the server stores the version again under a new id,   *)
(* and the pane keeps the old one.                                         *)
Review ==
    /\ Spend("review")
    /\ OnScreen /\ ~pane.busy /\ pane.lifted # NoLift
    /\ ReviewLift
    /\ reviewed' = TRUE
    /\ UNCHANGED <<model, paneVars, cardVars, program, graph, told, foreign>>

(***************************************************************************)
(* The card                                                                *)
(***************************************************************************)

(* The effect of useFunctionBlurb: a lookup, or that of another joined.    *)
Wonder(va) ==
    lookups' = IF cache[va] # Unasked \/ \E l \in lookups : l.va = va /\ l.joined THEN lookups
               ELSE lookups \cup {[n |-> Fresh(lookups), va |-> va, joined |-> TRUE,
                                   source |-> Source(client), read |-> Unanswered]}

ShowCard(va, pinned) ==
    /\ Spend("card") /\ OnScreen
    /\ ~card.pinned \/ pinned
    /\ card' = [va |-> va, pinned |-> pinned] /\ card' # card
    /\ IF va # card.va THEN Wonder(va) ELSE UNCHANGED lookups
    /\ UNCHANGED <<serverVars, paneVars, cache, program, graph, told, foreign, reviewed>>

(* The mouse leaves, a click elsewhere, a scroll, Escape.                  *)
DropCard ==
    /\ Spend("card")
    /\ card # NoCard /\ card' = NoCard
    /\ UNCHANGED <<serverVars, paneVars, cache, lookups, program, graph, told, foreign, reviewed>>

LookupRead(l) ==
    /\ l.read = Unanswered
    /\ lookups' = (lookups \ {l}) \cup {[l EXCEPT !.read = lifts[l.source][l.va]]}
    /\ UNCHANGED <<serverVars, paneVars, cache, card, program, graph, told, foreign, reviewed>>

(* What a lookup ends with goes into the cache; the entry of the address   *)
(* goes, whose ever it is.                                                 *)
Enter(l, read) ==
    /\ cache' = [cache EXCEPT ![l.va] = read]
    /\ lookups' = {[k EXCEPT !.joined = @ /\ k.va # l.va] : k \in lookups \ {l}}

LookupOver(l) ==
    /\ l.read # Unanswered
    /\ Enter(l, l.read)
    /\ UNCHANGED <<serverVars, paneVars, card, program, graph, told, foreign, reviewed>>

(* A lookup that fails, before the server has read or after, is entered as *)
(* a function without a lift, and is not tried again.                      *)
LookupFails(l) ==
    /\ Spend("failure")
    /\ l.source # Sample
    /\ Enter(l, NoLift)
    /\ told' = told \ {l.va}
    /\ UNCHANGED <<serverVars, paneVars, card, program, graph, foreign, reviewed>>

(***************************************************************************)
(* The path                                                                *)
(***************************************************************************)

(* The graph is fetched when a root is first pinned in a run, and belongs  *)
(* to that run.                                                            *)
GetCallGraph == graph' = Source(client)
GraphAnswered ==
    /\ app.root # None /\ app.view = "analysis" /\ graph = "none"
    /\ GetCallGraph
    /\ UNCHANGED <<serverVars, paneVars, cardVars, program, told, foreign, reviewed>>

TabInit ==
    /\ lifts = [s \in Sources |-> [v \in Vas |->
                   IF s = Sample /\ v \in SampleLifted THEN Version(s, v, None, 1) ELSE NoLift]]
    /\ model = {} /\ fetch = "none" /\ waits = {}
    /\ pane = [mount |-> 0, lifted |-> NoLift, state |-> "not-run", busy |-> FALSE]
    /\ cache = [v \in Vas |-> Unasked] /\ lookups = {} /\ card = NoCard
    /\ program \in Programs /\ graph = "none"
    /\ told = {} /\ foreign = FALSE /\ reviewed = FALSE

(***************************************************************************)
(* Properties                                                              *)
(***************************************************************************)

(* A pane that says a lift is under way has a poll that will end it: with  *)
(* the new version or, after five minutes, with a message, so that it does *)
(* not sit on "queued" forever (Decompiler.tsx, l.100-106).                *)
LiftWatched ==
    Waiting => \E w \in waits : Mine(w) /\ w.at \in {"polling", "landed"}

(* A poll ends with another text of this function than the one that was on *)
(* screen when the lift was asked for, and "done" is said of it, unless a  *)
(* version has been reviewed or another run opened meanwhile.              *)
Landed(w) == w.at = "polling" /\ (\E k \in waits' : k.n = w.n /\ k.at = "landed")
LiftIsNew ==
    [][~reviewed /\ ~foreign' =>
        \A w \in waits : Mine(w) /\ Landed(w) =>
            /\ pane'.state = "done"
            /\ pane'.lifted.va = detail.va /\ pane'.lifted.source = detail.source
            /\ w.before # NoLift => pane'.lifted.text # w.before.text]_tabVars

(* "Re-lift has to wait for a *different* result, not just any result"     *)
(* (Decompiler.tsx, l.66-72).                                              *)
ReliftWaits ==
    [][\A w \in waits : Mine(w) /\ Landed(w) /\ w.before # NoLift =>
           <<pane'.lifted.source, pane'.lifted.text>> # <<w.before.source, w.before.text>>]_tabVars

(* The pane shows a lift of the function on screen and not one that was    *)
(* late for another.  A lift that has come in through a poll, the card     *)
(* does not deny, unless a lookup that had read before it was still on its *)
(* way when it came, or a lookup of the function has failed since.         *)
TabShowsOwn ==
    /\ pane.lifted # NoLift => /\ pane.lifted.va = detail.va
                               /\ ~foreign => pane.lifted.source = detail.source
    /\ ~foreign => \A v \in told : cache[v] # NoLift

(* "A description appears once the AI pass reaches this function"          *)
(* (CallCard.tsx, l.105-108).                                              *)
CardKeepsUp ==
    card # NoCard /\ cache[card.va] = NoLift /\ lookups = {} =>
        lifts[Source(client)][card.va] = NoLift

(* The path from the root is a shortest chain of calls in the graph of the *)
(* open run, and where it says that there is none, with no reservation,    *)
(* the program cannot get there, by calls through pointers either.         *)
PathTruthful ==
    app.root # None /\ graph # "none" /\ nav.index > 0 =>
        /\ graph = Source(client)
        /\ PathRight(program[graph], app.root, nav.trail[nav.index])
=============================================================================
