----------------------------- MODULE JsonStore ------------------------------
(***************************************************************************)
(* How backend/store.js keeps the promise of AtomicFile: a chain of        *)
(* promises per file, which the map `writeQueues` holds by its tail, and   *)
(* for each write a temporary file of its own, renamed over the real one.  *)
(*                                                                         *)
(* Everything between two awaits is one step.  The library behind `fs` is  *)
(* external: a write is not atomic (a temporary file is torn while it is   *)
(* written), a rename is, and each may fail.                               *)
(***************************************************************************)
EXTENDS Naturals, FiniteSets

CONSTANTS
    Ops, Fields, Replace, Sets, Nobody,     \* as in AtomicFile
    Torn,       \* the content of a file that is not a whole document
    None,       \* no call, no temporary file
    MayFail,    \* whether reading, writing and renaming may fail
    Restarts    \* bound: how often the server is restarted

VARIABLES
    file,       \* the document on disk
    at,         \* where each call stands
    got,        \* the document a patch read
    tmp,        \* the temporary file of each call
    prev,       \* the promise a call was chained to when it was made
    tail,       \* writeQueues.get(file)
    released,   \* calls whose callback on the settled tail has run
    crashes,    \* restarts so far
    uncleaned,  \* history: calls whose temporary file could not be removed
    ticket,     \* history: in which place the call was made
    made        \* history: the number of calls made

storeVars == <<file, at, got, tmp, prev, tail, released, crashes, uncleaned, ticket, made>>

Answered == {"ok", "failed", "lost"}
Running == {"read", "writing", "written", "cleanup"}
Places == {"idle", "waiting"} \cup Running \cup Answered

\* What the callers can see of a call.
answer == [o \in Ops |-> IF at[o] \in {"waiting"} \cup Running
                         THEN "pending" ELSE at[o]]

\* What the callers are promised, with what they see for the answers.
Promise ==
    INSTANCE AtomicFile WITH
        file <- file, answer <- answer, ticket <- ticket, made <- made

Docs == Promise!Docs
NoDoc == Promise!NoDoc
Applied(d, o) == Promise!Applied(d, o)

ASSUME ReplaceAssumption == Replace \subseteq Ops
ASSUME SetsAssumption == Sets \in [Ops -> SUBSET Fields]
ASSUME NobodyAssumption == Nobody \notin Ops
ASSUME TornAssumption == Torn \notin Docs /\ Torn # None /\ None \notin Docs
ASSUME NoneAssumption == None \notin Ops
ASSUME BoundAssumption == MayFail \in BOOLEAN /\ Restarts \in Nat

Unsettled == {o \in Ops : at[o] \notin Answered}

\* Mutant: a call goes on only if the one before it succeeded (`.then(work)`).
Turn_AfterOk(o) == at[o] = "waiting" /\ prev[o] \notin {p \in Ops : at[p] # "ok"}

\* The call's turn: `previous.then(work, work)` runs work however it settled.
Turn(o) == at[o] = "waiting" /\ prev[o] \notin Unsettled

Goto(o, place) == at' = [at EXCEPT ![o] = place]

StoreInit ==
    /\ file = NoDoc
    /\ at = [o \in Ops |-> "idle"]
    /\ got = [o \in Ops |-> NoDoc]
    /\ tmp = [o \in Ops |-> None]
    /\ prev = [o \in Ops |-> None]
    /\ tail = None
    /\ released = {}
    /\ crashes = 0
    /\ uncleaned = {}
    /\ ticket = [o \in Ops |-> 0]
    /\ made = 0

Called(o) ==
    /\ at[o] = "idle"
    /\ Goto(o, "waiting")
    /\ tail' = o
    /\ made' = made + 1
    /\ ticket' = [ticket EXCEPT ![o] = made + 1]
    /\ UNCHANGED <<file, got, tmp, released, crashes, uncleaned>>

Enqueue(o) == Called(o) /\ prev' = [prev EXCEPT ![o] = tail]

\* patchJson reads the document it will merge into; a missing one is {}.
Read(o) ==
    /\ Turn(o)
    /\ o \notin Replace
    /\ got' = [got EXCEPT ![o] = file]
    /\ Goto(o, "read")
    /\ UNCHANGED <<file, tmp, prev, tail, released, crashes, uncleaned, ticket, made>>

\* Reading the document fails, or making the directory of the file (l.132):
\* there is no temporary file yet.
StartFails(o) ==
    /\ MayFail
    /\ Turn(o) \/ at[o] = "read"
    /\ Goto(o, "failed")
    /\ UNCHANGED <<file, got, tmp, prev, tail, released, crashes, uncleaned, ticket, made>>

\* writeFile creates the temporary file, torn until it is filled.
OpenTmp(o) ==
    /\ IF o \in Replace THEN Turn(o) ELSE at[o] = "read"
    /\ tmp' = [tmp EXCEPT ![o] = Torn]
    /\ Goto(o, "writing")
    /\ UNCHANGED <<file, got, prev, tail, released, crashes, uncleaned, ticket, made>>

FillTmp(o) ==
    /\ at[o] = "writing"
    /\ tmp' = [tmp EXCEPT ![o] = Applied(got[o], o)]
    /\ Goto(o, "written")
    /\ UNCHANGED <<file, got, prev, tail, released, crashes, uncleaned, ticket, made>>

\* Mutant: the file is renamed before it is filled.
Rename_Early(o) ==
    /\ at[o] \in {"writing", "written"}
    /\ file' = tmp[o]
    /\ tmp' = [tmp EXCEPT ![o] = None]
    /\ Goto(o, "ok")
    /\ UNCHANGED <<got, prev, tail, released, crashes, uncleaned, ticket, made>>

Rename(o) ==
    /\ at[o] = "written"
    /\ file' = tmp[o]
    /\ tmp' = [tmp EXCEPT ![o] = None]
    /\ Goto(o, "ok")
    /\ UNCHANGED <<got, prev, tail, released, crashes, uncleaned, ticket, made>>

WriteFails(o) ==
    /\ MayFail
    /\ at[o] \in {"writing", "written"}
    /\ Goto(o, "cleanup")
    /\ UNCHANGED <<file, got, tmp, prev, tail, released, crashes, uncleaned, ticket, made>>

\* Mutant: the catch block only rethrows.
Cleanup_KeepsTmp(o) ==
    /\ at[o] = "cleanup"
    /\ Goto(o, "failed")
    /\ UNCHANGED <<file, got, tmp, prev, tail, released, crashes, uncleaned, ticket, made>>

\* The catch block removes the temporary file and rethrows.
Cleanup(o) ==
    /\ at[o] = "cleanup"
    /\ tmp' = [tmp EXCEPT ![o] = None]
    /\ Goto(o, "failed")
    /\ UNCHANGED <<file, got, prev, tail, released, crashes, uncleaned, ticket, made>>

\* The removal is awaited and may be rejected too (`force` only passes over a
\* file that is missing): the call still fails and its temporary file stays.
CleanupFails(o) ==
    /\ MayFail
    /\ at[o] = "cleanup"
    /\ uncleaned' = uncleaned \cup {o}
    /\ Goto(o, "failed")
    /\ UNCHANGED <<file, got, tmp, prev, tail, released, crashes, ticket, made>>

\* Mutant: the entry is dropped whoever is last.
Release_Always(o) ==
    /\ at[o] \in Answered
    /\ o \notin released
    /\ released' = released \cup {o}
    /\ tail' = None
    /\ UNCHANGED <<file, at, got, tmp, prev, crashes, uncleaned, ticket, made>>

\* `tail.then(...)`: the last call of the chain drops the map's entry.
Release(o) ==
    /\ at[o] \in Answered
    /\ o \notin released
    /\ released' = released \cup {o}
    /\ tail' = IF tail = o THEN None ELSE tail
    /\ UNCHANGED <<file, at, got, tmp, prev, crashes, uncleaned, ticket, made>>

\* The process dies and is started again: the files stay, the chain is gone.
Restart ==
    /\ crashes < Restarts
    /\ crashes' = crashes + 1
    /\ at' = [o \in Ops |-> IF answer[o] = "pending" THEN "lost" ELSE at[o]]
    /\ tail' = None
    /\ released' = {o \in Ops : at[o] # "idle"}
    /\ UNCHANGED <<file, got, tmp, prev, uncleaned, ticket, made>>

Work(o) ==
    \/ Read(o) \/ StartFails(o) \/ OpenTmp(o) \/ FillTmp(o) \/ Rename(o)
    \/ WriteFails(o) \/ Cleanup(o) \/ CleanupFails(o) \/ Release(o)

StoreNext == (\E o \in Ops : Enqueue(o) \/ Work(o)) \/ Restart

StoreSpec == StoreInit /\ [][StoreNext]_storeVars

\* The event loop runs every callback that is ready.
FairSpec == StoreSpec /\ \A o \in Ops : WF_storeVars(Work(o))
-----------------------------------------------------------------------------
TypeOK ==
    /\ file \in Docs
    /\ at \in [Ops -> Places]
    /\ got \in [Ops -> Docs]
    /\ tmp \in [Ops -> Docs \cup {Torn, None}]
    /\ prev \in [Ops -> Ops \cup {None}]
    /\ tail \in Ops \cup {None}
    /\ released \subseteq Ops
    /\ crashes \in Nat
    /\ uncleaned \subseteq Ops
    /\ ticket \in [Ops -> Nat]
    /\ made \in Nat

\* Calls take effect one at a time, whole, and in the order they were made:
\* the two problems named in the comment at l.98-111 are gone, and no reader
\* sees half a document, whatever fails and wherever the server restarts.
Atomic == Promise!Spec

\* Nothing is left behind but what the code cannot take away.  A temporary file
\* is of a call that is writing it, of one the server died under, or of one that
\* failed and whose removal failed too (l.142-145): never of a call that
\* succeeded.  Once nobody writes, the map holds no promise for the file
\* (l.124-125).
NothingLeft ==
    /\ \A o \in Ops : tmp[o] # None =>
         \/ at[o] \in {"writing", "written", "cleanup", "lost"}
         \/ at[o] = "failed" /\ o \in uncleaned
    /\ (\A o \in Ops : at[o] = "idle" \/ o \in released) => tail = None

\* "One failed write does not stall every later write" (l.117-119).
EveryCallSettles ==
    \A o \in Ops : at[o] = "waiting" ~> at[o] \in Answered
=============================================================================
