----------------------------- MODULE AtomicFile -----------------------------
(***************************************************************************)
(* What backend/store.js promises of one JSON file: calls of writeJson and *)
(* patchJson take effect one at a time, in the order they were made, each  *)
(* in one step and wholly or not at all.                                   *)
(*                                                                         *)
(* A document is described by who wrote each of its fields last.           *)
(***************************************************************************)
EXTENDS Naturals

CONSTANTS
    Ops,        \* the calls made over the life of the file
    Fields,     \* the fields of the document
    Replace,    \* the calls that are writeJson; the others are patchJson
    Sets,       \* Sets[o]: the fields in the value or patch of call o
    Nobody      \* the writer of a field the document does not have


Docs == [Fields -> Ops \cup {Nobody}]
NoDoc == [f \in Fields |-> Nobody]

\* What call o makes of the document d.
Applied(d, o) ==
    [f \in Fields |-> IF f \in Sets[o] THEN o
                      ELSE IF o \in Replace THEN Nobody ELSE d[f]]

VARIABLES
    file,       \* the document; a missing file is NoDoc
    answer,     \* what the promise returned by each call has settled to
    ticket,     \* in which place the call was made
    made        \* the number of calls made

vars == <<file, answer, ticket, made>>

Answers == {"idle", "pending", "ok", "failed", "lost"}
Pending == {o \in Ops : answer[o] = "pending"}

Init ==
    /\ file = NoDoc
    /\ answer = [o \in Ops |-> "idle"]
    /\ ticket = [o \in Ops |-> 0]
    /\ made = 0

Call(o) ==
    /\ answer[o] = "idle"
    /\ answer' = [answer EXCEPT ![o] = "pending"]
    /\ ticket' = [ticket EXCEPT ![o] = made + 1]
    /\ made' = made + 1
    /\ UNCHANGED file

\* o is the earliest call that has not been answered.
First(o) == o \in Pending /\ \A p \in Pending : ticket[o] <= ticket[p]

Take(o) ==
    /\ First(o)
    /\ file' = Applied(file, o)
    /\ answer' = [answer EXCEPT ![o] = "ok"]
    /\ UNCHANGED <<ticket, made>>

Fail(o) ==
    /\ First(o)
    /\ answer' = [answer EXCEPT ![o] = "failed"]
    /\ UNCHANGED <<file, ticket, made>>

\* The server stops: calls that were not answered have no effect any more.
Crash ==
    /\ answer' = [o \in Ops |-> IF o \in Pending THEN "lost" ELSE answer[o]]
    /\ UNCHANGED <<file, ticket, made>>

Next == (\E o \in Ops : Call(o) \/ Take(o) \/ Fail(o)) \/ Crash

Spec == Init /\ [][Next]_vars

TypeOK ==
    /\ file \in Docs
    /\ answer \in [Ops -> Answers]
    /\ ticket \in [Ops -> Nat]
    /\ made \in Nat
=============================================================================
