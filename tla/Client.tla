------------------------------- MODULE Client -------------------------------
(***************************************************************************)
(* src/frontend-react/src/api/client.ts as far as its callers can tell:    *)
(* the data mode and the run every request is about are variables of the   *)
(* module, read when a request is made.  All pages share them.             *)
(***************************************************************************)
EXTENDS Naturals, FiniteSets, Sequences, SequencesExt

CONSTANTS
    Runs,       \* run ids
    Modes       \* a subset of {"api", "sample"} that has "api"

ASSUME ClientAssumption ==
    /\ "api" \in Modes /\ Modes \subseteq {"api", "sample"}
    /\ Runs \cap {"none", "sample"} = {}

VARIABLES
    client,     \* mode and runId of client.ts
    left        \* bound: what remains of the events people cause

(* Where an answer comes from: the embedded sample, or a run.              *)
Sample == "sample"
Source(c) == IF c.mode = "sample" THEN Sample ELSE c.run

(* Requests under way are told apart by a number, and one is the newest.   *)
Fresh(S) == CHOOSE n \in 1 .. Cardinality(S) + 1 : \A x \in S : x.n # n
Older(S) == {[x EXCEPT !.newest = FALSE] : x \in S}

Configure(m, r) == client' = [mode |-> m, run |-> r]
Spend(e) == left[e] > 0 /\ left' = [left EXCEPT ![e] = @ - 1]
=============================================================================
