------------------------------- MODULE Filters -------------------------------
(***************************************************************************)
(* Array methods of JavaScript that take a function, without the function: *)
(* what filter and sort make of a sequence, in terms of places and sets.   *)
(***************************************************************************)
EXTENDS Naturals, FiniteSets, Sequences

(* A set of numbers, in ascending order.                                   *)
ListOf(S) ==
    [i \in 1 .. Cardinality(S) |-> CHOOSE f \in S : Cardinality({g \in S : g < f}) = i - 1]

(* filter: the entries of s at some places, those in S, each one once.     *)
At(s, places) == [k \in 1 .. Cardinality(places) |-> s[ListOf(places)[k]]]
Keep(s, S) == At(s, {i \in DOMAIN s : s[i] \in S})
Distinct(s) == At(s, {i \in DOMAIN s : \A j \in 1 .. i - 1 : s[j] # s[i]})

(* sort by descending weight, the weight of s[i] being w[i]; it is stable. *)
Descending(s, w) ==
    LET Before(i, j) == w[i] > w[j] \/ (w[i] = w[j] /\ i < j)
        Place(i) == Cardinality({j \in DOMAIN s : Before(j, i)}) + 1
    IN  [k \in DOMAIN s |-> s[CHOOSE i \in DOMAIN s : Place(i) = k]]
=============================================================================
