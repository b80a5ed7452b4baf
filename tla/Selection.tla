----------------------------- MODULE Selection -----------------------------
(***************************************************************************)
(* Which functions a batch is about: the pure part of                      *)
(* src/backend/aijobs.js (selectFunctions, expandSelection and             *)
(* selectionForFindings), over the documents the engine exported.          *)
(*                                                                         *)
(* A program is a record: excluded (thunks, import stubs, library code),   *)
(* score, callees, order (callgraph.json's processing_order, which need    *)
(* not mention every function) and findings (the function with the risky   *)
(* call and the path to it).  Functions are numbers; functions.json and    *)
(* every callee list are in ascending order.                               *)
(***************************************************************************)
EXTENDS Naturals, FiniteSets, Sequences, SequencesExt, Filters

CONSTANTS
    Fns,            \* the functions of functions.json
    WorthReview,    \* WORTH_REVIEW_SCORE
    MaxAutomatic,   \* MAX_AUTOMATIC
    MaxExpanded     \* MAX_EXPANDED

ASSUME SelectionAssumption ==
    /\ Fns \subseteq Nat /\ IsFiniteSet(Fns) /\ WorthReview \in Nat
    /\ MaxAutomatic \in Nat \ {0} /\ MaxExpanded \in Nat \ {0}

Tasks == {"decompile", "bugs", "behaviour"}
NoLimit == 0        \* limit: null, the automated mode
Deepest == 7        \* the depth control's last level

Lesser(i, j) == IF i < j THEN i ELSE j
Prefix(s, n) == SubSeq(s, 1, Lesser(n, Len(s)))

(* Array.sort by descending score.                                         *)
ByScore(p, s) == Descending(s, [i \in DOMAIN s |-> p.score[s[i]]])

(***************************************************************************)
(* selectFunctions                                                         *)
(***************************************************************************)
Open(p, f) == f \notin p.excluded

(* The candidates and the ceiling: a named set overrides every filter, no  *)
(* limit means the functions that clear the engine's own bar, if any does. *)
Candidates(p, limit, only) ==
    LET open == {f \in Fns : Open(p, f)}
        worth == {f \in open : p.score[f] >= WorthReview}
    IN  ListOf(IF only # {} THEN only \cap Fns
               ELSE IF limit = NoLimit /\ worth # {} THEN worth
               ELSE open)
Ceiling(p, limit, only) ==
    IF only # {} THEN Cardinality(only \cap Fns)
    ELSE IF limit = NoLimit THEN MaxAutomatic
    ELSE limit

(* Decompilation: the score decides which, the engine's order when.        *)
(* Mutant: the ceiling cuts the engine's order.                            *)
BottomUp_FirstInOrder(p, candidates, ceiling) ==
    LET ordered == Keep(p.order, ToSet(candidates))
        leftover == Keep(candidates, Fns \ ToSet(ordered))
    IN  Prefix(ordered \o ByScore(p, leftover), ceiling)

BottomUp(p, candidates, ceiling) ==
    LET ordered == Keep(p.order, ToSet(candidates))
        leftover == Keep(candidates, Fns \ ToSet(ordered))
        walk == ordered \o ByScore(p, leftover)
    IN  Keep(walk, ToSet(Prefix(ByScore(p, walk), ceiling)))

Sinks(p) == [i \in DOMAIN p.findings |-> p.findings[i].fn]
OnPath(p) ==
    FlattenSeq([i \in DOMAIN p.findings |->
                    <<p.findings[i].fn>> \o p.findings[i].path])
Neighbours(p) ==
    LET path == Distinct(OnPath(p))
    IN  FlattenSeq([i \in DOMAIN path |-> ListOf(p.callees[path[i]])])

(* Bug hunting: the sinks, then their paths, then what those call.         *)
Reachables(p, ceiling) ==
    LET groups == Distinct(Sinks(p) \o OnPath(p) \o Neighbours(p))
    IN  Prefix(Keep(groups, Fns \ p.excluded), ceiling)

SelectFunctions(p, task, limit, only) ==
    LET candidates == Candidates(p, limit, only)
        ceiling == Ceiling(p, limit, only)
    IN  IF task = "decompile" /\ p.order # <<>>
            THEN BottomUp(p, candidates, ceiling)
        ELSE IF task = "bugs" /\ only = {} /\ p.findings # <<>>
            THEN Reachables(p, ceiling)
        ELSE Prefix(ByScore(p, candidates), ceiling)

(***************************************************************************)
(* expandSelection: breadth first through the callees worth following.     *)
(***************************************************************************)
(* Mutant: a selection that is cut does not say so.                        *)
Follow_CutShort(p, walk, f) ==
    LET met == [walk EXCEPT !.seen = @ \cup {f}]
    IN  IF f \in walk.seen \/ Len(walk.selected) >= MaxExpanded THEN met
        ELSE IF f \notin Fns \/ ~Open(p, f) THEN met
        ELSE [met EXCEPT !.selected = Append(@, f), !.next = Append(@, f)]

Follow(p, walk, f) ==
    LET met == [walk EXCEPT !.seen = @ \cup {f}]
    IN  IF f \in walk.seen THEN walk
        ELSE IF f \notin Fns \/ ~Open(p, f) THEN met
        ELSE IF Len(walk.selected) >= MaxExpanded
            THEN [met EXCEPT !.truncated = TRUE]
        ELSE [met EXCEPT !.selected = Append(@, f), !.next = Append(@, f)]

FollowLevel(p, walk) ==
    LET met == FlattenSeq([i \in DOMAIN walk.next |-> ListOf(p.callees[walk.next[i]])])
        W[i \in 0 .. Len(met)] ==
            IF i = 0 THEN [walk EXCEPT !.next = <<>>] ELSE Follow(p, W[i - 1], met[i])
    IN  W[Len(met)]

ExpandSelection(p, roots, depth) ==
    LET chosen == Keep(Distinct(roots), Fns)
        Level[n \in 0 .. Deepest] ==
            IF n = 0
            THEN [selected |-> chosen, next |-> chosen,
                  seen |-> ToSet(chosen), truncated |-> FALSE]
            ELSE FollowLevel(p, Level[n - 1])
    IN  Level[Lesser(depth, Deepest)]

(* selectionForFindings: the functions of some findings and of their paths.*)
SelectionForFindings(p, wanted) ==
    Distinct(FlattenSeq([i \in DOMAIN p.findings |->
        IF i \in wanted THEN <<p.findings[i].fn>> \o p.findings[i].path ELSE <<>>]))

(* The preview route: the functions picked, those of the findings picked,  *)
(* and what they reach.                                                    *)
Preview(p, picked, wanted, depth) ==
    ExpandSelection(p, ListOf(picked) \o SelectionForFindings(p, wanted), depth)

(***************************************************************************)
(* What these are for, defined over the call graph instead.                *)
(***************************************************************************)

(* The functions within n calls of the roots, through functions worth it.  *)
Within(p, roots) ==
    LET W[n \in 0 .. Deepest] ==
        IF n = 0 THEN roots \cap Fns
        ELSE LET near == W[n - 1]
             IN  near \cup {g \in Fns \ p.excluded : \E f \in near : g \in p.callees[f]}
    IN  W

(* One function calls another, at any remove.                              *)
CallsOf(p) ==
    LET C[n \in 0 .. Cardinality(Fns)] ==
        IF n = 0 THEN p.callees
        ELSE LET fewer == C[n - 1]
             IN  [f \in Fns |-> fewer[f] \cup UNION {fewer[g] : g \in fewer[f]}]
    IN  C[Cardinality(Fns)]

Position(s, f) == CHOOSE i \in DOMAIN s : s[i] = f

(* An expansion is all of what is within reach, or says that it is cut and *)
(* has cut nothing nearer than what it kept.                               *)
ExactExpansion(p, roots, depth, walk) ==
    LET reach == Within(p, roots)
        d == Lesser(depth, Deepest)
        got == ToSet(walk.selected)
        Away(f) == CHOOSE n \in 0 .. d : f \in reach[n] /\ (n = 0 \/ f \notin reach[n - 1])
        all == reach[d]
    IN  /\ got \subseteq all
        /\ Cardinality(got) = Len(walk.selected)
        /\ walk.truncated <=> got # all
        /\ Len(walk.selected) > Cardinality(reach[0]) => Len(walk.selected) <= MaxExpanded
        /\ \A f \in got, g \in all \ got : Away(f) <= Away(g)

(* A batch that lifts goes leaves first: a function comes after what it    *)
(* calls, unless they are recursive or the engine's order leaves one out.  *)
LeavesFirst(p, batch) ==
    LET calls == CallsOf(p)
    IN  \A f \in ToSet(batch), g \in ToSet(batch) :
            /\ Contains(p.order, f) /\ Contains(p.order, g)
            /\ g \in p.callees[f] /\ f \notin calls[g]
            => Position(batch, g) < Position(batch, f)

(* What the engine exports; its order is that of Tarjan's algorithm.       *)
IsProgram(p) ==
    /\ p.callees \in [Fns -> SUBSET Fns] /\ p.score \in [Fns -> Nat] /\ p.excluded \subseteq Fns
    /\ p.findings \in Seq([fn : Fns, path : Seq(Fns)])
    /\ p.order \in Seq(Fns) /\ \A i, j \in DOMAIN p.order : p.order[i] = p.order[j] => i = j
    /\ LeavesFirst(p, p.order)

(* An automated batch spends its ceiling on the best there is: no function *)
(* left out scores more than one taken, and room is left only when nothing *)
(* else clears the bar.  A hunt takes the functions with the risky calls   *)
(* before those on the way to them, and these before what they call.       *)
BestFirst(p, batch) ==
    LET open == {f \in Fns : Open(p, f)}
        worth == {f \in open : p.score[f] >= WorthReview}
        pool == IF worth = {} THEN open ELSE worth
        taken == ToSet(batch)
    IN  /\ taken \subseteq pool
        /\ Len(batch) = Cardinality(taken)
        /\ Len(batch) = Lesser(MaxAutomatic, Cardinality(pool))
        /\ \A f \in taken, g \in open \ taken : p.score[g] <= p.score[f]

NearestFirst(p, batch) ==
    LET open == {f \in Fns : Open(p, f)}
        sinks == ToSet(Sinks(p)) \cap open
        path == ToSet(OnPath(p)) \cap open
        near == (path \cup UNION {p.callees[f] : f \in ToSet(OnPath(p))}) \cap open
        Group(f) == IF f \in sinks THEN 1 ELSE IF f \in path THEN 2 ELSE 3
    IN  /\ ToSet(batch) \subseteq near
        /\ Len(batch) = Lesser(MaxAutomatic, Cardinality(near))
        /\ \A i, j \in DOMAIN batch : i < j => batch[i] # batch[j] /\ Group(batch[i]) <= Group(batch[j])
        /\ \A f \in ToSet(batch), g \in near \ ToSet(batch) : Group(f) <= Group(g)
=============================================================================
