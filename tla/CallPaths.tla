----------------------------- MODULE CallPaths ------------------------------
(***************************************************************************)
(* The search of src/frontend-react/src/ui/RootPath.tsx: how the program   *)
(* gets from a pinned function to the one on screen.                       *)
(*                                                                         *)
(* A graph has the calls that callgraph.json lists (a sequence of callees  *)
(* per function, in the order of its edges), the functions with calls      *)
(* through a pointer, and what these calls reach when the program runs,    *)
(* which the page cannot see.                                              *)
(***************************************************************************)
EXTENDS Naturals, FiniteSets, Sequences, SequencesExt

(* Every address that an edge mentions is a node.                          *)
IsGraph(graph) ==
    LET nodes == DOMAIN graph.calls
    IN  IsFiniteSet(nodes) /\ graph.calls \in [nodes -> Seq(nodes)]

(* The inner loops: a level of the search, nodes and children in order.    *)
(* Mutant: where it was come from is written down before the check.        *)
Visit_CameFromFirst(found, node, child) ==
    IF child \in found.seen THEN [found EXCEPT !.from[child] = node]
    ELSE [found EXCEPT !.seen = @ \cup {child}, !.from[child] = node,
                       !.next = Append(@, child)]

Visit(found, node, child) ==
    IF child \in found.seen THEN found
    ELSE [found EXCEPT !.seen = @ \cup {child}, !.from[child] = node,
                       !.next = Append(@, child)]

Children(graph, found, node) ==
    LET calls == graph.calls[node]
        Seen[i \in 0 .. Len(calls)] ==
            IF i = 0 THEN found ELSE Visit(Seen[i - 1], node, calls[i])
    IN  Seen[Len(calls)]

Level(graph, found) ==
    LET frontier == found.next
        Seen[i \in 0 .. Len(frontier)] ==
            IF i = 0 THEN [found EXCEPT !.next = <<>>]
            ELSE Children(graph, Seen[i - 1], frontier[i])
    IN  Seen[Len(frontier)]

(* Breadth first from the root; the search that stops at the target has    *)
(* come to it the same way.                                                *)
Searched(graph, root) ==
    LET nodes == DOMAIN graph.calls
        Within[n \in 0 .. Cardinality(nodes)] ==
            IF n = 0
            THEN [seen |-> {root}, from |-> [v \in nodes |-> v], next |-> <<root>>]
            ELSE Level(graph, Within[n - 1])
    IN  Within[Cardinality(nodes)]

FindPath(graph, root, target) ==
    LET found == Searched(graph, root)
        Back[n \in 0 .. Cardinality(DOMAIN graph.calls)] ==
            IF n = 0 THEN <<target>>
            ELSE LET later == Back[n - 1]
                 IN  IF Head(later) = root THEN later
                     ELSE <<found.from[Head(later)]>> \o later
    IN  IF root = target THEN [kind |-> "self"]
        ELSE IF target \in found.seen
            THEN [kind |-> "path", path |-> Back[Cardinality(DOMAIN graph.calls)]]
        ELSE [kind |-> "none", incomplete |-> graph.indirect \cap found.seen # {}]

(* What it is for.                                                         *)

Hops(graph, root) ==
    LET nodes == DOMAIN graph.calls
        R[n \in 0 .. Cardinality(nodes)] ==
            IF n = 0 THEN {root}
            ELSE LET near == R[n - 1] IN near \cup UNION {ToSet(graph.calls[f]) : f \in near}
    IN  R

(* Everything that may run once the root does, hidden calls included.      *)
MayRun(graph, root) ==
    LET nodes == DOMAIN graph.calls
        R[n \in 0 .. Cardinality(nodes)] ==
            IF n = 0 THEN {root}
            ELSE LET near == R[n - 1]
                 IN  near \cup UNION {ToSet(graph.calls[f]) : f \in near}
                          \cup UNION {graph.hidden[f] : f \in near \cap graph.indirect}
    IN  R[Cardinality(nodes)]

(* A path is a shortest chain of calls from the root to the target; "no    *)
(* path" without reservation means that the program cannot get there.      *)
PathRight(graph, root, target) ==
    LET result == FindPath(graph, root, target)
        near == Hops(graph, root)
        p == result.path
    IN  CASE result.kind = "self" -> root = target
          [] result.kind = "path" ->
                /\ p[1] = root /\ p[Len(p)] = target
                /\ \A i \in 1 .. Len(p) - 1 : Contains(graph.calls[p[i]], p[i + 1])
                /\ Len(p) > 1 => target \notin near[Len(p) - 2]
          [] result.kind = "none" ->
                /\ target \notin near[Cardinality(DOMAIN graph.calls)]
                /\ ~result.incomplete => target \notin MayRun(graph, root)
=============================================================================
