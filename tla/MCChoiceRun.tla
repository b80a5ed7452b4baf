---------------------------- MODULE MCChoiceRun ----------------------------
(* Instances of ChoiceRun for TLC: call graphs over four functions.        *)
EXTENDS ChoiceRun

N == 4
MCFns == 1 .. N
G(a, b, c, d) == <<a, b, c, d>>

(* Chains, a diamond, a fan, a recursion of two, one of three, and a graph *)
(* in which a function is both near and far; each with a bottom-up order.  *)
Shapes ==
    { [callees |-> G({2}, {3}, {4}, {}),     order |-> <<4, 3, 2, 1>>],
      [callees |-> G({2, 3}, {4}, {4}, {}),  order |-> <<4, 2, 3, 1>>],
      [callees |-> G({2, 3, 4}, {}, {2}, {}), order |-> <<2, 3, 4, 1>>],
      [callees |-> G({2}, {1, 3}, {4}, {}),  order |-> <<4, 3, 1, 2>>],
      [callees |-> G({}, {3}, {4}, {2, 1}),  order |-> <<1, 2, 3>>],
      [callees |-> G({4}, {}, {2}, {3, 2}),  order |-> <<>>] }

Finding(f, path) == [fn |-> f, path |-> path]

MCPrograms ==
    { [callees |-> s.callees, order |-> s.order, score |-> sc,
       excluded |-> x, findings |-> fs] :
        s \in Shapes, sc \in {<<30, 10, 20, 25>>, <<5, 10, 5, 15>>}, x \in {{}, {3}},
        fs \in {<<>>, <<Finding(3, <<1, 2, 3>>), Finding(2, <<2>>)>>} }

(* Three changes on two of them, two on the others.                        *)
MCMaxEdits(p) ==
    IF p.callees \in {G({2}, {1, 3}, {4}, {}), G({2, 3, 4}, {}, {2}, {})}
       /\ p.score[1] = 30 /\ p.excluded = {3} /\ p.findings # <<>>
    THEN 3 ELSE 2

MCEarlier ==
    { [t \in Tasks |-> {}],
      [t \in Tasks |-> IF t = "decompile" THEN {4, 2} ELSE {}] }
=============================================================================
