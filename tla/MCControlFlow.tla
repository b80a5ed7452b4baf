--------------------------- MODULE MCControlFlow ----------------------------
(* Instances of ControlFlow for TLC.                                        *)
EXTENDS ControlFlow, TLC

CONSTANTS Targets, FlowsUsed        \* bounds: where jumps go; which flows occur

Form(flow, target) == [len |-> 1, flow |-> flow, target |-> target]
Forms ==
    {Bad} \cup {Form(f, Unknown) : f \in FlowsUsed \cap {"sequential", "return", "interrupt"}}
      \cup {Form(f, t) : f \in FlowsUsed \cap {"call", "conditional", "jump"}, t \in Targets}
      \cup {Form("jump", Unknown)}

\* What the loader found: one function; two that .pdata bounds; a prologue in
\* the open and one inside a .pdata function; a function that never returns.
None == [s \in {} |-> 1]
Facts ==
    {[extents |-> None, starts |-> {0}, prologues |-> {2}, noreturn |-> {}],
     [extents |-> (0 :> 2) @@ (2 :> Size), starts |-> {}, prologues |-> {1}, noreturn |-> {}],
     [extents |-> None, starts |-> {2}, prologues |-> {}, noreturn |-> {0}]}

MCHoles == {<<1, 2>>, <<2, 4>>}

MCImages ==
    {[insn |-> d, extents |-> f.extents, starts |-> f.starts,
      prologues |-> f.prologues, noreturn |-> f.noreturn] :
        d \in [Addr -> Forms], f \in Facts}
=============================================================================
