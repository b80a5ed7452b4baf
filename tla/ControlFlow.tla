---------------------------- MODULE ControlFlow -----------------------------
(***************************************************************************)
(* From instructions to functions (src/analysis): FunctionDiscovery finds  *)
(* the entries, CFGBuilder walks each function block by block, and         *)
(* Pipeline can rebuild one function or retract a region that was data.    *)
(*                                                                         *)
(* An instruction is reduced to its length, its FlowKind and its direct    *)
(* target.  No pass of the engine fills resolved_targets, so jump tables   *)
(* are left out.                                                           *)
(***************************************************************************)
EXTENDS Integers, Sequences, FiniteSets, FiniteSetsExt

CONSTANTS
    Size,       \* the section holds the addresses 0 .. Size-1
    Images,     \* the images considered
    Holes       \* bound: the regions <<start, end>> that may be retracted

Addr == 0 .. Size - 1
Outside == Size             \* a direct target outside the section
Unknown == Size + 1         \* the target of an indirect jump or call

\* "return" stands for Halt as well: neither has a successor.
Flows == {"sequential", "call", "conditional", "jump", "return", "interrupt"}
Insn == [len : Nat \ {0}, flow : Flows, target : Addr \cup {Outside, Unknown}]
Bad == [len |-> 0, flow |-> "return", target |-> Unknown]

\* What the earlier passes hand over: the instructions; the ends of the
\* functions .pdata declares, by start; the other trusted starts; where a
\* prologue matches; the exports that never return.
Image == [insn : [Addr -> Insn \cup {Bad}],
          extents : UNION {[S -> 1 .. Size] : S \in SUBSET Addr},
          starts : SUBSET Addr, prologues : SUBSET Addr, noreturn : SUBSET Addr]

ASSUME SizeAssumption == Size \in Nat \ {0}
ASSUME HolesAssumption == \A h \in Holes : h \in Addr \X (1 .. Size) /\ h[1] < h[2]
ASSUME ImagesAssumption ==
    \A code \in Images :
        /\ code \in Image
        /\ \A a \in Addr : a + code.insn[a].len <= Size
        /\ \A s \in DOMAIN code.extents : s < code.extents[s]

VARIABLES
    code,       \* the image
    decoded,    \* the addresses in the instruction store
    phase,      \* what the pipeline is at
    entries,    \* context.function_entries
    leaders,    \* context.leaders
    todo,       \* the entries still to build
    now,        \* the function under construction, if any
    work,       \* worklist, its top first
    queued,     \* the addresses that were ever on it
    functions,  \* the functions built, by entry
    left        \* bound: what Pipeline may still be asked to do

vars == <<code, decoded, phase, entries, leaders, todo, now, work, queued, functions, left>>
-----------------------------------------------------------------------------
(* Instructions.                                                           *)

Flow(a) == code.insn[a].flow
Target(a) == code.insn[a].target
NextOf(a) == a + code.insn[a].len
Falls(a) == Flow(a) \notin {"jump", "return"}
Jumps(a) == Flow(a) \in {"conditional", "jump"}
Direct(a) == Target(a) # Unknown

\* compute_leaders.  Mutant: the target of an unconditional jump is forgotten.
Leaders_NoJumpTargets(S, starts) ==
    starts \cup {Target(a) : a \in {b \in S : Flow(b) = "conditional" /\ Direct(b)}}
           \cup {NextOf(a) : a \in {b \in S : Flow(b) = "conditional"}}

Leaders(S, starts) ==
    starts \cup {Target(a) : a \in {b \in S : Jumps(b) /\ Direct(b)}}
           \cup {NextOf(a) : a \in {b \in S : Flow(b) = "conditional"}}
-----------------------------------------------------------------------------
(* FunctionDiscovery.                                                      *)

CallTargets == {Target(a) : a \in {b \in decoded : Flow(b) = "call" /\ Direct(b)}}
Trusted == DOMAIN code.extents \cup code.starts

\* Strictly inside the .pdata function with the greatest start below it.
InsideKnown(a) ==
    LET below == {s \in DOMAIN code.extents : s <= a}
    IN  below # {} /\ Max(below) < a /\ a < code.extents[Max(below)]

Prologues ==
    {a \in code.prologues \cap decoded :
        a \notin Trusted \cup CallTargets /\ ~InsideKnown(a)}

Candidates == Trusted \cup CallTargets \cup Prologues

\* effective_confidence, and the order build_all goes by.
Strength(a) == IF a \in Trusted THEN 3 ELSE IF a \in CallTargets THEN 2 ELSE 1
Strongest(S) ==
    CHOOSE a \in S : \A b \in S :
        Strength(a) > Strength(b) \/ (Strength(a) = Strength(b) /\ a <= b)
-----------------------------------------------------------------------------
(* One basic block.                                                        *)

Nothing == [entry |-> Outside, end |-> 0, blocks |-> <<>>, callees |-> {}, callers |-> {}]
Building == now.entry # Outside

Bounded(f) == f.end # 0
Beyond(f, a) == Bounded(f) /\ a >= f.end

\* Mutant: only the end counts.
OutsideExtent_EndOnly(f, a) == Bounded(f) /\ a >= f.end
OutsideExtent(f, a) == Bounded(f) /\ (a < f.entry \/ a >= f.end)

\* crosses_function_boundary.
Crosses(f, a) == a # f.entry /\ (a \in entries \/ OutsideExtent(f, a))

NeverReturns(a) == Flow(a) = "call" /\ Target(a) \in code.noreturn
Terminates(a) == NeverReturns(a) \/ Flow(a) \notin {"sequential", "call"}
EndsOnLeader(a) == ~Terminates(a) /\ NextOf(a) \in leaders
RunsDry(f, a) ==
    /\ ~Terminates(a) /\ ~EndsOnLeader(a)
    /\ ~Beyond(f, NextOf(a)) /\ NextOf(a) \notin decoded

\* The straight-line run from a.  Its last instruction has the greatest address.
Run(f, a) ==
    LET run[x \in Addr] ==
            {x} \cup IF \/ Terminates(x) \/ EndsOnLeader(x) \/ RunsDry(f, x)
                        \/ Beyond(f, NextOf(x))
                     THEN {} ELSE run[NextOf(x)]
    IN  run[a]

\* The edges out of a block whose last instruction is a, in the code's order.
TakenEdge(f, a) ==
    IF Flow(a) = "conditional" /\ Direct(a) /\ ~OutsideExtent(f, Target(a))
    THEN <<[target |-> Target(a), kind |-> "taken"]>> ELSE <<>>
JumpEdge(f, a) ==
    IF Flow(a) = "jump" /\ Direct(a) /\ ~Crosses(f, Target(a))
    THEN <<[target |-> Target(a), kind |-> "jump"]>> ELSE <<>>
\* Mutant: a block that stopped at a leader has no successor.
FallEdge_Conditional(f, a) ==
    IF Flow(a) = "conditional" /\ ~Crosses(f, NextOf(a))
    THEN <<[target |-> NextOf(a), kind |-> "fall-through"]>> ELSE <<>>
FallEdge(f, a) ==
    IF (Flow(a) = "conditional" \/ EndsOnLeader(a)) /\ ~Crosses(f, NextOf(a))
    THEN <<[target |-> NextOf(a), kind |-> "fall-through"]>> ELSE <<>>
Edges(f, a) == TakenEdge(f, a) \o JumpEdge(f, a) \o FallEdge(f, a)

\* Direct calls in the run, and the jump that leaves for another function.
\* Mutant: a tail call is not a call.
Callees_NoTail(f, run) ==
    {Target(a) : a \in {b \in run : Flow(b) = "call" /\ Direct(b)}}

Callees(f, run) ==
    {Target(a) : a \in {b \in run : Flow(b) = "call" /\ Direct(b)}}
      \cup {Target(a) : a \in {b \in run :
                Flow(b) = "jump" /\ Direct(b) /\ Crosses(f, Target(b))}}

\* Drops entries of a map; adds one.
Without(m, S) == [k \in DOMAIN m \ S |-> m[k]]
With(m, k, v) == [j \in DOMAIN m \cup {k} |-> IF j = k THEN v ELSE m[j]]

\* add_block and add_edge: the predecessors of blocks that exist are noted.
AddBlock(f, s) ==
    LET run == Run(f, s)
        last == Max(run)
        edges == {Edges(f, last)[i] : i \in 1 .. Len(Edges(f, last))}
        block == [insns |-> run, end |-> NextOf(last), succs |-> edges, preds |-> {},
                  open |-> RunsDry(f, last) \/ (Jumps(last) /\ ~Direct(last))]
        blocks == With(f.blocks, s, block)
    IN  [f EXCEPT
           !.blocks = [b \in DOMAIN blocks |->
               IF \E e \in edges : e.target = b
               THEN [blocks[b] EXCEPT !.preds = @ \cup {s}] ELSE blocks[b]],
           !.callees = @ \cup Callees(f, run)]

\* Successors that were never queued are pushed, the last one ending on top.
\* Mutant: only one of two is.
Pushed_One(f, a) ==
    LET edges == Edges(f, a)
        fresh == {i \in DOMAIN edges : edges[i].target \notin queued}
    IN  IF fresh = {} THEN <<>> ELSE <<edges[Min(fresh)].target>>

Pushed(f, a) ==
    LET edges == Edges(f, a)
        fresh == {i \in DOMAIN edges : edges[i].target \notin queued}
        both == fresh = {1, 2} /\ edges[1].target # edges[2].target
    IN  IF both THEN <<edges[2].target, edges[1].target>>
        ELSE IF fresh = {} THEN <<>> ELSE <<edges[Min(fresh)].target>>

Init ==
    /\ code \in Images
    /\ decoded = {a \in Addr : code.insn[a] # Bad}
    /\ phase = "discover"
    /\ entries = {}
    /\ leaders = {}
    /\ todo = {}
    /\ now = Nothing
    /\ work = <<>>
    /\ queued = {}
    /\ functions = [e \in {} |-> Nothing]
    /\ left = {"reanalyze", "retract"}
-----------------------------------------------------------------------------
(* Pipeline::analyze, steps 4 and 5.                                       *)

Discover ==
    /\ phase = "discover"
    /\ entries' = Candidates
    /\ leaders' = Leaders(decoded, Candidates)
    /\ todo' = Candidates
    /\ phase' = "build"
    /\ UNCHANGED <<code, decoded, now, work, queued, functions, left>>

\* build_function begins; a candidate nobody decoded is skipped.
Begin(e, end) ==
    /\ now' = [Nothing EXCEPT !.entry = e, !.end = end]
    /\ work' = <<e>>
    /\ queued' = {e}

Start ==
    /\ phase = "build" /\ ~Building /\ todo # {}
    /\ LET e == Strongest(todo)
       IN  /\ todo' = todo \ {e}
           /\ IF e \in decoded
              THEN Begin(e, IF e \in DOMAIN code.extents THEN code.extents[e] ELSE 0)
              ELSE UNCHANGED <<now, work, queued>>
    /\ UNCHANGED <<code, decoded, phase, entries, leaders, functions, left>>

Skip ==
    /\ Building /\ work # <<>>
    /\ Head(work) \in DOMAIN now.blocks \/ Head(work) \notin decoded
    /\ work' = Tail(work)
    /\ UNCHANGED <<code, decoded, phase, entries, leaders, todo, now, queued, functions, left>>

Block ==
    /\ Building /\ work # <<>>
    /\ Head(work) \notin DOMAIN now.blocks /\ Head(work) \in decoded
    /\ LET pushed == Pushed(now, Max(Run(now, Head(work))))
       IN  /\ work' = pushed \o Tail(work)
           /\ queued' = queued \cup {pushed[i] : i \in 1 .. Len(pushed)}
    /\ now' = AddBlock(now, Head(work))
    /\ UNCHANGED <<code, decoded, phase, entries, leaders, todo, functions, left>>

\* The function is complete: it is added, or takes the place of the old one.
Complete ==
    /\ Building /\ work = <<>>
    /\ functions' = With(functions, now.entry, now)
    /\ now' = Nothing
    /\ queued' = {}
    /\ UNCHANGED <<code, decoded, phase, entries, leaders, todo, work, left>>

\* Callers, "now that every function is known".
Backfilled(fs) ==
    [g \in DOMAIN fs |->
        [fs[g] EXCEPT !.callers = {f \in DOMAIN fs : g \in fs[f].callees}]]

Backfill ==
    /\ phase = "build" /\ ~Building /\ todo = {}
    /\ functions' = Backfilled(functions)
    /\ phase' = "done"
    /\ UNCHANGED <<code, decoded, entries, leaders, todo, now, work, queued, left>>
-----------------------------------------------------------------------------
(* Pipeline::reanalyze_function and retract_region.                        *)

Reanalyze ==
    /\ phase = "done" /\ "reanalyze" \in left
    /\ \E e \in DOMAIN functions : todo' = {e}
    /\ phase' = "again"
    /\ left' = left \ {"reanalyze"}
    /\ UNCHANGED <<code, decoded, entries, leaders, now, work, queued, functions>>

ExtentEnd(f) == Max({f.entry} \cup {f.blocks[b].end : b \in DOMAIN f.blocks})

\* Mutant: a function whose entry is before the region is left as it is.
Affected_Within(fs, h) ==
    {e \in DOMAIN fs : h[1] <= e /\ e < h[2] /\ ExtentEnd(fs[e]) > h[1]}
Affected(fs, h) == {e \in DOMAIN fs : e < h[2] /\ ExtentEnd(fs[e]) > h[1]}

Retract ==
    /\ phase = "done" /\ "retract" \in left
    /\ \E h \in Holes :
         /\ todo' = Affected(functions, h)
         /\ decoded' = decoded \ (h[1] .. h[2] - 1)
    /\ phase' = "again"
    /\ left' = left \ {"retract"}
    /\ UNCHANGED <<code, entries, leaders, now, work, queued, functions>>

\* The next one of them, with a context made from the functions there are;
\* .pdata's extents are not part of it.
Rebuild ==
    /\ phase = "again" /\ ~Building /\ todo # {} /\ Min(todo) \in decoded
    /\ entries' = DOMAIN functions
    /\ leaders' = Leaders(decoded, DOMAIN functions)
    /\ todo' = todo \ {Min(todo)}
    /\ Begin(Min(todo), 0)
    /\ UNCHANGED <<code, decoded, phase, functions, left>>

\* A function whose own entry was retracted no longer exists.
Erase ==
    /\ phase = "again" /\ ~Building /\ todo # {} /\ Min(todo) \notin decoded
    /\ functions' = Without(functions, {Min(todo)})
    /\ todo' = todo \ {Min(todo)}
    /\ UNCHANGED <<code, decoded, phase, entries, leaders, now, work, queued, left>>

Return ==
    /\ phase = "again" /\ ~Building /\ todo = {}
    /\ phase' = "done"
    /\ UNCHANGED <<code, decoded, entries, leaders, todo, now, work, queued, functions, left>>

Next ==
    \/ Discover \/ Start \/ Skip \/ Block \/ Complete \/ Backfill
    \/ Reanalyze \/ Retract \/ Rebuild \/ Erase \/ Return

Spec == Init /\ [][Next]_vars
-----------------------------------------------------------------------------
FunctionOK(f) ==
    /\ f.entry \in Addr \cup {Outside} /\ f.end \in 0 .. Size
    /\ DOMAIN f.blocks \subseteq Addr
    /\ \A b \in DOMAIN f.blocks :
         /\ b \in f.blocks[b].insns /\ f.blocks[b].insns \subseteq Addr
         /\ f.blocks[b].end \in b + 1 .. Size
         /\ f.blocks[b].preds \subseteq DOMAIN f.blocks
         /\ f.blocks[b].open \in BOOLEAN
         /\ \A e \in f.blocks[b].succs :
              /\ e.target \in Addr \cup {Outside}
              /\ e.kind \in {"taken", "jump", "fall-through"}
    /\ f.callees \subseteq Addr \cup {Outside}
    /\ f.callers \subseteq Addr

TypeOK ==
    /\ code \in Image
    /\ decoded \subseteq Addr
    /\ phase \in {"discover", "build", "done", "again"}
    /\ entries \cup leaders \cup todo \cup queued \subseteq Addr \cup {Outside}
    /\ FunctionOK(now)
    /\ work \in Seq(Addr \cup {Outside})
    /\ \A e \in DOMAIN functions : FunctionOK(functions[e]) /\ functions[e].entry = e
    /\ left \subseteq {"reanalyze", "retract"}

InsnsOf(f) == UNION {f.blocks[b].insns : b \in DOMAIN f.blocks}
Fresh == phase = "done" /\ left = {"reanalyze", "retract"}

\* No instruction is in two blocks of a function, complete or not, as long as
\* instructions do not overlap: blocks end where another may begin.
InsnOnce ==
    \A f \in {now} \cup {functions[e] : e \in DOMAIN functions} :
        \A b, c \in DOMAIN f.blocks :
            b # c => f.blocks[b].insns \cap f.blocks[c].insns = {}

\* A reference for what belongs to a function: where control goes on to from
\* its entry without entering another function or leaving what .pdata declares.
\* An interrupt is taken for the end (see InterruptsContinue).
Within(f, a) ==
    {t \in (IF Falls(a) /\ ~NeverReturns(a) /\ Flow(a) # "interrupt"
             THEN {NextOf(a)} ELSE {})
             \cup (IF Jumps(a) THEN {Target(a)} ELSE {}) :
       t \in decoded /\ ~Crosses(f, t)}
Reached(f) ==
    LET reach[n \in 0 .. Size] ==
            IF n = 0 THEN {f.entry}
            ELSE LET R == reach[n - 1] IN R \cup UNION {Within(f, a) : a \in R}
    IN  reach[Size]

\* Nothing a function can reach without crossing into another is missing from
\* its graph: the analysis sees all of its code.
NothingLost ==
    Fresh => \A e \in DOMAIN functions : Reached(functions[e]) \subseteq InsnsOf(functions[e])

\* An edge leads to a block, unless nothing was decoded there.
EdgesClosed ==
    \A e \in DOMAIN functions : LET f == functions[e] IN
        \A b \in DOMAIN f.blocks : \A s \in f.blocks[b].succs :
            s.target \in decoded => s.target \in DOMAIN f.blocks

\* What .pdata declares bounds the function built for it.
ExtentRespected ==
    \A e \in DOMAIN functions :
        Bounded(functions[e]) => InsnsOf(functions[e]) \subseteq e .. functions[e].end - 1

\* The graph of every function is one: no instruction twice, no edge into
\* nothing, no block beyond what .pdata declares.
GraphSound == InsnOnce /\ EdgesClosed /\ ExtentRespected

\* In the graphs as they are first built, each call and each unconditional jump
\* from one function to another is known to both, and no other caller is.  Of a
\* function that is built again this is not said: its callers are lost (CallersKept).
CallsKnownToBoth ==
    Fresh => \A f, g \in DOMAIN functions : f # g =>
        ((\E a \in InsnsOf(functions[f]) :
             Target(a) = g /\ Flow(a) \in {"call", "jump"})
          <=> f \in functions[g].callers)

\* After a retraction no function of which every block is at or after its
\* entry keeps a retracted instruction.
RetractedGone ==
    phase = "done" => \A e \in DOMAIN functions :
        (\A b \in DOMAIN functions[e].blocks : e <= b) => InsnsOf(functions[e]) \subseteq decoded

\* "rebuild every function that overlapped it" (Pipeline.h l.71-72): whatever
\* the layout of the function.
OverlappingRebuilt ==
    phase = "done" => \A e \in DOMAIN functions : InsnsOf(functions[e]) \subseteq decoded

\* "Flowing into another function's entry is a boundary, not an edge - whether
\* we get there by jumping or by falling through" (CFGBuilder.cpp l.209-210).
EntriesNotSwallowed ==
    Fresh => \A f, g \in DOMAIN functions :
        f # g => g \notin DOMAIN functions[f].blocks

\* An interrupt "may or may not return" (InstructionInfo.h l.27, has_fall_through
\* l.91-101): the code after a system call belongs to the function.
InterruptsContinue ==
    Fresh => \A e \in DOMAIN functions : LET f == functions[e] IN
        \A a \in InsnsOf(f) :
            Flow(a) = "interrupt" /\ NextOf(a) \in decoded /\ ~Crosses(f, NextOf(a))
                => NextOf(a) \in InsnsOf(f)

\* Rebuilding one function discards nothing known of another, nor of its own
\* callers (Pipeline.cpp l.215-217).
CallersKept ==
    phase = "done" /\ "retract" \in left =>
        \A f, g \in DOMAIN functions :
            g \in functions[f].callees => f \in functions[g].callers
=============================================================================
