------------------------- MODULE ControlFlowProofs --------------------------
(***************************************************************************)
(* The graphs of the functions, for a section of any size and any image:   *)
(* what discovery, the building of the functions one block at a time, and  *)
(* the rebuilding of some of them leave is a graph, without a lost         *)
(* instruction or call.                                                    *)
(***************************************************************************)
EXTENDS ControlFlow, Induction, FiniteSetTheorems, SequenceTheorems, TLAPS

USE SizeAssumption
-----------------------------------------------------------------------------
(* The inductive invariant.                                                *)

\* Where an address or a direct target may be.
Places == 0 .. Size

EdgeRec == [target : Places, kind : {"taken", "jump", "fall-through"}]
BlockRec == [insns : SUBSET Addr, end : Places, succs : SUBSET EdgeRec,
             preds : SUBSET Addr, open : BOOLEAN]
Formed(f, blocks) ==
    f \in [entry : Places, end : Places, blocks : {blocks},
           callees : SUBSET Places, callers : SUBSET Addr]
Typed(f) ==
    /\ Formed(f, f.blocks)
    /\ DOMAIN f.blocks \subseteq Addr
    /\ \A b \in DOMAIN f.blocks : f.blocks[b] \in BlockRec

\* A block as it was cut, whatever has happened since.
Shaped(f) ==
    \A b \in DOMAIN f.blocks :
        /\ b \in f.blocks[b].insns
        /\ f.blocks[b].preds \subseteq DOMAIN f.blocks
        /\ \A x \in f.blocks[b].insns :
             b <= x /\ x < f.blocks[b].end /\ ~OutsideExtent(f, x)

TypeInv ==
    /\ code \in Images
    /\ decoded \subseteq {a \in Addr : code.insn[a] # Bad}
    /\ phase \in {"discover", "build", "done", "again"}
    /\ entries \subseteq Places /\ leaders \subseteq Places
    /\ todo \subseteq Places /\ queued \subseteq Places
    /\ work \in Seq(Places)
    /\ Typed(now) /\ Shaped(now)
    /\ DOMAIN functions \subseteq Addr
    /\ \A e \in DOMAIN functions :
         Typed(functions[e]) /\ Shaped(functions[e]) /\ functions[e].entry = e
    /\ left \subseteq {"reanalyze", "retract"}

\* Every place where a jump may lead begins a block.
LeadersOK ==
    \A a \in decoded :
        /\ Jumps(a) /\ Direct(a) => Target(a) \in leaders
        /\ Flow(a) = "conditional" => NextOf(a) \in leaders

Untouched == left = {"reanalyze", "retract"}

PhaseInv ==
    /\ ~Building => now = Nothing
    /\ Building => phase \in {"build", "again"} /\ LeadersOK
    /\ phase = "discover" => DOMAIN functions = {}
    /\ phase = "build" => todo \subseteq entries /\ entries \subseteq leaders /\ LeadersOK
    /\ phase = "again" => todo \subseteq DOMAIN functions /\ ~Untouched
    /\ phase = "done" => todo = {}
    /\ phase \in {"discover", "build"} => Untouched

\* The straight-line run goes on after x.
Continues(f, x) == ~(Terminates(x) \/ EndsOnLeader(x) \/ RunsDry(f, x) \/ Beyond(f, NextOf(x)))

\* An edge goes from a block that ends with a to t.
Leads(f, a, t) ==
    \/ Flow(a) = "conditional" /\ Direct(a) /\ t = Target(a) /\ ~OutsideExtent(f, t)
    \/ Flow(a) = "jump" /\ Direct(a) /\ t = Target(a) /\ ~Crosses(f, t)
    \/ (Flow(a) = "conditional" \/ EndsOnLeader(a)) /\ t = NextOf(a) /\ ~Crosses(f, t)

\* What is a block in the context of the moment: run on from b until something
\* stops it, with an edge to everything the last instruction leads to.
Cut(f, b) ==
    /\ b \in leaders
    /\ f.blocks[b].insns \subseteq decoded
    /\ \A x \in f.blocks[b].insns \ {b} : \E p \in f.blocks[b].insns :
          p < x /\ Continues(f, p) /\ NextOf(p) = x
    /\ \E last \in f.blocks[b].insns :
          /\ ~Continues(f, last)
          /\ \A x \in f.blocks[b].insns \ {last} :
                Continues(f, x) /\ NextOf(x) \in f.blocks[b].insns
          /\ \A t \in Places :
                Leads(f, last, t) => \E s \in f.blocks[b].succs : s.target = t

\* The function calls t, or jumps to it as another function.
Calls(f, t) ==
    \E b \in DOMAIN f.blocks : \E a \in f.blocks[b].insns :
        /\ Target(a) = t
        /\ Flow(a) = "call" \/ (Flow(a) = "jump" /\ Crosses(f, t))

Built(f) ==
    /\ f.entry \in decoded
    /\ Bounded(f) => f.entry < f.end
    /\ \A b \in DOMAIN f.blocks : Cut(f, b)
    /\ \A t \in Places : t \in f.callees <=> Calls(f, t)

Members(s) == {s[i] : i \in 1 .. Len(s)}

NowInv ==
    Building =>
        /\ Built(now)
        /\ now.entry \in queued
        /\ Members(work) \subseteq queued
        /\ \A q \in queued :
             /\ q \in leaders /\ ~OutsideExtent(now, q)
             /\ q \in decoded => q \in DOMAIN now.blocks \cup Members(work)
        /\ \A b \in DOMAIN now.blocks : \A s \in now.blocks[b].succs : s.target \in queued
        /\ phase = "build" => now.entry \in entries

FunctionsInv ==
    phase = "build" \/ Fresh =>
        /\ DOMAIN functions \subseteq entries
        /\ \A e \in DOMAIN functions : Built(functions[e]) /\ e \in DOMAIN functions[e].blocks

CallersInv ==
    Fresh => \A g \in DOMAIN functions :
        functions[g].callers = {f \in DOMAIN functions : g \in functions[f].callees}

\* What a retraction leaves alone, or is over.
GoneInv ==
    phase \in {"done", "again"} =>
        \A e \in DOMAIN functions : e \notin todo /\ e # now.entry =>
            ((\A b \in DOMAIN functions[e].blocks : e <= b)
                => InsnsOf(functions[e]) \subseteq decoded)
-----------------------------------------------------------------------------
(* Instructions, one after another.                                        *)

\* The instruction at an address; and that no other one starts inside it.
LEMMA InsnShape ==
    ASSUME code \in Images, NEW a \in Addr
    PROVE  /\ Target(a) \in Places \cup {Unknown} /\ NextOf(a) \in a .. Size
           /\ code.insn[a] # Bad => NextOf(a) > a
           /\ code.insn[a] = Bad => Terminates(a)
<1>1. code \in Image /\ a + code.insn[a].len <= Size
  BY ImagesAssumption
<1>2. code.insn[a] \in Insn \cup {Bad}
  BY <1>1 DEF Image
<1>3. CASE code.insn[a] = Bad
  <2>1. code.insn[a].len = 0 /\ code.insn[a].target = Unknown /\ code.insn[a].flow = "return"
    BY <1>3 DEF Bad
  <2>. QED  BY <1>3, <2>1 DEF Addr, NextOf, Target, Terminates, Flow
<1>4. CASE code.insn[a] \in Insn /\ code.insn[a] # Bad
  <2>1. code.insn[a].len \in Nat \ {0} /\ code.insn[a].target \in Addr \cup {Outside, Unknown}
    BY <1>4 DEF Insn
  <2>. QED  BY <1>1, <1>4, <2>1 DEF Addr, NextOf, Target, Places, Outside
<1>. QED  BY <1>2, <1>3, <1>4

\* A run goes on to an instruction that is decoded, further on, where no block
\* may begin and before the end.
LEMMA ContinuesShape ==
    ASSUME code \in Images, decoded \subseteq Addr, NEW f, NEW a \in Addr, Continues(f, a)
    PROVE  /\ NextOf(a) \in decoded \ leaders /\ NextOf(a) > a
           /\ ~Beyond(f, NextOf(a))
           /\ Flow(a) \in {"sequential", "call"} /\ ~NeverReturns(a)
<1>1. ~Terminates(a) /\ ~EndsOnLeader(a) /\ ~RunsDry(f, a) /\ ~Beyond(f, NextOf(a))
  BY DEF Continues
<1>2. NextOf(a) \notin leaders /\ NextOf(a) \in decoded
  BY <1>1 DEF EndsOnLeader, RunsDry
<1>3. NextOf(a) > a
  BY <1>1, InsnShape
<1>. QED  BY <1>1, <1>2, <1>3 DEF Terminates

\* What can be reached by steps upwards, as a recursion from the top.
LEMMA ChainExists ==
    ASSUME NEW go \in SUBSET Addr, NEW next \in [go -> Addr], \A x \in go : next[x] > x
    PROVE  \E g \in [Addr -> SUBSET Addr] :
              \A x \in Addr : g[x] = {x} \cup IF x \in go THEN g[next[x]] ELSE {}
<1>. DEFINE D == [Addr -> SUBSET Addr]
            first == [x \in Addr |-> {}]
            Value(g, x) == {x} \cup IF x \in go THEN g[next[x]] ELSE {}
            step == [i \in 1 .. Size |->
                        [g \in D |-> [x \in Addr |-> IF x = Size - i THEN Value(g, x) ELSE g[x]]]]
<1>1. first \in D
  OBVIOUS
<1>2. step \in Steps(Size, D)
  <2>1. \A g \in D, x \in Addr : Value(g, x) \in SUBSET Addr
    OBVIOUS
  <2>2. \A i \in 1 .. Size, g \in D :
          [x \in Addr |-> IF x = Size - i THEN Value(g, x) ELSE g[x]] \in D
    BY <2>1
  <2>. QED  BY <2>2 DEF Steps
<1>3. PICK u : Unrolls(u, Size, D, first, step)
  <2>. HIDE DEF D, first, step
  <2>. QED  BY <1>1, <1>2, Recursion
<1>4. /\ u \in [0 .. Size -> D]
      /\ \A i \in 1 .. Size : u[i] = step[i][u[i - 1]]
  BY <1>3 DEF Unrolls
<1>5. ASSUME NEW i \in 1 .. Size, NEW x \in Addr
      PROVE  u[i][x] = IF x = Size - i THEN Value(u[i - 1], x) ELSE u[i - 1][x]
  <2>1. i - 1 \in 0 .. Size /\ u[i - 1] \in D
    BY <1>4
  <2>2. u[i] = [y \in Addr |-> IF y = Size - i THEN Value(u[i - 1], y) ELSE u[i - 1][y]]
    BY <1>4, <2>1
  <2>. QED  BY <2>2
<1>. DEFINE Good(i) == \A x \in Addr : x >= Size - i => u[i][x] = Value(u[i], x)
            T == {i \in 0 .. Size : Good(i)}
<1>6. 0 \in T /\ T \in SUBSET (0 .. Size)
  BY DEF Addr
<1>7. ASSUME NEW i \in 1 .. Size, i - 1 \in T PROVE i \in T
  <2>. SUFFICES ASSUME NEW x \in Addr, x >= Size - i PROVE u[i][x] = Value(u[i], x)
    OBVIOUS
  <2>1. x \in go => u[i][next[x]] = u[i - 1][next[x]]
    <3>1. x \in go => next[x] \in Addr /\ next[x] > x
      OBVIOUS
    <3>2. x \in go => next[x] # Size - i
      BY <3>1 DEF Addr
    <3>. QED  BY <1>5, <3>1, <3>2
  <2>2. CASE x = Size - i
    BY <1>5, <2>1, <2>2
  <2>3. CASE x # Size - i
    <3>1. x >= Size - (i - 1)
      BY <2>3 DEF Addr
    <3>2. u[i - 1][x] = Value(u[i - 1], x)
      BY <1>7, <3>1
    <3>. QED  BY <1>5, <2>1, <2>3, <3>2
  <2>. QED  BY <2>2, <2>3
<1>8. Size \in T
  <2>. HIDE DEF T
  <2>1. \A i \in 0 .. Size : i \in T
    BY <1>6, <1>7, UpTo
  <2>. QED  BY <2>1
<1>9. u[Size] \in D /\ \A x \in Addr : u[Size][x] = Value(u[Size], x)
  BY <1>4, <1>8 DEF Addr
<1>. QED  BY <1>9

\* The run is the recursion of its definition.
LEMMA RunUnfolds ==
    ASSUME code \in Images, decoded \subseteq Addr, NEW f
    PROVE  \A a \in Addr :
              Run(f, a) = {a} \cup IF Continues(f, a) THEN Run(f, NextOf(a)) ELSE {}
<1>. PICK go : go = {x \in Addr : Continues(f, x)}
  OBVIOUS
<1>. PICK next : next = [x \in go |-> NextOf(x)]
  OBVIOUS
<1>1. next \in [go -> Addr] /\ \A x \in go : next[x] > x /\ next[x] = NextOf(x)
  BY ContinuesShape
<1>2. PICK g \in [Addr -> SUBSET Addr] :
         \A x \in Addr : g[x] = {x} \cup IF x \in go THEN g[next[x]] ELSE {}
  BY <1>1, ChainExists
<1>3. \A x \in Addr : g[x] = {x} \cup IF Continues(f, x) THEN g[NextOf(x)] ELSE {}
  BY <1>1, <1>2
<1>. DEFINE Def(run) ==
       [x \in Addr |-> {x} \cup IF \/ Terminates(x) \/ EndsOnLeader(x) \/ RunsDry(f, x)
                                   \/ Beyond(f, NextOf(x))
                                THEN {} ELSE run[NextOf(x)]]
            r == CHOOSE run : run = Def(run)
<1>4. g = Def(g)
  BY <1>3 DEF Continues
<1>5. r = Def(r)
  BY Zenon, <1>4
<1>6. \A a \in Addr : Run(f, a) = r[a]
  BY Zenon DEF Run
<1>7. \A x \in Addr : r[x] = {x} \cup IF Continues(f, x) THEN r[NextOf(x)] ELSE {}
  <2>. HIDE DEF r
  <2>. QED  BY <1>5 DEF Continues
<1>8. \A x \in Addr : Continues(f, x) => NextOf(x) \in Addr
  BY ContinuesShape
<1>. QED  BY <1>6, <1>7, <1>8

\* What a run from a is: it starts there, goes upwards in one line, through
\* decoded instructions only, and ends with the first that does not continue.
Line(f, a, R) ==
    /\ R \subseteq Addr /\ a \in R
    /\ a \in decoded => R \subseteq decoded
    /\ \A x \in R : a <= x
    /\ \A x \in R \ {a} : \E p \in R : p < x /\ Continues(f, p) /\ NextOf(p) = x
    /\ \E last \in R :
         /\ ~Continues(f, last)
         /\ \A x \in R : x <= last
         /\ \A x \in R \ {last} : Continues(f, x) /\ NextOf(x) \in R

LEMMA LineExtends ==
    ASSUME code \in Images, decoded \subseteq Addr, NEW f, NEW a \in Addr, Continues(f, a),
           NEW R, Line(f, NextOf(a), R)
    PROVE  Line(f, a, {a} \cup R)
<1>. PICK n : n = NextOf(a)
  OBVIOUS
<1>1. n \in decoded /\ n > a /\ n \in Addr
  BY ContinuesShape
<1>2. /\ R \subseteq Addr /\ n \in R /\ R \subseteq decoded
      /\ \A x \in R : n <= x
  BY <1>1 DEF Line
<1>3. \A x \in R \ {n} : \E p \in R : p < x /\ Continues(f, p) /\ NextOf(p) = x
  BY DEF Line
<1>4. PICK last \in R :
         /\ ~Continues(f, last)
         /\ \A x \in R : x <= last
         /\ \A x \in R \ {last} : Continues(f, x) /\ NextOf(x) \in R
  BY DEF Line
<1>5. \A x \in R : x \in Int /\ a < x
  BY <1>1, <1>2 DEF Addr
<1>6. ASSUME NEW x \in ({a} \cup R) \ {a}
      PROVE  \E p \in {a} \cup R : p < x /\ Continues(f, p) /\ NextOf(p) = x
  BY <1>1, <1>3
<1>7. /\ last \in {a} \cup R /\ ~Continues(f, last)
      /\ \A x \in {a} \cup R : x <= last
      /\ \A x \in ({a} \cup R) \ {last} : Continues(f, x) /\ NextOf(x) \in {a} \cup R
  BY <1>2, <1>4, <1>5 DEF Addr
<1>8. \A x \in {a} \cup R : a <= x
  BY <1>5 DEF Addr
<1>9. a \in decoded => {a} \cup R \subseteq decoded
  BY <1>2
<1>. QED  BY <1>2, <1>6, <1>7, <1>8, <1>9 DEF Line

LEMMA RunIsLine ==
    ASSUME code \in Images, decoded \subseteq Addr, NEW f
    PROVE  \A a \in Addr : Line(f, a, Run(f, a))
<1>. DEFINE fail == {a \in Addr : ~Line(f, a, Run(f, a))}
<1>. SUFFICES ASSUME fail # {} PROVE FALSE
  OBVIOUS
<1>. PICK m : m = Max(fail)
  OBVIOUS
<1>1. m \in fail /\ \A x \in fail : x <= m
  <2>1. fail \in SUBSET (0 .. Size) /\ Size \in Nat
    BY DEF Addr
  <2>. HIDE DEF fail
  <2>. QED  BY <2>1, Greatest
<1>2. m \in Addr
  BY <1>1
<1>3. Run(f, m) = {m} \cup IF Continues(f, m) THEN Run(f, NextOf(m)) ELSE {}
  BY <1>2, RunUnfolds
<1>4. CASE ~Continues(f, m)
  <2>1. Run(f, m) = {m}
    BY <1>3, <1>4
  <2>2. Line(f, m, {m})
    BY <1>2, <1>4 DEF Line, Addr
  <2>. QED  BY <1>1, <2>1, <2>2
<1>5. CASE Continues(f, m)
  <2>1. NextOf(m) \in Addr /\ NextOf(m) > m
    BY <1>2, <1>5, ContinuesShape
  <2>2. Line(f, NextOf(m), Run(f, NextOf(m)))
    BY <1>1, <1>2, <2>1 DEF Addr
  <2>3. Line(f, m, {m} \cup Run(f, NextOf(m)))
    BY <1>2, <1>5, <2>2, LineExtends
  <2>. QED  BY <1>1, <1>3, <1>5, <2>3
<1>. QED  BY <1>4, <1>5

\* The last instruction of a run is the greatest.
LEMMA RunEnds ==
    ASSUME code \in Images, decoded \subseteq Addr, NEW f, NEW a \in Addr
    PROVE  LET R == Run(f, a)
               last == Max(R)
           IN  /\ last \in R /\ ~Continues(f, last)
               /\ \A x \in R : x <= last
               /\ \A x \in R \ {last} : Continues(f, x) /\ NextOf(x) \in R
<1>. PICK R : R = Run(f, a)
  OBVIOUS
<1>1. Line(f, a, R)
  BY RunIsLine
<1>2. PICK last \in R :
         /\ ~Continues(f, last)
         /\ \A x \in R : x <= last
         /\ \A x \in R \ {last} : Continues(f, x) /\ NextOf(x) \in R
  BY <1>1 DEF Line
<1>3. R \in SUBSET (0 .. Size) /\ R # {} /\ Size \in Nat
  BY <1>1 DEF Line, Addr
<1>4. Max(R) \in R /\ \A x \in R : x <= Max(R)
  BY <1>3, Greatest
<1>5. Max(R) = last
  <2>1. Max(R) \in Int /\ last \in Int
    BY <1>2, <1>3, <1>4
  <2>. QED  BY <1>2, <1>4, <2>1
<1>. QED  BY <1>2, <1>5
-----------------------------------------------------------------------------
(* Edges.                                                                  *)

LEMMA MembersOfBoth ==
    ASSUME NEW S, NEW p \in Seq(S), NEW q \in Seq(S)
    PROVE  /\ p \o q \in Seq(S) /\ Len(p \o q) = Len(p) + Len(q)
           /\ Members(p \o q) = Members(p) \cup Members(q)
<1>. PICK s : s = p \o q
  OBVIOUS
<1>1. /\ s \in Seq(S) /\ Len(s) = Len(p) + Len(q) /\ Len(p) \in Nat /\ Len(q) \in Nat
      /\ \A i \in 1 .. Len(p) + Len(q) :
            s[i] = IF i <= Len(p) THEN p[i] ELSE q[i - Len(p)]
  BY ConcatProperties
<1>2. \A i \in 1 .. Len(s) : s[i] \in Members(p) \cup Members(q)
  BY <1>1 DEF Members
<1>3. \A i \in 1 .. Len(p) : i \in 1 .. Len(s) /\ s[i] = p[i]
  BY <1>1
<1>4. ASSUME NEW i \in 1 .. Len(q) PROVE i + Len(p) \in 1 .. Len(s) /\ s[i + Len(p)] = q[i]
  BY <1>1
<1>5. Members(s) \subseteq Members(p) \cup Members(q)
  BY <1>2 DEF Members
<1>6. Members(p) \subseteq Members(s)
  <2>. SUFFICES ASSUME NEW i \in 1 .. Len(p) PROVE p[i] \in Members(s)
    BY DEF Members
  <2>. QED  BY <1>3 DEF Members
<1>7. Members(q) \subseteq Members(s)
  <2>. SUFFICES ASSUME NEW i \in 1 .. Len(q) PROVE q[i] \in Members(s)
    BY DEF Members
  <2>. QED  BY <1>4 DEF Members
<1>. QED  BY <1>1, <1>5, <1>6, <1>7

LEMMA MembersOfOne ==
    ASSUME NEW S, NEW x \in S
    PROVE  <<x>> \in Seq(S) /\ Len(<<x>>) = 1 /\ Members(<<x>>) = {x}
BY DEF Members

LEMMA MembersOfNone ==
    ASSUME NEW S
    PROVE  <<>> \in Seq(S) /\ Len(<<>>) = 0 /\ Members(<<>>) = {}
BY DEF Members

LEMMA MembersOfTwo ==
    ASSUME NEW S, NEW x \in S, NEW y \in S
    PROVE  <<x, y>> \in Seq(S) /\ Members(<<x, y>>) = {x, y}
<1>1. Len(<<x, y>>) = 2 /\ <<x, y>>[1] = x /\ <<x, y>>[2] = y /\ <<x, y>> \in Seq(S)
  OBVIOUS
<1>2. 1 .. 2 = {1, 2}
  OBVIOUS
<1>. QED  BY <1>1, <1>2 DEF Members

LEMMA MembersOfTail ==
    ASSUME NEW S, NEW s \in Seq(S), s # <<>>
    PROVE  /\ Tail(s) \in Seq(S) /\ Head(s) \in Members(s)
           /\ Members(s) = {Head(s)} \cup Members(Tail(s))
<1>. PICK n : n = Len(s)
  OBVIOUS
<1>. PICK r : r = Tail(s)
  OBVIOUS
<1>1. n \in Nat /\ n >= 1 /\ s[1] = Head(s)
  OBVIOUS
<1>2. /\ r \in Seq(S) /\ Len(r) = n - 1
      /\ \A i \in 1 .. n - 1 : r[i] = s[i + 1]
  OBVIOUS
<1>3. Head(s) \in Members(s)
  BY <1>1 DEF Members
<1>4. ASSUME NEW i \in 1 .. n - 1 PROVE r[i] \in Members(s)
  <2>1. i + 1 \in 1 .. n
    BY <1>1
  <2>. QED  BY <1>2, <2>1 DEF Members
<1>5. ASSUME NEW i \in 1 .. n PROVE s[i] \in {Head(s)} \cup Members(r)
  <2>1. CASE i = 1
    BY <1>1, <2>1
  <2>2. CASE i # 1
    <3>1. i - 1 \in 1 .. n - 1 /\ (i - 1) + 1 = i
      BY <1>1, <2>2
    <3>2. r[i - 1] = s[i]
      BY <1>2, <3>1
    <3>3. r[i - 1] \in Members(r)
      BY <1>2, <3>1 DEF Members
    <3>. QED  BY <3>2, <3>3
  <2>. QED  BY <2>1, <2>2
<1>6. Members(r) \subseteq Members(s)
  BY <1>2, <1>4 DEF Members
<1>7. Members(s) \subseteq {Head(s)} \cup Members(r)
  BY <1>5 DEF Members
<1>. QED  BY <1>2, <1>3, <1>6, <1>7

\* Edges says where control goes on to after a block.
LEMMA EdgesShape ==
    ASSUME code \in Images, decoded \subseteq Addr, NEW f, NEW a \in Addr
    PROVE  /\ Edges(f, a) \in Seq(EdgeRec) /\ Len(Edges(f, a)) <= 2
           /\ \A e \in Members(Edges(f, a)) : Leads(f, a, e.target)
           /\ \A t : Leads(f, a, t) => \E e \in Members(Edges(f, a)) : e.target = t
<1>. PICK p : p = TakenEdge(f, a)
  OBVIOUS
<1>. PICK q : q = JumpEdge(f, a)
  OBVIOUS
<1>. PICK r : r = FallEdge(f, a)
  OBVIOUS
<1>. PICK t : t = [target |-> Target(a), kind |-> "taken"]
  OBVIOUS
<1>. PICK j : j = [target |-> Target(a), kind |-> "jump"]
  OBVIOUS
<1>. PICK l : l = [target |-> NextOf(a), kind |-> "fall-through"]
  OBVIOUS
<1>0. t.target = Target(a) /\ j.target = Target(a) /\ l.target = NextOf(a)
  OBVIOUS
<1>1. l \in EdgeRec /\ (Direct(a) => t \in EdgeRec /\ j \in EdgeRec)
  BY InsnShape DEF Addr, Places, Direct, EdgeRec
<1>2. /\ p \in Seq(EdgeRec) /\ Len(p) \in 0 .. 1
      /\ Members(p) = IF Flow(a) = "conditional" /\ Direct(a) /\ ~OutsideExtent(f, Target(a))
                      THEN {t} ELSE {}
      /\ Flow(a) # "conditional" => Len(p) = 0
  <2>1. CASE Flow(a) = "conditional" /\ Direct(a) /\ ~OutsideExtent(f, Target(a))
    <3>1. p = <<t>> /\ t \in EdgeRec
      BY <1>1, <2>1 DEF TakenEdge
    <3>. QED  BY <2>1, <3>1, MembersOfOne
  <2>2. CASE ~(Flow(a) = "conditional" /\ Direct(a) /\ ~OutsideExtent(f, Target(a)))
    <3>1. p = <<>>
      BY <2>2 DEF TakenEdge
    <3>. QED  BY <2>2, <3>1, MembersOfNone
  <2>. QED  BY <2>1, <2>2
<1>3. /\ q \in Seq(EdgeRec) /\ Len(q) \in 0 .. 1
      /\ Members(q) = IF Flow(a) = "jump" /\ Direct(a) /\ ~Crosses(f, Target(a))
                      THEN {j} ELSE {}
      /\ Flow(a) # "jump" => Len(q) = 0
  <2>1. CASE Flow(a) = "jump" /\ Direct(a) /\ ~Crosses(f, Target(a))
    <3>1. q = <<j>> /\ j \in EdgeRec
      BY <1>1, <2>1 DEF JumpEdge
    <3>. QED  BY <2>1, <3>1, MembersOfOne
  <2>2. CASE ~(Flow(a) = "jump" /\ Direct(a) /\ ~Crosses(f, Target(a)))
    <3>1. q = <<>>
      BY <2>2 DEF JumpEdge
    <3>. QED  BY <2>2, <3>1, MembersOfNone
  <2>. QED  BY <2>1, <2>2
<1>4. /\ r \in Seq(EdgeRec) /\ Len(r) \in 0 .. 1
      /\ Members(r) = IF (Flow(a) = "conditional" \/ EndsOnLeader(a)) /\ ~Crosses(f, NextOf(a))
                      THEN {l} ELSE {}
  <2>1. CASE (Flow(a) = "conditional" \/ EndsOnLeader(a)) /\ ~Crosses(f, NextOf(a))
    <3>1. r = <<l>> /\ l \in EdgeRec
      BY <1>1, <2>1 DEF FallEdge
    <3>. QED  BY <2>1, <3>1, MembersOfOne
  <2>2. CASE ~((Flow(a) = "conditional" \/ EndsOnLeader(a)) /\ ~Crosses(f, NextOf(a)))
    <3>1. r = <<>>
      BY <2>2 DEF FallEdge
    <3>. QED  BY <2>2, <3>1, MembersOfNone
  <2>. QED  BY <2>1, <2>2
<1>5. /\ p \o q \in Seq(EdgeRec) /\ Len(p \o q) = Len(p) + Len(q)
      /\ Members(p \o q) = Members(p) \cup Members(q)
  BY <1>2, <1>3, MembersOfBoth
<1>6. /\ Edges(f, a) \in Seq(EdgeRec) /\ Len(Edges(f, a)) = Len(p) + Len(q) + Len(r)
      /\ Members(Edges(f, a)) = Members(p) \cup Members(q) \cup Members(r)
  <2>. PICK pq : pq = p \o q
    OBVIOUS
  <2>1. pq \in Seq(EdgeRec) /\ r \in Seq(EdgeRec)
    BY <1>4, <1>5
  <2>2. /\ pq \o r \in Seq(EdgeRec) /\ Len(pq \o r) = Len(pq) + Len(r)
        /\ Members(pq \o r) = Members(pq) \cup Members(r)
    BY ONLY <2>1, MembersOfBoth
  <2>3. Edges(f, a) = pq \o r
    BY Zenon DEF Edges
  <2>. QED  BY <1>5, <2>2, <2>3
<1>7. \A e \in Members(Edges(f, a)) : Leads(f, a, e.target)
  BY <1>0, <1>2, <1>3, <1>4, <1>6 DEF Leads
<1>8. ASSUME NEW s, Leads(f, a, s) PROVE \E e \in Members(Edges(f, a)) : e.target = s
  BY <1>0, <1>2, <1>3, <1>4, <1>6, <1>8 DEF Leads
<1>9. Len(Edges(f, a)) <= 2
  <2>1. Len(p) \in 0 .. 1 /\ Len(q) \in 0 .. 1 /\ Len(r) \in 0 .. 1
    BY <1>2, <1>3, <1>4
  <2>2. Len(p) = 0 \/ Len(q) = 0
    BY <1>2, <1>3
  <2>3. \A k, m, n \in 0 .. 1 : k = 0 \/ m = 0 => k + m + n <= 2
    OBVIOUS
  <2>4. Len(p) + Len(q) + Len(r) <= 2
    BY <2>1, <2>2, <2>3
  <2>. QED  BY <1>6, <2>4
<1>. QED  BY <1>6, <1>7, <1>8, <1>9

\* The successors that were never queued are pushed, and nothing else.
LEMMA PushedShape ==
    ASSUME code \in Images, decoded \subseteq Addr, NEW f, NEW a \in Addr
    PROVE  /\ Pushed(f, a) \in Seq(Places)
           /\ \A t \in Members(Pushed(f, a)) : Leads(f, a, t)
           /\ \A t : Leads(f, a, t) => t \in queued \/ t \in Members(Pushed(f, a))
<1>. PICK E : E = Edges(f, a)
  OBVIOUS
<1>1. /\ E \in Seq(EdgeRec) /\ Len(E) \in 0 .. 2
      /\ \A i \in 1 .. Len(E) : Leads(f, a, E[i].target)
      /\ \A t : Leads(f, a, t) => \E i \in 1 .. Len(E) : E[i].target = t
  <2>1. E \in Seq(EdgeRec) /\ Len(E) <= 2 /\ Len(E) \in Nat
    BY EdgesShape
  <2>2. \A e \in Members(E) : Leads(f, a, e.target)
    BY EdgesShape
  <2>3. \A t : Leads(f, a, t) => \E e \in Members(E) : e.target = t
    BY EdgesShape
  <2>4. \A i \in 1 .. Len(E) : E[i] \in Members(E)
    BY DEF Members
  <2>5. \A e \in Members(E) : \E i \in 1 .. Len(E) : e = E[i]
    BY DEF Members
  <2>6. \A i \in 1 .. Len(E) : Leads(f, a, E[i].target)
    BY <2>2, <2>4
  <2>7. \A t : Leads(f, a, t) => \E i \in 1 .. Len(E) : E[i].target = t
    BY <2>3, <2>5
  <2>8. \A n \in Nat : n <= 2 => n \in 0 .. 2
    OBVIOUS
  <2>. QED  BY <2>1, <2>6, <2>7, <2>8
<1>2. \A i \in 1 .. Len(E) : E[i].target \in Places
  <2>1. \A i \in 1 .. Len(E) : E[i] \in EdgeRec
    BY <1>1
  <2>. QED  BY <2>1 DEF EdgeRec
<1>3. DOMAIN E = 1 .. Len(E)
  BY <1>1
<1>. PICK fresh : fresh = {i \in 1 .. Len(E) : E[i].target \notin queued}
  OBVIOUS
<1>. PICK w : w = Pushed(f, a)
  OBVIOUS
<1>4. w = IF fresh = {1, 2} /\ E[1].target # E[2].target
          THEN <<E[2].target, E[1].target>>
          ELSE IF fresh = {} THEN <<>> ELSE <<E[Min(fresh)].target>>
  BY <1>3 DEF Pushed
<1>5. CASE fresh = {1, 2} /\ E[1].target # E[2].target
  <2>1. 1 \in 1 .. Len(E) /\ 2 \in 1 .. Len(E)
    BY <1>5
  <2>2. w \in Seq(Places) /\ Members(w) = {E[2].target, E[1].target}
    BY <1>2, <1>4, <1>5, <2>1, MembersOfTwo
  <2>3. \A t : Leads(f, a, t) => t \in queued \/ t \in {E[2].target, E[1].target}
    <3>1. \A n \in 0 .. 2 : \A i \in 1 .. n : i = 1 \/ i = 2
      OBVIOUS
    <3>2. \A i \in 1 .. Len(E) : i = 1 \/ i = 2
      BY <1>1, <3>1
    <3>. QED  BY <1>1, <3>2
  <2>. QED  BY <1>1, <2>1, <2>2, <2>3
<1>6. CASE fresh = {}
  <2>1. w \in Seq(Places) /\ Members(w) = {}
    BY <1>4, <1>6, MembersOfNone
  <2>. QED  BY <1>1, <1>6, <2>1
<1>7. CASE fresh # {} /\ ~(fresh = {1, 2} /\ E[1].target # E[2].target)
  <2>. PICK m : m = Min(fresh)
    OBVIOUS
  <2>0. fresh \in SUBSET Nat
    OBVIOUS
  <2>1. m \in fresh /\ \A x \in fresh : m <= x
    BY <1>7, <2>0, Smallest
  <2>2. w \in Seq(Places) /\ Members(w) = {E[m].target}
    <3>. PICK t : t = E[m].target
      OBVIOUS
    <3>1. w = <<t>> /\ t \in Places
      BY <1>2, <1>4, <1>7, <2>1
    <3>2. <<t>> \in Seq(Places) /\ Members(<<t>>) = {t}
      BY <3>1, MembersOfOne
    <3>. QED  BY <3>1, <3>2
  <2>3. \A i \in fresh : E[i].target = E[m].target
    <3>1. \A i \in fresh : i \in {1, 2}
      BY <1>1
    <3>. QED  BY <1>7, <2>1, <3>1
  <2>4. \A t : Leads(f, a, t) => t \in queued \/ t = E[m].target
    BY <1>1, <2>3
  <2>5. Leads(f, a, E[m].target)
    BY <1>1, <2>1
  <2>. QED  BY <2>2, <2>4, <2>5
<1>. QED  BY <1>5, <1>6, <1>7
-----------------------------------------------------------------------------
(* A block more.                                                           *)

Sound == code \in Images /\ decoded \subseteq {a \in Addr : code.insn[a] # Bad}

\* The calls and tail calls of a run go somewhere.
LEMMA CalleesShape ==
    ASSUME Sound, NEW f, NEW R \in SUBSET Addr
    PROVE  /\ Callees(f, R) \in SUBSET Places
           /\ \A t : t \in Callees(f, R) <=>
                \E a \in R : /\ Target(a) = t /\ t # Unknown
                             /\ Flow(a) = "call" \/ (Flow(a) = "jump" /\ Crosses(f, t))
<1>1. \A a \in R : Target(a) \in Places \cup {Unknown}
  BY InsnShape DEF Sound
<1>2. \A t : t \in Callees(f, R) <=>
         \E a \in R : /\ Target(a) = t /\ Direct(a)
                      /\ Flow(a) = "call" \/ (Flow(a) = "jump" /\ Crosses(f, t))
  BY DEF Callees
<1>. QED  BY <1>1, <1>2 DEF Direct

LEMMA BlockPreds ==
    ASSUME NEW r \in BlockRec, NEW P \in SUBSET Addr
    PROVE  LET n == [r EXCEPT !.preds = P]
           IN  /\ n \in BlockRec /\ n.preds = P
               /\ n.insns = r.insns /\ n.end = r.end /\ n.succs = r.succs
BY DEF BlockRec

\* The run becomes a block with the edges of its last instruction; the blocks
\* there were keep theirs and learn of a predecessor.
LEMMA AddBlockShape ==
    ASSUME Sound, NEW f, Typed(f), NEW s \in Addr
    PROVE  LET g == AddBlock(f, s)
               R == Run(f, s)
               last == Max(R)
           IN  /\ Typed(g)
               /\ g.entry = f.entry /\ g.end = f.end /\ g.callers = f.callers
               /\ g.callees = f.callees \cup Callees(f, R)
               /\ DOMAIN g.blocks = DOMAIN f.blocks \cup {s}
               /\ \A b \in DOMAIN f.blocks \ {s} :
                    /\ g.blocks[b].insns = f.blocks[b].insns
                    /\ g.blocks[b].end = f.blocks[b].end
                    /\ g.blocks[b].succs = f.blocks[b].succs
                    /\ g.blocks[b].preds \subseteq f.blocks[b].preds \cup {s}
               /\ g.blocks[s].insns = R /\ g.blocks[s].end = NextOf(last)
               /\ g.blocks[s].succs = Members(Edges(f, last))
               /\ g.blocks[s].preds \subseteq {s}
<1>. DEFINE R == Run(f, s)
            last == Max(R)
            edges == Members(Edges(f, last))
            open == RunsDry(f, last) \/ (Jumps(last) /\ ~Direct(last))
            block == [insns |-> R, end |-> NextOf(last), succs |-> edges, preds |-> {},
                      open |-> open]
            blocks == With(f.blocks, s, block)
            new == [b \in DOMAIN blocks |->
                      IF \E e \in edges : e.target = b
                      THEN [blocks[b] EXCEPT !.preds = @ \cup {s}] ELSE blocks[b]]
            called == f.callees \cup Callees(f, R)
            g == AddBlock(f, s)
<1>1. g = [f EXCEPT !.blocks = new, !.callees = called]
  BY Zenon DEF AddBlock, Members
<1>2. R \in SUBSET Addr /\ last \in R /\ last \in Addr
  BY RunIsLine, RunEnds DEF Line, Sound
<1>. HIDE DEF R, last, g
<1>3. edges \in SUBSET EdgeRec
  <2>1. Edges(f, last) \in Seq(EdgeRec)
    BY <1>2, EdgesShape DEF Sound
  <2>. QED  BY <2>1 DEF Members
<1>. HIDE DEF edges
<1>4. open \in BOOLEAN
  BY DEF RunsDry
<1>. HIDE DEF open
<1>5. /\ block \in BlockRec
      /\ block.insns = R /\ block.end = NextOf(last) /\ block.succs = edges /\ block.preds = {}
  <2>1. NextOf(last) \in Places
    BY <1>2, InsnShape DEF Sound, Places, Addr
  <2>. QED  BY <1>2, <1>3, <1>4, <2>1 DEF BlockRec
<1>. HIDE DEF block
<1>6. /\ DOMAIN blocks = DOMAIN f.blocks \cup {s} /\ blocks[s] = block
      /\ \A b \in DOMAIN f.blocks \ {s} : blocks[b] = f.blocks[b]
  BY DEF With
<1>. HIDE DEF blocks
<1>7. DOMAIN blocks \subseteq Addr /\ \A b \in DOMAIN blocks : blocks[b] \in BlockRec
  <2>1. DOMAIN f.blocks \subseteq Addr
    BY DEF Typed
  <2>2. \A b \in DOMAIN f.blocks : f.blocks[b] \in BlockRec
    BY DEF Typed
  <2>. QED  BY <1>5, <1>6, <2>1, <2>2
<1>8. DOMAIN new = DOMAIN blocks
  OBVIOUS
<1>9. ASSUME NEW b \in DOMAIN blocks
      PROVE  /\ new[b] \in BlockRec
             /\ new[b].insns = blocks[b].insns /\ new[b].end = blocks[b].end
             /\ new[b].succs = blocks[b].succs
             /\ new[b].preds \subseteq blocks[b].preds \cup {s}
  <2>. DEFINE r == blocks[b]
              P == r.preds \cup {s}
  <2>1. new[b] = r \/ new[b] = [r EXCEPT !.preds = P]
    BY <1>9
  <2>2. r \in BlockRec
    BY <1>7
  <2>3. P \in SUBSET Addr
    BY <2>2 DEF BlockRec
  <2>. HIDE DEF r, P, new
  <2>4. LET n == [r EXCEPT !.preds = P]
        IN  /\ n \in BlockRec /\ n.preds = P
            /\ n.insns = r.insns /\ n.end = r.end /\ n.succs = r.succs
    BY <2>2, <2>3, BlockPreds
  <2>5. /\ new[b] \in BlockRec /\ new[b].preds \subseteq P
        /\ new[b].insns = r.insns /\ new[b].end = r.end /\ new[b].succs = r.succs
    BY <2>1, <2>2, <2>4 DEF P
  <2>. QED  BY <2>5 DEF r, P
<1>. HIDE DEF new
<1>10. called \in SUBSET Places
  BY <1>2, CalleesShape DEF Typed, Formed
<1>. HIDE DEF called
<1>11. /\ Formed(g, new) /\ g.blocks = new /\ g.callees = called
       /\ g.entry = f.entry /\ g.end = f.end /\ g.callers = f.callers
  <2>1. Formed(f, f.blocks)
    BY DEF Typed
  <2>2. PICK n, c, h : n = new /\ c = called /\ h = g
    OBVIOUS
  <2>3. h = [f EXCEPT !.blocks = n, !.callees = c]
    BY <1>1, <2>2
  <2>4. /\ Formed(h, n) /\ h.blocks = n /\ h.callees = c
        /\ h.entry = f.entry /\ h.end = f.end /\ h.callers = f.callers
    <3>1. c \in SUBSET Places
      BY <1>10, <2>2
    <3>. QED  BY ONLY <2>1, <2>3, <3>1 DEF Formed
  <2>. QED  BY <2>2, <2>4
<1>12. Typed(g)
  BY <1>7, <1>8, <1>9, <1>11 DEF Typed
<1>13. s \in DOMAIN blocks
  BY <1>6
<1>14. /\ new[s].insns = R /\ new[s].end = NextOf(last) /\ new[s].succs = edges
       /\ new[s].preds \subseteq {s}
  BY <1>5, <1>6, <1>9, <1>13
<1>15. \A b \in DOMAIN f.blocks \ {s} :
         /\ new[b].insns = f.blocks[b].insns
         /\ new[b].end = f.blocks[b].end
         /\ new[b].succs = f.blocks[b].succs
         /\ new[b].preds \subseteq f.blocks[b].preds \cup {s}
  BY <1>6, <1>9
<1>16. /\ Typed(g)
       /\ g.entry = f.entry /\ g.end = f.end /\ g.callers = f.callers
       /\ g.callees = called
       /\ DOMAIN g.blocks = DOMAIN f.blocks \cup {s}
       /\ \A b \in DOMAIN f.blocks \ {s} :
            /\ g.blocks[b].insns = f.blocks[b].insns
            /\ g.blocks[b].end = f.blocks[b].end
            /\ g.blocks[b].succs = f.blocks[b].succs
            /\ g.blocks[b].preds \subseteq f.blocks[b].preds \cup {s}
       /\ g.blocks[s].insns = R /\ g.blocks[s].end = NextOf(last)
       /\ g.blocks[s].succs = edges
       /\ g.blocks[s].preds \subseteq {s}
  BY <1>6, <1>8, <1>11, <1>12, <1>14, <1>15
<1>. QED  BY Zenon, <1>16 DEF R, last, edges, called, g
-----------------------------------------------------------------------------
(* What depends on the context only.                                       *)

Context == <<code, decoded, leaders, entries>>

\* In the same context, what is built stays so.
LEMMA BuiltStays ==
    ASSUME NEW f, UNCHANGED Context
    PROVE  Built(f)' <=> Built(f)
<1>. PICK g : g = f
  OBVIOUS
<1>1. \A a : /\ Flow(a)' = Flow(a) /\ Target(a)' = Target(a) /\ NextOf(a)' = NextOf(a)
  BY DEF Context, Flow, Target, NextOf
<1>2. \A a : Crosses(f, a)' <=> Crosses(f, a)
  BY DEF Context, Crosses, OutsideExtent, Bounded
<1>3. \A a : Continues(f, a)' <=> Continues(f, a)
  BY <1>1 DEF Context, Continues, Terminates, EndsOnLeader, RunsDry, Beyond, Bounded, NeverReturns
<1>4. \A a, t : Leads(f, a, t)' <=> Leads(f, a, t)
  BY <1>1, <1>2 DEF Context, Leads, Direct, OutsideExtent, EndsOnLeader, Terminates, NeverReturns
<1>5. \A b : Cut(f, b)' <=> Cut(f, b)
  BY <1>1, <1>3, <1>4 DEF Context, Cut
<1>6. \A t : Calls(f, t)' <=> Calls(f, t)
  BY <1>1, <1>2 DEF Context, Calls
<1>. QED  BY <1>5, <1>6 DEF Context, Built

LEMMA BuiltIsNow ==
    ASSUME NEW f, now' = f
    PROVE  Built(now)' <=> Built(f)'
BY DEF Built, Cut, Calls, Continues, Leads, Crosses, OutsideExtent, RunsDry, Beyond, Bounded
-----------------------------------------------------------------------------
(* A function with a block more.                                           *)

\* Entry and end are all that a block depends on of its function.
LEMMA SameBounds ==
    ASSUME NEW f, NEW g, g.entry = f.entry, g.end = f.end
    PROVE  /\ \A x : Beyond(g, x) <=> Beyond(f, x)
           /\ \A x : OutsideExtent(g, x) <=> OutsideExtent(f, x)
           /\ \A x : Crosses(g, x) <=> Crosses(f, x)
           /\ \A x : Continues(g, x) <=> Continues(f, x)
           /\ \A a, t : Leads(g, a, t) <=> Leads(f, a, t)
<1>1. \A x : Beyond(g, x) <=> Beyond(f, x)
  BY DEF Beyond, Bounded
<1>2. \A x : OutsideExtent(g, x) <=> OutsideExtent(f, x)
  BY DEF OutsideExtent, Bounded
<1>3. \A x : Crosses(g, x) <=> Crosses(f, x)
  BY <1>2 DEF Crosses
<1>4. \A x : Continues(g, x) <=> Continues(f, x)
  BY <1>1 DEF Continues, RunsDry
<1>5. \A a, t : Leads(g, a, t) <=> Leads(f, a, t)
  BY <1>2, <1>3 DEF Leads
<1>. QED  BY <1>1, <1>2, <1>3, <1>4, <1>5

\* A block that is cut stays so when its function grows.
LEMMA CutStays ==
    ASSUME NEW f, NEW g, NEW b, g.entry = f.entry, g.end = f.end, Cut(f, b),
           g.blocks[b].insns = f.blocks[b].insns, g.blocks[b].succs = f.blocks[b].succs
    PROVE  Cut(g, b)
<1>1. /\ \A x : Continues(g, x) <=> Continues(f, x)
      /\ \A a, t : Leads(g, a, t) <=> Leads(f, a, t)
  BY SameBounds
<1>. QED  BY <1>1 DEF Cut

\* The new block is cut where it should be.
LEMMA CutNew ==
    ASSUME Sound, NEW f, Typed(f), NEW s \in decoded, s \in leaders
    PROVE  Cut(AddBlock(f, s), s)
<1>. PICK g : g = AddBlock(f, s)
  OBVIOUS
<1>. PICK R : R = Run(f, s)
  OBVIOUS
<1>. PICK last : last = Max(R)
  OBVIOUS
<1>0. s \in Addr /\ code \in Images /\ decoded \subseteq Addr
  BY DEF Sound
<1>1. /\ g.entry = f.entry /\ g.end = f.end
      /\ g.blocks[s].insns = R /\ g.blocks[s].succs = Members(Edges(f, last))
  BY <1>0, AddBlockShape
<1>2. /\ \A x : Continues(g, x) <=> Continues(f, x)
      /\ \A a, t : Leads(g, a, t) <=> Leads(f, a, t)
  BY <1>1, SameBounds
<1>3. Line(f, s, R)
  BY <1>0, RunIsLine
<1>4. /\ last \in R /\ ~Continues(f, last)
      /\ \A x \in R \ {last} : Continues(f, x) /\ NextOf(x) \in R
  BY <1>0, RunEnds
<1>5. last \in Addr
  BY <1>3, <1>4 DEF Line
<1>6. \A t : Leads(f, last, t) => \E e \in Members(Edges(f, last)) : e.target = t
  BY <1>0, <1>5, EdgesShape
<1>7. R \subseteq decoded
  BY <1>3 DEF Line
<1>8. \A x \in R \ {s} : \E p \in R : p < x /\ Continues(f, p) /\ NextOf(p) = x
  BY <1>3 DEF Line
<1>. QED  BY <1>1, <1>2, <1>4, <1>6, <1>7, <1>8 DEF Cut

LEMMA BuiltMore ==
    ASSUME Sound, NEW f, Typed(f), Built(f), NEW s \in decoded, s \in leaders,
           s \notin DOMAIN f.blocks
    PROVE  Built(AddBlock(f, s))
<1>. PICK g : g = AddBlock(f, s)
  OBVIOUS
<1>. PICK R : R = Run(f, s)
  OBVIOUS
<1>0. s \in Addr /\ code \in Images /\ decoded \subseteq Addr
  BY DEF Sound
<1>1. /\ g.entry = f.entry /\ g.end = f.end
      /\ g.callees = f.callees \cup Callees(f, R)
      /\ DOMAIN g.blocks = DOMAIN f.blocks \cup {s}
      /\ g.blocks[s].insns = R
  BY <1>0, AddBlockShape
<1>2. \A b \in DOMAIN f.blocks :
         g.blocks[b].insns = f.blocks[b].insns /\ g.blocks[b].succs = f.blocks[b].succs
  BY <1>0, AddBlockShape
<1>3. \A b \in DOMAIN f.blocks : Cut(g, b)
  BY <1>1, <1>2, CutStays DEF Built
<1>4. \A b \in DOMAIN g.blocks : Cut(g, b)
  BY <1>1, <1>3, CutNew
<1>5. R \in SUBSET Addr
  BY <1>0, RunIsLine DEF Line
<1>6. ASSUME NEW t \in Places PROVE t \in g.callees <=> Calls(g, t)
  <2>1. t \in Callees(f, R) <=>
           \E a \in R : /\ Target(a) = t
                        /\ Flow(a) = "call" \/ (Flow(a) = "jump" /\ Crosses(f, t))
    BY <1>5, CalleesShape DEF Places, Unknown
  <2>2. Crosses(g, t) <=> Crosses(f, t)
    BY <1>1, SameBounds
  <2>3. t \in f.callees <=> Calls(f, t)
    BY DEF Built
  <2>4. Calls(g, t) <=> Calls(f, t) \/ t \in Callees(f, R)
    BY <1>1, <1>2, <2>1, <2>2 DEF Calls
  <2>. QED  BY <1>1, <2>3, <2>4
<1>7. g.entry \in decoded /\ (Bounded(g) => g.entry < g.end)
  BY <1>1 DEF Built, Bounded
<1>. QED  BY <1>4, <1>6, <1>7 DEF Built

\* The new block lies within the function.
LEMMA ShapedMore ==
    ASSUME Sound, NEW f, Typed(f), Shaped(f), NEW s \in decoded, ~OutsideExtent(f, s),
           s \notin DOMAIN f.blocks
    PROVE  Shaped(AddBlock(f, s))
<1>. PICK g : g = AddBlock(f, s)
  OBVIOUS
<1>. PICK R : R = Run(f, s)
  OBVIOUS
<1>. PICK last : last = Max(R)
  OBVIOUS
<1>0. s \in Addr /\ code \in Images /\ decoded \subseteq Addr
  BY DEF Sound
<1>1. /\ g.entry = f.entry /\ g.end = f.end
      /\ DOMAIN g.blocks = DOMAIN f.blocks \cup {s}
      /\ g.blocks[s].insns = R /\ g.blocks[s].end = NextOf(last) /\ g.blocks[s].preds \subseteq {s}
  BY <1>0, AddBlockShape
<1>2. \A b \in DOMAIN f.blocks :
         /\ g.blocks[b].insns = f.blocks[b].insns /\ g.blocks[b].end = f.blocks[b].end
         /\ g.blocks[b].preds \subseteq f.blocks[b].preds \cup {s}
  BY <1>0, AddBlockShape
<1>3. \A x : OutsideExtent(g, x) <=> OutsideExtent(f, x)
  BY <1>1, SameBounds
<1>4. R \subseteq decoded /\ s \in R /\ \A x \in R : s <= x
  BY <1>0, RunIsLine DEF Line
<1>5. \A x \in R \ {s} : \E p \in R : Continues(f, p) /\ NextOf(p) = x
  BY <1>0, RunIsLine DEF Line
<1>6. last \in R /\ \A x \in R : x <= last
  BY <1>0, RunEnds
<1>7. NextOf(last) > last /\ NextOf(last) \in Int
  BY <1>4, <1>6, InsnShape DEF Sound, Addr
<1>8. ASSUME NEW x \in R PROVE ~OutsideExtent(f, x)
  <2>1. CASE x = s
    BY <2>1
  <2>2. CASE x # s
    <3>1. PICK p \in R : Continues(f, p) /\ NextOf(p) = x
      BY <1>5, <2>2
    <3>2. ~Beyond(f, x)
      BY <3>1 DEF Continues
    <3>3. s \in Int /\ x \in Int /\ f.entry \in Int /\ s <= x
      BY <1>0, <1>4 DEF Addr, Typed, Formed, Places
    <3>. QED  BY <3>2, <3>3 DEF OutsideExtent, Beyond
  <2>. QED  BY <2>1, <2>2
<1>9. \A x \in R : s <= x /\ x < NextOf(last) /\ ~OutsideExtent(g, x)
  <2>1. \A x \in R : x \in Int
    BY <1>0, <1>4 DEF Addr
  <2>. QED  BY <1>3, <1>4, <1>6, <1>7, <1>8, <2>1
<1>10. ASSUME NEW b \in DOMAIN f.blocks
       PROVE  /\ b \in g.blocks[b].insns /\ g.blocks[b].preds \subseteq DOMAIN g.blocks
              /\ \A x \in g.blocks[b].insns :
                    b <= x /\ x < g.blocks[b].end /\ ~OutsideExtent(g, x)
  BY <1>1, <1>2, <1>3 DEF Shaped
<1>11. /\ s \in g.blocks[s].insns /\ g.blocks[s].preds \subseteq DOMAIN g.blocks
       /\ \A x \in g.blocks[s].insns :
             s <= x /\ x < g.blocks[s].end /\ ~OutsideExtent(g, x)
  BY <1>1, <1>4, <1>9
<1>. QED  BY <1>1, <1>10, <1>11 DEF Shaped

\* Where the edges of a new block lead, a block may begin, and within bounds.
LEMMA LeadsShape ==
    ASSUME Sound, LeadersOK, NEW f, f.entry \in leaders, Bounded(f) => f.entry < f.end,
           f.entry \in Int, f.end \in Int,
           NEW a \in decoded, NEW t, Leads(f, a, t)
    PROVE  t \in leaders /\ ~OutsideExtent(f, t)
<1>1. t \in leaders
  BY DEF Leads, LeadersOK, EndsOnLeader, Jumps
<1>2. ~OutsideExtent(f, f.entry)
  BY DEF OutsideExtent, Bounded
<1>. QED  BY <1>1, <1>2 DEF Leads, Crosses
-----------------------------------------------------------------------------
(* The invariant: types and phases.                                        *)

IInv ==
    /\ TypeInv /\ PhaseInv /\ NowInv
    /\ FunctionsInv /\ CallersInv /\ GoneInv /\ EdgesClosed

LEMMA NothingShape ==
    /\ Typed(Nothing) /\ Shaped(Nothing)
    /\ Nothing.entry = Outside /\ DOMAIN Nothing.blocks = {}
    /\ Nothing.end = 0 /\ Nothing.callees = {} /\ Nothing.callers = {}
<1>1. /\ Nothing.entry = Outside /\ Nothing.end = 0
      /\ Nothing.callees = {} /\ Nothing.callers = {} /\ Nothing.blocks = <<>>
  BY DEF Nothing
<1>2. DOMAIN Nothing.blocks = {}
  BY <1>1
<1>3. Outside \in Places /\ 0 \in Places
  BY DEF Outside, Places
<1>4. Formed(Nothing, Nothing.blocks)
  BY <1>3 DEF Formed, Nothing
<1>. QED  BY <1>1, <1>2, <1>4 DEF Typed, Shaped

\* A function with no block yet.
LEMMA BegunShape ==
    ASSUME NEW e \in Places, NEW end \in Places
    PROVE  LET f == [Nothing EXCEPT !.entry = e, !.end = end]
           IN  /\ Typed(f) /\ Shaped(f) /\ f.entry = e /\ f.end = end
               /\ DOMAIN f.blocks = {} /\ f.callees = {}
<1>. PICK f : f = [Nothing EXCEPT !.entry = e, !.end = end]
  OBVIOUS
<1>1. /\ f.entry = e /\ f.end = end /\ f.callees = {} /\ f.callers = {} /\ f.blocks = <<>>
      /\ Formed(f, <<>>)
  BY DEF Nothing, Formed
<1>2. DOMAIN f.blocks = {}
  BY <1>1
<1>. QED  BY <1>1, <1>2 DEF Typed, Shaped

\* What discovery finds.
LEMMA CandidatesShape ==
    ASSUME Sound
    PROVE  /\ Candidates \subseteq Places
           /\ DOMAIN code.extents \subseteq Addr
           /\ \A s \in DOMAIN code.extents : code.extents[s] \in Places /\ s < code.extents[s]
<1>1. code \in Image /\ \A s \in DOMAIN code.extents : s < code.extents[s]
  BY ImagesAssumption DEF Sound
<1>2. /\ code.starts \subseteq Addr /\ code.prologues \subseteq Addr
      /\ code.extents \in UNION {[S -> 1 .. Size] : S \in SUBSET Addr}
  BY <1>1 DEF Image
<1>3. PICK S \in SUBSET Addr : code.extents \in [S -> 1 .. Size]
  BY <1>2
<1>4. /\ DOMAIN code.extents \subseteq Addr
      /\ \A s \in DOMAIN code.extents : code.extents[s] \in Places
  BY <1>3 DEF Places
<1>5. CallTargets \subseteq Places
  BY InsnShape DEF Sound, CallTargets, Direct
<1>6. Addr \subseteq Places
  BY DEF Addr, Places
<1>7. Trusted \subseteq Places /\ Prologues \subseteq Places
  BY <1>2, <1>4, <1>6 DEF Trusted, Prologues
<1>. QED  BY <1>1, <1>4, <1>5, <1>7 DEF Candidates

\* compute_leaders.
LEMMA LeadersShape ==
    ASSUME Sound, NEW starts \in SUBSET Places
    PROVE  /\ Leaders(decoded, starts) \subseteq Places /\ starts \subseteq Leaders(decoded, starts)
           /\ \A a \in decoded :
                /\ Jumps(a) /\ Direct(a) => Target(a) \in Leaders(decoded, starts)
                /\ Flow(a) = "conditional" => NextOf(a) \in Leaders(decoded, starts)
<1>1. \A a \in decoded : /\ Direct(a) => Target(a) \in Places
                         /\ NextOf(a) \in Places
  BY InsnShape DEF Sound, Direct, Places, Addr
<1>. QED  BY <1>1 DEF Leaders

\* build_all's next function.
LEMMA StrongestShape ==
    ASSUME NEW S \in SUBSET Places, S # {}
    PROVE  Strongest(S) \in S
<1>1. \A a \in S : Strength(a) \in 1 .. 3
  BY DEF Strength
<1>. PICK T : T = {3 - Strength(a) : a \in S}
  OBVIOUS
<1>2. T \in SUBSET Nat /\ T # {}
  BY <1>1
<1>3. PICK m \in T : \A k \in T : m <= k
  BY <1>2, Least
<1>. PICK U : U = {a \in S : 3 - Strength(a) = m}
  OBVIOUS
<1>4. U \in SUBSET Nat /\ U # {}
  <2>1. \E a \in S : m = 3 - Strength(a)
    OBVIOUS
  <2>2. U # {}
    BY <2>1
  <2>3. S \subseteq Nat
    BY DEF Places
  <2>. QED  BY <2>2, <2>3
<1>5. PICK a \in U : \A b \in U : a <= b
  BY <1>4, Least
<1>6. ASSUME NEW b \in S
      PROVE  Strength(a) > Strength(b) \/ (Strength(a) = Strength(b) /\ a <= b)
  <2>1. m <= 3 - Strength(b) /\ m = 3 - Strength(a) /\ a \in S
    BY <1>3, <1>5
  <2>2. Strength(a) \in 1 .. 3 /\ Strength(b) \in 1 .. 3
    BY <1>1, <2>1
  <2>3. CASE Strength(b) = Strength(a)
    BY <1>5, <2>1, <2>3
  <2>4. CASE Strength(b) # Strength(a)
    BY <2>1, <2>2, <2>4
  <2>. QED  BY <2>3, <2>4
<1>7. \E x \in S : \A b \in S :
         Strength(x) > Strength(b) \/ (Strength(x) = Strength(b) /\ x <= b)
  BY <1>5, <1>6
<1>. QED  BY Zenon, <1>7 DEF Strongest

LEMMA FirstShape ==
    ASSUME NEW S \in SUBSET Places, S # {}
    PROVE  Min(S) \in S
BY Smallest DEF Places
LEMMA InvInit == Init => IInv
<1>. SUFFICES ASSUME Init PROVE IInv
  OBVIOUS
<1>1. /\ code \in Images /\ decoded = {a \in Addr : code.insn[a] # Bad} /\ phase = "discover"
      /\ entries = {} /\ leaders = {} /\ todo = {} /\ now = Nothing /\ work = <<>> /\ queued = {}
      /\ left = {"reanalyze", "retract"}
      /\ DOMAIN functions = {}
  BY DEF Init
<1>2. ~Building
  BY <1>1, NothingShape DEF Building
<1>3. TypeInv
  BY <1>1, NothingShape DEF TypeInv
<1>4. PhaseInv
  BY <1>1, <1>2 DEF PhaseInv, Untouched
<1>. QED  BY <1>1, <1>2, <1>3, <1>4
          DEF IInv, NowInv, FunctionsInv, CallersInv, GoneInv, EdgesClosed, Fresh

LEMMA SoundNow ==
    ASSUME TypeInv
    PROVE  Sound /\ decoded \subseteq Addr /\ Typed(now) /\ Shaped(now)
BY DEF TypeInv, Sound

LEMMA TypeDiscover ==
    ASSUME IInv, Discover PROVE TypeInv'
<1>1. Sound /\ TypeInv
  BY SoundNow DEF IInv
<1>2. Candidates \in SUBSET Places
  BY <1>1, CandidatesShape
<1>3. Leaders(decoded, Candidates) \subseteq Places
  BY <1>1, <1>2, LeadersShape
<1>. QED  BY <1>1, <1>2, <1>3 DEF Discover, TypeInv

LEMMA TypeStart ==
    ASSUME IInv, Start PROVE TypeInv'
<1>1. Sound /\ TypeInv
  BY SoundNow DEF IInv
<1>. PICK e : e = Strongest(todo)
  OBVIOUS
<1>2. e \in todo /\ e \in Places
  BY <1>1, StrongestShape DEF Start, TypeInv
<1>3. todo' = todo \ {e} /\ UNCHANGED <<code, decoded, phase, entries, leaders, functions, left>>
  BY DEF Start
<1>4. CASE e \in decoded
  <2>. PICK end : end = IF e \in DOMAIN code.extents THEN code.extents[e] ELSE 0
    OBVIOUS
  <2>1. Begin(e, end)
    BY <1>4 DEF Start
  <2>2. end \in Places
    BY <1>1, CandidatesShape DEF Places
  <2>3. Typed(now') /\ Shaped(now')
    BY <1>2, <2>1, <2>2, BegunShape DEF Begin
  <2>4. work' \in Seq(Places) /\ queued' \subseteq Places
    BY <1>2, <2>1 DEF Begin
  <2>. QED  BY <1>1, <1>3, <2>3, <2>4 DEF TypeInv
<1>5. CASE e \notin decoded
  <2>1. UNCHANGED <<now, work, queued>>
    BY <1>5 DEF Start
  <2>. QED  BY <1>1, <1>3, <2>1 DEF TypeInv
<1>. QED  BY <1>4, <1>5

LEMMA TypeSkip ==
    ASSUME IInv, Skip PROVE TypeInv'
<1>1. TypeInv
  BY DEF IInv
<1>2. Tail(work) \in Seq(Places)
  BY <1>1 DEF TypeInv, Skip
<1>. QED  BY <1>1, <1>2 DEF Skip, TypeInv

\* Where a block is begun.
LEMMA BlockHead ==
    ASSUME IInv, Block
    PROVE  /\ Sound /\ LeadersOK /\ Built(now) /\ Typed(now) /\ Shaped(now)
           /\ Head(work) \in decoded /\ Head(work) \in leaders /\ Head(work) \in queued
           /\ Head(work) \in Addr
           /\ ~OutsideExtent(now, Head(work)) /\ Head(work) \notin DOMAIN now.blocks
           /\ Max(Run(now, Head(work))) \in decoded
           /\ now.entry \in leaders
<1>1. /\ Building /\ work # <<>> /\ Head(work) \notin DOMAIN now.blocks /\ Head(work) \in decoded
  BY DEF Block
<1>2. TypeInv /\ PhaseInv /\ NowInv
  BY DEF IInv
<1>3. Sound /\ decoded \subseteq Addr /\ Typed(now) /\ Shaped(now)
  BY <1>2, SoundNow
<1>4. work \in Seq(Places)
  BY <1>2 DEF TypeInv
<1>5. Head(work) \in Members(work)
  BY <1>1, <1>4, MembersOfTail
<1>6. Head(work) \in queued
  BY <1>1, <1>2, <1>5 DEF NowInv
<1>7. LeadersOK
  BY <1>1, <1>2 DEF PhaseInv
<1>8. Max(Run(now, Head(work))) \in Run(now, Head(work)) /\ Run(now, Head(work)) \subseteq decoded
  BY <1>1, <1>3, RunEnds, RunIsLine DEF Line, Sound
<1>. QED  BY <1>1, <1>2, <1>3, <1>6, <1>7, <1>8 DEF NowInv

LEMMA TypeBlock ==
    ASSUME IInv, Block PROVE TypeInv'
<1>. PICK s : s = Head(work)
  OBVIOUS
<1>. PICK p : p = Pushed(now, Max(Run(now, Head(work))))
  OBVIOUS
<1>1. TypeInv
  BY DEF IInv
<1>2. /\ Sound /\ decoded \subseteq Addr /\ Typed(now) /\ Shaped(now)
      /\ s \in decoded /\ s \in Addr /\ ~OutsideExtent(now, s) /\ s \notin DOMAIN now.blocks
      /\ Max(Run(now, s)) \in decoded
  BY BlockHead DEF Sound
<1>3. p \in Seq(Places)
  BY <1>2, PushedShape DEF Sound
<1>4. /\ now' = AddBlock(now, s) /\ work' = p \o Tail(work)
      /\ queued' = queued \cup {p[i] : i \in 1 .. Len(p)}
      /\ work # <<>>
      /\ UNCHANGED <<code, decoded, phase, entries, leaders, todo, functions, left>>
  BY DEF Block
<1>5. Typed(now') /\ Shaped(now')
  BY <1>2, <1>4, AddBlockShape, ShapedMore
<1>6. work' \in Seq(Places)
  <2>1. Tail(work) \in Seq(Places)
    BY <1>1, <1>4 DEF TypeInv
  <2>. QED  BY <1>3, <1>4, <2>1
<1>7. queued' \subseteq Places
  <2>1. \A i \in 1 .. Len(p) : p[i] \in Places
    BY <1>3
  <2>. QED  BY <1>1, <1>4, <2>1 DEF TypeInv
<1>. QED  BY <1>1, <1>4, <1>5, <1>6, <1>7 DEF TypeInv

LEMMA TypeComplete ==
    ASSUME IInv, Complete PROVE TypeInv'
<1>1. TypeInv /\ PhaseInv /\ NowInv
  BY DEF IInv
<1>2. /\ Building /\ functions' = With(functions, now.entry, now) /\ now' = Nothing
      /\ queued' = {}
      /\ UNCHANGED <<code, decoded, phase, entries, leaders, todo, work, left>>
  BY DEF Complete
<1>3. now.entry \in Addr
  BY <1>1, <1>2 DEF NowInv, Built, TypeInv
<1>4. /\ DOMAIN functions' = DOMAIN functions \cup {now.entry}
      /\ \A e \in DOMAIN functions' :
            functions'[e] = IF e = now.entry THEN now ELSE functions[e]
  BY <1>2 DEF With
<1>5. \A e \in DOMAIN functions' :
         Typed(functions'[e]) /\ Shaped(functions'[e]) /\ functions'[e].entry = e
  BY <1>1, <1>4 DEF TypeInv
<1>. QED  BY <1>1, <1>2, <1>3, <1>4, <1>5, NothingShape DEF TypeInv

\* The callers are all that changes.
LEMMA BackfilledShape ==
    ASSUME NEW fs, DOMAIN fs \subseteq Addr, \A e \in DOMAIN fs : Typed(fs[e]) /\ Shaped(fs[e])
    PROVE  /\ DOMAIN Backfilled(fs) = DOMAIN fs
           /\ \A e \in DOMAIN fs :
                LET g == Backfilled(fs)[e]
                IN  /\ Typed(g) /\ Shaped(g)
                    /\ g.entry = fs[e].entry /\ g.end = fs[e].end
                    /\ g.blocks = fs[e].blocks /\ g.callees = fs[e].callees
                    /\ g.callers = {f \in DOMAIN fs : e \in fs[f].callees}
<1>1. DOMAIN Backfilled(fs) = DOMAIN fs
  BY DEF Backfilled
<1>2. ASSUME NEW e \in DOMAIN fs
      PROVE  LET g == Backfilled(fs)[e]
             IN  /\ Typed(g) /\ Shaped(g)
                 /\ g.entry = fs[e].entry /\ g.end = fs[e].end
                 /\ g.blocks = fs[e].blocks /\ g.callees = fs[e].callees
                 /\ g.callers = {f \in DOMAIN fs : e \in fs[f].callees}
  <2>. PICK g : g = Backfilled(fs)[e]
    OBVIOUS
  <2>. PICK c : c = {f \in DOMAIN fs : e \in fs[f].callees}
    OBVIOUS
  <2>. PICK h : h = fs[e]
    OBVIOUS
  <2>1. g = [h EXCEPT !.callers = c]
    BY <1>2 DEF Backfilled
  <2>2. c \in SUBSET Addr /\ Typed(h) /\ Shaped(h)
    BY <1>2
  <2>3. Formed(h, h.blocks)
    BY <2>2 DEF Typed
  <2>4. /\ Formed(g, h.blocks)
        /\ g.entry = h.entry /\ g.end = h.end /\ g.blocks = h.blocks /\ g.callees = h.callees
        /\ g.callers = c
    BY ONLY <2>1, <2>2, <2>3 DEF Formed
  <2>5. Typed(g)
    BY <2>2, <2>4 DEF Typed
  <2>6. Shaped(g)
    BY <2>2, <2>4, SameBounds DEF Shaped
  <2>. QED  BY <2>4, <2>5, <2>6
<1>. QED  BY <1>1, <1>2

LEMMA TypeBackfill ==
    ASSUME IInv, Backfill PROVE TypeInv'
<1>1. TypeInv
  BY DEF IInv
<1>2. /\ functions' = Backfilled(functions) /\ phase' = "done"
      /\ UNCHANGED <<code, decoded, entries, leaders, todo, now, work, queued, left>>
  BY DEF Backfill
<1>3. /\ DOMAIN functions' = DOMAIN functions
      /\ \A e \in DOMAIN functions :
            Typed(functions'[e]) /\ Shaped(functions'[e])
              /\ functions'[e].entry = functions[e].entry
  BY <1>1, <1>2, BackfilledShape DEF TypeInv
<1>. QED  BY <1>1, <1>2, <1>3 DEF TypeInv

LEMMA TypeReanalyze ==
    ASSUME IInv, Reanalyze PROVE TypeInv'
<1>1. TypeInv
  BY DEF IInv
<1>2. todo' \subseteq Places
  BY <1>1 DEF Reanalyze, TypeInv, Addr, Places
<1>. QED  BY <1>1, <1>2 DEF Reanalyze, TypeInv

LEMMA TypeRetract ==
    ASSUME IInv, Retract PROVE TypeInv'
<1>1. TypeInv
  BY DEF IInv
<1>2. PICK h \in Holes : /\ todo' = Affected(functions, h)
                         /\ decoded' = decoded \ (h[1] .. h[2] - 1)
  BY DEF Retract
<1>3. todo' \subseteq Places
  BY <1>1, <1>2 DEF Affected, TypeInv, Addr, Places
<1>4. decoded' \subseteq decoded
  BY <1>2
<1>. QED  BY <1>1, <1>3, <1>4 DEF Retract, TypeInv

LEMMA TypeRebuild ==
    ASSUME IInv, Rebuild PROVE TypeInv'
<1>1. Sound /\ TypeInv
  BY SoundNow DEF IInv
<1>. PICK e : e = Min(todo)
  OBVIOUS
<1>2. e \in todo /\ e \in Places
  BY <1>1, FirstShape DEF Rebuild, TypeInv
<1>3. /\ entries' = DOMAIN functions /\ leaders' = Leaders(decoded, DOMAIN functions)
      /\ todo' = todo \ {e} /\ Begin(e, 0)
      /\ UNCHANGED <<code, decoded, phase, functions, left>>
  BY DEF Rebuild
<1>4. DOMAIN functions \in SUBSET Places
  BY <1>1 DEF TypeInv, Addr, Places
<1>5. leaders' \subseteq Places
  BY <1>1, <1>3, <1>4, LeadersShape
<1>6. Typed(now') /\ Shaped(now')
  <2>1. 0 \in Places
    BY DEF Places
  <2>. QED  BY <1>2, <1>3, <2>1, BegunShape DEF Begin
<1>7. work' \in Seq(Places) /\ queued' \subseteq Places
  BY <1>2, <1>3 DEF Begin
<1>. QED  BY <1>1, <1>3, <1>4, <1>5, <1>6, <1>7 DEF TypeInv

LEMMA TypeErase ==
    ASSUME IInv, Erase PROVE TypeInv'
<1>1. TypeInv
  BY DEF IInv
<1>2. /\ DOMAIN functions' \subseteq DOMAIN functions
      /\ \A e \in DOMAIN functions' : functions'[e] = functions[e]
  BY DEF Erase, Without
<1>. QED  BY <1>1, <1>2 DEF Erase, TypeInv

LEMMA TypeNext ==
    ASSUME IInv, [Next]_vars PROVE TypeInv'
<1>1. CASE Return
  BY <1>1 DEF Return, IInv, TypeInv
<1>2. CASE UNCHANGED vars
  BY <1>2 DEF vars, IInv, TypeInv
<1>. QED  BY <1>1, <1>2, TypeDiscover, TypeStart, TypeSkip, TypeBlock, TypeComplete,
             TypeBackfill, TypeReanalyze, TypeRetract, TypeRebuild, TypeErase DEF Next

\* The phases.
LEMMA PhaseNext ==
    ASSUME IInv, [Next]_vars PROVE PhaseInv'
<1>1. Sound /\ TypeInv /\ PhaseInv /\ NowInv /\ FunctionsInv
  BY SoundNow DEF IInv
<1>2. CASE Discover
  <2>1. /\ phase = "discover" /\ phase' = "build"
        /\ entries' = Candidates /\ leaders' = Leaders(decoded, Candidates) /\ todo' = Candidates
        /\ UNCHANGED <<code, decoded, now, left>>
    BY <1>2 DEF Discover
  <2>2. Candidates \in SUBSET Places
    BY <1>1, CandidatesShape
  <2>3. /\ Candidates \subseteq leaders'
        /\ \A a \in decoded :
             /\ Jumps(a) /\ Direct(a) => Target(a) \in leaders'
             /\ Flow(a) = "conditional" => NextOf(a) \in leaders'
    BY <1>1, <2>1, <2>2, LeadersShape
  <2>4. LeadersOK'
    BY <2>1, <2>3 DEF LeadersOK, Jumps, Direct, Target, Flow, NextOf
  <2>. QED  BY <1>1, <2>1, <2>3, <2>4 DEF PhaseInv, Building, Untouched
<1>3. CASE Rebuild
  <2>1. /\ phase = "again" /\ entries' = DOMAIN functions
        /\ leaders' = Leaders(decoded, DOMAIN functions)
        /\ todo' \subseteq todo /\ ~Building
        /\ UNCHANGED <<code, decoded, phase, functions, left>>
    BY <1>3 DEF Rebuild
  <2>2. DOMAIN functions \in SUBSET Places
    BY <1>1 DEF TypeInv, Addr, Places
  <2>3. \A a \in decoded :
           /\ Jumps(a) /\ Direct(a) => Target(a) \in leaders'
           /\ Flow(a) = "conditional" => NextOf(a) \in leaders'
    BY <1>1, <2>1, <2>2, LeadersShape
  <2>4. LeadersOK'
    BY <2>1, <2>3 DEF LeadersOK, Jumps, Direct, Target, Flow, NextOf
  <2>5. Building'
    <3>1. Min(todo) \in decoded /\ decoded \subseteq Addr
      BY <1>1, <1>3, SoundNow DEF Rebuild
    <3>2. now' = [Nothing EXCEPT !.entry = Min(todo), !.end = 0]
      BY <1>3 DEF Rebuild, Begin
    <3>3. now'.entry = Min(todo)
      BY <3>2 DEF Nothing
    <3>. QED  BY <3>1, <3>3 DEF Building, Outside, Addr
  <2>. QED  BY <1>1, <2>1, <2>4, <2>5 DEF PhaseInv, Untouched
<1>4. CASE Start
  <2>1. /\ phase = "build" /\ todo' \subseteq todo
        /\ UNCHANGED <<code, decoded, phase, entries, leaders, functions, left>>
    BY <1>4 DEF Start
  <2>2. now' = now \/ Building'
    <3>1. CASE Strongest(todo) \in decoded
      <4>1. now'.entry = Strongest(todo)
        <5>. PICK end : now' = [Nothing EXCEPT !.entry = Strongest(todo), !.end = end]
          BY <1>4, <3>1 DEF Start, Begin
        <5>. QED  BY DEF Nothing
      <4>. QED  BY <1>1, <3>1, <4>1, SoundNow DEF Building, Outside, Addr
    <3>2. CASE Strongest(todo) \notin decoded
      BY <1>4, <3>2 DEF Start
    <3>. QED  BY <3>1, <3>2
  <2>3. LeadersOK'
    BY <1>1, <2>1 DEF PhaseInv, LeadersOK, Jumps, Direct, Target, Flow, NextOf
  <2>. QED  BY <1>1, <2>1, <2>2, <2>3 DEF PhaseInv, Untouched, Building
<1>5. CASE Skip
  BY <1>1, <1>5 DEF Skip, PhaseInv, Untouched, Building, LeadersOK, Jumps, Direct, Target, Flow, NextOf
<1>6. CASE Block
  <2>1. now'.entry = now.entry
    BY <1>6, BlockHead, AddBlockShape DEF Block
  <2>2. Building /\ Building'
    BY <1>6, <2>1 DEF Block, Building
  <2>3. LeadersOK'
    BY <1>1, <1>6, <2>2
       DEF Block, PhaseInv, LeadersOK, Jumps, Direct, Target, Flow, NextOf
  <2>. QED  BY <1>1, <1>6, <2>2, <2>3 DEF Block, PhaseInv, Untouched
<1>7. CASE Complete
  <2>1. /\ ~Building' /\ now' = Nothing /\ Building
        /\ UNCHANGED <<code, decoded, phase, entries, leaders, todo, left>>
    BY <1>7, NothingShape DEF Complete, Building
  <2>2. DOMAIN functions \subseteq DOMAIN functions'
    BY <1>7 DEF Complete, With
  <2>3. LeadersOK'
    BY <1>1, <2>1 DEF PhaseInv, LeadersOK, Jumps, Direct, Target, Flow, NextOf
  <2>4. phase \in {"build", "again"}
    BY <1>1, <2>1 DEF PhaseInv
  <2>. QED  BY <1>1, <2>1, <2>2, <2>3, <2>4 DEF PhaseInv, Untouched
<1>8. CASE Backfill
  BY <1>1, <1>8 DEF Backfill, PhaseInv, Untouched, Building
<1>9. CASE Reanalyze
  <2>1. /\ phase = "done" /\ phase' = "again" /\ left' = left \ {"reanalyze"}
        /\ todo' \subseteq DOMAIN functions
        /\ UNCHANGED <<now, functions>>
    BY <1>9 DEF Reanalyze
  <2>. QED  BY <1>1, <2>1 DEF PhaseInv, Untouched, Building
<1>10. CASE Retract
  <2>1. /\ phase = "done" /\ phase' = "again" /\ left' = left \ {"retract"}
        /\ todo' \subseteq DOMAIN functions
        /\ UNCHANGED <<now, functions>>
    BY <1>10 DEF Retract, Affected
  <2>. QED  BY <1>1, <2>1 DEF PhaseInv, Untouched, Building
<1>11. CASE Erase
  <2>. PICK e : e = Min(todo)
    OBVIOUS
  <2>1. /\ phase = "again" /\ ~Building /\ todo' = todo \ {e}
        /\ functions' = Without(functions, {e})
        /\ UNCHANGED <<phase, now, left>>
    BY <1>11 DEF Erase
  <2>2. todo' \subseteq DOMAIN functions'
    BY <1>1, <2>1 DEF PhaseInv, Without
  <2>. QED  BY <1>1, <2>1, <2>2 DEF PhaseInv, Untouched, Building
<1>12. CASE Return
  BY <1>1, <1>12 DEF Return, PhaseInv, Untouched, Building
<1>13. CASE UNCHANGED vars
  BY <1>1, <1>13 DEF vars, PhaseInv, Untouched, Building, LeadersOK, Jumps, Direct, Target, Flow,
                     NextOf
<1>. QED  BY <1>2, <1>3, <1>4, <1>5, <1>6, <1>7, <1>8, <1>9, <1>10, <1>11, <1>12, <1>13 DEF Next
-----------------------------------------------------------------------------
(* The invariant: the function under construction.                         *)

\* What NowInv says of a function, its worklist and what was queued.
Progress(f, w, q) ==
    /\ Built(f)
    /\ f.entry \in q
    /\ Members(w) \subseteq q
    /\ \A a \in q :
         /\ a \in leaders /\ ~OutsideExtent(f, a)
         /\ a \in decoded => a \in DOMAIN f.blocks \cup Members(w)
    /\ \A b \in DOMAIN f.blocks : \A s \in f.blocks[b].succs : s.target \in q
    /\ phase = "build" => f.entry \in entries

LEMMA ProgressStays ==
    ASSUME NEW f, NEW w, NEW q, UNCHANGED <<code, decoded, leaders, entries, phase>>
    PROVE  Progress(f, w, q)' <=> Progress(f, w, q)
<1>1. Built(f)' <=> Built(f)
  BY BuiltStays DEF Context
<1>2. \A a : OutsideExtent(f, a)' <=> OutsideExtent(f, a)
  BY DEF OutsideExtent, Bounded
<1>3. Members(w)' = Members(w)
  BY DEF Members
<1>. QED  BY <1>1, <1>2, <1>3 DEF Progress

LEMMA ProgressIsNow ==
    ASSUME NEW f, NEW w, NEW q, now' = f, work' = w, queued' = q, Progress(f, w, q)'
    PROVE  NowInv'
<1>1. Built(now)'
  BY BuiltIsNow DEF Progress
<1>. QED  BY <1>1 DEF Progress, NowInv, OutsideExtent, Bounded, Members

\* A function begins with its entry queued.
LEMMA NowBegins ==
    ASSUME Sound, NEW e \in decoded, e \in leaders, NEW end \in Places, end # 0 => e < end,
           phase = "build" => e \in entries
    PROVE  Progress([Nothing EXCEPT !.entry = e, !.end = end], <<e>>, {e})
<1>. PICK f : f = [Nothing EXCEPT !.entry = e, !.end = end]
  OBVIOUS
<1>0. e \in Addr /\ e \in Places /\ e \in Int
  BY DEF Sound, Addr, Places
<1>1. /\ f.entry = e /\ f.end = end /\ DOMAIN f.blocks = {} /\ f.callees = {}
  BY <1>0, BegunShape
<1>2. Built(f)
  BY <1>1 DEF Built, Calls, Bounded
<1>3. Members(<<e>>) = {e}
  BY <1>0, MembersOfOne
<1>4. ~OutsideExtent(f, e)
  BY <1>0, <1>1 DEF OutsideExtent, Bounded, Places
<1>. QED  BY <1>1, <1>2, <1>3, <1>4 DEF Progress

LEMMA NowStart ==
    ASSUME IInv, Start PROVE NowInv'
<1>1. Sound /\ TypeInv /\ PhaseInv
  BY SoundNow DEF IInv
<1>. PICK e : e = Strongest(todo)
  OBVIOUS
<1>2. e \in todo /\ phase = "build" /\ ~Building
  BY <1>1, StrongestShape DEF Start, TypeInv
<1>3. UNCHANGED <<code, decoded, phase, entries, leaders, functions, left>>
  BY DEF Start
<1>4. CASE e \in decoded
  <2>. PICK end : end = IF e \in DOMAIN code.extents THEN code.extents[e] ELSE 0
    OBVIOUS
  <2>. PICK f : f = [Nothing EXCEPT !.entry = e, !.end = end]
    OBVIOUS
  <2>1. now' = f /\ work' = <<e>> /\ queued' = {e}
    BY <1>4 DEF Start, Begin
  <2>2. end \in Places /\ (end # 0 => e < end)
    BY <1>1, CandidatesShape DEF Places
  <2>3. e \in entries /\ e \in leaders
    BY <1>1, <1>2 DEF PhaseInv
  <2>4. Progress(f, <<e>>, {e})
    BY <1>1, <1>4, <2>2, <2>3, NowBegins
  <2>5. Progress(f, <<e>>, {e})'
    BY <1>3, <2>4, ProgressStays
  <2>. QED  BY <2>1, <2>5, ProgressIsNow
<1>5. CASE e \notin decoded
  <2>1. now' = now
    BY <1>5 DEF Start
  <2>. QED  BY <1>2, <2>1 DEF NowInv, Building
<1>. QED  BY <1>4, <1>5

LEMMA NowRebuild ==
    ASSUME IInv, Rebuild PROVE NowInv'
<1>1. Sound /\ TypeInv /\ PhaseInv
  BY SoundNow DEF IInv
<1>. PICK e : e = Min(todo)
  OBVIOUS
<1>2. e \in todo /\ e \in decoded /\ phase = "again" /\ e \in DOMAIN functions
  BY <1>1, FirstShape DEF Rebuild, TypeInv, PhaseInv
<1>3. /\ entries' = DOMAIN functions /\ leaders' = Leaders(decoded, DOMAIN functions)
      /\ UNCHANGED <<code, decoded, phase, functions, left>>
  BY DEF Rebuild
<1>4. e \in leaders'
  <2>1. DOMAIN functions \in SUBSET Places
    BY <1>1 DEF TypeInv, Addr, Places
  <2>. QED  BY <1>1, <1>2, <1>3, <2>1, LeadersShape
<1>. PICK f : f = [Nothing EXCEPT !.entry = e, !.end = 0]
  OBVIOUS
<1>5. now' = f /\ work' = <<e>> /\ queued' = {e}
  BY DEF Rebuild, Begin
<1>6. e \in Places /\ 0 \in Places /\ e \in Addr
  BY <1>1, <1>2 DEF Sound, Addr, Places
<1>7. /\ f.entry = e /\ f.end = 0 /\ DOMAIN f.blocks = {} /\ f.callees = {}
  <2>. PICK z : z = 0
    OBVIOUS
  <2>1. f = [Nothing EXCEPT !.entry = e, !.end = z] /\ z \in Places
    BY <1>6
  <2>2. /\ f.entry = e /\ f.end = z /\ DOMAIN f.blocks = {} /\ f.callees = {}
    BY ONLY <1>6, <2>1, BegunShape
  <2>. QED  BY <2>2
<1>8. Members(<<e>>) = {e}
  BY <1>6, MembersOfOne
<1>9. Built(f)'
  BY <1>2, <1>3, <1>7 DEF Built, Calls, Bounded
<1>10. ~OutsideExtent(f, e)
  BY <1>7 DEF OutsideExtent, Bounded
<1>11. Progress(f, <<e>>, {e})'
  <2>1. Members(<<e>>)' = {e} /\ ~OutsideExtent(f, e)'
    BY <1>8, <1>10 DEF Members, OutsideExtent, Bounded
  <2>. QED  BY <1>2, <1>3, <1>4, <1>7, <1>9, <2>1 DEF Progress
<1>. QED  BY <1>5, <1>11, ProgressIsNow

LEMMA NowSkip ==
    ASSUME IInv, Skip PROVE NowInv'
<1>1. Sound /\ TypeInv /\ NowInv /\ decoded \subseteq Addr
  BY SoundNow DEF IInv
<1>. PICK f : f = now
  OBVIOUS
<1>. PICK w : w = Tail(work)
  OBVIOUS
<1>. PICK q : q = queued
  OBVIOUS
<1>2. /\ Building /\ work # <<>> /\ work \in Seq(Places)
      /\ Head(work) \in DOMAIN f.blocks \/ Head(work) \notin decoded
      /\ now' = f /\ work' = w /\ queued' = q
      /\ UNCHANGED <<code, decoded, leaders, entries, phase>>
  BY <1>1 DEF Skip, TypeInv
<1>3. Members(work) = {Head(work)} \cup Members(w)
  BY <1>2, MembersOfTail
<1>4. Progress(f, w, q)
  BY <1>1, <1>2, <1>3 DEF NowInv, Progress
<1>5. Progress(f, w, q)'
  BY <1>2, <1>4, ProgressStays
<1>. QED  BY <1>2, <1>5, ProgressIsNow

LEMMA NowBlock ==
    ASSUME IInv, Block PROVE NowInv'
<1>1. Sound /\ TypeInv /\ NowInv /\ decoded \subseteq Addr
  BY SoundNow DEF IInv
<1>. PICK s : s = Head(work)
  OBVIOUS
<1>. PICK last : last = Max(Run(now, s))
  OBVIOUS
<1>. PICK p : p = Pushed(now, last)
  OBVIOUS
<1>. PICK g : g = AddBlock(now, s)
  OBVIOUS
<1>. PICK w : w = p \o Tail(work)
  OBVIOUS
<1>. PICK q : q = queued \cup Members(p)
  OBVIOUS
<1>2. /\ Building /\ work # <<>> /\ work \in Seq(Places)
      /\ now' = g /\ work' = w /\ queued' = q
      /\ UNCHANGED <<code, decoded, leaders, entries, phase>>
  BY <1>1 DEF Block, TypeInv, Members
<1>3. /\ LeadersOK /\ Built(now) /\ Typed(now) /\ Shaped(now)
      /\ s \in decoded /\ s \in leaders /\ s \in queued /\ s \in Addr
      /\ ~OutsideExtent(now, s) /\ s \notin DOMAIN now.blocks
      /\ last \in decoded /\ now.entry \in leaders
  BY BlockHead
<1>4. Built(g)
  BY <1>1, <1>3, BuiltMore
<1>5. /\ g.entry = now.entry /\ g.end = now.end
      /\ DOMAIN g.blocks = DOMAIN now.blocks \cup {s}
      /\ g.blocks[s].succs = Members(Edges(now, last))
      /\ \A b \in DOMAIN now.blocks : g.blocks[b].succs = now.blocks[b].succs
  BY <1>1, <1>3, AddBlockShape
<1>6. /\ p \in Seq(Places)
      /\ \A t \in Members(p) : Leads(now, last, t)
      /\ \A t : Leads(now, last, t) => t \in q
  BY <1>1, <1>3, PushedShape DEF Sound
<1>7. Members(work) = {s} \cup Members(Tail(work)) /\ Tail(work) \in Seq(Places)
  BY <1>2, MembersOfTail
<1>8. Members(w) = Members(p) \cup Members(Tail(work))
  <2>. PICK r : r = Tail(work)
    OBVIOUS
  <2>1. p \in Seq(Places) /\ r \in Seq(Places)
    BY <1>6, <1>7
  <2>2. Members(p \o r) = Members(p) \cup Members(r)
    BY ONLY <2>1, MembersOfBoth
  <2>. QED  BY <2>2
<1>9. \A x : OutsideExtent(g, x) <=> OutsideExtent(now, x)
  BY <1>5, SameBounds
<1>10. \A t \in Members(p) : t \in leaders /\ ~OutsideExtent(now, t)
  <2>1. now.entry \in Int /\ now.end \in Int /\ (Bounded(now) => now.entry < now.end)
    BY <1>3 DEF Typed, Formed, Places, Built
  <2>. QED  BY <1>1, <1>3, <1>6, <2>1, LeadsShape
<1>11. \A e \in Members(Edges(now, last)) : e.target \in q
  <2>1. \A e \in Members(Edges(now, last)) : Leads(now, last, e.target)
    BY <1>1, <1>3, EdgesShape DEF Sound
  <2>. QED  BY <1>6, <2>1
<1>12. /\ now.entry \in queued /\ Members(work) \subseteq queued
       /\ \A a \in queued :
            /\ a \in leaders /\ ~OutsideExtent(now, a)
            /\ a \in decoded => a \in DOMAIN now.blocks \cup Members(work)
       /\ \A b \in DOMAIN now.blocks : \A e \in now.blocks[b].succs : e.target \in queued
       /\ phase = "build" => now.entry \in entries
  BY <1>1, <1>2 DEF NowInv
<1>13. Progress(g, w, q)
  <2>1. g.entry \in q /\ Members(w) \subseteq q
    BY <1>5, <1>7, <1>8, <1>12
  <2>2. \A a \in q :
          /\ a \in leaders /\ ~OutsideExtent(g, a)
          /\ a \in decoded => a \in DOMAIN g.blocks \cup Members(w)
    BY <1>5, <1>7, <1>8, <1>9, <1>10, <1>12
  <2>3. \A b \in DOMAIN g.blocks : \A e \in g.blocks[b].succs : e.target \in q
    BY <1>5, <1>11, <1>12
  <2>. QED  BY <1>4, <1>5, <1>12, <2>1, <2>2, <2>3 DEF Progress
<1>14. Progress(g, w, q)'
  BY <1>2, <1>13, ProgressStays
<1>. QED  BY <1>2, <1>14, ProgressIsNow

LEMMA NowNext ==
    ASSUME IInv, [Next]_vars PROVE NowInv'
<1>1. CASE Complete
  <2>1. ~Building'
    BY <1>1, NothingShape DEF Complete, Building
  <2>. QED  BY <2>1 DEF NowInv
<1>2. CASE now' = now /\ ~Building
  BY <1>2 DEF NowInv, Building
<1>3. CASE Discover \/ Backfill \/ Reanalyze \/ Retract \/ Erase \/ Return
  <2>1. ~Building /\ now' = now
    BY <1>3 DEF IInv, PhaseInv, Discover, Backfill, Reanalyze, Retract, Erase, Return
  <2>. QED  BY <1>2, <2>1
<1>4. CASE UNCHANGED vars
  <2>. PICK f : f = now
    OBVIOUS
  <2>. PICK w : w = work
    OBVIOUS
  <2>. PICK q : q = queued
    OBVIOUS
  <2>1. /\ now' = f /\ work' = w /\ queued' = q
        /\ UNCHANGED <<code, decoded, leaders, entries, phase>>
    BY <1>4 DEF vars
  <2>2. CASE Building
    <3>1. Progress(f, w, q)
      BY <2>2 DEF IInv, NowInv, Progress
    <3>2. Progress(f, w, q)'
      BY <2>1, <3>1, ProgressStays
    <3>. QED  BY <2>1, <3>2, ProgressIsNow
  <2>3. CASE ~Building
    BY <1>2, <2>1, <2>3
  <2>. QED  BY <2>2, <2>3
<1>. QED  BY <1>1, <1>3, <1>4, NowStart, NowSkip, NowBlock, NowRebuild DEF Next
-----------------------------------------------------------------------------
(* The invariant: the functions there are.                                 *)

\* Being built is a matter of bounds, blocks and callees.
LEMMA SameBuilt ==
    ASSUME NEW f, NEW g, g.entry = f.entry, g.end = f.end, g.blocks = f.blocks,
           g.callees = f.callees, Built(f)
    PROVE  Built(g)
<1>1. \A b \in DOMAIN g.blocks : Cut(g, b)
  BY CutStays DEF Built
<1>2. \A t : Calls(g, t) <=> Calls(f, t)
  BY SameBounds DEF Calls
<1>. QED  BY <1>1, <1>2 DEF Built, Bounded

\* When the worklist is empty, every place that was queued is a block.
LEMMA NowComplete ==
    ASSUME IInv, Complete
    PROVE  /\ Built(now) /\ now.entry \in DOMAIN now.blocks
           /\ \A b \in DOMAIN now.blocks : \A s \in now.blocks[b].succs :
                s.target \in decoded => s.target \in DOMAIN now.blocks
           /\ phase = "build" => now.entry \in entries
           /\ DOMAIN functions' = DOMAIN functions \cup {now.entry}
           /\ \A e \in DOMAIN functions' :
                functions'[e] = IF e = now.entry THEN now ELSE functions[e]
<1>1. Building /\ work = <<>> /\ functions' = With(functions, now.entry, now)
  BY DEF Complete
<1>2. NowInv
  BY DEF IInv
<1>3. Members(work) = {}
  BY <1>1, MembersOfNone
<1>4. /\ DOMAIN functions' = DOMAIN functions \cup {now.entry}
      /\ \A e \in DOMAIN functions' :
           functions'[e] = IF e = now.entry THEN now ELSE functions[e]
  BY <1>1 DEF With
<1>. QED  BY <1>1, <1>2, <1>3, <1>4 DEF NowInv, Built

LEMMA BuiltInPlace ==
    ASSUME UNCHANGED Context, NEW e, NEW f, functions'[e] = f, Built(f)
    PROVE  Built(functions[e])'
<1>1. Built(f)'
  BY BuiltStays
<1>. QED  BY <1>1 DEF Built, Cut, Calls, Continues, Leads, Crosses, OutsideExtent, RunsDry, Beyond,
                      Bounded

LEMMA FunctionsNext ==
    ASSUME IInv, [Next]_vars PROVE FunctionsInv'
<1>1. TypeInv /\ PhaseInv /\ NowInv /\ FunctionsInv
  BY DEF IInv
<1>2. CASE DOMAIN functions' = {}
  BY <1>2 DEF FunctionsInv
<1>3. CASE phase' # "build" /\ ~(phase' = "done" /\ left' = {"reanalyze", "retract"})
  BY <1>3 DEF FunctionsInv, Fresh
<1>4. CASE UNCHANGED <<code, decoded, leaders, entries, phase, functions, left>>
  <2>. SUFFICES ASSUME phase = "build" \/ Fresh
                PROVE  /\ DOMAIN functions' \subseteq entries'
                       /\ \A e \in DOMAIN functions' :
                            Built(functions[e])' /\ e \in DOMAIN functions'[e].blocks
    BY <1>4 DEF FunctionsInv, Fresh
  <2>1. ASSUME NEW e \in DOMAIN functions PROVE Built(functions[e])'
    <3>. PICK f : f = functions[e]
      OBVIOUS
    <3>1. Built(f) /\ functions'[e] = f
      BY <1>1, <1>4 DEF FunctionsInv
    <3>. QED  BY <1>4, <3>1, BuiltInPlace DEF Context
  <2>. QED  BY <1>1, <1>4, <2>1 DEF FunctionsInv
<1>5. CASE Discover
  BY <1>1, <1>2, <1>5 DEF Discover, PhaseInv
<1>6. CASE Start \/ Skip \/ Block
  BY <1>4, <1>6 DEF Start, Skip, Block
<1>7. CASE Complete
  <2>1. CASE phase = "build"
    <3>1. /\ DOMAIN functions' = DOMAIN functions \cup {now.entry}
          /\ \A e \in DOMAIN functions' :
                functions'[e] = IF e = now.entry THEN now ELSE functions[e]
          /\ Built(now) /\ now.entry \in DOMAIN now.blocks /\ now.entry \in entries
      BY <1>7, <2>1, NowComplete
    <3>2. UNCHANGED <<code, decoded, leaders, entries>>
      BY <1>7 DEF Complete
    <3>3. ASSUME NEW e \in DOMAIN functions'
          PROVE  Built(functions[e])' /\ e \in DOMAIN functions'[e].blocks
      <4>. PICK f : f = functions'[e]
        OBVIOUS
      <4>1. Built(f) /\ e \in DOMAIN f.blocks
        <5>1. CASE e = now.entry
          BY <3>1, <5>1
        <5>2. CASE e # now.entry
          <6>1. e \in DOMAIN functions /\ f = functions[e]
            BY <3>1, <5>2
          <6>. QED  BY <1>1, <2>1, <6>1 DEF FunctionsInv
        <5>. QED  BY <5>1, <5>2
      <4>. QED  BY <3>2, <4>1, BuiltInPlace DEF Context
    <3>4. DOMAIN functions' \subseteq entries'
      BY <1>1, <2>1, <3>1, <3>2 DEF FunctionsInv
    <3>. QED  BY <3>3, <3>4 DEF FunctionsInv
  <2>2. CASE phase # "build"
    BY <1>1, <1>3, <1>7, <2>2 DEF Complete, PhaseInv
  <2>. QED  BY <2>1, <2>2
<1>8. CASE Backfill
  <2>1. /\ functions' = Backfilled(functions) /\ phase = "build"
        /\ UNCHANGED <<code, decoded, leaders, entries>>
    BY <1>8 DEF Backfill
  <2>2. /\ DOMAIN functions' = DOMAIN functions
        /\ \A e \in DOMAIN functions :
             /\ functions'[e].entry = functions[e].entry /\ functions'[e].end = functions[e].end
             /\ functions'[e].blocks = functions[e].blocks
             /\ functions'[e].callees = functions[e].callees
    BY <1>1, <2>1, BackfilledShape DEF TypeInv
  <2>3. ASSUME NEW e \in DOMAIN functions
        PROVE  Built(functions[e])' /\ e \in DOMAIN functions'[e].blocks
    <3>. PICK g : g = functions'[e]
      OBVIOUS
    <3>. PICK f : f = functions[e]
      OBVIOUS
    <3>1. Built(f) /\ e \in DOMAIN f.blocks
      BY <1>1, <2>1 DEF FunctionsInv
    <3>2. g.entry = f.entry /\ g.end = f.end /\ g.blocks = f.blocks /\ g.callees = f.callees
      BY <2>2
    <3>3. Built(g)
      BY <3>1, <3>2, SameBuilt
    <3>. QED  BY <2>1, <3>1, <3>2, <3>3, BuiltInPlace DEF Context
  <2>4. DOMAIN functions' \subseteq entries'
    BY <1>1, <2>1, <2>2 DEF FunctionsInv
  <2>. QED  BY <2>2, <2>3, <2>4 DEF FunctionsInv
<1>9. CASE Reanalyze \/ Retract \/ Rebuild \/ Erase
  BY <1>3, <1>9 DEF Reanalyze, Retract, Rebuild, Erase
<1>10. CASE Return
  BY <1>1, <1>3, <1>10 DEF Return, PhaseInv, Untouched
<1>11. CASE UNCHANGED vars
  BY <1>4, <1>11 DEF vars
<1>. QED  BY <1>5, <1>6, <1>7, <1>8, <1>9, <1>10, <1>11 DEF Next

LEMMA CallersNext ==
    ASSUME IInv, [Next]_vars PROVE CallersInv'
<1>1. TypeInv /\ PhaseInv /\ CallersInv
  BY DEF IInv
<1>2. CASE Backfill
  <2>1. functions' = Backfilled(functions)
    BY <1>2 DEF Backfill
  <2>2. /\ DOMAIN functions' = DOMAIN functions
        /\ \A e \in DOMAIN functions :
             /\ functions'[e].callees = functions[e].callees
             /\ functions'[e].callers = {f \in DOMAIN functions : e \in functions[f].callees}
    BY <1>1, <2>1, BackfilledShape DEF TypeInv
  <2>. QED  BY <2>2 DEF CallersInv
<1>3. CASE UNCHANGED vars
  BY <1>1, <1>3 DEF vars, CallersInv, Fresh
<1>4. ASSUME Next, ~Backfill PROVE ~Fresh'
  BY <1>1, <1>4 DEF Next, Discover, Start, Skip, Block, Complete, Reanalyze, Retract, Rebuild,
                    Erase, Return, PhaseInv, Fresh, Untouched
<1>. QED  BY <1>2, <1>3, <1>4 DEF CallersInv

LEMMA EdgesNext ==
    ASSUME IInv, [Next]_vars PROVE EdgesClosed'
<1>1. TypeInv /\ EdgesClosed
  BY DEF IInv
<1>2. CASE Complete
  <2>1. /\ \A b \in DOMAIN now.blocks : \A s \in now.blocks[b].succs :
              s.target \in decoded => s.target \in DOMAIN now.blocks
        /\ DOMAIN functions' = DOMAIN functions \cup {now.entry}
        /\ \A e \in DOMAIN functions' :
              functions'[e] = IF e = now.entry THEN now ELSE functions[e]
    BY <1>2, NowComplete
  <2>2. decoded' = decoded
    BY <1>2 DEF Complete
  <2>. QED  BY <1>1, <2>1, <2>2 DEF EdgesClosed
<1>3. CASE Backfill
  <2>1. functions' = Backfilled(functions) /\ decoded' = decoded
    BY <1>3 DEF Backfill
  <2>2. /\ DOMAIN functions' = DOMAIN functions
        /\ \A e \in DOMAIN functions : functions'[e].blocks = functions[e].blocks
    BY <1>1, <2>1, BackfilledShape DEF TypeInv
  <2>. QED  BY <1>1, <2>1, <2>2 DEF EdgesClosed
<1>4. CASE /\ DOMAIN functions' \subseteq DOMAIN functions
           /\ \A e \in DOMAIN functions' : functions'[e] = functions[e]
           /\ decoded' \subseteq decoded
  BY <1>1, <1>4 DEF EdgesClosed
<1>5. CASE Erase
  BY <1>4, <1>5 DEF Erase, Without
<1>6. CASE Discover \/ Start \/ Skip \/ Block \/ Reanalyze \/ Rebuild \/ Return
  BY <1>4, <1>6 DEF Discover, Start, Skip, Block, Reanalyze, Rebuild, Return
<1>7. CASE Retract
  BY <1>4, <1>7 DEF Retract
<1>8. CASE UNCHANGED vars
  BY <1>4, <1>8 DEF vars
<1>. QED  BY <1>2, <1>3, <1>5, <1>6, <1>7, <1>8 DEF Next
-----------------------------------------------------------------------------
(* The invariant: what was retracted is gone.                              *)

\* A function the retraction leaves alone has nothing in the region, unless a
\* block of it lies before its entry.
LEMMA AffectedShape ==
    ASSUME NEW f, Typed(f), Shaped(f), NEW h \in Holes,
           ~(f.entry < h[2] /\ ExtentEnd(f) > h[1]),
           \A b \in DOMAIN f.blocks : f.entry <= b
    PROVE  \A x \in InsnsOf(f) : x \notin h[1] .. h[2] - 1
<1>. SUFFICES ASSUME NEW b \in DOMAIN f.blocks, NEW x \in f.blocks[b].insns
              PROVE  x \notin h[1] .. h[2] - 1
  BY DEF InsnsOf
<1>1. h[1] \in Int /\ h[2] \in Int
  BY HolesAssumption DEF Addr
<1>. PICK E : E = {f.entry} \cup {f.blocks[c].end : c \in DOMAIN f.blocks}
  OBVIOUS
<1>2. E \in SUBSET (0 .. Size) /\ E # {} /\ Size \in Nat
  <2>1. f.entry \in 0 .. Size
    BY DEF Typed, Formed, Places
  <2>2. \A c \in DOMAIN f.blocks : f.blocks[c].end \in 0 .. Size
    BY DEF Typed, BlockRec, Places
  <2>. QED  BY <2>1, <2>2
<1>. PICK m : m = Max(E)
  OBVIOUS
<1>3. m \in E /\ \A y \in E : y <= m
  BY <1>2, Greatest
<1>4. ExtentEnd(f) = m
  BY DEF ExtentEnd
<1>5. f.blocks[b].end \in E /\ f.blocks[b].end <= m
  BY <1>3
<1>6. f.blocks[b].insns \subseteq Addr /\ DOMAIN f.blocks \subseteq Addr
  BY DEF Typed, BlockRec
<1>7. b <= x /\ x < f.blocks[b].end /\ f.entry <= b
  BY DEF Shaped
<1>8. x \in Int /\ b \in Int /\ f.entry \in Int /\ m \in Int /\ f.blocks[b].end \in Int
  BY <1>2, <1>3, <1>5, <1>6 DEF Addr, Typed, Formed, Places
<1>. QED  BY <1>1, <1>4, <1>5, <1>7, <1>8

LEMMA GoneNext ==
    ASSUME IInv, [Next]_vars PROVE GoneInv'
<1>1. TypeInv /\ PhaseInv /\ NowInv /\ FunctionsInv /\ GoneInv
  BY DEF IInv
<1>2. CASE phase' \notin {"done", "again"}
  BY <1>2 DEF GoneInv
<1>3. CASE /\ phase \in {"done", "again"} /\ decoded' = decoded
           /\ DOMAIN functions' \subseteq DOMAIN functions
           /\ \A e \in DOMAIN functions' :
                /\ functions'[e] = functions[e]
                /\ e \notin todo' /\ e # now'.entry => e \notin todo /\ e # now.entry
  BY <1>1, <1>3 DEF GoneInv, InsnsOf
<1>4. \A e \in DOMAIN functions : e # Outside
  BY <1>1 DEF TypeInv, Addr, Outside
<1>5. CASE Discover
  BY <1>2, <1>5 DEF Discover
<1>6. CASE Start
  BY <1>2, <1>6 DEF Start
<1>7. CASE Skip \/ Block
  <2>1. now'.entry = now.entry
    <3>1. CASE Skip
      BY <3>1 DEF Skip
    <3>2. CASE Block
      <4>1. Sound /\ Typed(now) /\ Head(work) \in Addr
        BY <3>2, BlockHead
      <4>2. now' = AddBlock(now, Head(work))
        BY <3>2 DEF Block
      <4>. QED  BY <4>1, <4>2, AddBlockShape
    <3>. QED  BY <1>7, <3>1, <3>2
  <2>. QED  BY <1>1, <1>2, <1>3, <1>7, <2>1 DEF Skip, Block, TypeInv
<1>8. CASE Complete
  <2>1. /\ DOMAIN functions' = DOMAIN functions \cup {now.entry}
        /\ \A e \in DOMAIN functions' :
              functions'[e] = IF e = now.entry THEN now ELSE functions[e]
        /\ Built(now)
    BY <1>8, NowComplete
  <2>2. todo' = todo /\ decoded' = decoded /\ phase' = phase
    BY <1>8 DEF Complete
  <2>3. InsnsOf(now) \subseteq decoded
    BY <2>1 DEF Built, Cut, InsnsOf
  <2>4. ASSUME phase \in {"done", "again"}, NEW e \in DOMAIN functions', e \notin todo,
               \A b \in DOMAIN functions'[e].blocks : e <= b
        PROVE  InsnsOf(functions'[e]) \subseteq decoded
    <3>1. CASE e = now.entry
      BY <2>1, <2>3, <3>1
    <3>2. CASE e # now.entry
      <4>1. e \in DOMAIN functions /\ functions'[e] = functions[e]
        BY <2>1, <3>2
      <4>. QED  BY <1>1, <2>4, <3>2, <4>1 DEF GoneInv
    <3>. QED  BY <3>1, <3>2
  <2>. QED  BY <2>2, <2>4 DEF GoneInv, InsnsOf
<1>9. CASE Backfill
  <2>1. functions' = Backfilled(functions) /\ phase = "build" /\ decoded' = decoded
    BY <1>9 DEF Backfill
  <2>2. /\ DOMAIN functions' = DOMAIN functions
        /\ \A e \in DOMAIN functions : functions'[e].blocks = functions[e].blocks
    BY <1>1, <2>1, BackfilledShape DEF TypeInv
  <2>3. \A e \in DOMAIN functions : InsnsOf(functions[e]) \subseteq decoded
    BY <1>1, <2>1 DEF FunctionsInv, Built, Cut, InsnsOf
  <2>. QED  BY <2>1, <2>2, <2>3 DEF GoneInv, InsnsOf
<1>10. CASE Reanalyze
  BY <1>1, <1>3, <1>10 DEF Reanalyze, PhaseInv
<1>11. CASE Retract
  <2>1. PICK h \in Holes : /\ todo' = Affected(functions, h)
                           /\ decoded' = decoded \ (h[1] .. h[2] - 1)
    BY <1>11 DEF Retract
  <2>2. phase = "done" /\ functions' = functions /\ now' = now
    BY <1>11 DEF Retract
  <2>3. todo = {} /\ ~Building
    BY <1>1, <2>2 DEF PhaseInv
  <2>4. ASSUME NEW e \in DOMAIN functions, e \notin todo',
               \A b \in DOMAIN functions[e].blocks : e <= b
        PROVE  InsnsOf(functions[e]) \subseteq decoded'
    <3>1. InsnsOf(functions[e]) \subseteq decoded
      BY <1>1, <1>4, <2>2, <2>3, <2>4 DEF GoneInv, Building
    <3>2. Typed(functions[e]) /\ Shaped(functions[e]) /\ functions[e].entry = e
      BY <1>1 DEF TypeInv
    <3>3. ~(functions[e].entry < h[2] /\ ExtentEnd(functions[e]) > h[1])
      BY <2>1, <2>4, <3>2 DEF Affected
    <3>4. \A x \in InsnsOf(functions[e]) : x \notin h[1] .. h[2] - 1
      BY <2>4, <3>2, <3>3, AffectedShape
    <3>. QED  BY <2>1, <3>1, <3>4
  <2>. QED  BY <2>2, <2>4 DEF GoneInv, InsnsOf
<1>12. CASE Rebuild
  <2>. PICK e : e = Min(todo)
    OBVIOUS
  <2>1. /\ phase = "again" /\ ~Building /\ todo' = todo \ {e} /\ phase' = phase
        /\ decoded' = decoded /\ functions' = functions
    BY <1>12 DEF Rebuild
  <2>2. now'.entry = e
    <3>1. now' = [Nothing EXCEPT !.entry = e, !.end = 0]
      BY <1>12 DEF Rebuild, Begin
    <3>. QED  BY <3>1 DEF Nothing
  <2>. QED  BY <1>3, <1>4, <2>1, <2>2 DEF Building
<1>13. CASE Erase
  <2>. PICK e : e = Min(todo)
    OBVIOUS
  <2>1. /\ phase = "again" /\ phase' = phase /\ todo' = todo \ {e}
        /\ functions' = Without(functions, {e})
        /\ now' = now /\ decoded' = decoded
    BY <1>13 DEF Erase
  <2>2. /\ DOMAIN functions' = DOMAIN functions \ {e}
        /\ \A g \in DOMAIN functions' : functions'[g] = functions[g]
    BY <2>1 DEF Without
  <2>. QED  BY <1>3, <2>1, <2>2
<1>14. CASE Return
  BY <1>3, <1>14 DEF Return
<1>15. CASE UNCHANGED vars
  BY <1>2, <1>3, <1>15 DEF vars, TypeInv
<1>. QED  BY <1>5, <1>6, <1>7, <1>8, <1>9, <1>10, <1>11, <1>12, <1>13, <1>14, <1>15 DEF Next
-----------------------------------------------------------------------------
(* The theorems.                                                           *)

LEMMA InvNext == IInv /\ [Next]_vars => IInv'
<1>. SUFFICES ASSUME IInv, [Next]_vars PROVE IInv'
  OBVIOUS
<1>1. TypeInv' /\ PhaseInv' /\ NowInv' /\ FunctionsInv' /\ CallersInv' /\ GoneInv' /\ EdgesClosed'
  BY TypeNext, PhaseNext, NowNext, FunctionsNext, CallersNext, GoneNext, EdgesNext
<1>. QED  BY <1>1 DEF IInv

LEMMA Invariance == Spec => []IInv
BY InvInit, InvNext, PTL DEF Spec

\* Every part of the analysis state has its type, whatever was found and in
\* whatever order functions are built, rebuilt and retracted: a block holds its
\* own start, ends after it, and its predecessors are blocks of its function.
THEOREM TypeCorrect == Spec => []TypeOK
<1>1. ASSUME NEW f, Typed(f), Shaped(f) PROVE FunctionOK(f)
  <2>1. f.entry \in Addr \cup {Outside} /\ f.end \in 0 .. Size
    BY <1>1 DEF Typed, Formed, Places, Addr, Outside
  <2>2. f.callees \subseteq Addr \cup {Outside} /\ f.callers \subseteq Addr
    BY <1>1 DEF Typed, Formed, Places, Addr, Outside
  <2>3. DOMAIN f.blocks \subseteq Addr
    BY <1>1 DEF Typed
  <2>4. ASSUME NEW b \in DOMAIN f.blocks
        PROVE  /\ b \in f.blocks[b].insns /\ f.blocks[b].insns \subseteq Addr
               /\ f.blocks[b].end \in b + 1 .. Size
               /\ f.blocks[b].preds \subseteq DOMAIN f.blocks
               /\ f.blocks[b].open \in BOOLEAN
               /\ \A e \in f.blocks[b].succs :
                    /\ e.target \in Addr \cup {Outside}
                    /\ e.kind \in {"taken", "jump", "fall-through"}
    <3>1. f.blocks[b] \in BlockRec
      BY <1>1 DEF Typed
    <3>2. /\ f.blocks[b].insns \subseteq Addr /\ f.blocks[b].end \in Places
          /\ f.blocks[b].succs \subseteq EdgeRec /\ f.blocks[b].open \in BOOLEAN
      BY <3>1 DEF BlockRec
    <3>3. /\ b \in f.blocks[b].insns /\ f.blocks[b].preds \subseteq DOMAIN f.blocks
          /\ b < f.blocks[b].end
      BY <1>1 DEF Shaped
    <3>4. f.blocks[b].end \in b + 1 .. Size
      BY <2>3, <3>2, <3>3 DEF Places, Addr
    <3>5. \A e \in EdgeRec : /\ e.target \in Addr \cup {Outside}
                             /\ e.kind \in {"taken", "jump", "fall-through"}
      BY DEF EdgeRec, Places, Addr, Outside
    <3>. QED  BY <3>2, <3>3, <3>4, <3>5
  <2>. QED  BY <2>1, <2>2, <2>3, <2>4 DEF FunctionOK
<1>2. IInv => TypeOK
  <2>. SUFFICES ASSUME IInv PROVE TypeOK
    OBVIOUS
  <2>1. TypeInv
    BY DEF IInv
  <2>2. Places = Addr \cup {Outside}
    BY DEF Places, Addr, Outside
  <2>3. code \in Image
    BY <2>1, ImagesAssumption DEF TypeInv
  <2>4. FunctionOK(now) /\ \A e \in DOMAIN functions : FunctionOK(functions[e])
    BY <1>1, <2>1 DEF TypeInv
  <2>. QED  BY <2>1, <2>2, <2>3, <2>4 DEF TypeInv, TypeOK
<1>. QED  BY <1>2, Invariance, PTL

\* When the graphs are first built, and until a region is retracted or a
\* function built again: what a function calls, or jumps to unconditionally as
\* another function, has it among its callers, and nothing else has.
THEOREM CallsAreKnown == Spec => []CallsKnownToBoth
<1>1. IInv => CallsKnownToBoth
  <2>. SUFFICES ASSUME IInv, Fresh, NEW f \in DOMAIN functions, NEW g \in DOMAIN functions, f # g
                PROVE  (\E a \in InsnsOf(functions[f]) :
                          Target(a) = g /\ Flow(a) \in {"call", "jump"})
                         <=> f \in functions[g].callers
    BY DEF CallsKnownToBoth
  <2>1. TypeInv /\ FunctionsInv /\ CallersInv
    BY DEF IInv
  <2>2. f \in functions[g].callers <=> g \in functions[f].callees
    BY <2>1 DEF CallersInv
  <2>3. g \in Places /\ g \in entries /\ functions[f].entry = f
    BY <2>1 DEF FunctionsInv, TypeInv, Addr, Places
  <2>4. g \in functions[f].callees <=> Calls(functions[f], g)
    BY <2>1, <2>3 DEF FunctionsInv, Built
  <2>5. Crosses(functions[f], g)
    BY <2>3 DEF Crosses
  <2>. QED  BY <2>2, <2>4, <2>5 DEF Calls, InsnsOf
<1>. QED  BY <1>1, Invariance, PTL

\* A retraction leaves no retracted instruction in a function whose blocks are
\* all at or after its entry: such a function is rebuilt if the region touches it.
THEOREM RetractedIsGone == Spec => []RetractedGone
<1>1. IInv => RetractedGone
  <2>. SUFFICES ASSUME IInv, phase = "done", NEW e \in DOMAIN functions,
                       \A b \in DOMAIN functions[e].blocks : e <= b
                PROVE  InsnsOf(functions[e]) \subseteq decoded
    BY DEF RetractedGone
  <2>1. TypeInv /\ PhaseInv /\ GoneInv
    BY DEF IInv
  <2>2. todo = {} /\ now.entry = Outside
    BY <2>1 DEF PhaseInv, Building
  <2>3. e # Outside
    BY <2>1 DEF TypeInv, Addr, Outside
  <2>. QED  BY <2>1, <2>2, <2>3 DEF GoneInv
<1>. QED  BY <1>1, Invariance, PTL

\* No edge of any function leads to an instruction that is not the start of a
\* block, and no block goes beyond what .pdata declares for its function.
THEOREM GraphIsClosed == Spec => [](EdgesClosed /\ ExtentRespected)
<1>1. IInv => EdgesClosed /\ ExtentRespected
  <2>. SUFFICES ASSUME IInv, NEW e \in DOMAIN functions, Bounded(functions[e]),
                       NEW x \in InsnsOf(functions[e])
                PROVE  x \in e .. functions[e].end - 1
    BY DEF IInv, ExtentRespected
  <2>1. PICK b \in DOMAIN functions[e].blocks : x \in functions[e].blocks[b].insns
    BY DEF InsnsOf
  <2>2. Typed(functions[e]) /\ Shaped(functions[e]) /\ functions[e].entry = e
    BY DEF IInv, TypeInv
  <2>3. ~OutsideExtent(functions[e], x)
    BY <2>1, <2>2 DEF Shaped
  <2>4. functions[e].blocks[b] \in BlockRec
    BY <2>2 DEF Typed
  <2>5. x \in Int
    BY <2>1, <2>4 DEF BlockRec, Addr
  <2>6. functions[e].end \in Int /\ e \in Int
    BY <2>2 DEF Typed, Formed, Places
  <2>. QED  BY <2>2, <2>3, <2>5, <2>6 DEF OutsideExtent
<1>. QED  BY <1>1, Invariance, PTL
-----------------------------------------------------------------------------
(* No instruction lost.                                                    *)

\* The function goes wherever control goes on to within it.
LEMMA BuiltCloses ==
    ASSUME Sound, NEW f, Typed(f), Built(f),
           \A b \in DOMAIN f.blocks : \A s \in f.blocks[b].succs :
               s.target \in decoded => s.target \in DOMAIN f.blocks,
           Shaped(f), NEW a \in InsnsOf(f), NEW t \in Within(f, a)
    PROVE  t \in InsnsOf(f)
<1>1. PICK b \in DOMAIN f.blocks : a \in f.blocks[b].insns
  BY DEF InsnsOf
<1>. PICK R : R = f.blocks[b].insns
  OBVIOUS
<1>2. PICK last \in R :
         /\ ~Continues(f, last)
         /\ \A x \in R \ {last} : Continues(f, x) /\ NextOf(x) \in R
         /\ \A y \in Places : Leads(f, last, y) => \E s \in f.blocks[b].succs : s.target = y
  BY DEF Built, Cut
<1>3. a \in R /\ R \subseteq decoded /\ decoded \subseteq Addr
  BY <1>1 DEF Built, Cut, Sound
<1>4. /\ t \in decoded /\ ~Crosses(f, t)
      /\ \/ Falls(a) /\ ~NeverReturns(a) /\ Flow(a) # "interrupt" /\ t = NextOf(a)
         \/ Jumps(a) /\ t = Target(a)
  BY DEF Within
<1>5. CASE a # last
  <2>1. Continues(f, a) /\ NextOf(a) \in R
    BY <1>2, <1>3, <1>5
  <2>2. Flow(a) \in {"sequential", "call"}
    BY <1>3, <2>1, ContinuesShape DEF Sound
  <2>3. t = NextOf(a)
    BY <1>4, <2>2 DEF Jumps
  <2>. QED  BY <1>1, <2>1, <2>3 DEF InsnsOf
<1>6. CASE a = last
  <2>1. t \in Places /\ t # Unknown
    BY <1>3, <1>4 DEF Addr, Places, Unknown
  <2>2. Leads(f, a, t)
    <3>1. CASE Jumps(a) /\ t = Target(a)
      <4>1. ~OutsideExtent(f, t)
        <5>1. f.entry \in Int /\ f.end \in Int /\ (Bounded(f) => f.entry < f.end)
          BY DEF Typed, Formed, Places, Built
        <5>2. ~OutsideExtent(f, f.entry)
          BY <5>1 DEF OutsideExtent, Bounded
        <5>. QED  BY <1>4, <5>2 DEF Crosses
      <4>. QED  BY <1>4, <2>1, <3>1, <4>1 DEF Leads, Jumps, Direct
    <3>2. CASE Falls(a) /\ ~NeverReturns(a) /\ Flow(a) # "interrupt" /\ t = NextOf(a)
      <4>1. Flow(a) = "conditional" \/ ~Terminates(a)
        <5>1. code.insn[a] # Bad /\ code \in Images /\ a \in Addr
          BY <1>3 DEF Sound
        <5>2. code.insn[a] \in Insn
          BY <5>1, ImagesAssumption DEF Image
        <5>3. Flow(a) \in Flows
          BY <5>2 DEF Insn, Flow
        <5>. QED  BY <3>2, <5>3 DEF Falls, Flows, Terminates
      <4>2. CASE Flow(a) = "conditional"
        BY <1>4, <3>2, <4>2 DEF Leads
      <4>3. CASE ~Terminates(a)
        <5>1. ~Beyond(f, t)
          <6>1. f.entry \in Int /\ f.end \in Int /\ t \in Int /\ (Bounded(f) => f.entry < f.end)
            BY <2>1 DEF Typed, Formed, Places, Built
          <6>. QED  BY <1>4, <6>1 DEF Crosses, OutsideExtent, Beyond
        <5>2. EndsOnLeader(a)
          BY <1>2, <1>4, <1>6, <3>2, <4>3, <5>1 DEF Continues, RunsDry
        <5>. QED  BY <1>4, <3>2, <5>2 DEF Leads
      <4>. QED  BY <4>1, <4>2, <4>3
    <3>. QED  BY <1>4, <3>1, <3>2
  <2>3. PICK s \in f.blocks[b].succs : s.target = t
    BY <1>2, <1>6, <2>1, <2>2
  <2>4. t \in DOMAIN f.blocks
    BY <1>4, <2>3
  <2>. QED  BY <2>4 DEF InsnsOf, Shaped
<1>. QED  BY <1>5, <1>6

\* What Reached computes.
LEMMA ReachedWithin ==
    ASSUME Sound, NEW f, f.entry \in Addr, NEW I, f.entry \in I,
           \A a \in I : Within(f, a) \subseteq I
    PROVE  Reached(f) \subseteq I
<1>. PICK within : within = [a \in Addr |-> Within(f, a)]
  OBVIOUS
<1>1. within \in [Addr -> SUBSET Addr]
  BY DEF Sound, Within
<1>. PICK D : D = SUBSET Addr
  OBVIOUS
<1>. PICK first : first = {f.entry}
  OBVIOUS
<1>. PICK wide : wide = [R \in D |-> R \cup UNION {within[a] : a \in R}]
  OBVIOUS
<1>2. first \in D /\ wide \in [D -> D]
  BY <1>1
<1>3. PICK step : step = [i \in 1 .. Size |-> wide]
  OBVIOUS
<1>4. step \in Steps(Size, D)
  BY <1>2, <1>3 DEF Steps
<1>5. PICK u : Unrolls(u, Size, D, first, step)
  BY <1>2, <1>4, Recursion
<1>6. /\ u \in [0 .. Size -> D] /\ u[0] = first
      /\ \A i \in 1 .. Size : u[i] = wide[u[i - 1]]
  BY <1>3, <1>5 DEF Unrolls
<1>7. \A i \in 1 .. Size : u[i] = u[i - 1] \cup UNION {Within(f, a) : a \in u[i - 1]}
  <2>. SUFFICES ASSUME NEW i \in 1 .. Size
                PROVE  u[i] = u[i - 1] \cup UNION {Within(f, a) : a \in u[i - 1]}
    OBVIOUS
  <2>. PICK R : R = u[i - 1]
    OBVIOUS
  <2>0. i - 1 \in 0 .. Size
    OBVIOUS
  <2>1. R \in D /\ u[i] = wide[R]
    BY <1>6, <2>0
  <2>2. R \subseteq Addr
    BY <2>1
  <2>3. UNION {within[a] : a \in R} = UNION {Within(f, a) : a \in R}
    BY <2>2
  <2>. QED  BY <2>1, <2>3
<1>. DEFINE Def(g) == [n \in 0 .. Size |->
                         IF n = 0 THEN {f.entry}
                         ELSE g[n - 1] \cup UNION {Within(f, a) : a \in g[n - 1]}]
            r == CHOOSE reach : reach = Def(reach)
<1>8. u = Def(u)
  <2>1. \A n \in 0 .. Size :
           u[n] = IF n = 0 THEN {f.entry}
                  ELSE u[n - 1] \cup UNION {Within(f, a) : a \in u[n - 1]}
    BY <1>6, <1>7
  <2>. QED  BY <1>6, <2>1
<1>9. r = Def(r)
  BY Zenon, <1>8
<1>10. Reached(f) = r[Size]
  BY Zenon DEF Reached
<1>. HIDE DEF r
<1>11. \A n \in 0 .. Size :
          r[n] = IF n = 0 THEN {f.entry}
                 ELSE r[n - 1] \cup UNION {Within(f, a) : a \in r[n - 1]}
  BY <1>9
<1>. PICK v : v = r
  OBVIOUS
<1>12. v[0] \subseteq I
  <2>1. 0 \in 0 .. Size
    OBVIOUS
  <2>. QED  BY <1>11, <2>1
<1>13. ASSUME NEW n \in 1 .. Size, v[n - 1] \subseteq I PROVE v[n] \subseteq I
  <2>. PICK R : R = v[n - 1]
    OBVIOUS
  <2>1. n \in 0 .. Size /\ n # 0
    OBVIOUS
  <2>2. v[n] = R \cup UNION {Within(f, a) : a \in R}
    BY <1>11, <2>1
  <2>. QED  BY <1>13, <2>2
<1>14. v[Size] \subseteq I
  <2>. DEFINE T == {n \in 0 .. Size : v[n] \subseteq I}
  <2>1. T \in SUBSET (0 .. Size) /\ 0 \in T
    BY <1>12
  <2>2. \A n \in 1 .. Size : n - 1 \in T => n \in T
    BY <1>13
  <2>3. Size \in T
    <3>. HIDE DEF T
    <3>1. \A i \in 0 .. Size : i \in T
      BY <2>1, <2>2, UpTo
    <3>. QED  BY <3>1
  <2>. QED  BY <2>3
<1>. QED  BY <1>10, <1>14

\* The analysis sees all of a function's code: whatever control can reach from
\* its entry without crossing into another function is in its graph.
THEOREM NothingIsLost == Spec => []NothingLost
<1>1. IInv => NothingLost
  <2>. SUFFICES ASSUME IInv, Fresh, NEW e \in DOMAIN functions
                PROVE  Reached(functions[e]) \subseteq InsnsOf(functions[e])
    BY DEF NothingLost
  <2>. PICK f : f = functions[e]
    OBVIOUS
  <2>1. Sound /\ TypeInv /\ FunctionsInv /\ EdgesClosed
    BY SoundNow DEF IInv
  <2>2. Typed(f) /\ Shaped(f) /\ f.entry = e /\ e \in Addr
    BY <2>1 DEF TypeInv
  <2>3. Built(f) /\ e \in DOMAIN f.blocks
    BY <2>1 DEF FunctionsInv
  <2>4. \A b \in DOMAIN f.blocks : \A s \in f.blocks[b].succs :
           s.target \in decoded => s.target \in DOMAIN f.blocks
    BY <2>1 DEF EdgesClosed
  <2>5. f.entry \in InsnsOf(f)
    BY <2>2, <2>3 DEF Shaped, InsnsOf
  <2>6. \A a \in InsnsOf(f) : Within(f, a) \subseteq InsnsOf(f)
    BY <2>1, <2>2, <2>3, <2>4, BuiltCloses
  <2>7. Reached(f) \subseteq InsnsOf(f)
    BY <2>1, <2>2, <2>5, <2>6, ReachedWithin
  <2>. QED  BY <2>7
<1>. QED  BY <1>1, Invariance, PTL
-----------------------------------------------------------------------------
(* No instruction twice.                                                   *)

\* The instructions of an image do not overlap.
Disjoint ==
    \A c \in Images : \A a, b \in Addr :
        c.insn[a] # Bad /\ c.insn[b] # Bad /\ a < b => a + c.insn[a].len <= b

Apart(f) ==
    \A b, c \in DOMAIN f.blocks : b # c => f.blocks[b].insns \cap f.blocks[c].insns = {}

\* Two runs that meet would have met before: the first instruction they share
\* starts neither, since a run does not go on to where a block begins.
LEMMA BuiltApart ==
    ASSUME Disjoint, Sound, NEW f, Typed(f), Built(f) PROVE Apart(f)
<1>. SUFFICES ASSUME NEW b \in DOMAIN f.blocks, NEW c \in DOMAIN f.blocks, b # c,
                     f.blocks[b].insns \cap f.blocks[c].insns # {}
              PROVE  FALSE
  BY DEF Apart
<1>. PICK B : B = f.blocks[b].insns
  OBVIOUS
<1>. PICK C : C = f.blocks[c].insns
  OBVIOUS
<1>1. Cut(f, b) /\ Cut(f, c) /\ decoded \subseteq Addr /\ code \in Images
  BY DEF Built, Sound
<1>2. /\ b \in leaders /\ c \in leaders /\ B \subseteq decoded /\ C \subseteq decoded
      /\ \A x \in B \ {b} : \E p \in B : p < x /\ Continues(f, p) /\ NextOf(p) = x
      /\ \A x \in C \ {c} : \E p \in C : p < x /\ Continues(f, p) /\ NextOf(p) = x
  BY <1>1 DEF Cut
<1>3. B \cap C \in SUBSET Nat /\ B \cap C # {}
  <2>1. Addr \subseteq Nat
    BY DEF Addr
  <2>2. B \subseteq Nat
    BY ONLY <1>1, <1>2, <2>1
  <2>3. B \cap C # {}
    OBVIOUS
  <2>. QED  BY ONLY <2>2, <2>3
<1>4. PICK x \in B \cap C : \A y \in B \cap C : x <= y
  BY <1>3, Least
<1>5. \A p \in decoded : Continues(f, p) => NextOf(p) \notin leaders
  BY <1>1, ContinuesShape
<1>6. x # b
  BY <1>2, <1>4, <1>5
<1>7. x # c
  BY <1>2, <1>4, <1>5
<1>8. PICK p \in B : p < x /\ NextOf(p) = x
  BY <1>2, <1>6
<1>9. PICK q \in C : q < x /\ NextOf(q) = x
  BY <1>2, <1>7
<1>10. p \in Addr /\ q \in Addr /\ code.insn[p] # Bad /\ code.insn[q] # Bad
  BY <1>2, <1>8, <1>9 DEF Sound
<1>11. ~(p < q) /\ ~(q < p)
  <2>1. p < q => NextOf(p) <= q
    BY <1>1, <1>10 DEF Disjoint, NextOf
  <2>2. q < p => NextOf(q) <= p
    BY <1>1, <1>10 DEF Disjoint, NextOf
  <2>. QED  BY <1>8, <1>9, <1>10, <2>1, <2>2 DEF Addr
<1>12. p = q
  BY <1>10, <1>11 DEF Addr
<1>13. x \in Addr
  BY <1>1, <1>2
<1>14. ~(x <= p)
  BY <1>8, <1>10, <1>13 DEF Addr
<1>. QED  BY <1>4, <1>8, <1>9, <1>12, <1>14

ApartInv == \A e \in DOMAIN functions : Apart(functions[e])

LEMMA ApartNext ==
    ASSUME Disjoint, IInv, ApartInv, [Next]_vars PROVE ApartInv'
<1>1. Sound /\ TypeInv /\ Typed(now)
  BY SoundNow DEF IInv
<1>2. CASE Complete
  <2>1. /\ Built(now) /\ DOMAIN functions' = DOMAIN functions \cup {now.entry}
        /\ \A e \in DOMAIN functions' :
              functions'[e] = IF e = now.entry THEN now ELSE functions[e]
    BY <1>2, NowComplete
  <2>2. Apart(now)
    BY <1>1, <2>1, BuiltApart
  <2>. QED  BY <2>1, <2>2 DEF ApartInv
<1>3. CASE Backfill
  <2>1. functions' = Backfilled(functions)
    BY <1>3 DEF Backfill
  <2>2. /\ DOMAIN functions' = DOMAIN functions
        /\ \A e \in DOMAIN functions : functions'[e].blocks = functions[e].blocks
    BY <1>1, <2>1, BackfilledShape DEF TypeInv
  <2>. QED  BY <2>2 DEF ApartInv, Apart
<1>4. CASE /\ DOMAIN functions' \subseteq DOMAIN functions
           /\ \A e \in DOMAIN functions' : functions'[e] = functions[e]
  BY <1>4 DEF ApartInv
<1>5. CASE Erase
  BY <1>4, <1>5 DEF Erase, Without
<1>6. CASE Discover \/ Start \/ Skip \/ Block \/ Reanalyze \/ Retract \/ Rebuild \/ Return
  BY <1>4, <1>6 DEF Discover, Start, Skip, Block, Reanalyze, Retract, Rebuild, Return
<1>7. CASE UNCHANGED vars
  BY <1>4, <1>7 DEF vars
<1>. QED  BY <1>2, <1>3, <1>5, <1>6, <1>7 DEF Next

\* If instructions do not overlap, the graph of every function, complete or not,
\* is one: no instruction is in two blocks, no edge leads into nothing, and no
\* block goes beyond what .pdata declares.
THEOREM GraphIsSound ==
    ASSUME Disjoint
    PROVE  Spec => []GraphSound
<1>1. Init => ApartInv
  BY DEF Init, ApartInv
<1>2. IInv /\ ApartInv /\ [Next]_vars => ApartInv'
  BY ApartNext
<1>3. IInv /\ ApartInv => InsnOnce
  <2>. SUFFICES ASSUME IInv, ApartInv PROVE InsnOnce
    OBVIOUS
  <2>1. Sound /\ Typed(now) /\ NowInv /\ PhaseInv
    BY SoundNow DEF IInv
  <2>2. Apart(now)
    <3>1. CASE Building
      BY <2>1, <3>1, BuiltApart DEF NowInv
    <3>2. CASE ~Building
      BY <2>1, <3>2, NothingShape DEF PhaseInv, Apart
    <3>. QED  BY <3>1, <3>2
  <2>. QED  BY <2>2 DEF InsnOnce, ApartInv, Apart
<1>4. InsnOnce /\ EdgesClosed /\ ExtentRespected => GraphSound
  BY DEF GraphSound
<1>. QED  BY <1>1, <1>2, <1>3, <1>4, Invariance, GraphIsClosed, PTL DEF Spec
=====
