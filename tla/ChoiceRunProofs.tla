--------------------------- MODULE ChoiceRunProofs ---------------------------
(***************************************************************************)
(* What a batch is about and what the dialog shows of it: for any program, *)
(* ceilings, edits and answers in any order.                               *)
(*                                                                         *)
(* A sequence that is cut, filtered, sorted or rid of repetitions is       *)
(* described by what it contains, by whether it contains it once, and by   *)
(* what comes before what; the rest follows from these.                    *)
(***************************************************************************)
EXTENDS ChoiceRun, Induction, FiniteSetTheorems, SequenceTheorems, TLAPS

USE SelectionAssumption
-----------------------------------------------------------------------------
(* Sequences.                                                              *)

\* r is the first n of s.
Cut(D, r, s, n) ==
    /\ r \in Seq(D) /\ Len(r) = Lesser(n, Len(s)) /\ ToSet(r) \subseteq ToSet(s)
    /\ Once(s) => Once(r)
    /\ \A f, g : Before(r, f, g) => Before(s, f, g)
    /\ \A f \in ToSet(r), g \in ToSet(s) \ ToSet(r) : Before(s, f, g)

LEMMA PrefixFacts ==
    ASSUME NEW D, NEW s \in Seq(D), NEW n \in Nat
    PROVE  Cut(D, Prefix(s, n), s, n)
<1>. PICK m : m = Lesser(n, Len(s))
  OBVIOUS
<1>1. /\ Len(s) \in Nat /\ DOMAIN s = 1 .. Len(s) /\ \A i \in DOMAIN s : s[i] \in D
      /\ m \in 0 .. Len(s) /\ m <= n /\ (m = n \/ m = Len(s))
  BY LenProperties DEF Lesser
<1>. PICK r : r = Prefix(s, n)
  OBVIOUS
<1>2. r = SubSeq(s, 1, m)
  BY DEF Prefix
<1>3. r \in Seq(D) /\ Len(r) = m /\ DOMAIN r = 1 .. m /\ \A i \in 1 .. m : r[i] = s[i] /\ i \in DOMAIN s
  <2>1. \A i \in 1 .. m : s[i] \in D /\ i \in DOMAIN s
    BY <1>1
  <2>2. /\ SubSeq(s, 1, m) \in Seq(D) /\ Len(SubSeq(s, 1, m)) = m
        /\ \A i \in 1 .. m : SubSeq(s, 1, m)[i] = s[i]
    BY <1>1, <2>1, SubSeqProperties
  <2>3. DOMAIN SubSeq(s, 1, m) = 1 .. m
    BY <2>2, LenProperties
  <2>. QED  BY <1>2, <2>1, <2>2, <2>3
<1>4. ToSet(r) = {s[i] : i \in 1 .. m} /\ ToSet(s) = {s[i] : i \in 1 .. Len(s)}
  BY <1>1, <1>3 DEF ToSet
<1>5. ToSet(r) \subseteq ToSet(s)
  BY <1>1, <1>4
<1>6. Once(s) => Once(r)
  BY <1>3 DEF Once
<1>7. ASSUME NEW f, NEW g, Before(r, f, g) PROVE Before(s, f, g)
  <2>1. PICK i \in 1 .. m, j \in 1 .. m : i < j /\ r[i] = f /\ r[j] = g
    BY <1>3, <1>7 DEF Before
  <2>. QED  BY <1>3, <2>1 DEF Before
<1>8. ASSUME NEW f \in ToSet(r), NEW g \in ToSet(s) \ ToSet(r) PROVE Before(s, f, g)
  <2>1. PICK i \in 1 .. m : f = s[i]
    BY <1>4
  <2>2. PICK j \in 1 .. Len(s) : g = s[j]
    BY <1>4
  <2>3. ~ (j \in 1 .. m)
    BY <1>4, <2>2
  <2>4. i < j /\ i \in DOMAIN s /\ j \in DOMAIN s
    BY <1>1, <2>3
  <2>. QED  BY <2>1, <2>2, <2>4 DEF Before
<1>. QED  BY <1>3, <1>5, <1>6, <1>7, <1>8 DEF Cut

\* r is s in descending order of the score.
Sorted(p, r, s) ==
    /\ r \in Seq(Fns) /\ Len(r) = Len(s) /\ ToSet(r) = ToSet(s)
    /\ Once(s) => Once(r)
    /\ \A f, g : Before(r, f, g) => p.score[g] <= p.score[f]

LEMMA ByScoreFacts ==
    ASSUME NEW p, p.score \in [Fns -> Nat], NEW s \in Seq(Fns)
    PROVE  Sorted(p, ByScore(p, s), s)
<1>. PICK w : w = [i \in DOMAIN s |-> p.score[s[i]]]
  OBVIOUS
<1>1. DOMAIN s = 1 .. Len(s) /\ \A i \in DOMAIN s : s[i] \in Fns /\ w[i] = p.score[s[i]] /\ w[i] \in Nat
  BY LenProperties, ElementOfSeq
<1>. PICK r : r = ByScore(p, s)
  OBVIOUS
<1>2. Ranked(Fns, r, s, w)
  <2>1. r = Descending(s, w)
    BY DEF ByScore
  <2>2. \A i \in DOMAIN s : w[i] \in Nat
    BY <1>1
  <2>. QED  BY ONLY <2>1, <2>2, s \in Seq(Fns), DescendingFacts
<1>3. ASSUME NEW f, NEW g, Before(r, f, g) PROVE p.score[g] <= p.score[f]
  <2>1. PICK k \in DOMAIN r, l \in DOMAIN r : k < l /\ r[k] = f /\ r[l] = g
    BY <1>3 DEF Before
  <2>2. PICK i \in DOMAIN s, j \in DOMAIN s : r[k] = s[i] /\ r[l] = s[j] /\ w[j] <= w[i]
    BY ONLY <1>2, <2>1 DEF Ranked
  <2>. QED  BY ONLY <1>1, <2>1, <2>2
<1>. QED  BY ONLY <1>2, <1>3, r = ByScore(p, s) DEF Ranked, Sorted

LEMMA PositionFacts ==
    ASSUME NEW D, NEW s \in Seq(D), Once(s)
    PROVE  \A f, g : Before(s, f, g) <=>
              f \in ToSet(s) /\ g \in ToSet(s) /\ Position(s, f) < Position(s, g)
<1>1. DOMAIN s = 1 .. Len(s) /\ Len(s) \in Nat /\ ToSet(s) = {s[i] : i \in DOMAIN s}
  BY LenProperties DEF ToSet
<1>2. ASSUME NEW i \in DOMAIN s PROVE Position(s, s[i]) = i
  <2>1. (CHOOSE j \in DOMAIN s : s[j] = s[i]) \in DOMAIN s
        /\ s[CHOOSE j \in DOMAIN s : s[j] = s[i]] = s[i]
    OBVIOUS
  <2>. QED  BY <2>1 DEF Once, Position
<1>3. ASSUME NEW f, NEW g, Before(s, f, g)
      PROVE  f \in ToSet(s) /\ g \in ToSet(s) /\ Position(s, f) < Position(s, g)
  <2>1. PICK i \in DOMAIN s, j \in DOMAIN s : i < j /\ s[i] = f /\ s[j] = g
    BY <1>3 DEF Before
  <2>. QED  BY <1>1, <1>2, <2>1
<1>4. ASSUME NEW f \in ToSet(s), NEW g \in ToSet(s), Position(s, f) < Position(s, g)
      PROVE  Before(s, f, g)
  <2>1. PICK i \in DOMAIN s : s[i] = f
    BY <1>1
  <2>2. PICK j \in DOMAIN s : s[j] = g
    BY <1>1
  <2>3. i < j
    BY <1>2, <1>4, <2>1, <2>2
  <2>. QED  BY <2>1, <2>2, <2>3 DEF Before
<1>. QED  BY <1>3, <1>4

-----------------------------------------------------------------------------
(* What a batch is about.                                                  *)

LEMMA ListedOnce ==
    ASSUME NEW S \in SUBSET Fns
    PROVE  ListOf(S) \in Seq(Fns) /\ Once(ListOf(S)) /\ ToSet(ListOf(S)) = S
<1>1. S \in SUBSET Nat /\ IsFiniteSet(S)
  BY FS_Subset
<1>. PICK q : q = ListOf(S)
  OBVIOUS
<1>2. Ascending(q, S) /\ Cardinality(S) \in Nat
  BY <1>1, ListFacts
<1>. PICK n \in Nat : n = Cardinality(S)
  BY <1>2
<1>3. /\ q \in Seq(S) /\ DOMAIN q = 1 .. n
      /\ \A i, j \in 1 .. n : i < j => q[i] < q[j]
      /\ \A x \in S : \E i \in 1 .. n : q[i] = x
  BY <1>2 DEF Ascending
<1>4. q \in [1 .. n -> S] /\ \A i \in 1 .. n : q[i] \in S /\ q[i] \in Fns /\ q[i] \in Nat
  <2>1. q \in [1 .. Len(q) -> S] /\ DOMAIN q = 1 .. Len(q)
    BY ONLY <1>3, LenProperties
  <2>. QED  BY ONLY <1>1, <1>3, <2>1, S \in SUBSET Fns
<1>5. q \in Seq(Fns)
  <2>1. q \in [1 .. n -> Fns]
    BY ONLY <1>4
  <2>. QED  BY ONLY <2>1, n \in Nat
<1>6. ASSUME NEW i \in 1 .. n, NEW j \in 1 .. n, q[i] = q[j] PROVE i = j
  <2>1. ~ (i < j) /\ ~ (j < i)
    BY <1>3, <1>4, <1>6
  <2>. QED  BY <2>1
<1>7. Once(q)
  BY <1>3, <1>6 DEF Once
<1>8. ToSet(q) = S
  BY ONLY <1>3, <1>4 DEF ToSet
<1>. QED  BY <1>5, <1>7, <1>8

\* The functions of T, each once, are n of C's, or all of C's if there are no
\* more, and none left out scores more than one taken.
Takes(p, C, n, T) ==
    /\ T \in Seq(Fns) /\ Once(T) /\ ToSet(T) \subseteq C
    /\ Len(T) = Cardinality(ToSet(T)) /\ Len(T) = Lesser(n, Cardinality(C))
    /\ \A f \in ToSet(T), g \in C \ ToSet(T) : p.score[g] <= p.score[f]

LEMMA TopFacts ==
    ASSUME NEW p, p.score \in [Fns -> Nat], NEW s \in Seq(Fns), Once(s), NEW n \in Nat
    PROVE  Takes(p, ToSet(s), n, Prefix(ByScore(p, s), n))
<1>. PICK r : r = ByScore(p, s)
  OBVIOUS
<1>1. /\ r \in Seq(Fns) /\ Len(r) = Len(s) /\ ToSet(r) = ToSet(s) /\ Once(r)
      /\ \A f, g : Before(r, f, g) => p.score[g] <= p.score[f]
  <2>1. Sorted(p, r, s)
    BY ByScoreFacts
  <2>. QED  BY ONLY <2>1, Once(s) DEF Sorted
<1>. PICK T : T = Prefix(r, n)
  OBVIOUS
<1>2. /\ T \in Seq(Fns) /\ Len(T) = Lesser(n, Len(r)) /\ ToSet(T) \subseteq ToSet(r) /\ Once(T)
      /\ \A f \in ToSet(T), g \in ToSet(r) \ ToSet(T) : Before(r, f, g)
  <2>1. Cut(Fns, T, r, n)
    BY <1>1, PrefixFacts
  <2>. QED  BY ONLY <1>1, <2>1 DEF Cut
<1>3. Cardinality(ToSet(s)) = Len(s) /\ Cardinality(ToSet(T)) = Len(T)
  BY <1>2, OnceCount
<1>. QED  BY ONLY T = Prefix(r, n), r = ByScore(p, s), <1>1, <1>2, <1>3 DEF Takes

LEMMA BottomUpFacts ==
    ASSUME NEW p, IsProgram(p), NEW C \in SUBSET Fns, NEW n \in Nat
    PROVE  Takes(p, C, n, BottomUp(p, ListOf(C), n)) /\ LeavesFirst(p, BottomUp(p, ListOf(C), n))
<1>1. /\ p.score \in [Fns -> Nat] /\ p.order \in Seq(Fns) /\ Once(p.order)
      /\ LeavesFirst(p, p.order)
  BY DEF IsProgram, Once
<1>. PICK c : c = ListOf(C)
  OBVIOUS
<1>2. c \in Seq(Fns) /\ Once(c) /\ ToSet(c) = C
  BY ListedOnce
<1>. PICK a : a = Keep(p.order, ToSet(c))
  OBVIOUS
<1>3. /\ a \in Seq(Fns) /\ Once(a) /\ ToSet(a) = ToSet(p.order) \cap C
      /\ \A f, g : Before(a, f, g) <=> f \in C /\ g \in C /\ Before(p.order, f, g)
  <2>1. Filtered(Fns, a, p.order, C)
    BY <1>1, <1>2, KeepFacts
  <2>. QED  BY ONLY <1>1, <2>1 DEF Filtered
<1>. PICK b : b = Keep(c, Fns \ ToSet(a))
  OBVIOUS
<1>4. b \in Seq(Fns) /\ Once(b) /\ ToSet(b) = C \cap (Fns \ ToSet(a))
  <2>1. Filtered(Fns, b, c, Fns \ ToSet(a))
    BY <1>2, KeepFacts
  <2>. QED  BY ONLY <1>2, <2>1 DEF Filtered
<1>. PICK r : r = ByScore(p, b)
  OBVIOUS
<1>5. r \in Seq(Fns) /\ Once(r) /\ ToSet(r) = C \ ToSet(a)
  <2>1. Sorted(p, r, b)
    BY <1>1, <1>4, ByScoreFacts
  <2>2. C \cap (Fns \ ToSet(a)) = C \ ToSet(a)
    OBVIOUS
  <2>. QED  BY ONLY <1>4, <2>1, <2>2 DEF Sorted
<1>. PICK w : w = a \o r
  OBVIOUS
<1>6. /\ w \in Seq(Fns) /\ ToSet(w) = C /\ Once(w)
      /\ \A f, g : Before(a, f, g) => Before(w, f, g)
  <2>1. ToSet(a) \cap ToSet(r) = {} /\ ToSet(a) \cup ToSet(r) = C
    BY <1>3, <1>5
  <2>2. Joined(Fns, w, a, r)
    BY <1>3, <1>5, JoinFacts
  <2>. QED  BY ONLY <1>3, <1>5, <2>1, <2>2 DEF Joined
<1>. PICK T : T = Prefix(ByScore(p, w), n)
  OBVIOUS
<1>7. Takes(p, C, n, T)
  BY <1>1, <1>6, TopFacts
<1>. PICK k : k = Keep(w, ToSet(T))
  OBVIOUS
<1>8. /\ k \in Seq(Fns) /\ ToSet(k) = ToSet(w) \cap ToSet(T) /\ Once(k)
      /\ \A f, g : Before(k, f, g) <=> f \in ToSet(T) /\ g \in ToSet(T) /\ Before(w, f, g)
  <2>1. Filtered(Fns, k, w, ToSet(T))
    BY <1>6, KeepFacts
  <2>. QED  BY ONLY <1>6, <2>1 DEF Filtered
<1>9. k = BottomUp(p, c, n)
  BY DEF BottomUp
<1>10. ToSet(k) = ToSet(T) /\ ToSet(T) \subseteq C
  BY <1>6, <1>7, <1>8 DEF Takes
<1>11. Takes(p, C, n, k)
  <2>1. Len(k) = Cardinality(ToSet(k))
    BY <1>8, OnceCount
  <2>. QED  BY ONLY <1>7, <1>8, <1>10, <2>1 DEF Takes
<1>12. LeavesFirst(p, k)
  <2>1. ASSUME NEW f \in ToSet(k), NEW g \in ToSet(k),
               Contains(p.order, f), Contains(p.order, g),
               g \in p.callees[f], f \notin CallsOf(p)[g]
        PROVE  Position(k, g) < Position(k, f)
    <3>1. f \in ToSet(p.order) /\ g \in ToSet(p.order)
      <4>1. DOMAIN p.order = 1 .. Len(p.order)
        BY <1>1, LenProperties
      <4>. QED  BY ONLY <4>1, <2>1 DEF Contains, ToSet
    <3>2. Position(p.order, g) < Position(p.order, f)
      BY <1>1, <2>1, <3>1 DEF LeavesFirst
    <3>3. Before(p.order, g, f)
      BY <1>1, <3>1, <3>2, PositionFacts
    <3>4. Before(k, g, f)
      BY <1>3, <1>6, <1>8, <1>10, <3>3
    <3>. QED  BY <1>8, <3>4, PositionFacts
  <2>. QED  BY ONLY <2>1 DEF LeavesFirst
<1>. QED  BY <1>9, <1>11, <1>12

\* f need not give way to g: it is in the group of g or in an earlier one.
Nearer(A, B, f, g) == (g \in A => f \in A) /\ (g \in B => f \in A \cup B)

\* r is n of all, or all of it: what is in A, then what is in B, then the rest.
Grouped(r, A, B, all, n) ==
    /\ r \in Seq(Fns) /\ ToSet(r) \subseteq all /\ Once(r)
    /\ Len(r) = Lesser(n, Cardinality(all))
    /\ \A f, g : Before(r, f, g) => Nearer(A, B, f, g)
    /\ \A f \in ToSet(r), g \in all \ ToSet(r) : Nearer(A, B, f, g)

LEMMA GroupFacts ==
    ASSUME NEW a \in Seq(Fns), NEW b \in Seq(Fns), NEW c \in Seq(Fns), NEW X, NEW n \in Nat
    PROVE  Grouped(Prefix(Keep(Distinct(a \o b \o c), X), n), ToSet(a), ToSet(b),
                   (ToSet(a) \cup ToSet(b) \cup ToSet(c)) \cap X, n)
<1>. PICK A : A = ToSet(a)
  OBVIOUS
<1>. PICK B : B = ToSet(b)
  OBVIOUS
<1>. PICK ab : ab = a \o b
  OBVIOUS
<1>. PICK k \in Nat : k = Len(a)
  BY LenProperties
<1>. PICK l \in Nat : l = Len(b)
  BY LenProperties
<1>. PICK m \in Nat : m = Len(c)
  BY LenProperties
<1>0. DOMAIN a = 1 .. k /\ DOMAIN b = 1 .. l /\ DOMAIN c = 1 .. m
  BY LenProperties
<1>1. /\ ab \in Seq(Fns) /\ ToSet(ab) = A \cup B /\ DOMAIN ab = 1 .. k + l /\ Len(ab) = k + l
      /\ \A i \in 1 .. k : ab[i] = a[i]
      /\ \A i \in 1 .. l : ab[k + i] = b[i]
  <2>1. Joined(Fns, ab, a, b)
    BY JoinFacts
  <2>. QED  BY <2>1 DEF Joined
<1>. PICK s : s = ab \o c
  OBVIOUS
<1>2. /\ s \in Seq(Fns) /\ ToSet(s) = A \cup B \cup ToSet(c) /\ DOMAIN s = 1 .. k + l + m
      /\ \A i \in 1 .. k + l : s[i] = ab[i]
  <2>1. Joined(Fns, s, ab, c)
    BY <1>1, JoinFacts
  <2>. QED  BY ONLY <1>1, <2>1, m = Len(c) DEF Joined
<1>3. ASSUME NEW i \in 1 .. k PROVE i \in DOMAIN s /\ s[i] = a[i] /\ s[i] \in A
  <2>1. i \in 1 .. k + l
    OBVIOUS
  <2>2. a[i] \in A
    BY <1>0 DEF ToSet
  <2>. QED  BY ONLY <1>1, <1>2, <2>1, <2>2, k \in Nat, l \in Nat, m \in Nat, i \in 1 .. k
<1>4. ASSUME NEW i \in 1 .. k + l PROVE i \in DOMAIN s /\ s[i] \in A \cup B
  <2>1. ab[i] \in ToSet(ab)
    BY <1>1 DEF ToSet
  <2>. QED  BY <1>1, <1>2, <2>1
<1>5. ASSUME NEW g \in A PROVE \E j \in 1 .. k : j \in DOMAIN s /\ s[j] = g
  <2>1. PICK j \in 1 .. k : a[j] = g
    BY <1>0 DEF ToSet
  <2>. QED  BY <1>3, <2>1
<1>6. ASSUME NEW g \in B PROVE \E j \in 1 .. k + l : j \in DOMAIN s /\ s[j] = g
  <2>1. PICK j \in 1 .. l : b[j] = g
    BY <1>0 DEF ToSet
  <2>2. k + j \in 1 .. k + l
    OBVIOUS
  <2>. QED  BY <1>1, <1>2, <1>4, <2>1, <2>2
<1>. PICK d : d = Distinct(s)
  OBVIOUS
<1>7. /\ d \in Seq(Fns) /\ ToSet(d) = ToSet(s) /\ Once(d)
      /\ \A f, g : Before(d, f, g) => Ahead(s, f, g)
  <2>1. FirstOnly(Fns, d, s)
    BY <1>2, DistinctFacts
  <2>. QED  BY ONLY <2>1 DEF FirstOnly
<1>8. ASSUME NEW f, NEW g, Before(d, f, g) PROVE Nearer(A, B, f, g)
  <2>1. PICK i \in DOMAIN s : s[i] = f /\ \A j \in DOMAIN s : s[j] = g => i < j
    BY ONLY <1>7, <1>8 DEF Ahead
  <2>2. i \in 1 .. k + l + m
    BY <1>2
  <2>3. ASSUME g \in A PROVE f \in A
    <3>1. PICK j \in 1 .. k : j \in DOMAIN s /\ s[j] = g
      BY <1>5, <2>3
    <3>2. i \in 1 .. k
      <4>1. i < j
        BY <2>1, <3>1
      <4>. QED  BY <2>2, <3>1, <4>1
    <3>. QED  BY <1>3, <2>1, <3>2
  <2>4. ASSUME g \in B PROVE f \in A \cup B
    <3>1. PICK j \in 1 .. k + l : j \in DOMAIN s /\ s[j] = g
      BY <1>6, <2>4
    <3>2. i \in 1 .. k + l
      <4>1. i < j
        BY <2>1, <3>1
      <4>. QED  BY <2>2, <3>1, <4>1
    <3>. QED  BY <1>4, <2>1, <3>2
  <2>. QED  BY <2>3, <2>4 DEF Nearer
<1>. PICK e : e = Keep(d, X)
  OBVIOUS
<1>9. /\ e \in Seq(Fns) /\ ToSet(e) = ToSet(s) \cap X /\ Once(e)
      /\ \A f, g : Before(e, f, g) => Before(d, f, g)
  <2>1. Filtered(Fns, e, d, X)
    BY <1>7, KeepFacts
  <2>. QED  BY ONLY <1>7, <2>1 DEF Filtered
<1>. PICK r : r = Prefix(e, n)
  OBVIOUS
<1>10. /\ r \in Seq(Fns) /\ Len(r) = Lesser(n, Len(e)) /\ ToSet(r) \subseteq ToSet(e) /\ Once(r)
       /\ \A f, g : Before(r, f, g) => Before(e, f, g)
       /\ \A f \in ToSet(r), g \in ToSet(e) \ ToSet(r) : Before(e, f, g)
  <2>1. Cut(Fns, r, e, n)
    BY <1>9, PrefixFacts
  <2>. QED  BY ONLY <1>9, <2>1 DEF Cut
<1>11. Cardinality(ToSet(e)) = Len(e)
  BY <1>9, OnceCount
<1>12. r = Prefix(Keep(Distinct(a \o b \o c), X), n)
  OBVIOUS
<1>13. (A \cup B \cup ToSet(c)) \cap X = ToSet(e)
  BY <1>2, <1>7, <1>9
<1>14. Grouped(r, A, B, ToSet(e), n)
  BY ONLY <1>8, <1>9, <1>10, <1>11 DEF Grouped
<1>. QED  BY <1>12, <1>13, <1>14

LEMMA HuntFacts ==
    ASSUME NEW p, IsProgram(p)
    PROVE  NearestFirst(p, Reachables(p, MaxAutomatic))
<1>. PICK N : N = DOMAIN p.findings
  OBVIOUS
<1>. PICK fs : fs = p.findings
  OBVIOUS
<1>1. /\ N = 1 .. Len(fs) /\ Len(fs) \in Nat
      /\ \A i \in N : fs[i].fn \in Fns /\ fs[i].path \in Seq(Fns)
  <2>1. fs \in Seq([fn : Fns, path : Seq(Fns)])
    BY DEF IsProgram
  <2>. PICK R : R = [fn : Fns, path : Seq(Fns)]
    OBVIOUS
  <2>2. N = 1 .. Len(fs) /\ Len(fs) \in Nat /\ \A i \in N : fs[i] \in R
    BY <2>1, LenProperties, ElementOfSeq
  <2>. QED  BY <2>2
<1>2. p.callees \in [Fns -> SUBSET Fns]
  BY DEF IsProgram
<1>. PICK a : a = Sinks(p)
  OBVIOUS
<1>3. a \in Seq(Fns) /\ \A f : f \in ToSet(a) <=> \E i \in N : f = fs[i].fn
  <2>1. a = [i \in N |-> fs[i].fn]
    BY DEF Sinks
  <2>2. a \in [1 .. Len(fs) -> Fns]
    BY ONLY <1>1, <2>1
  <2>3. a \in Seq(Fns)
    BY ONLY <1>1, <2>2
  <2>. QED  BY ONLY <2>1, <2>3 DEF ToSet
<1>. PICK b : b = OnPath(p)
  OBVIOUS
<1>. PICK bs : bs = [i \in N |-> <<fs[i].fn>> \o fs[i].path]
  OBVIOUS
<1>4. /\ bs \in Seq(Seq(Fns)) /\ DOMAIN bs = N
      /\ \A i \in N : ToSet(bs[i]) = {fs[i].fn} \cup ToSet(fs[i].path)
  <2>1. ASSUME NEW i \in N
        PROVE  bs[i] \in Seq(Fns) /\ ToSet(bs[i]) = {fs[i].fn} \cup ToSet(fs[i].path)
    <3>1. PICK u : u = <<fs[i].fn>>
      OBVIOUS
    <3>2. u \in Seq(Fns) /\ ToSet(u) = {fs[i].fn}
      BY <1>1, <3>1 DEF ToSet
    <3>3. Joined(Fns, u \o fs[i].path, u, fs[i].path)
      BY <1>1, <3>2, JoinFacts
    <3>4. bs[i] = u \o fs[i].path
      BY <3>1
    <3>. QED  BY ONLY <3>2, <3>3, <3>4 DEF Joined
  <2>2. bs \in [1 .. Len(fs) -> Seq(Fns)]
    BY ONLY <1>1, <2>1, bs = [i \in N |-> <<fs[i].fn>> \o fs[i].path]
  <2>3. bs \in Seq(Seq(Fns))
    BY ONLY <1>1, <2>2
  <2>. QED  BY <2>1, <2>3
<1>5. b = FlattenSeq(bs)
  BY DEF OnPath
<1>6. b \in Seq(Fns) /\ \A f : f \in ToSet(b) <=> \E i \in N : f \in ToSet(bs[i])
  BY ONLY <1>4, <1>5, FlatFacts
<1>7. ToSet(a) \subseteq ToSet(b)
  <2>1. ASSUME NEW f \in ToSet(a) PROVE f \in ToSet(b)
    <3>1. PICK i \in N : f = fs[i].fn
      BY <1>3
    <3>2. f \in ToSet(bs[i])
      BY <1>4, <3>1
    <3>. QED  BY <1>6, <3>2
  <2>. QED  BY <2>1
<1>. PICK path : path = Distinct(b)
  OBVIOUS
<1>8. path \in Seq(Fns) /\ ToSet(path) = ToSet(b) /\ DOMAIN path = 1 .. Len(path) /\ Len(path) \in Nat
  <2>1. FirstOnly(Fns, path, b)
    BY <1>6, DistinctFacts
  <2>2. path \in Seq(Fns) /\ ToSet(path) = ToSet(b)
    BY ONLY <2>1 DEF FirstOnly
  <2>. QED  BY <2>2, LenProperties
<1>. PICK cs : cs = [i \in DOMAIN path |-> ListOf(p.callees[path[i]])]
  OBVIOUS
<1>9. /\ cs \in Seq(Seq(Fns)) /\ DOMAIN cs = DOMAIN path
      /\ \A i \in DOMAIN path : path[i] \in Fns /\ ToSet(cs[i]) = p.callees[path[i]]
  <2>1. ASSUME NEW i \in DOMAIN path
        PROVE  path[i] \in Fns /\ cs[i] \in Seq(Fns) /\ ToSet(cs[i]) = p.callees[path[i]]
    <3>1. path[i] \in Fns
      BY <1>8, ElementOfSeq
    <3>2. PICK S \in SUBSET Fns : S = p.callees[path[i]]
      BY <1>2, <3>1
    <3>3. ListOf(S) \in Seq(Fns) /\ ToSet(ListOf(S)) = S
      BY ListedOnce
    <3>. QED  BY <3>1, <3>2, <3>3
  <2>2. cs \in [1 .. Len(path) -> Seq(Fns)]
    BY ONLY <1>8, <2>1, cs = [i \in DOMAIN path |-> ListOf(p.callees[path[i]])]
  <2>3. cs \in Seq(Seq(Fns))
    BY ONLY <1>8, <2>2
  <2>. QED  BY <2>1, <2>3
<1>. PICK c : c = Neighbours(p)
  OBVIOUS
<1>10. c = FlattenSeq(cs)
  BY DEF Neighbours
<1>11. c \in Seq(Fns) /\ \A f : f \in ToSet(c) <=> \E i \in DOMAIN path : f \in p.callees[path[i]]
  <2>1. c \in Seq(Fns) /\ \A f : f \in ToSet(c) <=> \E i \in DOMAIN cs : f \in ToSet(cs[i])
    BY ONLY <1>9, <1>10, FlatFacts
  <2>. QED  BY ONLY <1>9, <2>1
<1>12. ToSet(c) = UNION {p.callees[f] : f \in ToSet(b)}
  <2>1. \A f : f \in ToSet(b) <=> \E i \in DOMAIN path : f = path[i]
    BY ONLY <1>8 DEF ToSet
  <2>. QED  BY ONLY <1>11, <2>1
<1>. PICK open : open = {f \in Fns : Open(p, f)}
  OBVIOUS
<1>. PICK X : X = Fns \ p.excluded
  OBVIOUS
<1>13. open = X
  BY DEF Open
<1>. PICK near : near = (ToSet(b) \cup ToSet(c)) \cap X
  OBVIOUS
<1>. PICK n \in Nat : n = MaxAutomatic
  OBVIOUS
<1>. PICK r : r = Reachables(p, n)
  OBVIOUS
<1>14. r = Prefix(Keep(Distinct(a \o b \o c), X), n)
  BY DEF Reachables
<1>15. (ToSet(a) \cup ToSet(b) \cup ToSet(c)) \cap X = near
  BY <1>7
<1>16. /\ r \in Seq(Fns) /\ ToSet(r) \subseteq near /\ Once(r)
       /\ Len(r) = Lesser(n, Cardinality(near))
       /\ \A f, g : Before(r, f, g) => Nearer(ToSet(a), ToSet(b), f, g)
       /\ \A f \in ToSet(r), g \in near \ ToSet(r) : Nearer(ToSet(a), ToSet(b), f, g)
  <2>1. Grouped(r, ToSet(a), ToSet(b), near, n)
    BY <1>3, <1>6, <1>11, <1>14, <1>15, GroupFacts
  <2>. QED  BY ONLY <2>1 DEF Grouped
<1>. PICK A : A = ToSet(a) \cap open
  OBVIOUS
<1>. PICK B : B = ToSet(b) \cap open
  OBVIOUS
<1>. DEFINE Group(f) == IF f \in A THEN 1 ELSE IF f \in B THEN 2 ELSE 3
<1>17. ASSUME NEW f \in near, NEW g \in near, Nearer(ToSet(a), ToSet(b), f, g)
       PROVE  Group(f) <= Group(g)
  BY <1>13, <1>17 DEF Nearer
<1>18. ASSUME NEW i \in DOMAIN r, NEW j \in DOMAIN r, i < j
       PROVE  r[i] # r[j] /\ Group(r[i]) <= Group(r[j])
  <2>1. r[i] \in near /\ r[j] \in near
    BY <1>16 DEF ToSet
  <2>2. Before(r, r[i], r[j])
    BY <1>18 DEF Before
  <2>3. i \in Nat /\ j \in Nat
    BY <1>16, LenProperties
  <2>4. r[i] # r[j]
    BY ONLY <1>16, i \in DOMAIN r, j \in DOMAIN r, i < j, <2>3 DEF Once
  <2>. QED  BY <1>16, <1>17, <2>1, <2>2, <2>4
<1>19. ASSUME NEW f \in ToSet(r), NEW g \in near \ ToSet(r) PROVE Group(f) <= Group(g)
  BY <1>16, <1>17
<1>20. near = (B \cup UNION {p.callees[f] : f \in ToSet(b)}) \cap open
  BY <1>12, <1>13
<1>. HIDE DEF Group
<1>21. /\ ToSet(r) \subseteq near /\ Len(r) = Lesser(MaxAutomatic, Cardinality(near))
       /\ \A i, j \in DOMAIN r : i < j => r[i] # r[j] /\ Group(r[i]) <= Group(r[j])
       /\ \A f \in ToSet(r), g \in near \ ToSet(r) : Group(f) <= Group(g)
  BY <1>16, <1>18, <1>19
<1>22. NearestFirst(p, r)
  BY ONLY <1>20, <1>21, A = ToSet(a) \cap open, B = ToSet(b) \cap open, a = Sinks(p), b = OnPath(p),
     open = {f \in Fns : Open(p, f)} DEF NearestFirst, Group
<1>. QED  BY <1>22

\* A batch about named functions is about these, all of them, leaves first
\* when it lifts; an automated one takes the best there is.
LEMMA NamedFacts ==
    ASSUME NEW p, IsProgram(p), NEW t \in Tasks, NEW only \in SUBSET Fns, only # {}
    PROVE  LET batch == SelectFunctions(p, t, NoLimit, only)
           IN  /\ batch \in Seq(Fns) /\ ToSet(batch) = only /\ Len(batch) = Cardinality(only)
               /\ t = "decompile" => LeavesFirst(p, batch)
<1>. PICK n : n = Cardinality(only)
  OBVIOUS
<1>1. IsFiniteSet(only) /\ n \in Nat
  BY FS_Subset, FS_CardinalityType
<1>2. Candidates(p, NoLimit, only) = ListOf(only) /\ Ceiling(p, NoLimit, only) = n
  <2>1. only \cap Fns = only
    OBVIOUS
  <2>. QED  BY <2>1 DEF Candidates, Ceiling
<1>. PICK batch : batch = SelectFunctions(p, t, NoLimit, only)
  OBVIOUS
<1>3. \/ t = "decompile" /\ p.order # <<>> /\ batch = BottomUp(p, ListOf(only), n)
      \/ (t = "decompile" => p.order = <<>>) /\ batch = Prefix(ByScore(p, ListOf(only)), n)
  BY ONLY <1>2, only # {}, batch = SelectFunctions(p, t, NoLimit, only) DEF SelectFunctions
<1>4. Takes(p, only, n, batch) /\ (t = "decompile" => LeavesFirst(p, batch))
  <2>1. CASE t = "decompile" /\ p.order # <<>> /\ batch = BottomUp(p, ListOf(only), n)
    BY <1>1, <2>1, BottomUpFacts
  <2>2. CASE (t = "decompile" => p.order = <<>>) /\ batch = Prefix(ByScore(p, ListOf(only)), n)
    <3>1. p.score \in [Fns -> Nat]
      BY DEF IsProgram
    <3>2. Takes(p, only, n, batch)
      BY <1>1, <2>2, <3>1, ListedOnce, TopFacts
    <3>3. p.order = <<>> => LeavesFirst(p, batch)
      <4>1. Len(<<>>) = 0
        BY EmptySeq
      <4>2. p.order = <<>> => \A f : ~ Contains(p.order, f)
        BY <4>1 DEF Contains
      <4>. QED  BY <4>2 DEF LeavesFirst
    <3>. QED  BY <2>2, <3>2, <3>3
  <2>. QED  BY <1>3, <2>1, <2>2
<1>5. /\ batch \in Seq(Fns) /\ ToSet(batch) \subseteq only
      /\ Len(batch) = Cardinality(ToSet(batch)) /\ Len(batch) = n
  BY <1>1, <1>4 DEF Takes, Lesser
<1>6. ToSet(batch) = only
  BY <1>1, <1>5, FS_Subset
<1>. QED  BY <1>4, <1>5, <1>6

LEMMA AutomaticFacts ==
    ASSUME NEW p, IsProgram(p), NEW t \in Tasks
    PROVE  LET batch == SelectFunctions(p, t, NoLimit, {})
           IN  /\ IF t = "bugs" /\ p.findings # <<>> THEN NearestFirst(p, batch)
                                                    ELSE BestFirst(p, batch)
               /\ t = "decompile" => LeavesFirst(p, batch)
<1>. PICK open : open = {f \in Fns : Open(p, f)}
  OBVIOUS
<1>. PICK worth : worth = {f \in open : p.score[f] >= WorthReview}
  OBVIOUS
<1>. PICK pool \in SUBSET Fns : pool = IF worth = {} THEN open ELSE worth
  OBVIOUS
<1>. PICK n \in Nat : n = MaxAutomatic
  OBVIOUS
<1>1. Candidates(p, NoLimit, {}) = ListOf(pool) /\ Ceiling(p, NoLimit, {}) = n
  BY DEF Candidates, Ceiling
<1>. PICK batch : batch = SelectFunctions(p, t, NoLimit, {})
  OBVIOUS
<1>2. \/ t = "decompile" /\ p.order # <<>> /\ batch = BottomUp(p, ListOf(pool), n)
      \/ t = "bugs" /\ p.findings # <<>> /\ batch = Reachables(p, n)
      \/ /\ t = "decompile" => p.order = <<>>
         /\ t = "bugs" => p.findings = <<>>
         /\ batch = Prefix(ByScore(p, ListOf(pool)), n)
  BY ONLY <1>1, batch = SelectFunctions(p, t, NoLimit, {}) DEF SelectFunctions
<1>3. ASSUME Takes(p, pool, n, batch) PROVE BestFirst(p, batch)
  <2>. PICK T : T = ToSet(batch)
    OBVIOUS
  <2>1. /\ T \subseteq pool /\ Len(batch) = Cardinality(T)
        /\ Len(batch) = Lesser(MaxAutomatic, Cardinality(pool))
        /\ \A f \in T, g \in pool \ T : p.score[g] <= p.score[f]
    BY <1>3 DEF Takes
  <2>2. ASSUME NEW f \in T, NEW g \in open \ T PROVE p.score[g] <= p.score[f]
    <3>1. CASE g \in pool
      BY <2>1, <3>1
    <3>2. CASE g \notin pool
      <4>1. f \in worth /\ g \in open \ worth
        BY <2>1, <3>2
      <4>2. p.score[f] \in Nat /\ p.score[g] \in Nat
        BY <4>1 DEF IsProgram
      <4>. QED  BY <4>1, <4>2
    <3>. QED  BY <3>1, <3>2
  <2>. QED  BY ONLY <2>1, <2>2, T = ToSet(batch), open = {f \in Fns : Open(p, f)},
               worth = {f \in open : p.score[f] >= WorthReview},
               pool = IF worth = {} THEN open ELSE worth DEF BestFirst
<1>4. CASE t = "decompile" /\ p.order # <<>> /\ batch = BottomUp(p, ListOf(pool), n)
  BY <1>3, <1>4, BottomUpFacts
<1>5. CASE t = "bugs" /\ p.findings # <<>> /\ batch = Reachables(p, n)
  BY <1>5, HuntFacts
<1>6. CASE /\ t = "decompile" => p.order = <<>>
           /\ t = "bugs" => p.findings = <<>>
           /\ batch = Prefix(ByScore(p, ListOf(pool)), n)
  <2>1. p.score \in [Fns -> Nat]
    BY DEF IsProgram
  <2>2. Takes(p, pool, n, batch)
    BY <1>6, <2>1, ListedOnce, TopFacts
  <2>3. p.order = <<>> => LeavesFirst(p, batch)
    <3>1. Len(<<>>) = 0
      BY EmptySeq
    <3>2. p.order = <<>> => \A f : ~ Contains(p.order, f)
      BY <3>1 DEF Contains
    <3>. QED  BY <3>2 DEF LeavesFirst
  <2>. QED  BY <1>3, <1>6, <2>2, <2>3
<1>. QED  BY <1>2, <1>4, <1>5, <1>6

Genuine == program \in Programs

\* The selection is the one the comments of selectFunctions promise, of every
\* binary whose export is one and at any ceiling: SelectionBest.
THEOREM SelectionIsBest == Spec => []SelectionBest
<1>1. Init => Genuine
  BY DEF Init, Genuine
<1>2. Genuine /\ [Next]_vars => Genuine'
  BY DEF Genuine, Next, vars, backend, Edit, TickFunction, ClearPicked, TickFinding, SetDepth, TickStage,
         TickSkip, PreviewAnswered, PreviewFailed, PressRun, SkipStage, StartStage, StartFails,
         Finish
<1>3. Genuine => SelectionBest
  <2>. SUFFICES ASSUME program \in Programs PROVE SelectionBest
    BY DEF Genuine
  <2>. PICK p : p = program
    OBVIOUS
  <2>1. IsProgram(p)
    BY ChoiceAssumption
  <2>2. "decompile" \in Tasks /\ "bugs" \in Tasks /\ "behaviour" \in Tasks
    BY DEF Tasks
  <2>3. /\ BestFirst(p, SelectFunctions(p, "decompile", NoLimit, {}))
        /\ LeavesFirst(p, SelectFunctions(p, "decompile", NoLimit, {}))
        /\ BestFirst(p, SelectFunctions(p, "behaviour", NoLimit, {}))
        /\ IF p.findings = <<>>
           THEN BestFirst(p, SelectFunctions(p, "bugs", NoLimit, {}))
           ELSE NearestFirst(p, SelectFunctions(p, "bugs", NoLimit, {}))
    BY <2>1, <2>2, AutomaticFacts
  <2>4. \A t \in Tasks, only \in (SUBSET Fns) \ {{}} :
           /\ ToSet(SelectFunctions(p, t, NoLimit, only)) = only
           /\ Len(SelectFunctions(p, t, NoLimit, only)) = Cardinality(only)
    BY <2>1, NamedFacts
  <2>. QED  BY <2>3, <2>4 DEF SelectionBest
<1>. QED  BY <1>1, <1>2, <1>3, PTL DEF Spec
-----------------------------------------------------------------------------
(* What an expansion lists.                                                *)

Walks == [selected : Seq(Fns), next : Seq(Fns), seen : SUBSET Fns, truncated : BOOLEAN]

LEMMA FollowShape ==
    ASSUME NEW p, NEW w \in Walks, NEW f \in Fns
    PROVE  Follow(p, w, f) \in Walks
<1>1. w.selected \in Seq(Fns) /\ w.next \in Seq(Fns) /\ w.seen \subseteq Fns /\ w.truncated \in BOOLEAN
      /\ w = [selected |-> w.selected, next |-> w.next, seen |-> w.seen, truncated |-> w.truncated]
  BY DEF Walks
<1>2. Append(w.selected, f) \in Seq(Fns) /\ Append(w.next, f) \in Seq(Fns)
  BY <1>1, AppendProperties
<1>. QED  BY ONLY <1>1, <1>2, w \in Walks, f \in Fns DEF Follow, Walks

\* W is the walk after each of the callees met, in turn.
Follows(p, walk, met, W) ==
    /\ met \in Seq(Fns)
    /\ \A f : f \in ToSet(met) <=> \E g \in ToSet(walk.next) : f \in p.callees[g]
    /\ W \in [0 .. Len(met) -> Walks]
    /\ W[0] = [walk EXCEPT !.next = <<>>]
    /\ \A i \in 1 .. Len(met) : W[i] = Follow(p, W[i - 1], met[i])
    /\ FollowLevel(p, walk) = W[Len(met)]

LEMMA LevelUnrolls ==
    ASSUME NEW p, IsProgram(p), NEW walk \in Walks
    PROVE  \E met, W : Follows(p, walk, met, W)
<1>. DEFINE met == FlattenSeq([i \in DOMAIN walk.next |-> ListOf(p.callees[walk.next[i]])])
            W[i \in 0 .. Len(met)] ==
                IF i = 0 THEN [walk EXCEPT !.next = <<>>] ELSE Follow(p, W[i - 1], met[i])
<1>1. FollowLevel(p, walk) = W[Len(met)]
  BY DEF FollowLevel
<1>. PICK s \in Seq(Fns) : s = walk.next
  BY DEF Walks
<1>2. DOMAIN s = 1 .. Len(s) /\ Len(s) \in Nat /\ \A i \in DOMAIN s : s[i] \in Fns
  BY LenProperties, ElementOfSeq
<1>3. p.callees \in [Fns -> SUBSET Fns]
  BY DEF IsProgram
<1>. PICK cs : cs = [i \in DOMAIN s |-> ListOf(p.callees[s[i]])]
  OBVIOUS
<1>4. /\ cs \in Seq(Seq(Fns)) /\ DOMAIN cs = DOMAIN s
      /\ \A i \in DOMAIN s : ToSet(cs[i]) = p.callees[s[i]]
  <2>1. ASSUME NEW i \in DOMAIN s
        PROVE  cs[i] \in Seq(Fns) /\ ToSet(cs[i]) = p.callees[s[i]]
    <3>1. PICK S \in SUBSET Fns : S = p.callees[s[i]]
      BY <1>2, <1>3
    <3>2. ListOf(S) \in Seq(Fns) /\ ToSet(ListOf(S)) = S
      BY ListedOnce
    <3>. QED  BY <3>1, <3>2
  <2>2. cs \in [1 .. Len(s) -> Seq(Fns)]
    BY ONLY <1>2, <2>1, cs = [i \in DOMAIN s |-> ListOf(p.callees[s[i]])]
  <2>3. cs \in Seq(Seq(Fns))
    BY ONLY <1>2, <2>2
  <2>. QED  BY <2>1, <2>3
<1>. PICK m : m = met
  OBVIOUS
<1>5. m = FlattenSeq(cs)
  OBVIOUS
<1>6. m \in Seq(Fns) /\ \A f : f \in ToSet(m) <=> \E g \in ToSet(s) : f \in p.callees[g]
  <2>1. m \in Seq(Fns) /\ \A f : f \in ToSet(m) <=> \E i \in DOMAIN cs : f \in ToSet(cs[i])
    BY ONLY <1>4, <1>5, FlatFacts
  <2>2. \A g : g \in ToSet(s) <=> \E i \in DOMAIN s : g = s[i]
    BY ONLY DEF ToSet
  <2>. QED  BY ONLY <1>4, <2>1, <2>2
<1>. PICK N \in Nat : N = Len(m)
  BY <1>6, LenProperties
<1>7. \A i \in 1 .. N : m[i] \in Fns
  BY <1>6, ElementOfSeq
<1>. PICK w0 : w0 = [walk EXCEPT !.next = <<>>]
  OBVIOUS
<1>8. w0 \in Walks
  BY EmptySeq DEF Walks
<1>9. PICK g : /\ g \in [0 .. N -> Walks] /\ g[0] = w0
               /\ \A i \in 1 .. N : g[i] = Follow(p, g[i - 1], m[i])
  <2>1. PICK step : step = [i \in 1 .. N |-> [w \in Walks |-> Follow(p, w, m[i])]]
    OBVIOUS
  <2>2. \A i \in 1 .. N, w \in Walks : Follow(p, w, m[i]) \in Walks
    BY <1>7, FollowShape
  <2>3. step \in Steps(N, Walks)
    BY ONLY <2>1, <2>2 DEF Steps
  <2>4. PICK g : Unrolls(g, N, Walks, w0, step)
    <3>1. \E g : Unrolls(g, N, Walks, w0, step)
      BY ONLY N \in Nat, <1>8, <2>3, Recursion
    <3>. QED  BY <3>1
  <2>5. g \in [0 .. N -> Walks] /\ g[0] = w0
    BY <2>4 DEF Unrolls
  <2>6. ASSUME NEW i \in 1 .. N PROVE g[i] = Follow(p, g[i - 1], m[i])
    <3>1. i - 1 \in 0 .. N
      OBVIOUS
    <3>2. g[i - 1] \in Walks /\ g[i] = step[i][g[i - 1]]
      BY <2>4, <2>5, <3>1 DEF Unrolls
    <3>. QED  BY ONLY <2>1, <3>2, i \in 1 .. N
  <2>. QED  BY <2>5, <2>6
<1>10. W = [i \in 0 .. N |-> IF i = 0 THEN w0 ELSE Follow(p, W[i - 1], m[i])]
  <2>1. ASSUME NEW i \in 0 .. N PROVE g[i] = IF i = 0 THEN w0 ELSE Follow(p, g[i - 1], m[i])
    <3>1. i = 0 \/ (i # 0 /\ i \in 1 .. N)
      OBVIOUS
    <3>. QED  BY ONLY <1>9, <3>1
  <2>2. g = [i \in 0 .. N |-> IF i = 0 THEN w0 ELSE Follow(p, g[i - 1], m[i])]
    BY ONLY <1>9, <2>1
  <2>. QED  BY <2>2
<1>. PICK h : h = W
  OBVIOUS
<1>11. h = [i \in 0 .. N |-> IF i = 0 THEN w0 ELSE Follow(p, h[i - 1], m[i])]
       /\ FollowLevel(p, walk) = h[N]
  BY <1>1, <1>10
<1>. HIDE DEF W, met
<1>12. h[N] = g[N]
  <2>. PICK T : T = {i \in 0 .. N : h[i] = g[i]}
    OBVIOUS
  <2>1. 0 \in T /\ T \in SUBSET (0 .. N)
    BY <1>9, <1>11
  <2>2. ASSUME NEW i \in 1 .. N, i - 1 \in T PROVE i \in T
    <3>1. i \in 0 .. N /\ i # 0
      OBVIOUS
    <3>2. h[i] = Follow(p, h[i - 1], m[i])
      BY ONLY <1>11, <3>1
    <3>3. g[i] = Follow(p, g[i - 1], m[i])
      BY ONLY <1>9, i \in 1 .. N
    <3>4. h[i - 1] = g[i - 1]
      BY <2>2
    <3>5. h[i] = g[i]
      BY ONLY <3>2, <3>3, <3>4
    <3>. QED  BY <3>1, <3>5
  <2>3. \A i \in 0 .. N : i \in T
    BY ONLY N \in Nat, <2>1, <2>2, UpTo
  <2>4. N \in 0 .. N
    OBVIOUS
  <2>. QED  BY <2>3, <2>4
<1>13. Follows(p, walk, m, g)
  BY ONLY <1>6, <1>9, <1>11, <1>12, N = Len(m), s = walk.next, w0 = [walk EXCEPT !.next = <<>>]
     DEF Follows
<1>. QED  BY <1>13

\* What is the first value and, from each number's value, that of the next, is
\* the function that a recursion describes.
Recurs(h, N, first, step) ==
    h = [i \in 0 .. N |-> IF i = 0 THEN first ELSE step[i][h[i - 1]]]

LEMMA OneRecursion ==
    ASSUME NEW N \in Nat, NEW D, NEW first \in D, NEW step \in Steps(N, D), NEW h,
           Recurs(h, N, first, step)
    PROVE  Unrolls(h, N, D, first, step)
<1>0. h = [j \in 0 .. N |-> IF j = 0 THEN first ELSE step[j][h[j - 1]]]
  BY DEF Recurs
<1>. PICK T : T = {i \in 0 .. N : h[i] \in D}
  OBVIOUS
<1>1. ASSUME NEW i \in 1 .. N PROVE h[i] = step[i][h[i - 1]] /\ i \in 0 .. N /\ i - 1 \in 0 .. N
  <2>1. i \in 0 .. N /\ i # 0 /\ i - 1 \in 0 .. N
    OBVIOUS
  <2>2. h[i] = IF i = 0 THEN first ELSE step[i][h[i - 1]]
    BY ONLY <2>1, <1>0
  <2>. QED  BY ONLY <2>1, <2>2
<1>2. h[0] = first /\ 0 \in T /\ T \in SUBSET (0 .. N)
  <2>1. 0 \in 0 .. N
    OBVIOUS
  <2>2. h[0] = IF 0 = 0 THEN first ELSE step[0][h[0 - 1]]
    BY ONLY <2>1, <1>0
  <2>. QED  BY <2>1, <2>2
<1>3. ASSUME NEW i \in 1 .. N, i - 1 \in T PROVE i \in T
  <2>1. h[i - 1] \in D
    BY <1>3
  <2>2. step[i][h[i - 1]] \in D
    BY ONLY <2>1, step \in Steps(N, D), i \in 1 .. N DEF Steps
  <2>. QED  BY <1>1, <2>2
<1>4. \A i \in 0 .. N : i \in T
  BY ONLY N \in Nat, <1>2, <1>3, UpTo
<1>5. \A i \in 0 .. N : h[i] \in D
  BY <1>4
<1>6. DOMAIN h = 0 .. N /\ h = [i \in 0 .. N |-> h[i]]
  <2>1. DOMAIN h = 0 .. N
    BY ONLY <1>0
  <2>2. \A i \in 0 .. N : h[i] = IF i = 0 THEN first ELSE step[i][h[i - 1]]
    BY ONLY <1>0
  <2>3. [i \in 0 .. N |-> h[i]] = [i \in 0 .. N |-> IF i = 0 THEN first ELSE step[i][h[i - 1]]]
    BY ONLY <2>2
  <2>. QED  BY ONLY <2>1, <2>3, <1>0
<1>7. h \in [0 .. N -> D]
  BY ONLY <1>5, <1>6
<1>. QED  BY ONLY <1>1, <1>2, <1>7 DEF Unrolls

LEMMA ARecursion ==
    ASSUME NEW N \in Nat, NEW D, NEW first \in D, NEW step \in Steps(N, D)
    PROVE  \E h : Recurs(h, N, first, step)
<1>1. PICK g : Unrolls(g, N, D, first, step)
  <2>1. \E g : Unrolls(g, N, D, first, step)
    BY ONLY N \in Nat, first \in D, step \in Steps(N, D), Recursion
  <2>. QED  BY <2>1
<1>2. /\ g \in [0 .. N -> D] /\ g[0] = first
      /\ \A i \in 1 .. N : g[i] = step[i][g[i - 1]]
  BY <1>1 DEF Unrolls
<1>3. ASSUME NEW i \in 0 .. N PROVE g[i] = IF i = 0 THEN first ELSE step[i][g[i - 1]]
  <2>1. i = 0 \/ (i # 0 /\ i \in 1 .. N)
    OBVIOUS
  <2>. QED  BY ONLY <1>2, <2>1
<1>4. g = [i \in 0 .. N |-> IF i = 0 THEN first ELSE step[i][g[i - 1]]]
  BY ONLY <1>2, <1>3
<1>5. Recurs(g, N, first, step)
  BY ONLY <1>4 DEF Recurs
<1>. QED  BY <1>5

\* L is the walk after each of the levels.
Levels(p, roots, calls, L) ==
    LET chosen == Keep(Distinct(roots), Fns)
    IN  /\ L \in [0 .. Deepest -> Walks]
        /\ L[0] = [selected |-> chosen, next |-> chosen, seen |-> ToSet(chosen), truncated |-> FALSE]
        /\ \A n \in 1 .. Deepest : L[n] = FollowLevel(p, L[n - 1])
        /\ ExpandSelection(p, roots, calls) = L[Lesser(calls, Deepest)]
        /\ chosen \in Seq(Fns) /\ Once(chosen) /\ ToSet(chosen) = ToSet(roots)

LEMMA ExpansionUnrolls ==
    ASSUME NEW p, IsProgram(p), NEW roots \in Seq(Fns), NEW calls \in Nat
    PROVE  \E L : Levels(p, roots, calls, L)
<1>. DEFINE chosen == Keep(Distinct(roots), Fns)
            Level[n \in 0 .. Deepest] ==
               IF n = 0
               THEN [selected |-> chosen, next |-> chosen,
                     seen |-> ToSet(chosen), truncated |-> FALSE]
               ELSE FollowLevel(p, Level[n - 1])
<1>1. ExpandSelection(p, roots, calls) = Level[Lesser(calls, Deepest)]
  BY DEF ExpandSelection
<1>. PICK c : c = chosen
  OBVIOUS
<1>2. c \in Seq(Fns) /\ Once(c) /\ ToSet(c) = ToSet(roots)
  <2>. PICK d : d = Distinct(roots)
    OBVIOUS
  <2>1. d \in Seq(Fns) /\ Once(d) /\ ToSet(d) = ToSet(roots)
    <3>1. FirstOnly(Fns, d, roots)
      BY DistinctFacts
    <3>. QED  BY ONLY <3>1 DEF FirstOnly
  <2>2. Filtered(Fns, c, d, Fns)
    BY <2>1, KeepFacts
  <2>3. \A i \in DOMAIN roots : roots[i] \in Fns
    BY LenProperties, ElementOfSeq
  <2>4. ToSet(roots) \cap Fns = ToSet(roots)
    BY ONLY <2>3 DEF ToSet
  <2>. QED  BY ONLY <2>1, <2>2, <2>4 DEF Filtered
<1>. PICK N \in Nat : N = Deepest
  BY DEF Deepest
<1>. PICK w0 : w0 = [selected |-> c, next |-> c, seen |-> ToSet(c), truncated |-> FALSE]
  OBVIOUS
<1>3. w0 \in Walks
  <2>1. \A i \in DOMAIN c : c[i] \in Fns
    BY <1>2, LenProperties, ElementOfSeq
  <2>2. ToSet(c) \subseteq Fns
    BY ONLY <2>1 DEF ToSet
  <2>. QED  BY <1>2, <2>2 DEF Walks
<1>4. ASSUME NEW w \in Walks PROVE FollowLevel(p, w) \in Walks
  <2>1. PICK met, W : Follows(p, w, met, W)
    BY LevelUnrolls
  <2>2. Len(met) \in Nat /\ W \in [0 .. Len(met) -> Walks] /\ FollowLevel(p, w) = W[Len(met)]
    BY <2>1, LenProperties DEF Follows
  <2>. QED  BY <2>2
<1>. PICK step : step = [i \in 1 .. N |-> [w \in Walks |-> FollowLevel(p, w)]]
  OBVIOUS
<1>5. step \in Steps(N, Walks)
  BY <1>4 DEF Steps
<1>. DEFINE F(h) == [n \in 0 .. N |-> IF n = 0 THEN w0 ELSE FollowLevel(p, h[n - 1])]
<1>6. ASSUME NEW h, Recurs(h, N, w0, step)
      PROVE  h \in [0 .. N -> Walks] /\ h = F(h)
  <2>1. /\ h \in [0 .. N -> Walks] /\ h[0] = w0
        /\ \A i \in 1 .. N : h[i - 1] \in Walks /\ h[i] = step[i][h[i - 1]]
    <3>1. Unrolls(h, N, Walks, w0, step)
      BY ONLY N \in Nat, <1>3, <1>5, <1>6, OneRecursion
    <3>2. \A i \in 1 .. N : i - 1 \in 0 .. N
      OBVIOUS
    <3>. QED  BY ONLY <3>1, <3>2 DEF Unrolls
  <2>2. ASSUME NEW i \in 0 .. N PROVE h[i] = IF i = 0 THEN w0 ELSE FollowLevel(p, h[i - 1])
    <3>1. i = 0 \/ (i # 0 /\ i \in 1 .. N)
      OBVIOUS
    <3>. QED  BY ONLY <2>1, <3>1, step = [j \in 1 .. N |-> [w \in Walks |-> FollowLevel(p, w)]]
  <2>. QED  BY ONLY <2>1, <2>2
<1>7. \E h : h = F(h)
  <2>1. PICK h : Recurs(h, N, w0, step)
    BY ONLY N \in Nat, <1>3, <1>5, ARecursion
  <2>. QED  BY <1>6, <2>1
<1>. PICK h : h = Level
  OBVIOUS
<1>8. h = F(h)
  <2>1. Level = [n \in 0 .. N |-> IF n = 0 THEN w0 ELSE FollowLevel(p, Level[n - 1])]
    BY <1>7
  <2>. QED  BY <2>1
<1>9. ExpandSelection(p, roots, calls) = h[Lesser(calls, Deepest)]
  BY <1>1
<1>. HIDE DEF Level, chosen
<1>10. /\ h \in [0 .. N -> Walks] /\ h[0] = w0
       /\ \A i \in 1 .. N : h[i] = FollowLevel(p, h[i - 1])
  <2>. PICK T : T = {i \in 0 .. N : h[i] \in Walks}
    OBVIOUS
  <2>1. h[0] = w0 /\ 0 \in T /\ T \in SUBSET (0 .. N)
    BY <1>3, <1>8
  <2>2. ASSUME NEW i \in 1 .. N PROVE h[i] = FollowLevel(p, h[i - 1]) /\ i \in 0 .. N
    <3>1. i \in 0 .. N /\ i # 0
      OBVIOUS
    <3>. QED  BY ONLY <1>8, <3>1
  <2>3. ASSUME NEW i \in 1 .. N, i - 1 \in T PROVE i \in T
    BY <1>4, <2>2, <2>3
  <2>4. \A i \in 0 .. N : i \in T
    BY ONLY N \in Nat, <2>1, <2>3, UpTo
  <2>5. \A i \in 0 .. N : h[i] \in Walks
    BY <2>4
  <2>6. h \in [0 .. N -> Walks]
    BY ONLY <1>8, <2>5
  <2>. QED  BY <2>1, <2>2, <2>6
<1>11. Levels(p, roots, calls, h)
  BY ONLY <1>2, <1>9, <1>10, N = Deepest, c = chosen,
     w0 = [selected |-> c, next |-> c, seen |-> ToSet(c), truncated |-> FALSE] DEF Levels, chosen
<1>. QED  BY <1>11

\* R is what is within reach at each number of calls.
Reaches(p, roots, R) ==
    /\ R \in [0 .. Deepest -> SUBSET Fns] /\ R[0] = roots
    /\ \A n \in 1 .. Deepest :
          R[n] = R[n - 1] \cup {g \in Fns \ p.excluded : \E f \in R[n - 1] : g \in p.callees[f]}

LEMMA WithinUnrolls ==
    ASSUME NEW p, NEW roots \in SUBSET Fns
    PROVE  Reaches(p, roots, Within(p, roots))
<1>. DEFINE W[n \in 0 .. Deepest] ==
               IF n = 0 THEN roots \cap Fns
               ELSE LET near == W[n - 1]
                    IN  near \cup {g \in Fns \ p.excluded : \E f \in near : g \in p.callees[f]}
            Wider(near) == near \cup {g \in Fns \ p.excluded : \E f \in near : g \in p.callees[f]}
<1>1. Within(p, roots) = W
  BY DEF Within
<1>. PICK N \in Nat : N = Deepest
  BY DEF Deepest
<1>. PICK D : D = SUBSET Fns
  OBVIOUS
<1>. PICK step : step = [i \in 1 .. N |-> [w \in D |-> Wider(w)]]
  OBVIOUS
<1>2. \A w \in D : Wider(w) \in D
  OBVIOUS
<1>. PICK w0 : w0 = roots \cap Fns
  OBVIOUS
<1>a. w0 \in D /\ w0 = roots
  OBVIOUS
<1>b. w0 \in D
  BY <1>a
<1>. DEFINE F(h) == [n \in 0 .. N |-> IF n = 0 THEN w0 ELSE Wider(h[n - 1])]
<1>. HIDE DEF Wider
<1>3. step \in Steps(N, D)
  BY <1>2 DEF Steps
<1>4. ASSUME NEW h, Recurs(h, N, w0, step)
      PROVE  h = F(h)
  <2>1. /\ h \in [0 .. N -> D] /\ h[0] = w0
        /\ \A i \in 1 .. N : h[i - 1] \in D /\ h[i] = step[i][h[i - 1]]
    <3>1. Unrolls(h, N, D, w0, step)
      BY ONLY N \in Nat, <1>b, <1>3, <1>4, OneRecursion
    <3>2. \A i \in 1 .. N : i - 1 \in 0 .. N
      OBVIOUS
    <3>. QED  BY ONLY <3>1, <3>2 DEF Unrolls
  <2>2. ASSUME NEW i \in 0 .. N PROVE h[i] = IF i = 0 THEN w0 ELSE Wider(h[i - 1])
    <3>1. i = 0 \/ (i # 0 /\ i \in 1 .. N)
      OBVIOUS
    <3>. QED  BY ONLY <2>1, <3>1, step = [j \in 1 .. N |-> [w \in D |-> Wider(w)]]
  <2>. QED  BY ONLY <2>1, <2>2
<1>5. \E h : h = F(h)
  <2>1. PICK h : Recurs(h, N, w0, step)
    BY ONLY N \in Nat, <1>b, <1>3, ARecursion
  <2>. QED  BY <1>4, <2>1
<1>. PICK h : h = W
  OBVIOUS
<1>6. h = F(h)
  <2>1. \E g : g = [n \in 0 .. Deepest |->
                     IF n = 0 THEN roots \cap Fns
                     ELSE LET near == g[n - 1]
                          IN  near \cup {f \in Fns \ p.excluded : \E e \in near : f \in p.callees[e]}]
    BY ONLY <1>5, N = Deepest, w0 = roots \cap Fns DEF Wider
  <2>2. W = [n \in 0 .. Deepest |->
               IF n = 0 THEN roots \cap Fns
               ELSE LET near == W[n - 1]
                    IN  near \cup {f \in Fns \ p.excluded : \E e \in near : f \in p.callees[e]}]
    BY ONLY <2>1
  <2>. QED  BY ONLY <2>2, h = W, N = Deepest, w0 = roots \cap Fns DEF Wider
<1>7. Within(p, roots) = h
  BY <1>1
<1>. HIDE DEF W
<1>10. /\ h \in [0 .. N -> D] /\ h[0] = w0
       /\ \A i \in 1 .. N : h[i] = Wider(h[i - 1])
  <2>. PICK T : T = {i \in 0 .. N : h[i] \in D}
    OBVIOUS
  <2>1. h[0] = w0 /\ 0 \in T /\ T \in SUBSET (0 .. N)
    BY <1>a, <1>6
  <2>2. ASSUME NEW i \in 1 .. N PROVE h[i] = Wider(h[i - 1]) /\ i \in 0 .. N
    <3>1. i \in 0 .. N /\ i # 0
      OBVIOUS
    <3>. QED  BY ONLY <1>6, <3>1
  <2>3. ASSUME NEW i \in 1 .. N, i - 1 \in T PROVE i \in T
    BY <1>2, <2>2, <2>3
  <2>4. \A i \in 0 .. N : i \in T
    BY ONLY N \in Nat, <2>1, <2>3, UpTo
  <2>5. \A i \in 0 .. N : h[i] \in D
    BY <2>4
  <2>6. h \in [0 .. N -> D]
    BY ONLY <1>6, <2>5
  <2>. QED  BY <2>1, <2>2, <2>6
<1>11. Reaches(p, roots, h)
  BY ONLY <1>a, <1>10, N = Deepest, D = SUBSET Fns DEF Reaches, Wider
<1>. QED  BY <1>7, <1>11

LEMMA AppendFacts ==
    ASSUME NEW D, NEW s \in Seq(D), NEW x \in D
    PROVE  /\ Append(s, x) \in Seq(D) /\ Len(Append(s, x)) = Len(s) + 1
           /\ ToSet(Append(s, x)) = ToSet(s) \cup {x}
           /\ Once(s) /\ x \notin ToSet(s) => Once(Append(s, x))
<1>. PICK r : r = Append(s, x)
  OBVIOUS
<1>. PICK n \in Nat : n = Len(s)
  BY LenProperties
<1>1. /\ r \in Seq(D) /\ Len(r) = n + 1 /\ DOMAIN r = 1 .. n + 1 /\ DOMAIN s = 1 .. n
      /\ \A i \in 1 .. n : r[i] = s[i]
      /\ r[n + 1] = x
  BY AppendProperties, LenProperties
<1>2. \A i : i \in 1 .. n + 1 <=> i \in 1 .. n \/ i = n + 1
  OBVIOUS
<1>3. ToSet(r) = ToSet(s) \cup {x}
  BY ONLY <1>1, <1>2 DEF ToSet
<1>4. ASSUME Once(s), x \notin ToSet(s) PROVE Once(r)
  <2>1. \A i \in 1 .. n : r[i] # x
    BY ONLY <1>1, <1>4 DEF ToSet
  <2>. QED  BY ONLY <1>1, <1>2, <1>4, <2>1 DEF Once
<1>. QED  BY <1>1, <1>3, <1>4

\* u is the walk v after a call to f.
Followed(p, v, f, u) ==
    \/ f \in v.seen /\ u = v
    \/ /\ f \notin v.seen /\ u.seen = v.seen \cup {f}
       /\ \/ /\ f \in p.excluded
             /\ u.selected = v.selected /\ u.next = v.next /\ u.truncated = v.truncated
          \/ /\ f \notin p.excluded /\ Len(v.selected) >= MaxExpanded
             /\ u.selected = v.selected /\ u.next = v.next /\ u.truncated = TRUE
          \/ /\ f \notin p.excluded /\ ~ (Len(v.selected) >= MaxExpanded)
             /\ u.selected = Append(v.selected, f) /\ u.next = Append(v.next, f)
             /\ u.truncated = v.truncated

LEMMA FollowCases ==
    ASSUME NEW p, NEW v \in Walks, NEW f \in Fns
    PROVE  Followed(p, v, f, Follow(p, v, f))
<1>1. v = [selected |-> v.selected, next |-> v.next, seen |-> v.seen, truncated |-> v.truncated]
  BY DEF Walks
<1>. QED  BY ONLY <1>1, f \in Fns DEF Follow, Open, Followed

Bounded(w, roots) ==
    Len(w.selected) > Cardinality(roots) => Len(w.selected) <= MaxExpanded

\* The walk once the functions within n calls have been met.
Walked(p, w, R, n) ==
    /\ Once(w.selected) /\ ToSet(w.selected) \subseteq w.seen
    /\ R[0] \subseteq ToSet(w.selected) /\ ToSet(w.selected) \subseteq R[n] /\ Bounded(w, R[0])
    /\ ~ w.truncated => /\ ToSet(w.selected) = R[n] /\ w.seen \ p.excluded \subseteq R[n]
                        /\ ToSet(w.next) \subseteq R[n]
                        /\ \A f \in R[n] \ ToSet(w.next) : p.callees[f] \ p.excluded \subseteq R[n]
    /\ w.truncated => /\ Len(w.selected) >= MaxExpanded
                      /\ \E m \in 1 .. n : /\ R[m - 1] \subseteq ToSet(w.selected)
                                           /\ ToSet(w.selected) \subseteq R[m]
                                           /\ R[m] \ ToSet(w.selected) # {}

\* The walk between two levels, with the first i callees of the nearer met.
Midway(p, v, near, far, roots, met, i) ==
    /\ Once(v.selected) /\ ToSet(v.selected) \subseteq v.seen
    /\ ToSet(v.selected) = near \cup ToSet(v.next) /\ ToSet(v.selected) \subseteq far
    /\ Bounded(v, roots)
    /\ ~ v.truncated => /\ v.seen \ p.excluded \subseteq ToSet(v.selected)
                        /\ \A j \in 1 .. i : met[j] \in v.seen
    /\ v.truncated => /\ Len(v.selected) >= MaxExpanded
                      /\ far \ ToSet(v.selected) # {}

LEMMA MidwayStep ==
    ASSUME NEW p, NEW v \in Walks, NEW near, NEW far, NEW roots, NEW met, NEW i \in Nat \ {0},
           NEW f \in Fns, f = met[i], f \notin p.excluded => f \in far,
           Cardinality(roots) \in Nat,
           Midway(p, v, near, far, roots, met, i - 1), NEW u, u = Follow(p, v, f)
    PROVE  Midway(p, u, near, far, roots, met, i)
<1>. PICK s \in Seq(Fns) : s = v.selected
  BY DEF Walks
<1>. PICK x \in Seq(Fns) : x = v.next
  BY DEF Walks
<1>0. Len(s) \in Nat /\ v.truncated \in BOOLEAN
  BY LenProperties DEF Walks
<1>a. \A j \in 1 .. i : j \in 1 .. i - 1 \/ j = i
  OBVIOUS
<1>b. /\ Once(s) /\ ToSet(s) \subseteq v.seen
      /\ ToSet(s) = near \cup ToSet(x) /\ ToSet(s) \subseteq far
      /\ Len(s) > Cardinality(roots) => Len(s) <= MaxExpanded
      /\ ~ v.truncated => /\ v.seen \ p.excluded \subseteq ToSet(s)
                          /\ \A j \in 1 .. i - 1 : met[j] \in v.seen
      /\ v.truncated => Len(s) >= MaxExpanded /\ far \ ToSet(s) # {}
  BY DEF Midway, Bounded
<1>c. (v.truncated = TRUE <=> v.truncated) /\ (v.truncated = FALSE <=> ~ v.truncated)
  BY <1>0
<1>1. CASE f \in v.seen /\ u = v
  BY ONLY <1>1, <1>a, <1>b, f = met[i], s = v.selected, x = v.next DEF Midway, Bounded
<1>2. CASE /\ f \notin v.seen /\ u.seen = v.seen \cup {f} /\ f \in p.excluded
           /\ u.selected = v.selected /\ u.next = v.next /\ u.truncated = v.truncated
  BY ONLY <1>2, <1>a, <1>b, f = met[i], s = v.selected, x = v.next DEF Midway, Bounded
<1>3. CASE /\ f \notin v.seen /\ u.seen = v.seen \cup {f}
           /\ f \notin p.excluded /\ Len(v.selected) >= MaxExpanded
           /\ u.selected = v.selected /\ u.next = v.next /\ u.truncated = TRUE
  <2>1. f \in far \ ToSet(s)
    BY <1>3, <1>b
  <2>. QED  BY ONLY <1>3, <1>b, <2>1, s = v.selected, x = v.next DEF Midway, Bounded
<1>4. CASE /\ f \notin v.seen /\ u.seen = v.seen \cup {f}
           /\ f \notin p.excluded /\ ~ (Len(v.selected) >= MaxExpanded)
           /\ u.selected = Append(v.selected, f) /\ u.next = Append(v.next, f)
           /\ u.truncated = v.truncated
  <2>1. ~ u.truncated
    BY <1>4, <1>b
  <2>2. /\ ToSet(u.selected) = ToSet(s) \cup {f} /\ Len(u.selected) = Len(s) + 1
        /\ Once(s) /\ f \notin ToSet(s) => Once(u.selected)
    BY <1>4, AppendFacts
  <2>3. ToSet(u.next) = ToSet(x) \cup {f}
    BY <1>4, AppendFacts
  <2>4. f \notin ToSet(s) /\ f \in far
    BY <1>4, <1>b
  <2>5. Len(u.selected) <= MaxExpanded
    <3>1. MaxExpanded \in Nat /\ ~ (Len(s) >= MaxExpanded)
      BY <1>4
    <3>. QED  BY ONLY <1>0, <2>2, <3>1
  <2>6. /\ Once(u.selected) /\ ToSet(u.selected) \subseteq u.seen
        /\ ToSet(u.selected) = near \cup ToSet(u.next) /\ ToSet(u.selected) \subseteq far
    BY ONLY <1>4, <1>b, <2>2, <2>3, <2>4
  <2>7. u.seen \ p.excluded \subseteq ToSet(u.selected)
    BY ONLY <1>4, <1>b, <2>1, <2>2
  <2>8. \A j \in 1 .. i : met[j] \in u.seen
    BY ONLY <1>4, <1>a, <1>b, <2>1, f = met[i]
  <2>. QED  BY ONLY <2>1, <2>5, <2>6, <2>7, <2>8 DEF Midway, Bounded
<1>5. Followed(p, v, f, u)
  BY FollowCases
<1>. QED  BY ONLY <1>1, <1>2, <1>3, <1>4, <1>5 DEF Followed

LEMMA LevelStep ==
    ASSUME NEW p, IsProgram(p), NEW roots \in SUBSET Fns, NEW R, Reaches(p, roots, R),
           NEW n \in 1 .. Deepest, NEW w \in Walks, Walked(p, w, R, n - 1)
    PROVE  Walked(p, FollowLevel(p, w), R, n)
<1>. PICK near : near = R[n - 1]
  OBVIOUS
<1>. PICK far : far = R[n]
  OBVIOUS
<1>0. n \in Nat /\ n # 0 /\ n - 1 \in 0 .. Deepest /\ n \in 0 .. Deepest
  BY DEF Deepest
<1>1. /\ near \in SUBSET Fns /\ far \in SUBSET Fns /\ R[0] = roots
      /\ far = near \cup {g \in Fns \ p.excluded : \E f \in near : g \in p.callees[f]}
  BY <1>0 DEF Reaches
<1>2. IsFiniteSet(roots) /\ Cardinality(roots) \in Nat
  BY FS_Subset, FS_CardinalityType
<1>3. PICK met, W : Follows(p, w, met, W)
  BY LevelUnrolls
<1>. PICK N \in Nat : N = Len(met)
  BY <1>3, LenProperties DEF Follows
<1>4. /\ \A f : f \in ToSet(met) <=> \E g \in ToSet(w.next) : f \in p.callees[g]
      /\ W \in [0 .. N -> Walks] /\ W[0] = [w EXCEPT !.next = <<>>]
      /\ \A i \in 1 .. N : W[i] = Follow(p, W[i - 1], met[i])
      /\ FollowLevel(p, w) = W[N] /\ met \in Seq(Fns)
  BY ONLY <1>3, N = Len(met) DEF Follows
<1>5. /\ \A i \in 1 .. N : met[i] \in Fns /\ met[i] \in ToSet(met)
      /\ ToSet(met) = {met[i] : i \in 1 .. N}
  <2>1. DOMAIN met = 1 .. N /\ \A i \in 1 .. N : met[i] \in Fns
    BY <1>4, LenProperties, ElementOfSeq
  <2>. QED  BY ONLY <2>1 DEF ToSet
<1>6. /\ W[0].selected = w.selected /\ W[0].seen = w.seen /\ W[0].truncated = w.truncated
      /\ W[0].next = <<>> /\ ToSet(<<>>) = {} /\ w.truncated \in BOOLEAN
  <2>1. w = [selected |-> w.selected, next |-> w.next, seen |-> w.seen, truncated |-> w.truncated]
        /\ w.truncated \in BOOLEAN
    BY DEF Walks
  <2>2. ToSet(<<>>) = {}
    BY DEF ToSet
  <2>. QED  BY ONLY <1>4, <2>1, <2>2
<1>. PICK v : v = W[N]
  OBVIOUS
<1>7. CASE w.truncated
  <2>. PICK T : T = {i \in 0 .. N : /\ W[i].selected = w.selected /\ W[i].truncated
                                   /\ w.seen \subseteq W[i].seen}
    OBVIOUS
  <2>0. Len(w.selected) >= MaxExpanded
    BY <1>7 DEF Walked
  <2>1. 0 \in T /\ T \in SUBSET (0 .. N)
    <3>1. W[0].selected = w.selected /\ W[0].truncated /\ w.seen \subseteq W[0].seen
      BY ONLY <1>6, <1>7
    <3>. QED  BY <3>1
  <2>2. ASSUME NEW i \in 1 .. N, i - 1 \in T PROVE i \in T
    <3>1. i - 1 \in 0 .. N /\ i \in 0 .. N
      OBVIOUS
    <3>. PICK a \in Walks : a = W[i - 1]
      BY <1>4, <3>1
    <3>. PICK b : b = W[i]
      OBVIOUS
    <3>2. b = Follow(p, a, met[i]) /\ met[i] \in Fns
      BY <1>4, <1>5
    <3>3. a.selected = w.selected /\ a.truncated /\ w.seen \subseteq a.seen
      BY <2>2
    <3>4. b.selected = a.selected /\ b.truncated /\ a.seen \subseteq b.seen
      <4>. PICK f \in Fns : f = met[i]
        BY <3>2
      <4>1. \/ b = a
            \/ /\ b.seen = a.seen \cup {f} /\ b.selected = a.selected
               /\ b.truncated = a.truncated \/ b.truncated = TRUE
            \/ ~ (Len(a.selected) >= MaxExpanded)
        <5>1. Followed(p, a, f, b)
          BY <3>2, FollowCases
        <5>. QED  BY ONLY <5>1 DEF Followed
      <4>. QED  BY ONLY <2>0, <3>3, <4>1
    <3>. QED  BY <3>1, <3>3, <3>4
  <2>3. \A i \in 0 .. N : i \in T
    BY ONLY N \in Nat, <2>1, <2>2, UpTo
  <2>4. v.selected = w.selected /\ v.truncated /\ w.seen \subseteq v.seen
    <3>1. N \in 0 .. N
      OBVIOUS
    <3>. QED  BY <2>3, <3>1
  <2>5. /\ Once(w.selected) /\ ToSet(w.selected) \subseteq w.seen
        /\ R[0] \subseteq ToSet(w.selected) /\ ToSet(w.selected) \subseteq near
        /\ Bounded(w, R[0])
    BY DEF Walked
  <2>6. PICK m \in 1 .. n - 1 : /\ R[m - 1] \subseteq ToSet(w.selected)
                                /\ ToSet(w.selected) \subseteq R[m]
                                /\ R[m] \ ToSet(w.selected) # {}
    BY <1>7 DEF Walked
  <2>7. m \in 1 .. n /\ near \subseteq far
    BY <1>0, <1>1
  <2>8. Walked(p, v, R, n)
    BY ONLY <2>0, <2>4, <2>5, <2>6, <2>7, far = R[n] DEF Walked, Bounded
  <2>. QED  BY <1>4, <2>8
<1>8. CASE ~ w.truncated
  <2>0. /\ Once(w.selected) /\ ToSet(w.selected) \subseteq w.seen /\ Bounded(w, roots)
        /\ roots \subseteq near
        /\ ToSet(w.selected) = near /\ w.seen \ p.excluded \subseteq near
        /\ ToSet(w.next) \subseteq near
        /\ \A f \in near \ ToSet(w.next) : p.callees[f] \ p.excluded \subseteq near
    BY ONLY <1>1, <1>8, Walked(p, w, R, n - 1), near = R[n - 1] DEF Walked
  <2>. PICK T : T = {i \in 0 .. N : Midway(p, W[i], near, far, roots, met, i)}
    OBVIOUS
  <2>1. 0 \in T /\ T \in SUBSET (0 .. N)
    <3>1. near \subseteq far /\ \A j : j \notin 1 .. 0
      BY <1>1
    <3>2. Midway(p, W[0], near, far, roots, met, 0)
      BY ONLY <1>6, <1>8, <2>0, <3>1 DEF Midway, Bounded
    <3>. QED  BY <3>2
  <2>2. ASSUME NEW i \in 1 .. N, i - 1 \in T PROVE i \in T
    <3>1. i - 1 \in 0 .. N /\ i \in 0 .. N /\ i \in Nat \ {0}
      OBVIOUS
    <3>. PICK a \in Walks : a = W[i - 1]
      BY <1>4, <3>1
    <3>2. PICK f \in Fns : f = met[i]
      BY <1>5
    <3>3. W[i] = Follow(p, a, f) /\ Midway(p, a, near, far, roots, met, i - 1)
      BY <1>4, <2>2, <3>2
    <3>4. f \notin p.excluded => f \in far
      <4>1. f \in ToSet(met)
        BY <1>5, <3>2
      <4>2. PICK g \in ToSet(w.next) : f \in p.callees[g]
        BY <1>4, <4>1
      <4>. QED  BY <1>1, <2>0, <4>2
    <3>5. Midway(p, W[i], near, far, roots, met, i)
      BY ONLY <1>2, <3>1, <3>2, <3>3, <3>4, a \in Walks, MidwayStep
    <3>. QED  BY <3>1, <3>5
  <2>3. \A i \in 0 .. N : i \in T
    BY ONLY N \in Nat, <2>1, <2>2, UpTo
  <2>4. Midway(p, v, near, far, roots, met, N) /\ v \in Walks
    <3>1. N \in 0 .. N
      OBVIOUS
    <3>. QED  BY <1>4, <2>3, <3>1
  <2>5. /\ Once(v.selected) /\ ToSet(v.selected) \subseteq v.seen
        /\ ToSet(v.selected) = near \cup ToSet(v.next) /\ ToSet(v.selected) \subseteq far
        /\ Bounded(v, roots)
        /\ ~ v.truncated => /\ v.seen \ p.excluded \subseteq ToSet(v.selected)
                            /\ \A j \in 1 .. N : met[j] \in v.seen
        /\ v.truncated => /\ Len(v.selected) >= MaxExpanded
                          /\ far \ ToSet(v.selected) # {}
    BY ONLY <2>4 DEF Midway
  <2>6. ASSUME ~ v.truncated PROVE ToSet(v.selected) = far
    <3>1. ASSUME NEW g \in Fns \ p.excluded, NEW f \in near, g \in p.callees[f]
          PROVE  g \in ToSet(v.selected)
      <4>1. CASE f \in ToSet(w.next)
        <5>1. g \in ToSet(met)
          BY <1>4, <3>1, <4>1
        <5>2. PICK j \in 1 .. N : g = met[j]
          BY <1>5, <5>1
        <5>. QED  BY <2>5, <2>6, <5>2
      <4>2. CASE f \notin ToSet(w.next)
        <5>1. g \in near
          BY <2>0, <3>1, <4>2
        <5>. QED  BY <2>5, <5>1
      <4>. QED  BY <4>1, <4>2
    <3>. QED  BY <1>1, <2>5, <3>1
  <2>7. ASSUME ~ v.truncated, NEW f \in far \ ToSet(v.next)
        PROVE  p.callees[f] \ p.excluded \subseteq far
    <3>1. f \in near
      BY <2>5, <2>6, <2>7
    <3>2. p.callees[f] \subseteq Fns
      BY <1>1, <3>1 DEF IsProgram
    <3>. QED  BY ONLY <1>1, <3>1, <3>2
  <2>8. v.truncated => \E m \in 1 .. n : /\ R[m - 1] \subseteq ToSet(v.selected)
                                         /\ ToSet(v.selected) \subseteq R[m]
                                         /\ R[m] \ ToSet(v.selected) # {}
    <3>1. n \in 1 .. n
      BY <1>0
    <3>. QED  BY ONLY <2>5, <3>1, near = R[n - 1], far = R[n]
  <2>9. Walked(p, v, R, n)
    BY ONLY <1>1, <2>0, <2>5, <2>6, <2>7, <2>8, far = R[n] DEF Walked
  <2>. QED  BY <1>4, <2>9
<1>. QED  BY <1>7, <1>8

\* An expansion is exactly what is within reach, or says that it is not.
LEMMA ExpansionExact ==
    ASSUME NEW p, IsProgram(p), NEW s \in Seq(Fns), NEW calls \in Nat,
           NEW w, w = ExpandSelection(p, s, calls)
    PROVE  /\ w \in Walks /\ ToSet(s) \subseteq ToSet(w.selected)
           /\ ExactExpansion(p, ToSet(s), calls, w)
<1>. PICK roots \in SUBSET Fns : roots = ToSet(s)
  <2>1. \A i \in DOMAIN s : s[i] \in Fns
    BY LenProperties, ElementOfSeq
  <2>. QED  BY <2>1 DEF ToSet
<1>. PICK R : R = Within(p, roots)
  OBVIOUS
<1>1. Reaches(p, roots, R)
  BY WithinUnrolls
<1>2. /\ R \in [0 .. Deepest -> SUBSET Fns] /\ R[0] = roots
      /\ \A n \in 1 .. Deepest : R[n - 1] \subseteq R[n]
  BY <1>1 DEF Reaches
<1>3. PICK L : Levels(p, s, calls, L)
  BY ExpansionUnrolls
<1>. PICK c : c = Keep(Distinct(s), Fns)
  OBVIOUS
<1>4. /\ L \in [0 .. Deepest -> Walks]
      /\ L[0] = [selected |-> c, next |-> c, seen |-> ToSet(c), truncated |-> FALSE]
      /\ \A n \in 1 .. Deepest : L[n] = FollowLevel(p, L[n - 1])
      /\ w = L[Lesser(calls, Deepest)]
      /\ c \in Seq(Fns) /\ Once(c) /\ ToSet(c) = roots
  BY ONLY <1>3, c = Keep(Distinct(s), Fns), roots = ToSet(s), w = ExpandSelection(p, s, calls)
     DEF Levels
<1>. PICK N \in Nat : N = Deepest
  BY DEF Deepest
<1>5. \A n \in 0 .. N : Walked(p, L[n], R, n)
  <2>. PICK T : T = {n \in 0 .. N : Walked(p, L[n], R, n)}
    OBVIOUS
  <2>1. 0 \in T /\ T \in SUBSET (0 .. N)
    <3>1. Cardinality(roots) = Len(c) /\ Len(c) \in Nat
      BY <1>4, OnceCount, LenProperties
    <3>2. /\ L[0].selected = c /\ L[0].next = c /\ L[0].seen = roots /\ L[0].truncated = FALSE
      BY ONLY <1>4
    <3>3. Bounded(L[0], roots)
      BY ONLY <3>1, <3>2 DEF Bounded
    <3>4. Walked(p, L[0], R, 0)
      BY ONLY <1>2, <1>4, <3>2, <3>3 DEF Walked
    <3>. QED  BY <3>4
  <2>2. ASSUME NEW n \in 1 .. N, n - 1 \in T PROVE n \in T
    <3>1. n - 1 \in 0 .. N /\ n \in 0 .. N
      OBVIOUS
    <3>2. L[n - 1] \in Walks /\ Walked(p, L[n - 1], R, n - 1) /\ L[n] = FollowLevel(p, L[n - 1])
      BY <1>4, <2>2, <3>1
    <3>3. Walked(p, L[n], R, n)
      BY <1>1, <3>2, LevelStep
    <3>. QED  BY <3>1, <3>3
  <2>3. \A n \in 0 .. N : n \in T
    BY ONLY N \in Nat, <2>1, <2>2, UpTo
  <2>. QED  BY <2>3
<1>6. \A j \in 0 .. N : \A i \in 0 .. j : R[i] \subseteq R[j]
  <2>. PICK T : T = {j \in 0 .. N : \A i \in 0 .. j : R[i] \subseteq R[j]}
    OBVIOUS
  <2>1. 0 \in T /\ T \in SUBSET (0 .. N)
    <3>1. \A i \in 0 .. 0 : i = 0
      OBVIOUS
    <3>. QED  BY <3>1
  <2>2. ASSUME NEW j \in 1 .. N, j - 1 \in T PROVE j \in T
    <3>1. \A i \in 0 .. j : i \in 0 .. j - 1 \/ i = j
      OBVIOUS
    <3>2. j \in 0 .. N /\ R[j - 1] \subseteq R[j]
      BY <1>2
    <3>3. \A i \in 0 .. j - 1 : R[i] \subseteq R[j - 1]
      BY <2>2
    <3>4. \A i \in 0 .. j : R[i] \subseteq R[j]
      BY ONLY <3>1, <3>2, <3>3
    <3>. QED  BY <3>2, <3>4
  <2>3. \A j \in 0 .. N : j \in T
    BY ONLY N \in Nat, <2>1, <2>2, UpTo
  <2>. QED  BY <2>3
<1>. PICK d \in 0 .. N : d = Lesser(calls, Deepest)
  BY DEF Lesser
<1>7. w \in Walks /\ Walked(p, w, R, d)
  BY <1>4, <1>5
<1>. PICK got : got = ToSet(w.selected)
  OBVIOUS
<1>. PICK all : all = R[d]
  OBVIOUS
<1>8. /\ Once(w.selected) /\ roots \subseteq got /\ got \subseteq all /\ Bounded(w, roots)
      /\ ~ w.truncated => got = all
      /\ w.truncated => \E m \in 1 .. d : /\ R[m - 1] \subseteq got /\ got \subseteq R[m]
                                          /\ R[m] \ got # {}
  BY ONLY <1>2, <1>7, got = ToSet(w.selected), all = R[d] DEF Walked
<1>9. w.selected \in Seq(Fns) /\ w.truncated \in BOOLEAN
  BY <1>7 DEF Walks
<1>10. Cardinality(got) = Len(w.selected)
  BY <1>8, <1>9, OnceCount
<1>11. ASSUME w.truncated
       PROVE  \E m \in 1 .. d : R[m - 1] \subseteq got /\ got \subseteq R[m] /\ R[m] \ got # {} /\ R[m] \subseteq all
  <2>1. PICK m \in 1 .. d : R[m - 1] \subseteq got /\ got \subseteq R[m] /\ R[m] \ got # {}
    BY <1>8, <1>11
  <2>2. m \in 0 .. d
    OBVIOUS
  <2>. QED  BY <1>6, <2>1, <2>2
<1>12. w.truncated <=> got # all
  BY <1>8, <1>9, <1>11
<1>. DEFINE Away(f) == CHOOSE n \in 0 .. d : f \in R[n] /\ (n = 0 \/ f \notin R[n - 1])
<1>13. ASSUME NEW f \in all PROVE Away(f) \in 0 .. d /\ f \in R[Away(f)] /\ (Away(f) = 0 \/ f \notin R[Away(f) - 1])
  <2>. PICK T : T = {n \in 0 .. d : f \in R[n]}
    OBVIOUS
  <2>1. T \in SUBSET Nat /\ T # {}
    BY <1>13
  <2>2. PICK n \in T : \A k \in T : n <= k
    BY <2>1, Least
  <2>3. n = 0 \/ f \notin R[n - 1]
    <3>1. n # 0 => n - 1 \in 0 .. d /\ ~ (n <= n - 1)
      BY <2>1
    <3>. QED  BY <2>2, <3>1
  <2>4. n \in 0 .. d /\ f \in R[n]
    OBVIOUS
  <2>. QED  BY <2>3, <2>4
<1>. HIDE DEF Away
<1>14. ASSUME NEW f \in got, NEW g \in all \ got PROVE Away(f) <= Away(g)
  <2>1. w.truncated
    BY <1>12
  <2>2. PICK m \in 1 .. d : R[m - 1] \subseteq got /\ got \subseteq R[m]
    BY <1>11, <2>1
  <2>. PICK a : a = Away(f)
    OBVIOUS
  <2>. PICK b : b = Away(g)
    OBVIOUS
  <2>3. /\ a \in 0 .. d /\ (a = 0 \/ f \notin R[a - 1])
        /\ b \in 0 .. d /\ g \in R[b]
    BY <1>8, <1>13
  <2>4. a <= m
    <3>1. ASSUME ~ (a <= m) PROVE FALSE
      <4>1. a - 1 \in 0 .. N /\ m \in 0 .. a - 1 /\ a # 0
        BY <2>3, <3>1
      <4>2. R[m] \subseteq R[a - 1]
        BY <1>6, <4>1
      <4>. QED  BY <2>2, <2>3, <4>1, <4>2
    <3>. QED  BY <3>1
  <2>5. m <= b
    <3>1. ASSUME ~ (m <= b) PROVE FALSE
      <4>1. m - 1 \in 0 .. N /\ b \in 0 .. m - 1
        BY <2>3, <3>1
      <4>2. R[b] \subseteq R[m - 1]
        BY <1>6, <4>1
      <4>. QED  BY <2>2, <2>3, <4>2
    <3>. QED  BY <3>1
  <2>. QED  BY ONLY <2>3, <2>4, <2>5, d \in 0 .. N, N \in Nat, m \in 1 .. d, a = Away(f), b = Away(g)
<1>15. ExactExpansion(p, roots, calls, w)
  <2>1. /\ got \subseteq all /\ Cardinality(got) = Len(w.selected) /\ (w.truncated <=> got # all)
        /\ Len(w.selected) > Cardinality(R[0]) => Len(w.selected) <= MaxExpanded
        /\ \A f \in got, g \in all \ got : Away(f) <= Away(g)
    BY ONLY <1>2, <1>8, <1>10, <1>12, <1>14 DEF Bounded
  <2>. PICK away : away = [f \in Fns |-> Away(f)]
    OBVIOUS
  <2>2. \A f \in Fns : away[f] = CHOOSE n \in 0 .. d : f \in R[n] /\ (n = 0 \/ f \notin R[n - 1])
    BY DEF Away
  <2>3. \A f \in Fns : away[f] =
           CHOOSE n \in 0 .. Lesser(calls, Deepest) :
              f \in Within(p, roots)[n] /\ (n = 0 \/ f \notin Within(p, roots)[n - 1])
    BY ONLY <2>2, d = Lesser(calls, Deepest), R = Within(p, roots)
  <2>4. all \subseteq Fns
    BY <1>2
  <2>5. \A f \in got, g \in all \ got : away[f] <= away[g]
    BY ONLY <2>1, <2>4, away = [f \in Fns |-> Away(f)]
  <2>6. \A f \in got, g \in all \ got :
           (CHOOSE n \in 0 .. Lesser(calls, Deepest) :
              f \in Within(p, roots)[n] /\ (n = 0 \/ f \notin Within(p, roots)[n - 1]))
           <= (CHOOSE n \in 0 .. Lesser(calls, Deepest) :
                 g \in Within(p, roots)[n] /\ (n = 0 \/ g \notin Within(p, roots)[n - 1]))
    BY ONLY <2>1, <2>3, <2>4, <2>5
  <2>. QED  BY ONLY <2>1, <2>6, got = ToSet(w.selected), all = R[d],
               d = Lesser(calls, Deepest), R = Within(p, roots) DEF ExactExpansion
<1>. QED  BY <1>7, <1>8, <1>15

\* The functions a request names, by themselves and through findings.
Roots(p, only, finds) ==
    only \cup UNION {{p.findings[i].fn} \cup ToSet(p.findings[i].path) : i \in finds}

LEMMA PreviewIs ==
    ASSUME NEW p, IsProgram(p), NEW only \in SUBSET Fns, NEW finds \in SUBSET DOMAIN p.findings,
           NEW calls \in Nat, NEW w, w = Preview(p, only, finds, calls)
    PROVE  /\ w \in Walks /\ Roots(p, only, finds) \subseteq ToSet(w.selected)
           /\ ExactExpansion(p, Roots(p, only, finds), calls, w)
<1>. PICK fs : fs = p.findings
  OBVIOUS
<1>. PICK N : N = DOMAIN fs
  OBVIOUS
<1>1. /\ N = 1 .. Len(fs) /\ Len(fs) \in Nat
      /\ \A i \in N : fs[i].fn \in Fns /\ fs[i].path \in Seq(Fns)
  <2>1. fs \in Seq([fn : Fns, path : Seq(Fns)])
    BY DEF IsProgram
  <2>. PICK R : R = [fn : Fns, path : Seq(Fns)]
    OBVIOUS
  <2>2. N = 1 .. Len(fs) /\ Len(fs) \in Nat /\ \A i \in N : fs[i] \in R
    BY <2>1, LenProperties, ElementOfSeq
  <2>. QED  BY <2>2
<1>. PICK bs : bs = [i \in N |-> IF i \in finds THEN <<fs[i].fn>> \o fs[i].path ELSE <<>>]
  OBVIOUS
<1>2. /\ bs \in Seq(Seq(Fns)) /\ DOMAIN bs = N
      /\ \A i \in N : ToSet(bs[i]) = IF i \in finds THEN {fs[i].fn} \cup ToSet(fs[i].path) ELSE {}
  <2>1. ASSUME NEW i \in N
        PROVE  /\ bs[i] \in Seq(Fns)
               /\ ToSet(bs[i]) = IF i \in finds THEN {fs[i].fn} \cup ToSet(fs[i].path) ELSE {}
    <3>1. CASE i \in finds
      <4>1. PICK u : u = <<fs[i].fn>>
        OBVIOUS
      <4>2. u \in Seq(Fns) /\ ToSet(u) = {fs[i].fn}
        BY <1>1, <4>1 DEF ToSet
      <4>3. Joined(Fns, u \o fs[i].path, u, fs[i].path)
        BY <1>1, <4>2, JoinFacts
      <4>4. bs[i] = u \o fs[i].path
        BY <3>1, <4>1
      <4>. QED  BY ONLY <3>1, <4>2, <4>3, <4>4 DEF Joined
    <3>2. CASE i \notin finds
      <4>1. bs[i] = <<>>
        BY <3>2
      <4>2. <<>> \in Seq(Fns) /\ ToSet(<<>>) = {}
        BY EmptySeq DEF ToSet
      <4>. QED  BY ONLY <3>2, <4>1, <4>2
    <3>. QED  BY <3>1, <3>2
  <2>2. bs \in [1 .. Len(fs) -> Seq(Fns)]
    BY ONLY <1>1, <2>1, bs = [i \in N |-> IF i \in finds THEN <<fs[i].fn>> \o fs[i].path ELSE <<>>]
  <2>3. bs \in Seq(Seq(Fns))
    BY ONLY <1>1, <2>2
  <2>. QED  BY <2>1, <2>3
<1>. PICK b : b = SelectionForFindings(p, finds)
  OBVIOUS
<1>3. b = Distinct(FlattenSeq(bs))
  BY DEF SelectionForFindings
<1>4. b \in Seq(Fns) /\ \A f : f \in ToSet(b) <=> \E i \in N : f \in ToSet(bs[i])
  <2>. PICK c : c = FlattenSeq(bs)
    OBVIOUS
  <2>1. c \in Seq(Fns) /\ \A f : f \in ToSet(c) <=> \E i \in N : f \in ToSet(bs[i])
    BY ONLY <1>2, c = FlattenSeq(bs), FlatFacts
  <2>2. FirstOnly(Fns, b, c)
    BY <1>3, <2>1, DistinctFacts
  <2>. QED  BY ONLY <2>1, <2>2 DEF FirstOnly
<1>5. ToSet(b) = UNION {{fs[i].fn} \cup ToSet(fs[i].path) : i \in finds}
  <2>1. finds \subseteq N
    OBVIOUS
  <2>. QED  BY ONLY <1>2, <1>4, <2>1
<1>. PICK a : a = ListOf(only)
  OBVIOUS
<1>6. a \in Seq(Fns) /\ ToSet(a) = only
  BY ListedOnce
<1>. PICK s : s = a \o b
  OBVIOUS
<1>7. s \in Seq(Fns) /\ ToSet(s) = Roots(p, only, finds)
  <2>1. Joined(Fns, s, a, b)
    BY <1>4, <1>6, JoinFacts
  <2>. QED  BY ONLY <1>5, <1>6, <2>1, fs = p.findings DEF Joined, Roots
<1>8. w = ExpandSelection(p, s, calls)
  BY DEF Preview
<1>. QED  BY ONLY <1>7, <1>8, IsProgram(p), calls \in Nat, ExpansionExact
-----------------------------------------------------------------------------
(* The dialog.                                                             *)

Requests == [n : Nat, only : SUBSET Fns, findings : SUBSET DOMAIN program.findings, depth : Nat]

TypeInv ==
    /\ program \in Programs /\ results \in [Tasks -> SUBSET Fns]
    /\ picked \in SUBSET Fns /\ wanted \in SUBSET DOMAIN program.findings /\ depth \in Nat
    /\ edits \in Nat /\ asked \subseteq Requests
    /\ preview = NoPreview \/ preview.of \in Requests

\* What is on screen is what the server made of the request.
Says(r) ==
    LET walk == Preview(program, r.only, r.findings, r.depth)
    IN  preview.selected = walk.selected /\ preview.truncated = walk.truncated
ScreenInv == preview # NoPreview => Says(preview.of)

\* The last request for the controls as they stand.
Latest(l) ==
    /\ l.only = picked /\ l.findings = wanted /\ l.depth = depth
    /\ l \in asked \/ (preview # NoPreview /\ preview.of = l)
    /\ \A r \in asked : r.n <= l.n
    /\ preview # NoPreview => preview.of.n <= l.n
OrderInv ==
    /\ \A r \in asked : r.n <= edits
    /\ \A r, q \in asked : r.n = q.n => r = q
    /\ preview # NoPreview => preview.of.n <= edits /\ \A r \in asked : r.n # preview.of.n
    /\ ~ lapsed => IF picked = {} /\ wanted = {} THEN preview = NoPreview
                                                 ELSE \E l \in Requests : Latest(l)

Batches == [task : Tasks, batch : Seq(Fns), press : Nat, shown : SUBSET Fns, queue : Seq(Fns)]
RunInv ==
    \/ run.state = "closed"
    \/ /\ run.state = "idle" /\ run.presses \in Nat
       /\ \A i \in DOMAIN started : started[i].press <= run.presses
    \/ /\ run.state = "starting" /\ run.presses \in Nat /\ run.next \in 1 .. 4
       /\ run.chosen \in Seq(Fns) /\ run.shown \in SUBSET Fns
       /\ ToSet(run.chosen) # {} /\ ToSet(run.chosen) \subseteq run.shown
       /\ \A i \in DOMAIN started :
             /\ started[i].press <= run.presses
             /\ started[i].press = run.presses =>
                   /\ ToSet(started[i].batch) = ToSet(run.chosen)
                   /\ Position(Stages, started[i].task) < run.next
StartedInv == started \in Seq(Batches) /\ StartedAsShown

\* The steps, by what they touch.
Asking ==
    /\ picked' \in SUBSET Fns /\ wanted' \in SUBSET DOMAIN program.findings /\ depth' \in Nat
    /\ edits' = edits + 1 /\ Ask(picked', wanted', depth')
    /\ UNCHANGED <<program, results, run, started, lapsed>>
Turning ==
    /\ edits' \in {edits, edits + 1}
    /\ UNCHANGED <<program, results, picked, wanted, depth, asked, preview, run, started, lapsed>>
Running ==
    /\ PressRun \/ SkipStage \/ StartStage \/ StartFails \/ Finish
    /\ UNCHANGED <<program, results, picked, wanted, depth, edits, asked, preview, lapsed>>

LEMMA Kinds ==
    ASSUME TypeInv, [Next]_vars
    PROVE  \/ Asking \/ Turning \/ Running
           \/ \E r \in asked : PreviewAnswered(r) \/ PreviewFailed(r)
<1>1. ASSUME NEW f \in Fns, TickFunction(f) PROVE Asking
  <2>1. SymDiff(picked, {f}) \subseteq Fns
    BY DEF SymDiff, TypeInv
  <2>. QED  BY <1>1, <2>1 DEF TickFunction, Edit, backend, Asking, TypeInv
<1>2. ASSUME ClearPicked PROVE Asking
  <2>1. Ask(picked', wanted', depth')
    BY <1>2 DEF ClearPicked
  <2>. QED  BY <1>2, <2>1 DEF ClearPicked, Edit, backend, Asking, TypeInv
<1>3. ASSUME NEW i \in DOMAIN program.findings, TickFinding(i) PROVE Asking
  <2>1. SymDiff(wanted, {i}) \subseteq DOMAIN program.findings
    BY DEF SymDiff, TypeInv
  <2>2. Ask(picked', wanted', depth')
    BY <1>3 DEF TickFinding
  <2>. QED  BY <1>3, <2>1, <2>2 DEF TickFinding, Edit, backend, Asking, TypeInv
<1>4. ASSUME NEW d \in Depths, SetDepth(d) PROVE Asking
  <2>1. d \in Nat
    BY ChoiceAssumption
  <2>2. Ask(picked', wanted', depth')
    BY <1>4 DEF SetDepth
  <2>. QED  BY <1>4, <2>1, <2>2 DEF SetDepth, Edit, backend, Asking, TypeInv
<1>5. ASSUME NEW t \in Tasks, TickStage(t) PROVE Turning
  BY <1>5 DEF TickStage, Edit, backend, Turning
<1>6. TickSkip => Turning
  BY DEF TickSkip, Edit, backend, Turning
<1>7. UNCHANGED vars => Turning
  BY DEF vars, Turning
<1>8. PressRun \/ SkipStage \/ StartStage \/ StartFails \/ Finish => Running
  BY DEF PressRun, SkipStage, StartStage, StartFails, Finish, Running, backend, controls
<1>. QED  BY <1>1, <1>2, <1>3, <1>4, <1>5, <1>6, <1>7, <1>8 DEF Next

\* What the dialog does to the previews under way and on screen.
LEMMA Answered ==
    ASSUME TypeInv, NEW r \in asked, PreviewAnswered(r)
    PROVE  /\ preview' # NoPreview /\ preview'.of = r /\ Says(r)' /\ r \in Requests
           /\ asked' = asked \ {r}
           /\ lapsed' <=> \/ lapsed
                          \/ preview # NoPreview /\ preview.of.n > r.n
                          \/ picked = {} /\ wanted = {}
           /\ UNCHANGED <<program, results, picked, wanted, depth, edits, run, started>>
<1>. PICK w : w = Preview(program, r.only, r.findings, r.depth)
  OBVIOUS
<1>1. preview' = [of |-> r, selected |-> w.selected, truncated |-> w.truncated]
  BY DEF PreviewAnswered
<1>2. "selected" \in DOMAIN preview' /\ "selected" \notin DOMAIN NoPreview
  BY <1>1 DEF NoPreview
<1>3. UNCHANGED <<program, results, picked, wanted, depth, edits, run, started>>
  BY DEF PreviewAnswered, backend, controls
<1>4. preview' # NoPreview
  BY ONLY <1>2
<1>5. Says(r)'
  BY <1>1, <1>3 DEF Says
<1>6. preview'.of = r /\ r \in Requests
  BY <1>1 DEF TypeInv
<1>. QED  BY <1>3, <1>4, <1>5, <1>6 DEF PreviewAnswered

LEMMA Asked ==
    ASSUME Asking
    PROVE  \/ picked' = {} /\ wanted' = {} /\ preview' = NoPreview /\ asked' = asked
           \/ /\ ~ (picked' = {} /\ wanted' = {}) /\ preview' = preview
              /\ asked' = asked \cup {[n |-> edits + 1, only |-> picked', findings |-> wanted',
                                       depth |-> depth']}
BY DEF Asking, Ask

LEMMA TypeInit == Init => TypeInv
BY ChoiceAssumption DEF Init, TypeInv

LEMMA TypeStep == TypeInv /\ [Next]_vars => TypeInv'
<1>. SUFFICES ASSUME TypeInv, [Next]_vars PROVE TypeInv'
  OBVIOUS
<1>1. program' = program => Requests' = Requests
  BY DEF Requests
<1>2. CASE Asking
  <2>1. program' = program /\ results' = results /\ edits' = edits + 1
        /\ picked' \in SUBSET Fns /\ wanted' \in SUBSET DOMAIN program.findings /\ depth' \in Nat
    BY <1>2 DEF Asking
  <2>2. asked' \subseteq Requests
    <3>. PICK r : r = [n |-> edits + 1, only |-> picked', findings |-> wanted', depth |-> depth']
      OBVIOUS
    <3>1. r \in Requests
      BY <2>1 DEF Requests, TypeInv
    <3>2. asked' = asked \/ asked' = asked \cup {r}
      BY <1>2, Asked
    <3>. QED  BY <3>1, <3>2 DEF TypeInv
  <2>3. preview' = NoPreview \/ preview' = preview
    BY <1>2, Asked
  <2>. QED  BY <1>1, <2>1, <2>2, <2>3 DEF TypeInv
<1>3. CASE Turning
  BY <1>1, <1>3 DEF Turning, TypeInv
<1>4. CASE Running
  BY <1>1, <1>4 DEF Running, TypeInv
<1>5. ASSUME NEW r \in asked, PreviewAnswered(r) PROVE TypeInv'
  <2>1. /\ preview'.of \in Requests /\ asked' = asked \ {r}
        /\ UNCHANGED <<program, results, picked, wanted, depth, edits, run, started>>
    BY <1>5, Answered
  <2>. QED  BY <1>1, <2>1 DEF TypeInv
<1>6. ASSUME NEW r \in asked, PreviewFailed(r) PROVE TypeInv'
  BY <1>1, <1>6 DEF PreviewFailed, backend, controls, TypeInv
<1>. QED  BY <1>2, <1>3, <1>4, <1>5, <1>6, Kinds

LEMMA ScreenStep == TypeInv /\ ScreenInv /\ [Next]_vars => ScreenInv'
<1>. SUFFICES ASSUME TypeInv, ScreenInv, [Next]_vars PROVE ScreenInv'
  OBVIOUS
<1>1. ASSUME program' = program, preview' = preview \/ preview' = NoPreview PROVE ScreenInv'
  BY <1>1 DEF ScreenInv, Says
<1>2. Asking \/ Turning \/ Running => program' = program /\ (preview' = preview \/ preview' = NoPreview)
  BY Asked DEF Asking, Turning, Running
<1>3. ASSUME NEW r \in asked, PreviewAnswered(r) PROVE ScreenInv'
  <2>1. preview'.of = r /\ Says(r)'
    BY <1>3, Answered
  <2>. QED  BY <2>1 DEF ScreenInv, Says
<1>4. ASSUME NEW r \in asked, PreviewFailed(r) PROVE ScreenInv'
  BY <1>1, <1>4 DEF PreviewFailed, backend
<1>. QED  BY <1>1, <1>2, <1>3, <1>4, Kinds

LEMMA OrderStep == TypeInv /\ OrderInv /\ [Next]_vars => OrderInv'
<1>. SUFFICES ASSUME TypeInv, OrderInv, [Next]_vars PROVE OrderInv'
  OBVIOUS
<1>1. /\ edits \in Nat /\ asked \subseteq Requests
      /\ \A r \in Requests : r.n \in Nat
      /\ preview # NoPreview => preview.of \in Requests
  BY DEF TypeInv, Requests
<1>2. /\ \A r \in asked : r.n <= edits
      /\ \A r, q \in asked : r.n = q.n => r = q
      /\ preview # NoPreview => preview.of.n <= edits /\ \A r \in asked : r.n # preview.of.n
      /\ ~ lapsed => IF picked = {} /\ wanted = {} THEN preview = NoPreview
                                                   ELSE \E l \in Requests : Latest(l)
  BY DEF OrderInv
<1>3. program' = program => Requests' = Requests
  BY DEF Requests
<1>4. CASE Asking
  <2>0. Requests' = Requests /\ lapsed' = lapsed /\ edits' = edits + 1
    BY <1>3, <1>4 DEF Asking
  <2>1. CASE picked' = {} /\ wanted' = {} /\ preview' = NoPreview /\ asked' = asked
    <3>1. \A r \in asked' : r.n <= edits'
      BY <1>1, <1>2, <2>0, <2>1
    <3>. QED  BY ONLY <1>2, <2>0, <2>1, <3>1 DEF OrderInv
  <2>2. CASE /\ ~ (picked' = {} /\ wanted' = {}) /\ preview' = preview
             /\ asked' = asked \cup {[n |-> edits + 1, only |-> picked', findings |-> wanted',
                                      depth |-> depth']}
    <3>1. PICK l : l = [n |-> edits + 1, only |-> picked', findings |-> wanted', depth |-> depth']
      OBVIOUS
    <3>2. l.n = edits + 1 /\ l.only = picked' /\ l.findings = wanted' /\ l.depth = depth'
      BY <3>1
    <3>3. asked' = asked \cup {l} /\ l \in asked'
      BY <2>2, <3>1
    <3>4. l \in Requests
      BY <1>1, <1>4, <3>1 DEF Requests, Asking
    <3>5. \A r \in asked : r.n \in Nat /\ r.n <= edits /\ r.n < l.n /\ r.n # l.n
      BY <1>1, <1>2, <3>2
    <3>6. preview # NoPreview => preview.of.n \in Nat /\ preview.of.n <= edits /\ preview.of.n < l.n
                                 /\ preview.of.n # l.n /\ preview.of.n <= l.n
      BY <1>1, <1>2, <3>2
    <3>7. \A r \in asked' : r.n <= edits' /\ r.n <= l.n
      BY ONLY <1>1, <2>0, <3>2, <3>3, <3>5
    <3>8. \A r, q \in asked' : r.n = q.n => r = q
      BY ONLY <1>2, <3>3, <3>5
    <3>9. preview' # NoPreview => preview'.of.n <= edits' /\ \A r \in asked' : r.n # preview'.of.n
      <4>1. preview # NoPreview => preview.of.n <= edits + 1
        BY <1>1, <3>6
      <4>. QED  BY ONLY <1>2, <2>0, <2>2, <3>3, <3>6, <4>1
    <3>10. Latest(l)'
      BY ONLY <2>2, <3>2, <3>3, <3>6, <3>7 DEF Latest
    <3>. QED  BY ONLY <2>0, <2>2, <3>4, <3>7, <3>8, <3>9, <3>10 DEF OrderInv
  <2>. QED  BY <1>4, <2>1, <2>2, Asked
<1>5. CASE Turning
  <2>1. UNCHANGED <<program, picked, wanted, depth, asked, preview, lapsed>> /\ edits' \in {edits, edits + 1}
    BY <1>5 DEF Turning
  <2>2. Requests' = Requests /\ \A l : Latest(l)' <=> Latest(l)
    BY <1>3, <2>1 DEF Latest
  <2>3. \A r \in asked' : r.n <= edits'
    BY <1>1, <1>2, <2>1
  <2>4. preview' # NoPreview => preview'.of.n <= edits'
    BY <1>1, <1>2, <2>1
  <2>. QED  BY ONLY <1>2, <2>1, <2>2, <2>3, <2>4 DEF OrderInv
<1>6. CASE Running
  <2>1. UNCHANGED <<program, picked, wanted, depth, edits, asked, preview, lapsed>>
    BY <1>6 DEF Running
  <2>2. Requests' = Requests /\ \A l : Latest(l)' <=> Latest(l)
    BY <1>3, <2>1 DEF Latest
  <2>. QED  BY ONLY <1>2, <2>1, <2>2 DEF OrderInv
<1>7. ASSUME NEW r \in asked, PreviewAnswered(r) PROVE OrderInv'
  <2>1. /\ preview' # NoPreview /\ preview'.of = r /\ r \in Requests
        /\ asked' = asked \ {r}
        /\ lapsed' <=> \/ lapsed
                       \/ preview # NoPreview /\ preview.of.n > r.n
                       \/ picked = {} /\ wanted = {}
        /\ UNCHANGED <<program, picked, wanted, depth, edits>>
    BY <1>7, Answered
  <2>2. \A q \in asked' : q.n <= edits' /\ q.n # r.n
    BY ONLY <1>2, <2>1, r \in asked
  <2>3. r.n <= edits'
    BY ONLY <1>2, <2>1, r \in asked
  <2>4. ASSUME ~ lapsed' PROVE \E l \in Requests : Latest(l)'
    <3>1. PICK l \in Requests : Latest(l)
      BY <1>2, <2>1, <2>4
    <3>2. /\ l.only = picked /\ l.findings = wanted /\ l.depth = depth
          /\ l \in asked \/ (preview # NoPreview /\ preview.of = l)
          /\ \A q \in asked : q.n <= l.n
      BY <3>1 DEF Latest
    <3>3. l.n \in Nat /\ r.n \in Nat /\ r.n <= l.n
      BY <1>1, <3>2
    <3>4. l \in asked' \/ l = r
      <4>1. CASE l \in asked
        BY <2>1, <4>1
      <4>2. CASE preview # NoPreview /\ preview.of = l
        <5>1. r.n # l.n
          BY <1>2, <4>2
        <5>2. l.n > r.n
          BY <3>3, <5>1
        <5>. QED  BY ONLY <2>1, <2>4, <4>2, <5>2
      <4>. QED  BY <3>2, <4>1, <4>2
    <3>5. Latest(l)'
      BY ONLY <2>1, <3>2, <3>3, <3>4 DEF Latest
    <3>. QED  BY <3>5
  <2>5. Requests' = Requests
    BY <1>3, <2>1
  <2>6. ~ lapsed' => ~ (picked' = {} /\ wanted' = {})
    BY ONLY <2>1
  <2>. QED  BY ONLY <1>2, <2>1, <2>2, <2>3, <2>4, <2>5, <2>6 DEF OrderInv
<1>8. ASSUME NEW r \in asked, PreviewFailed(r) PROVE OrderInv'
  <2>1. asked' = asked \ {r} /\ lapsed' = TRUE /\ preview' = preview /\ edits' = edits
    BY <1>8 DEF PreviewFailed, controls
  <2>. QED  BY ONLY <1>2, <2>1 DEF OrderInv
<1>. QED  BY <1>4, <1>5, <1>6, <1>7, <1>8, Kinds

OfPreviews == TypeInv /\ ScreenInv /\ OrderInv

LEMMA OfPreviewsInit == Init => OfPreviews
BY TypeInit DEF Init, OfPreviews, ScreenInv, OrderInv

LEMMA OfPreviewsStep == OfPreviews /\ [Next]_vars => OfPreviews'
BY TypeStep, ScreenStep, OrderStep DEF OfPreviews

LEMMA PreviewHolds == OfPreviews => PreviewExact
<1>. SUFFICES ASSUME TypeInv, ScreenInv, OrderInv PROVE PreviewExact
  BY DEF OfPreviews
<1>. PICK p : p = program
  OBVIOUS
<1>1. IsProgram(p)
  BY ChoiceAssumption DEF TypeInv
<1>2. ASSUME preview # NoPreview
      PROVE  LET r == preview.of IN
             /\ ExactExpansion(p, Roots(p, r.only, r.findings), r.depth, preview)
             /\ Roots(p, r.only, r.findings) \cap Fns \subseteq ToSet(preview.selected)
             /\ r.findings = wanted => ViaFindings \subseteq ToSet(preview.selected)
  <2>. PICK r : r = preview.of
    OBVIOUS
  <2>1. r.only \in SUBSET Fns /\ r.findings \in SUBSET DOMAIN p.findings /\ r.depth \in Nat
    BY <1>2 DEF TypeInv, Requests
  <2>. PICK w : w = Preview(p, r.only, r.findings, r.depth)
    OBVIOUS
  <2>. PICK roots : roots = Roots(p, r.only, r.findings)
    OBVIOUS
  <2>2. w \in Walks /\ roots \subseteq ToSet(w.selected) /\ ExactExpansion(p, roots, r.depth, w)
    BY <1>1, <2>1, PreviewIs
  <2>3. preview.selected = w.selected /\ preview.truncated = w.truncated
    BY <1>2 DEF ScreenInv, Says
  <2>4. ExactExpansion(p, roots, r.depth, preview)
    BY ONLY <2>2, <2>3 DEF ExactExpansion
  <2>5. r.findings = wanted => ViaFindings \subseteq roots
    BY ONLY p = program, roots = Roots(p, r.only, r.findings) DEF ViaFindings, Roots
  <2>. QED  BY ONLY <2>2, <2>3, <2>4, <2>5, r = preview.of, roots = Roots(p, r.only, r.findings)
<1>3. ASSUME asked = {}, ~ lapsed
      PROVE  IF picked = {} /\ wanted = {} THEN preview = NoPreview
             ELSE preview # NoPreview /\ preview.of.only = picked
                  /\ preview.of.findings = wanted /\ preview.of.depth = depth
  BY ONLY <1>3, OrderInv DEF OrderInv, Latest
<1>. QED  BY ONLY <1>2, <1>3, p = program DEF PreviewExact, Roots

\* What a preview lists is what its request reaches, and the last one is that
\* of the controls unless an answer was late or missing: PreviewExact.
THEOREM PreviewIsExact == Spec => []PreviewExact
BY OfPreviewsInit, OfPreviewsStep, PreviewHolds, PTL DEF Spec

\* A batch, as it is when it has been started, after those before it.
Fine(p, rs, s) ==
    /\ ToSet(s.batch) \subseteq s.shown
    /\ ToSet(s.queue) = ToSet(s.batch) \ rs[s.task]
    /\ s.task = "decompile" => LeavesFirst(p, s.batch)
InStep(r, s) ==
    r.press = s.press => /\ ToSet(r.batch) = ToSet(s.batch)
                         /\ Position(Stages, r.task) < Position(Stages, s.task)
Ordered(p, rs, b) ==
    \A i \in DOMAIN b : /\ Fine(p, rs, b[i])
                        /\ \A j \in 1 .. i - 1 : InStep(b[j], b[i])

LEMMA AsShown == StartedAsShown <=> Ordered(program, results, started)
BY DEF StartedAsShown, Ordered, Fine, InStep

LEMMA AsShownNext == StartedAsShown' <=> Ordered(program', results', started')
BY DEF StartedAsShown, Ordered, Fine, InStep

LEMMA Started ==
    ASSUME started \in Seq(Batches), NEW i \in DOMAIN started
    PROVE  started[i].press \in Nat /\ started[i].task \in Tasks
<1>. PICK b \in Batches : b = started[i]
  BY ONLY started \in Seq(Batches), i \in DOMAIN started, LenProperties, ElementOfSeq
<1>1. b.press \in Nat /\ b.task \in Tasks
  BY DEF Batches
<1>. QED  BY ONLY <1>1, b = started[i]

LEMMA StageFacts ==
    ASSUME NEW n \in 1 .. 4, n <= Len(Stages)
    PROVE  n \in 1 .. 3 /\ Stages[n] \in Tasks /\ Position(Stages, Stages[n]) = n
<1>1. Len(Stages) = 3 /\ DOMAIN Stages = 1 .. 3
  BY DEF Stages
<1>2. n \in 1 .. 3
  BY <1>1
<1>3. Stages[1] = "decompile" /\ Stages[2] = "bugs" /\ Stages[3] = "behaviour"
  BY DEF Stages
<1>4. Stages[n] \in Tasks
  BY <1>2, <1>3 DEF Tasks
<1>5. \A i, j \in 1 .. 3 : Stages[i] = Stages[j] => i = j
  BY ONLY <1>3
<1>6. Once(Stages)
  BY <1>1, <1>5 DEF Once
<1>7. (CHOOSE i \in DOMAIN Stages : Stages[i] = Stages[n]) \in 1 .. 3
      /\ Stages[CHOOSE i \in DOMAIN Stages : Stages[i] = Stages[n]] = Stages[n]
  BY ONLY <1>1, <1>2
<1>. QED  BY ONLY <1>2, <1>4, <1>5, <1>7 DEF Position

RunsInv == OfPreviews /\ RunInv /\ StartedInv

LEMMA RunsInit == Init => RunsInv
<1>. SUFFICES ASSUME Init PROVE RunsInv
  OBVIOUS
<1>1. started = <<>> /\ started \in Seq(Batches) /\ DOMAIN started = {}
  BY DEF Init
<1>2. run.state = "idle" /\ run.presses = 0
  BY DEF Init, Idle
<1>. QED  BY OfPreviewsInit, AsShown, <1>1, <1>2 DEF RunsInv, RunInv, StartedInv, Ordered

LEMMA ShownFacts ==
    ASSUME OfPreviews
    PROVE  /\ Shown \in Seq(Fns) /\ ToSet(Shown) \in SUBSET Fns
           /\ FinalSelection \in Seq(Fns) /\ ToSet(FinalSelection) \subseteq ToSet(Shown)
<1>1. Shown \in Seq(Fns)
  <2>1. CASE preview = NoPreview
    BY <2>1, EmptySeq DEF Shown
  <2>2. CASE preview # NoPreview
    <3>. PICK r : r = preview.of
      OBVIOUS
    <3>. PICK p : p = program
      OBVIOUS
    <3>1. r.only \in SUBSET Fns /\ r.findings \in SUBSET DOMAIN p.findings /\ r.depth \in Nat
      BY <2>2 DEF OfPreviews, TypeInv, Requests
    <3>2. IsProgram(p)
      BY ChoiceAssumption DEF OfPreviews, TypeInv
    <3>. PICK w : w = Preview(p, r.only, r.findings, r.depth)
      OBVIOUS
    <3>3. w \in Walks
      BY <3>1, <3>2, PreviewIs
    <3>4. preview.selected = w.selected
      BY <2>2 DEF OfPreviews, ScreenInv, Says
    <3>. QED  BY ONLY <2>2, <3>3, <3>4 DEF Shown, Walks
  <2>. QED  BY <2>1, <2>2
<1>2. \A i \in DOMAIN Shown : Shown[i] \in Fns
  BY <1>1, LenProperties, ElementOfSeq
<1>3. ToSet(Shown) \in SUBSET Fns
  BY ONLY <1>2 DEF ToSet
<1>. PICK S : S = IF skip THEN Fns \ Analysed ELSE Fns
  OBVIOUS
<1>4. FinalSelection = Keep(Shown, S)
  BY DEF FinalSelection
<1>5. Filtered(Fns, FinalSelection, Shown, S)
  BY <1>1, <1>4, KeepFacts
<1>. QED  BY ONLY <1>1, <1>3, <1>5 DEF Filtered

LEMMA RunsStep == RunsInv /\ [Next]_vars => RunsInv'
<1>. SUFFICES ASSUME OfPreviews, TypeInv, RunInv, StartedInv, [Next]_vars PROVE RunInv' /\ StartedInv'
  BY OfPreviewsStep DEF RunsInv, OfPreviews
<1>0. started \in Seq(Batches) /\ Ordered(program, results, started)
  BY AsShown DEF StartedInv
<1>2. ASSUME UNCHANGED <<program, results, started>> PROVE StartedInv'
  BY <1>0, <1>2, AsShownNext DEF StartedInv
<1>3. ASSUME UNCHANGED <<program, results, run, started>> PROVE RunInv' /\ StartedInv'
  BY <1>2, <1>3 DEF RunInv
<1>4. Asking \/ Turning => UNCHANGED <<program, results, run, started>>
  BY DEF Asking, Turning
<1>5. ASSUME NEW r \in asked, PreviewAnswered(r) \/ PreviewFailed(r)
      PROVE  UNCHANGED <<program, results, run, started>>
  BY <1>5 DEF PreviewAnswered, PreviewFailed, backend
<1>6. CASE PressRun
  <2>1. UNCHANGED <<program, results, started>> /\ run.state = "idle"
    BY <1>6 DEF PressRun, backend
  <2>2. run.presses \in Nat /\ \A i \in DOMAIN started : started[i].press <= run.presses
    BY <2>1 DEF RunInv
  <2>3. CASE Blocked
    BY <1>2, <1>6, <2>1, <2>3 DEF PressRun, RunInv
  <2>4. CASE ~ Blocked
    <3>. PICK c : c = FinalSelection
      OBVIOUS
    <3>1. run' = [state |-> "starting", presses |-> run.presses + 1, next |-> 1,
                  chosen |-> c, shown |-> ToSet(Shown), ticked |-> tasks]
      BY <1>6, <2>4 DEF PressRun
    <3>2. c \in Seq(Fns) /\ ToSet(Shown) \in SUBSET Fns /\ ToSet(c) \subseteq ToSet(Shown)
      BY ShownFacts
    <3>3. ToSet(c) # {}
      <4>1. c # <<>>
        BY <2>4 DEF Blocked
      <4>2. 1 \in DOMAIN c
        BY <3>2, <4>1, EmptySeq, LenProperties
      <4>. QED  BY ONLY <4>2 DEF ToSet
    <3>4. ASSUME NEW i \in DOMAIN started
          PROVE  started[i].press <= run.presses + 1 /\ started[i].press # run.presses + 1
      <4>1. started[i].press \in Nat
        BY <1>0, Started
      <4>. QED  BY ONLY <2>2, <4>1, i \in DOMAIN started
    <3>5. RunInv'
      BY ONLY <2>1, <2>2, <3>1, <3>2, <3>3, <3>4 DEF RunInv
    <3>. QED  BY <1>2, <2>1, <3>5
  <2>. QED  BY <2>3, <2>4
<1>7. CASE SkipStage \/ StartStage \/ StartFails \/ Finish
  <2>1. run.state = "starting"
    BY <1>7 DEF SkipStage, StartStage, StartFails, Finish
  <2>2. /\ run.presses \in Nat /\ run.next \in 1 .. 4
        /\ run.chosen \in Seq(Fns) /\ run.shown \in SUBSET Fns
        /\ ToSet(run.chosen) # {} /\ ToSet(run.chosen) \subseteq run.shown
        /\ \A i \in DOMAIN started :
              /\ started[i].press <= run.presses
              /\ started[i].press = run.presses =>
                    /\ ToSet(started[i].batch) = ToSet(run.chosen)
                    /\ Position(Stages, started[i].task) < run.next
    BY <2>1 DEF RunInv
  <2>s. ASSUME NEW i \in DOMAIN started, Position(Stages, started[i].task) < run.next
        PROVE  Position(Stages, started[i].task) < run.next + 1
    <3>. PICK t \in Tasks : t = started[i].task
      BY <1>0, Started
    <3>1. Position(Stages, t) \in Nat
      <4>1. t = Stages[1] \/ t = Stages[2] \/ t = Stages[3]
        BY DEF Stages, Tasks
      <4>2. Len(Stages) = 3
        BY DEF Stages
      <4>. QED  BY <4>1, <4>2, StageFacts
    <3>. QED  BY ONLY <2>s, <2>2, <3>1, t = started[i].task
  <2>3. CASE SkipStage
    <3>1. run' = [run EXCEPT !.next = @ + 1] /\ UNCHANGED <<program, results, started>>
          /\ run.next <= Len(Stages)
      BY <2>3 DEF SkipStage, backend
    <3>2. run.next \in 1 .. 3
      BY <2>2, <3>1, StageFacts
    <3>3. RunInv'
      BY <2>1, <2>2, <2>s, <3>1, <3>2 DEF RunInv
    <3>. QED  BY <1>2, <3>1, <3>3
  <2>4. CASE StartFails
    <3>1. run' = Idle(run.presses) /\ UNCHANGED <<program, results, started>>
      BY <2>4 DEF StartFails, backend
    <3>2. RunInv'
      BY ONLY <2>2, <3>1 DEF RunInv, Idle
    <3>. QED  BY <1>2, <3>1, <3>2
  <2>5. CASE Finish
    <3>1. run' = [state |-> "closed"] /\ UNCHANGED <<program, results, started>>
      BY <2>5 DEF Finish, backend
    <3>. QED  BY <1>2, <3>1 DEF RunInv
  <2>6. CASE StartStage
    <3>. PICK t : t = Stages[run.next]
      OBVIOUS
    <3>. PICK only : only = ToSet(run.chosen)
      OBVIOUS
    <3>. PICK batch : batch = SelectFunctions(program, t, NoLimit, only)
      OBVIOUS
    <3>. PICK queue : queue = Keep(batch, Fns \ results[t])
      OBVIOUS
    <3>. PICK s : s = [task |-> t, batch |-> batch, press |-> run.presses, shown |-> run.shown,
                       queue |-> queue]
      OBVIOUS
    <3>1. run' = [run EXCEPT !.next = @ + 1] /\ UNCHANGED <<program, results>>
          /\ run.next <= Len(Stages) /\ started' = Append(started, s)
      BY <2>6 DEF StartStage, backend
    <3>2. run.next \in 1 .. 3 /\ t \in Tasks /\ Position(Stages, t) = run.next
      BY <2>2, <3>1, StageFacts
    <3>3. batch \in Seq(Fns) /\ ToSet(batch) = only /\ (t = "decompile" => LeavesFirst(program, batch))
      <4>1. IsProgram(program)
        BY ChoiceAssumption DEF TypeInv
      <4>2. only \in SUBSET Fns /\ only # {}
        BY <2>2
      <4>. QED  BY <3>2, <4>1, <4>2, NamedFacts
    <3>4. queue \in Seq(Fns) /\ ToSet(queue) = ToSet(batch) \ results[t]
      <4>1. Filtered(Fns, queue, batch, Fns \ results[t])
        BY <3>3, KeepFacts
      <4>2. only \subseteq Fns
        BY <2>2
      <4>. QED  BY ONLY <3>3, <4>1, <4>2 DEF Filtered
    <3>5. s \in Batches
      BY <2>2, <3>2, <3>3, <3>4 DEF Batches
    <3>. PICK n \in Nat : n = Len(started)
      BY <1>0, LenProperties
    <3>6. /\ started' \in Seq(Batches) /\ DOMAIN started' = 1 .. n + 1 /\ DOMAIN started = 1 .. n
          /\ \A i \in 1 .. n : started'[i] = started[i]
          /\ started'[n + 1] = s
      BY <1>0, <3>1, <3>5, AppendProperties, LenProperties
    <3>7. \A i \in 1 .. n + 1 : i \in 1 .. n \/ i = n + 1
      OBVIOUS
    <3>8. /\ s.press = run.presses /\ s.task = t /\ s.batch = batch /\ s.shown = run.shown
          /\ s.queue = queue
      OBVIOUS
    <3>9. RunInv'
      <4>1. /\ run'.state = "starting" /\ run'.presses = run.presses /\ run'.next = run.next + 1
            /\ run'.chosen = run.chosen /\ run'.shown = run.shown
        <5>1. run'.state = "starting" /\ run'.presses = run.presses /\ run'.chosen = run.chosen
              /\ run'.shown = run.shown
          BY <2>1, <3>1
        <5>2. run'.next = run.next + 1
          BY <3>1
        <5>. QED  BY <5>1, <5>2
      <4>2. ASSUME NEW i \in 1 .. n + 1
            PROVE  /\ started'[i].press <= run.presses
                   /\ started'[i].press = run.presses =>
                         /\ ToSet(started'[i].batch) = ToSet(run.chosen)
                         /\ Position(Stages, started'[i].task) < run.next + 1
        <5>1. CASE i \in 1 .. n
          BY <2>2, <2>s, <3>6, <5>1
        <5>2. CASE i = n + 1
          <6>1. run.presses <= run.presses /\ run.next < run.next + 1
            BY <2>2
          <6>. QED  BY ONLY <3>2, <3>3, <3>6, <3>8, <5>2, <6>1, only = ToSet(run.chosen)
        <5>. QED  BY <3>7, <5>1, <5>2
      <4>3. run.next + 1 \in 1 .. 4
        BY <3>2
      <4>. QED  BY ONLY <2>2, <3>6, <4>1, <4>2, <4>3 DEF RunInv
    <3>10. ASSUME NEW i \in 1 .. n + 1
           PROVE  /\ Fine(program, results, started'[i])
                  /\ \A j \in 1 .. i - 1 : InStep(started'[j], started'[i])
      <4>1. CASE i \in 1 .. n
        <5>1. \A j \in 1 .. i - 1 : j \in 1 .. n
          BY <4>1
        <5>2. /\ Fine(program, results, started[i])
              /\ \A j \in 1 .. i - 1 : InStep(started[j], started[i])
          BY ONLY <1>0, <3>6, <4>1 DEF Ordered
        <5>. QED  BY ONLY <3>6, <4>1, <5>1, <5>2
      <4>2. CASE i = n + 1
        <5>1. Fine(program, results, s)
          BY <2>2, <3>3, <3>4, <3>8 DEF Fine
        <5>2. ASSUME NEW j \in 1 .. i - 1 PROVE InStep(started[j], s) /\ j \in 1 .. n
          <6>1. j \in 1 .. n
            BY <4>2
          <6>. QED  BY ONLY <2>2, <3>2, <3>3, <3>6, <3>8, <6>1, only = ToSet(run.chosen) DEF InStep
        <5>. QED  BY ONLY <3>6, <4>2, <5>1, <5>2
      <4>. QED  BY <3>7, <4>1, <4>2
    <3>11. Ordered(program', results', started')
      BY ONLY <3>1, <3>6, <3>10 DEF Ordered
    <3>12. StartedInv'
      BY <3>6, <3>11, AsShownNext DEF StartedInv
    <3>. QED  BY <3>9, <3>12
  <2>. QED  BY <1>7, <2>3, <2>4, <2>5, <2>6
<1>. QED  BY <1>3, <1>4, <1>5, <1>6, <1>7, Kinds DEF Running

\* What a press starts is what was on screen at the press, stage after stage
\* and each leaves first, whatever is answered or ticked in between:
\* StartedAsShown.
THEOREM BatchesAreAsShown == Spec => []StartedAsShown
<1>1. RunsInv => StartedAsShown
  BY DEF RunsInv, StartedInv
<1>. QED  BY RunsInit, RunsStep, <1>1, PTL DEF Spec
=============================================================================
