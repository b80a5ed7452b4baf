------------------------------ MODULE Induction ------------------------------
(***************************************************************************)
(* Induction over the natural numbers as first-order facts: every nonempty *)
(* set of naturals has a least element, so the least counterexample of a   *)
(* claim can be named; and a function that a recursion on a number         *)
(* describes exists.  What follows of sets that are iterated, and of       *)
(* sequences that are filtered, sorted and joined: what they hold, each    *)
(* entry once, and which entries come before which.                        *)
(***************************************************************************)
EXTENDS Integers, FiniteSetsExt, SequencesExt, Filters, FiniteSetTheorems, SequenceTheorems,
        WellFoundedInduction, TLAPS

LEMMA LessWellFounded ==
    \E R : IsWellFoundedOn(R, Nat) /\ \A x, y \in Nat : <<x, y>> \in R <=> x < y
<1>1. IsWellFoundedOn(OpToRel(<, Nat), Nat)
  BY NatLessThanWellFounded
<1>2. \A x, y \in Nat : <<x, y>> \in OpToRel(<, Nat) <=> x < y
  BY Zenon DEF OpToRel
<1>. QED  BY Zenon, <1>1, <1>2

LEMMA Least ==
    ASSUME NEW T \in SUBSET Nat, T # {}
    PROVE  \E m \in T : \A k \in T : m <= k
<1>1. PICK R : IsWellFoundedOn(R, Nat) /\ \A x, y \in Nat : <<x, y>> \in R <=> x < y
  BY LessWellFounded
<1>2. IsWellFoundedOn(R, Nat)
  BY <1>1
<1>3. \A x, y \in Nat : <<x, y>> \in R <=> x < y
  BY <1>1
<1>4. T \subseteq Nat
  OBVIOUS
<1>5. PICK m \in T : \A y \in T : ~ (<<y, m>> \in R)
  BY Zenon, <1>2, <1>4, WFMin
<1>6. \A y \in T : ~ (y < m)
  BY ONLY <1>3, <1>4, <1>5
<1>. QED  BY ONLY <1>4, <1>5, <1>6

\* Max is the greatest element.
LEMMA Greatest ==
    ASSUME NEW N \in Nat, NEW S \in SUBSET (0 .. N), S # {}
    PROVE  Max(S) \in S /\ \A x \in S : x <= Max(S)
<1>. PICK T : T = {N - x : x \in S}
  OBVIOUS
<1>1. T \in SUBSET Nat /\ T # {}
  <2>1. \A x \in S : x \in 0 .. N
    OBVIOUS
  <2>2. \A x \in 0 .. N : N - x \in Nat
    OBVIOUS
  <2>. QED  BY <2>1, <2>2
<1>2. PICK m \in T : \A k \in T : m <= k
  BY <1>1, Least
<1>3. PICK x \in S : m = N - x
  OBVIOUS
<1>4. \A y \in S : N - y \in T /\ y \in Int
  OBVIOUS
<1>5. \A y \in S : y <= x
  <2>. SUFFICES ASSUME NEW y \in S PROVE y <= x
    OBVIOUS
  <2>1. m <= N - y
    BY <1>2, <1>4
  <2>. QED  BY <1>3, <2>1
<1>6. \E z \in S : \A y \in S : z >= y
  BY <1>5
<1>. QED  BY <1>6 DEF Max

\* Min is the least.
LEMMA Smallest ==
    ASSUME NEW S \in SUBSET Nat, S # {}
    PROVE  Min(S) \in S /\ \A x \in S : Min(S) <= x
<1>1. \E m \in S : \A x \in S : m <= x
  BY Least
<1>. QED  BY <1>1 DEF Min

\* What holds of 0, and of i when it holds of i - 1, holds up to N.
LEMMA UpTo ==
    ASSUME NEW N \in Nat, NEW T \in SUBSET (0 .. N), 0 \in T,
           \A i \in 1 .. N : i - 1 \in T => i \in T
    PROVE  \A i \in 0 .. N : i \in T
<1>. DEFINE Bad == (0 .. N) \ T
<1>. SUFFICES ASSUME Bad # {} PROVE FALSE
  OBVIOUS
<1>1. Bad \in SUBSET Nat
  OBVIOUS
<1>2. PICK m \in Bad : \A k \in Bad : m <= k
  BY <1>1, Least
<1>3. m \in 1 .. N
  OBVIOUS
<1>4. m - 1 \in 0 .. N /\ ~ (m <= m - 1)
  BY <1>3
<1>. QED  BY <1>2, <1>3, <1>4

\* A value for each number up to N, from the one before it.
Steps(N, D) == [1 .. N -> [D -> D]]
Unrolls(g, N, D, first, step) ==
    /\ g \in [0 .. N -> D]
    /\ g[0] = first
    /\ \A i \in 1 .. N : g[i] = step[i][g[i - 1]]

LEMMA Recursion ==
    ASSUME NEW N \in Nat, NEW D, NEW first \in D, NEW step \in Steps(N, D)
    PROVE  \E g : Unrolls(g, N, D, first, step)
<1>. DEFINE Part(n, g) == g[0] = first /\ \A i \in 1 .. n : g[i] = step[i][g[i - 1]]
            T == {n \in 0 .. N : \E g \in [0 .. n -> D] : Part(n, g)}
<1>1. 0 \in T
  <2>. PICK g : g = [i \in 0 .. 0 |-> first]
    OBVIOUS
  <2>1. g \in [0 .. 0 -> D] /\ Part(0, g)
    OBVIOUS
  <2>. QED  BY <2>1
<1>2. ASSUME NEW m \in 1 .. N, m - 1 \in T PROVE m \in T
  <2>s. step \in [1 .. N -> [D -> D]]
    BY DEF Steps
  <2>1. PICK g \in [0 .. m - 1 -> D] : Part(m - 1, g)
    BY <1>2
  <2>. DEFINE h == [i \in 0 .. m |-> IF i = m THEN step[m][g[m - 1]] ELSE g[i]]
  <2>2. m - 1 \in 0 .. m - 1 /\ step[m][g[m - 1]] \in D
    BY <2>s
  <2>3. h \in [0 .. m -> D]
    BY <2>2
  <2>4. h[0] = first
    BY <2>1
  <2>5. ASSUME NEW i \in 1 .. m PROVE h[i] = step[i][h[i - 1]]
    <3>1. i - 1 \in 0 .. m - 1 /\ h[i - 1] = g[i - 1]
      OBVIOUS
    <3>2. CASE i = m
      BY <3>1, <3>2
    <3>3. CASE i # m
      <4>1. i \in 1 .. m - 1 /\ h[i] = g[i]
        BY <3>3
      <4>. QED  BY <2>1, <3>1, <4>1
    <3>. QED  BY <3>2, <3>3
  <2>. HIDE DEF h
  <2>6. Part(m, h) /\ m \in 0 .. N
    BY <2>4, <2>5
  <2>. QED  BY <2>3, <2>6
<1>3. N \in T
  <2>1. T \in SUBSET (0 .. N) /\ N \in 0 .. N
    OBVIOUS
  <2>. HIDE DEF T
  <2>2. \A i \in 0 .. N : i \in T
    BY <1>1, <1>2, <2>1, UpTo
  <2>. QED  BY <2>1, <2>2
<1>. QED  BY <1>3 DEF Unrolls
-----------------------------------------------------------------------------
(* Sequences: what they contain, whether they contain it once, and what    *)
(* comes before what.                                                      *)

Total(R, S) ==
    /\ \A x \in S : <<x, x>> \notin R
    /\ \A x, y, z \in S : <<x, y>> \in R /\ <<y, z>> \in R => <<x, z>> \in R
    /\ \A x, y \in S : x = y \/ <<x, y>> \in R \/ <<y, x>> \in R

Lower(R, S, x) == {y \in S : <<y, x>> \in R}

\* The places in a total order are the numbers up to the size of the set.
Ranks(R, S) ==
    /\ Cardinality(S) \in Nat
    /\ \A x \in S : Cardinality(Lower(R, S, x)) \in 0 .. Cardinality(S) - 1
    /\ \A x, y \in S : <<x, y>> \in R =>
          Cardinality(Lower(R, S, x)) < Cardinality(Lower(R, S, y))
    /\ \A k \in 0 .. Cardinality(S) - 1 : \E x \in S : Cardinality(Lower(R, S, x)) = k

LEMMA Ranking ==
    ASSUME NEW S, IsFiniteSet(S), NEW R, Total(R, S)
    PROVE  Ranks(R, S)
<1>. PICK N : N = Cardinality(S)
  OBVIOUS
<1>1. N \in Nat
  BY FS_CardinalityType
<1>2. ASSUME NEW x \in S, NEW T \in SUBSET S, x \notin T
      PROVE  IsFiniteSet(T) /\ Cardinality(T) \in 0 .. N - 1
  <2>1. T \subseteq S \ {x} /\ IsFiniteSet(S \ {x}) /\ Cardinality(S \ {x}) = N - 1
    BY <1>2, FS_RemoveElement
  <2>2. IsFiniteSet(T) /\ Cardinality(T) <= N - 1 /\ Cardinality(T) \in Nat
    BY <2>1, FS_Subset, FS_CardinalityType
  <2>. QED  BY <1>1, <2>2
<1>3. ASSUME NEW x \in S
      PROVE  IsFiniteSet(Lower(R, S, x)) /\ Cardinality(Lower(R, S, x)) \in 0 .. N - 1
  <2>1. Lower(R, S, x) \in SUBSET S /\ x \notin Lower(R, S, x)
    BY DEF Lower, Total
  <2>. QED  BY <1>2, <2>1
<1>4. ASSUME NEW x \in S, NEW y \in S, <<x, y>> \in R
      PROVE  Cardinality(Lower(R, S, x)) < Cardinality(Lower(R, S, y))
  <2>. PICK B : B = Lower(R, S, x)
    OBVIOUS
  <2>. PICK C : C = Lower(R, S, y)
    OBVIOUS
  <2>1. x \in C /\ B \subseteq C \ {x}
    BY <1>4 DEF Lower, Total
  <2>2. IsFiniteSet(C) /\ Cardinality(C) \in Nat
    BY <1>1, <1>3
  <2>3. IsFiniteSet(C \ {x}) /\ Cardinality(C \ {x}) = Cardinality(C) - 1
    BY <2>1, <2>2, FS_RemoveElement
  <2>4. Cardinality(B) <= Cardinality(C \ {x}) /\ Cardinality(B) \in Nat
    BY <1>1, <1>3, <2>1, <2>3, FS_Subset
  <2>. QED  BY <2>2, <2>3, <2>4
<1>5. PICK r : r = [x \in S |-> Cardinality(Lower(R, S, x))]
  OBVIOUS
<1>6. r \in Injection(S, 0 .. N - 1)
  <2>1. r \in [S -> 0 .. N - 1]
    BY <1>3, <1>5
  <2>2. ASSUME NEW x \in S, NEW y \in S, r[x] = r[y] PROVE x = y
    <3>1. <<x, y>> \notin R /\ <<y, x>> \notin R
      BY <1>1, <1>3, <1>4, <1>5, <2>2
    <3>. QED  BY <3>1 DEF Total
  <2>. QED  BY <2>1, <2>2 DEF Injection, IsInjective
<1>7. IsFiniteSet(0 .. N - 1) /\ Cardinality(0 .. N - 1) = N
  <2>. PICK m \in Int : m = N - 1
    BY <1>1
  <2>1. IsFiniteSet(0 .. m) /\ Cardinality(0 .. m) = IF 0 > m THEN 0 ELSE m - 0 + 1
    BY ONLY m \in Int, 0 \in Int, FS_Interval
  <2>. QED  BY <1>1, <2>1
<1>8. r \in Surjection(S, 0 .. N - 1)
  BY <1>6, <1>7, FS_Injection
<1>9. \A k \in 0 .. N - 1 : \E x \in S : r[x] = k
  BY <1>8 DEF Surjection
<1>. QED  BY <1>1, <1>3, <1>4, <1>5, <1>9 DEF Ranks

\* q is the set S, in ascending order.
Ascending(q, S) ==
    /\ q \in Seq(S) /\ Len(q) = Cardinality(S) /\ DOMAIN q = 1 .. Cardinality(S)
    /\ \A i, j \in DOMAIN q : i < j => q[i] < q[j]
    /\ \A x \in S : \E i \in DOMAIN q : q[i] = x

LEMMA ListFacts ==
    ASSUME NEW S \in SUBSET Nat, IsFiniteSet(S)
    PROVE  Ascending(ListOf(S), S) /\ Cardinality(S) \in Nat
<1>. PICK R : R = {w \in S \X S : w[1] < w[2]}
  OBVIOUS
<1>1. \A x, y \in S : <<x, y>> \in R <=> x < y
  OBVIOUS
<1>2. Total(R, S)
  <2>1. \A x \in S : x \in Nat
    OBVIOUS
  <2>. QED  BY ONLY <1>1, <2>1 DEF Total
<1>. PICK size : size = [x \in S |-> Cardinality({g \in S : g < x})]
  OBVIOUS
<1>3. ASSUME NEW x \in S PROVE Cardinality(Lower(R, S, x)) = size[x]
  <2>1. Lower(R, S, x) = {g \in S : g < x}
    BY <1>1 DEF Lower
  <2>. QED  BY <2>1
<1>. PICK N : N = Cardinality(S)
  OBVIOUS
<1>4. /\ N \in Nat
      /\ \A x \in S : size[x] \in 0 .. N - 1
      /\ \A x, y \in S : x < y => size[x] < size[y]
      /\ \A k \in 0 .. N - 1 : \E x \in S : size[x] = k
  <2>1. /\ Cardinality(S) \in Nat
        /\ \A x \in S : Cardinality(Lower(R, S, x)) \in 0 .. Cardinality(S) - 1
        /\ \A x, y \in S : <<x, y>> \in R =>
              Cardinality(Lower(R, S, x)) < Cardinality(Lower(R, S, y))
        /\ \A k \in 0 .. Cardinality(S) - 1 : \E x \in S : Cardinality(Lower(R, S, x)) = k
    <3>1. Ranks(R, S)
      BY <1>2, Ranking
    <3>. QED  BY <3>1 DEF Ranks
  <2>2. \A x \in S : size[x] \in 0 .. N - 1
    BY <1>3, <2>1
  <2>3. ASSUME NEW x \in S, NEW y \in S, x < y PROVE size[x] < size[y]
    <3>1. <<x, y>> \in R
      BY <1>1, <2>3
    <3>2. Cardinality(Lower(R, S, x)) < Cardinality(Lower(R, S, y))
      BY <2>1, <3>1
    <3>. QED  BY <1>3, <3>2
  <2>4. ASSUME NEW k \in 0 .. N - 1 PROVE \E x \in S : size[x] = k
    BY <1>3, <2>1
  <2>. QED  BY <2>1, <2>2, <2>3, <2>4
<1>. PICK q : q = ListOf(S)
  OBVIOUS
<1>5. q = [i \in 1 .. N |-> CHOOSE f \in S : Cardinality({g \in S : g < f}) = i - 1]
  BY DEF ListOf
<1>6. ASSUME NEW i \in 1 .. N PROVE q[i] \in S /\ size[q[i]] = i - 1
  <2>1. i - 1 \in 0 .. N - 1
    BY <1>4
  <2>2. \E x \in S : Cardinality({g \in S : g < x}) = i - 1
    <3>1. PICK x \in S : size[x] = i - 1
      BY <1>4, <2>1
    <3>. QED  BY <3>1
  <2>3. q[i] = CHOOSE f \in S : Cardinality({g \in S : g < f}) = i - 1
    BY <1>5
  <2>. QED  BY <2>2, <2>3
<1>7. q \in Seq(S) /\ Len(q) = N /\ DOMAIN q = 1 .. N
  <2>1. q \in [1 .. N -> S]
    BY <1>5, <1>6
  <2>. QED  BY <1>4, <2>1
<1>8. ASSUME NEW i \in 1 .. N, NEW j \in 1 .. N, i < j PROVE q[i] < q[j]
  <2>1. q[i] \in S /\ q[j] \in S /\ q[i] \in Nat /\ q[j] \in Nat
    BY <1>6
  <2>2. ~ (q[j] < q[i]) /\ q[j] # q[i]
    <3>1. size[q[i]] = i - 1 /\ size[q[j]] = j - 1
      BY <1>6
    <3>2. ~ (j - 1 < i - 1) /\ j - 1 # i - 1
      BY <1>4, <1>8
    <3>. QED  BY ONLY <1>4, <2>1, <3>1, <3>2
  <2>. QED  BY <2>1, <2>2
<1>9. ASSUME NEW x \in S PROVE \E i \in 1 .. N : q[i] = x
  <2>. PICK k : k = size[x]
    OBVIOUS
  <2>1. k \in 0 .. N - 1 /\ k + 1 \in 1 .. N /\ (k + 1) - 1 = k
    BY <1>4
  <2>2. q[k + 1] \in S /\ size[q[k + 1]] = k
    BY <1>6, <2>1
  <2>. PICK y : y = q[k + 1]
    OBVIOUS
  <2>3. ~ (x < y) /\ ~ (y < x)
    <3>1. y \in S /\ size[y] = k /\ size[x] = k
      BY <2>2
    <3>2. ~ (size[y] < size[x]) /\ ~ (size[x] < size[y])
      BY <1>4, <2>1, <3>1
    <3>. QED  BY <1>4, <3>1, <3>2
  <2>4. x \in Nat /\ y \in Nat
    BY <2>2
  <2>5. y = x
    BY <2>3, <2>4
  <2>. QED  BY <2>1, <2>5
<1>. QED  BY <1>4, <1>7, <1>8, <1>9 DEF Ascending

\* The elements of s at the places I, in the order of s: q gives the places.
TakenFrom(q, r, s, I) ==
    /\ \A k \in DOMAIN q : k \in Nat /\ q[k] \in I /\ q[k] \in Nat
    /\ \A k, l \in DOMAIN q : k < l => q[k] < q[l]
    /\ \A i \in I : \E k \in DOMAIN q : q[k] = i
    /\ DOMAIN r = DOMAIN q /\ \A k \in DOMAIN q : r[k] = s[q[k]]

LEMMA AtFacts ==
    ASSUME NEW D, NEW s \in Seq(D), NEW I \in SUBSET DOMAIN s
    PROVE  At(s, I) \in Seq(D) /\ \E q : TakenFrom(q, At(s, I), s, I)
<1>1. DOMAIN s = 1 .. Len(s) /\ Len(s) \in Nat /\ \A i \in DOMAIN s : s[i] \in D
  BY LenProperties, ElementOfSeq
<1>2. I \in SUBSET Nat /\ IsFiniteSet(I)
  <2>1. IsFiniteSet(1 .. Len(s))
    BY ONLY <1>1, FS_Interval
  <2>. QED  BY <1>1, <2>1, FS_Subset
<1>. PICK q : q = ListOf(I)
  OBVIOUS
<1>3. Ascending(q, I) /\ Cardinality(I) \in Nat
  BY <1>2, ListFacts
<1>. PICK N : N = Cardinality(I)
  OBVIOUS
<1>4. q \in Seq(I) /\ DOMAIN q = 1 .. N /\ Len(q) = N /\ \A k \in 1 .. N : q[k] \in I
  BY <1>3 DEF Ascending
<1>. PICK r : r = At(s, I)
  OBVIOUS
<1>5. r = [k \in 1 .. N |-> s[q[k]]]
  BY DEF At
<1>6. \A k \in 1 .. N : s[q[k]] \in D
  BY <1>1, <1>4
<1>7. r \in Seq(D) /\ Len(r) = N /\ DOMAIN r = 1 .. N /\ \A k \in 1 .. N : r[k] = s[q[k]]
  BY <1>3, <1>5, <1>6
<1>8. TakenFrom(q, r, s, I)
  BY <1>2, <1>3, <1>4, <1>7 DEF TakenFrom, Ascending
<1>. QED  BY <1>7, <1>8

Once(s) == \A i, j \in DOMAIN s : s[i] = s[j] => i = j
Before(s, f, g) == \E i, j \in DOMAIN s : i < j /\ s[i] = f /\ s[j] = g

\* r is s without what is not in S.
Filtered(D, r, s, S) ==
    /\ r \in Seq(D)
    /\ ToSet(r) = ToSet(s) \cap S
    /\ Once(s) => Once(r)
    /\ \A f, g : Before(r, f, g) <=> f \in S /\ g \in S /\ Before(s, f, g)

LEMMA KeepFacts ==
    ASSUME NEW D, NEW s \in Seq(D), NEW S
    PROVE  Filtered(D, Keep(s, S), s, S)
<1>. PICK I : I = {i \in DOMAIN s : s[i] \in S}
  OBVIOUS
<1>. PICK r : r = Keep(s, S)
  OBVIOUS
<1>1. r = At(s, I) /\ I \in SUBSET DOMAIN s
  BY DEF Keep
<1>a. r \in Seq(D) /\ \E q : TakenFrom(q, r, s, I)
  BY <1>1, AtFacts
<1>p. PICK q : TakenFrom(q, r, s, I)
  BY <1>a
<1>2. /\ r \in Seq(D) /\ DOMAIN r = DOMAIN q
      /\ \A k \in DOMAIN q : q[k] \in I /\ r[k] = s[q[k]]
  BY <1>a, <1>p DEF TakenFrom
<1>3. /\ \A i, j \in DOMAIN q : i < j => q[i] < q[j]
      /\ \A x \in I : \E i \in DOMAIN q : q[i] = x
      /\ \A i \in DOMAIN q : i \in Nat
      /\ \A i \in I : i \in Nat
  BY <1>p DEF TakenFrom
<1>4. ToSet(r) = ToSet(s) \cap S
  <2>1. ASSUME NEW k \in DOMAIN r PROVE r[k] \in ToSet(s) \cap S
    BY <1>2 DEF ToSet
  <2>2. ASSUME NEW i \in DOMAIN s, s[i] \in S PROVE s[i] \in ToSet(r)
    <3>1. PICK k \in DOMAIN q : q[k] = i
      BY <1>3, <2>2
    <3>. QED  BY <1>2, <3>1 DEF ToSet
  <2>. QED  BY <2>1, <2>2 DEF ToSet
<1>5. ASSUME NEW k \in DOMAIN q, NEW l \in DOMAIN q PROVE k < l <=> q[k] < q[l]
  <2>1. q[k] \in Nat /\ q[l] \in Nat /\ k \in Nat /\ l \in Nat
    BY <1>2, <1>3
  <2>2. k < l => q[k] < q[l]
    BY <1>3
  <2>3. l < k => q[l] < q[k]
    BY <1>3
  <2>. QED  BY <2>1, <2>2, <2>3
<1>6. ASSUME Once(s) PROVE Once(r)
  <2>. SUFFICES ASSUME NEW k \in DOMAIN q, NEW l \in DOMAIN q, r[k] = r[l] PROVE k = l
    BY <1>2 DEF Once
  <2>1. q[k] = q[l] /\ q[k] \in Nat
    BY <1>2, <1>3, <1>6 DEF Once
  <2>. QED  BY <1>3, <1>5, <2>1
<1>7. ASSUME NEW f, NEW g, Before(r, f, g) PROVE f \in S /\ g \in S /\ Before(s, f, g)
  <2>1. PICK k \in DOMAIN q, l \in DOMAIN q : k < l /\ r[k] = f /\ r[l] = g
    BY <1>2, <1>7 DEF Before
  <2>2. q[k] \in I /\ q[l] \in I /\ q[k] < q[l] /\ s[q[k]] = f /\ s[q[l]] = g
    BY <1>2, <1>5, <2>1
  <2>. QED  BY <2>2 DEF Before
<1>8. ASSUME NEW f \in S, NEW g \in S, Before(s, f, g) PROVE Before(r, f, g)
  <2>1. PICK i \in I, j \in I : i < j /\ s[i] = f /\ s[j] = g
    BY <1>8 DEF Before
  <2>2. PICK k \in DOMAIN q, l \in DOMAIN q : q[k] = i /\ q[l] = j
    BY <1>3
  <2>. QED  BY <1>2, <1>5, <2>1, <2>2 DEF Before
<1>. QED  BY <1>2, <1>4, <1>6, <1>7, <1>8 DEF Filtered

\* r is s without repetitions, in the order of the first occurrences.
Ahead(s, f, g) == \E i \in DOMAIN s : s[i] = f /\ \A j \in DOMAIN s : s[j] = g => i < j
FirstOnly(D, r, s) ==
    /\ r \in Seq(D) /\ ToSet(r) = ToSet(s) /\ Once(r)
    /\ \A f, g : Before(r, f, g) => Ahead(s, f, g)

LEMMA DistinctFacts ==
    ASSUME NEW D, NEW s \in Seq(D)
    PROVE  FirstOnly(D, Distinct(s), s)
<1>. PICK I : I = {i \in DOMAIN s : \A j \in 1 .. i - 1 : s[j] # s[i]}
  OBVIOUS
<1>. PICK r : r = Distinct(s)
  OBVIOUS
<1>1. r = At(s, I) /\ I \in SUBSET DOMAIN s
  BY DEF Distinct
<1>a. r \in Seq(D) /\ \E q : TakenFrom(q, r, s, I)
  BY <1>1, AtFacts
<1>p. PICK q : TakenFrom(q, r, s, I)
  BY <1>a
<1>2. /\ r \in Seq(D) /\ DOMAIN r = DOMAIN q
      /\ \A k \in DOMAIN q : q[k] \in I /\ r[k] = s[q[k]]
  BY <1>a, <1>p DEF TakenFrom
<1>s. DOMAIN s = 1 .. Len(s) /\ Len(s) \in Nat
  BY LenProperties
<1>3. /\ \A i, j \in DOMAIN q : i < j => q[i] < q[j]
      /\ \A x \in I : \E i \in DOMAIN q : q[i] = x
      /\ \A i \in DOMAIN q : i \in Nat
      /\ \A i \in I : i \in Nat
  BY <1>p DEF TakenFrom
<1>4. ASSUME NEW i \in I, NEW j \in DOMAIN s, s[j] = s[i] PROVE i <= j
  <2>1. i \in 1 .. Len(s) /\ j \in 1 .. Len(s) /\ \A k \in 1 .. i - 1 : s[k] # s[i]
    BY <1>s
  <2>. QED  BY <1>4, <1>s, <2>1
<1>5. ASSUME NEW j \in DOMAIN s PROVE \E i \in I : s[i] = s[j]
  <2>. PICK T : T = {i \in DOMAIN s : s[i] = s[j]}
    OBVIOUS
  <2>1. T \in SUBSET Nat /\ T # {}
    BY <1>s
  <2>2. PICK m \in T : \A k \in T : m <= k
    BY <2>1, Least
  <2>3. \A k \in 1 .. m - 1 : s[k] # s[m]
    BY <1>s, <2>2
  <2>. QED  BY <2>2, <2>3
<1>6. ToSet(r) = ToSet(s)
  <2>1. ASSUME NEW k \in DOMAIN r PROVE r[k] \in ToSet(s)
    BY <1>2 DEF ToSet
  <2>2. ASSUME NEW j \in DOMAIN s PROVE s[j] \in ToSet(r)
    <3>1. PICK i \in I : s[i] = s[j]
      BY <1>5
    <3>2. PICK k \in DOMAIN q : q[k] = i
      BY <1>3
    <3>. QED  BY <1>2, <3>1, <3>2 DEF ToSet
  <2>. QED  BY <2>1, <2>2 DEF ToSet
<1>7. Once(r)
  <2>. SUFFICES ASSUME NEW k \in DOMAIN q, NEW l \in DOMAIN q, r[k] = r[l] PROVE k = l
    BY <1>2 DEF Once
  <2>1. q[k] \in I /\ q[l] \in I /\ s[q[k]] = s[q[l]]
    BY <1>2
  <2>2. q[k] <= q[l] /\ q[l] <= q[k] /\ q[k] \in Nat /\ q[l] \in Nat
    BY <1>3, <1>4, <2>1
  <2>3. ~ (k < l) /\ ~ (l < k) /\ k \in Nat /\ l \in Nat
    BY <1>3, <2>2
  <2>. QED  BY <2>3
<1>8. ASSUME NEW f, NEW g, Before(r, f, g) PROVE Ahead(s, f, g)
  <2>1. PICK k \in DOMAIN q, l \in DOMAIN q : k < l /\ r[k] = f /\ r[l] = g
    BY <1>2, <1>8 DEF Before
  <2>2. q[k] \in I /\ q[l] \in I /\ q[k] < q[l] /\ s[q[k]] = f /\ s[q[l]] = g
    BY <1>2, <1>3, <2>1
  <2>3. ASSUME NEW j \in DOMAIN s, s[j] = g PROVE q[k] < j
    <3>1. q[l] <= j
      BY <1>4, <2>2, <2>3
    <3>. QED  BY <1>3, <1>s, <2>2, <3>1
  <2>. QED  BY <1>1, <2>2, <2>3 DEF Ahead
<1>. QED  BY <1>2, <1>6, <1>7, <1>8 DEF FirstOnly

LEMMA OnceCount ==
    ASSUME NEW D, NEW s \in Seq(D), Once(s)
    PROVE  IsFiniteSet(ToSet(s)) /\ Cardinality(ToSet(s)) = Len(s)
<1>1. Len(s) \in Nat /\ DOMAIN s = 1 .. Len(s) /\ s \in [1 .. Len(s) -> D]
  BY LenProperties
<1>. PICK n : n = Len(s)
  OBVIOUS
<1>. PICK T : T = ToSet(s)
  OBVIOUS
<1>2. s \in [1 .. n -> T] /\ \A x \in T : \E i \in 1 .. n : s[i] = x
  BY <1>1 DEF ToSet
<1>3. s \in Bijection(1 .. n, T)
  BY <1>1, <1>2 DEF Once, Bijection, Injection, Surjection, IsInjective
<1>4. IsFiniteSet(1 .. n) /\ Cardinality(1 .. n) = n
  <2>1. n \in Int /\ 1 \in Int /\ n >= 0
    BY <1>1
  <2>2. IsFiniteSet(1 .. n) /\ Cardinality(1 .. n) = IF 1 > n THEN 0 ELSE n - 1 + 1
    BY ONLY <2>1, FS_Interval
  <2>. QED  BY <2>1, <2>2
<1>5. ExistsBijection(1 .. n, T)
  BY <1>3 DEF ExistsBijection
<1>. QED  BY <1>4, <1>5, FS_Bijection

\* r is s in descending order of the weights.
Ranked(D, r, s, w) ==
    /\ r \in Seq(D) /\ Len(r) = Len(s) /\ ToSet(r) = ToSet(s)
    /\ Once(s) => Once(r)
    /\ \A k, l \in DOMAIN r : k < l =>
          \E i, j \in DOMAIN s : r[k] = s[i] /\ r[l] = s[j] /\ w[j] <= w[i]

LEMMA DescendingFacts ==
    ASSUME NEW D, NEW s \in Seq(D), NEW w, \A i \in DOMAIN s : w[i] \in Nat
    PROVE  Ranked(D, Descending(s, w), s, w)
<1>. PICK n : n = Len(s)
  OBVIOUS
<1>1. n \in Nat /\ DOMAIN s = 1 .. n /\ \A i \in 1 .. n : s[i] \in D
  BY LenProperties, ElementOfSeq
<1>. PICK v : v = [i \in 1 .. n |-> w[i]]
  OBVIOUS
<1>2. \A i \in 1 .. n : v[i] \in Nat /\ v[i] = w[i]
  BY <1>1
<1>. PICK R : R = {x \in (1 .. n) \X (1 .. n) :
                      v[x[1]] > v[x[2]] \/ (v[x[1]] = v[x[2]] /\ x[1] < x[2])}
  OBVIOUS
<1>3. \A i, j \in 1 .. n : <<i, j>> \in R <=> v[i] > v[j] \/ (v[i] = v[j] /\ i < j)
  OBVIOUS
<1>4. Total(R, 1 .. n)
  <2>1. \A i \in 1 .. n : i \in Nat
    BY <1>1
  <2>. QED  BY ONLY <1>2, <1>3, <2>1 DEF Total
<1>5. IsFiniteSet(1 .. n) /\ Cardinality(1 .. n) = n
  <2>1. n \in Int /\ 1 \in Int /\ n >= 0
    BY <1>1
  <2>2. IsFiniteSet(1 .. n) /\ Cardinality(1 .. n) = IF 1 > n THEN 0 ELSE n - 1 + 1
    BY ONLY <2>1, FS_Interval
  <2>. QED  BY <2>1, <2>2
<1>6. Ranks(R, 1 .. n)
  BY <1>4, <1>5, Ranking
<1>. PICK size : size = [i \in 1 .. n |-> Cardinality(Lower(R, 1 .. n, i))]
  OBVIOUS
<1>7. /\ \A i \in 1 .. n : size[i] \in 0 .. n - 1
      /\ \A i, j \in 1 .. n : <<i, j>> \in R => size[i] < size[j]
      /\ \A k \in 0 .. n - 1 : \E i \in 1 .. n : size[i] = k
  BY <1>5, <1>6 DEF Ranks
<1>. PICK r : r = Descending(s, w)
  OBVIOUS
<1>8. r = [k \in 1 .. n |-> s[CHOOSE i \in 1 .. n : size[i] + 1 = k]]
  <2>. DEFINE Precedes(i, j) == w[i] > w[j] \/ (w[i] = w[j] /\ i < j)
  <2>1. ASSUME NEW i \in 1 .. n PROVE size[i] = Cardinality({j \in 1 .. n : Precedes(j, i)})
    <3>1. \A j \in 1 .. n : <<j, i>> \in R <=> Precedes(j, i)
      BY <1>2, <1>3
    <3>2. Lower(R, 1 .. n, i) = {j \in 1 .. n : Precedes(j, i)}
      BY <3>1 DEF Lower
    <3>. QED  BY <3>2
  <2>2. r = [k \in 1 .. n |-> s[CHOOSE i \in 1 .. n :
                                    Cardinality({j \in 1 .. n : Precedes(j, i)}) + 1 = k]]
    BY <1>1 DEF Descending
  <2>. HIDE DEF Precedes
  <2>3. ASSUME NEW k \in 1 .. n
        PROVE  (CHOOSE i \in 1 .. n : Cardinality({j \in 1 .. n : Precedes(j, i)}) + 1 = k)
                  = CHOOSE i \in 1 .. n : size[i] + 1 = k
    BY <2>1
  <2>. QED  BY <2>2, <2>3
<1>9. PICK c : c = [k \in 1 .. n |-> CHOOSE i \in 1 .. n : size[i] + 1 = k]
  OBVIOUS
<1>10. ASSUME NEW k \in 1 .. n PROVE c[k] \in 1 .. n /\ size[c[k]] + 1 = k
  <2>1. k - 1 \in 0 .. n - 1
    BY <1>1
  <2>2. PICK i \in 1 .. n : size[i] = k - 1
    BY <1>7, <2>1
  <2>3. size[i] + 1 = k
    BY <1>1, <2>2
  <2>. QED  BY <1>9, <2>3
<1>11. r = [k \in 1 .. n |-> s[c[k]]]
  BY <1>8, <1>9
<1>12. r \in Seq(D) /\ Len(r) = n /\ DOMAIN r = 1 .. n /\ \A k \in 1 .. n : r[k] = s[c[k]]
  <2>1. \A k \in 1 .. n : s[c[k]] \in D
    BY <1>1, <1>10
  <2>2. r \in [1 .. n -> D]
    BY ONLY <1>11, <2>1
  <2>. QED  BY ONLY <1>1, <1>11, <2>2
<1>13. ASSUME NEW i \in 1 .. n PROVE \E k \in 1 .. n : c[k] = i
  <2>1. size[i] \in Nat /\ size[i] <= n - 1
    BY ONLY <1>1, <1>7, i \in 1 .. n
  <2>2. PICK k \in 1 .. n : k = size[i] + 1
    BY ONLY <1>1, <2>1
  <2>3. PICK j \in 1 .. n : j = c[k] /\ size[j] + 1 = k
    BY ONLY <1>10, <2>2
  <2>a. size[j] \in 0 .. n - 1
    BY <1>7
  <2>4. size[j] \in Nat /\ size[j] = size[i]
    BY ONLY <1>1, <2>1, <2>2, <2>3, <2>a
  <2>5. <<j, i>> \notin R /\ <<i, j>> \notin R
    BY ONLY <1>7, <2>1, <2>4, <2>3, i \in 1 .. n
  <2>6. j = i
    BY ONLY <1>4, <2>3, <2>5, i \in 1 .. n DEF Total
  <2>. QED  BY <2>2, <2>3, <2>6
<1>14. ToSet(r) = ToSet(s)
  <2>1. ASSUME NEW k \in 1 .. n PROVE r[k] \in ToSet(s)
    <3>1. PICK i \in 1 .. n : i = c[k]
      BY <1>10
    <3>. QED  BY ONLY <1>1, <1>12, <3>1, k \in 1 .. n DEF ToSet
  <2>2. ASSUME NEW i \in 1 .. n PROVE s[i] \in ToSet(r)
    <3>1. PICK k \in 1 .. n : c[k] = i
      BY <1>13
    <3>. QED  BY ONLY <1>12, <3>1 DEF ToSet
  <2>. QED  BY ONLY <1>1, <1>12, <2>1, <2>2 DEF ToSet
<1>15. ASSUME Once(s) PROVE Once(r)
  <2>. SUFFICES ASSUME NEW k \in 1 .. n, NEW l \in 1 .. n, r[k] = r[l] PROVE k = l
    BY <1>12 DEF Once
  <2>1. PICK i \in 1 .. n : i = c[k] /\ size[i] + 1 = k
    BY <1>10
  <2>2. PICK j \in 1 .. n : j = c[l] /\ size[j] + 1 = l
    BY <1>10
  <2>3. s[i] = s[j]
    BY ONLY <1>12, <2>1, <2>2, k \in 1 .. n, l \in 1 .. n, r[k] = r[l]
  <2>4. i = j
    BY ONLY <1>1, <1>15, <2>3, <2>1, <2>2 DEF Once
  <2>. QED  BY ONLY <2>1, <2>2, <2>4
<1>16. ASSUME NEW k \in 1 .. n, NEW l \in 1 .. n, k < l
       PROVE  \E i, j \in DOMAIN s : r[k] = s[i] /\ r[l] = s[j] /\ w[j] <= w[i]
  <2>2. PICK i \in 1 .. n : i = c[k] /\ size[i] + 1 = k
    BY <1>10
  <2>3. PICK j \in 1 .. n : j = c[l] /\ size[j] + 1 = l
    BY <1>10
  <2>4. size[i] \in Nat /\ size[j] \in Nat
    BY ONLY <1>1, <1>7, <2>2, <2>3
  <2>5. ~ (size[j] < size[i])
    BY ONLY <1>1, <1>16, <2>2, <2>3, <2>4, k \in 1 .. n, l \in 1 .. n
  <2>6. <<j, i>> \notin R
    BY ONLY <1>7, <2>5, <2>2, <2>3
  <2>7. ~ (v[j] > v[i])
    BY ONLY <1>3, <2>6, <2>2, <2>3
  <2>8. s[i] = r[k] /\ s[j] = r[l]
    BY ONLY <1>12, <2>2, <2>3, k \in 1 .. n, l \in 1 .. n
  <2>9. v[i] = w[i] /\ v[j] = w[j] /\ v[i] \in Nat /\ v[j] \in Nat
    BY ONLY <1>2, <2>2, <2>3
  <2>10. w[j] <= w[i]
    BY ONLY <2>7, <2>9
  <2>. QED  BY ONLY <1>1, <2>2, <2>3, <2>8, <2>10
<1>17. \A k, l \in DOMAIN r : k < l =>
          \E i, j \in DOMAIN s : r[k] = s[i] /\ r[l] = s[j] /\ w[j] <= w[i]
  BY ONLY <1>12, <1>16
<1>18. Ranked(D, r, s, w)
  BY ONLY <1>12, <1>14, <1>15, <1>17, n = Len(s) DEF Ranked
<1>. QED  BY ONLY <1>18, r = Descending(s, w)

\* r is s and then u.
Joined(D, r, s, u) ==
    /\ r \in Seq(D) /\ ToSet(r) = ToSet(s) \cup ToSet(u)
    /\ Len(r) = Len(s) + Len(u) /\ DOMAIN r = 1 .. Len(s) + Len(u)
    /\ \A i \in 1 .. Len(s) : r[i] = s[i]
    /\ \A i \in 1 .. Len(u) : r[Len(s) + i] = u[i]
    /\ \A f, g : Before(s, f, g) => Before(r, f, g)
    /\ Once(s) /\ Once(u) /\ ToSet(s) \cap ToSet(u) = {} => Once(r)

LEMMA JoinFacts ==
    ASSUME NEW D, NEW s \in Seq(D), NEW u \in Seq(D)
    PROVE  Joined(D, s \o u, s, u)
<1>. PICK r : r = s \o u
  OBVIOUS
<1>. PICK m \in Nat : m = Len(s)
  BY LenProperties
<1>. PICK n \in Nat : n = Len(u)
  BY LenProperties
<1>1. /\ DOMAIN s = 1 .. m /\ DOMAIN u = 1 .. n /\ r \in Seq(D)
      /\ DOMAIN r = 1 .. m + n /\ Len(r) = m + n
      /\ \A i \in 1 .. m + n : r[i] = IF i <= m THEN s[i] ELSE u[i - m]
  BY LenProperties, ConcatProperties
<1>2. ASSUME NEW i \in 1 .. m PROVE i \in 1 .. m + n /\ r[i] = s[i]
  BY <1>1
<1>3. ASSUME NEW i \in 1 .. n PROVE m + i \in 1 .. m + n /\ r[m + i] = u[i]
  <2>1. m + i \in 1 .. m + n /\ ~ (m + i <= m) /\ (m + i) - m = i
    OBVIOUS
  <2>. QED  BY <1>1, <2>1
<1>4. ASSUME NEW i \in 1 .. m + n
      PROVE  (i \in 1 .. m /\ r[i] = s[i]) \/ (i - m \in 1 .. n /\ r[i] = u[i - m])
  BY <1>1
<1>5. ToSet(r) = ToSet(s) \cup ToSet(u)
  <2>. PICK S : S = {s[i] : i \in 1 .. m}
    OBVIOUS
  <2>. PICK U : U = {u[i] : i \in 1 .. n}
    OBVIOUS
  <2>. PICK T : T = {r[i] : i \in 1 .. m + n}
    OBVIOUS
  <2>1. S = ToSet(s) /\ U = ToSet(u) /\ T = ToSet(r)
    BY <1>1 DEF ToSet
  <2>2. ASSUME NEW x \in T PROVE x \in S \cup U
    <3>1. PICK i \in 1 .. m + n : x = r[i]
      OBVIOUS
    <3>. QED  BY <1>4, <3>1
  <2>3. ASSUME NEW x \in S PROVE x \in T
    <3>1. PICK i \in 1 .. m : x = s[i]
      OBVIOUS
    <3>. QED  BY <1>2, <3>1
  <2>4. ASSUME NEW x \in U PROVE x \in T
    <3>1. PICK i \in 1 .. n : x = u[i]
      OBVIOUS
    <3>. QED  BY <1>3, <3>1
  <2>. QED  BY ONLY <2>1, <2>2, <2>3, <2>4
<1>6. ASSUME NEW f, NEW g, Before(s, f, g) PROVE Before(r, f, g)
  <2>1. PICK i \in 1 .. m, j \in 1 .. m : i < j /\ s[i] = f /\ s[j] = g
    BY <1>1, <1>6 DEF Before
  <2>. QED  BY <1>1, <1>2, <2>1 DEF Before
<1>7. ASSUME Once(s), Once(u), ToSet(s) \cap ToSet(u) = {} PROVE Once(r)
  <2>. SUFFICES ASSUME NEW i \in 1 .. m + n, NEW j \in 1 .. m + n, r[i] = r[j] PROVE i = j
    BY <1>1 DEF Once
  <2>1. CASE i \in 1 .. m /\ j \in 1 .. m
    BY <1>1, <1>2, <1>7, <2>1 DEF Once
  <2>2. CASE i \notin 1 .. m /\ j \notin 1 .. m
    <3>1. i - m \in 1 .. n /\ j - m \in 1 .. n /\ u[i - m] = u[j - m]
      BY <1>4, <2>2
    <3>2. i - m = j - m
      BY <1>1, <1>7, <3>1 DEF Once
    <3>. QED  BY <3>2
  <2>3. CASE i \in 1 .. m /\ j \notin 1 .. m
    <3>1. r[i] \in ToSet(s) /\ r[j] \in ToSet(u)
      BY <1>1, <1>2, <1>4, <2>3 DEF ToSet
    <3>. QED  BY <1>7, <3>1
  <2>4. CASE i \notin 1 .. m /\ j \in 1 .. m
    <3>1. r[j] \in ToSet(s) /\ r[i] \in ToSet(u)
      BY <1>1, <1>2, <1>4, <2>4 DEF ToSet
    <3>. QED  BY <1>7, <3>1
  <2>. QED  BY <2>1, <2>2, <2>3, <2>4
<1>. QED  BY <1>1, <1>2, <1>3, <1>5, <1>6, <1>7 DEF Joined

\* A concatenation of sequences is built one by one.
Builds(h, ss, D) ==
    /\ h \in [0 .. Len(ss) -> D] /\ h[0] = <<>>
    /\ \A i \in 1 .. Len(ss) : h[i - 1] \in D /\ h[i] = h[i - 1] \o ss[i]

LEMMA FlatBuilds ==
    ASSUME NEW S, NEW ss \in Seq(Seq(S))
    PROVE  \E h : Builds(h, ss, Seq(S)) /\ FlattenSeq(ss) = h[Len(ss)]
<1>. PICK N : N = Len(ss)
  OBVIOUS
<1>. PICK D : D = Seq(S)
  OBVIOUS
<1>1. N \in Nat /\ DOMAIN ss = 1 .. N /\ \A i \in 1 .. N : ss[i] \in D
  BY LenProperties, ElementOfSeq
<1>2. CASE N = 0
  <2>1. PICK e \in D : e = <<>>
    BY ONLY D = Seq(S), EmptySeq
  <2>2. PICK h : h = [i \in 0 .. N |-> e]
    OBVIOUS
  <2>3. ss = <<>> /\ FlattenSeq(ss) = ss
    BY <1>1, <1>2, EmptySeq DEF FlattenSeq
  <2>4. h \in [0 .. N -> D] /\ h[0] = e /\ h[N] = e /\ 1 .. N = {}
    BY ONLY <1>2, <2>2, e \in D
  <2>5. Builds(h, ss, D)
    BY ONLY <2>1, <2>4, N = Len(ss) DEF Builds
  <2>. QED  BY ONLY <2>1, <2>3, <2>4, <2>5, D = Seq(S), N = Len(ss)
<1>3. CASE N # 0
  <2>. DEFINE flatten[i \in 1 .. Len(ss)] == IF i = 1 THEN ss[i] ELSE flatten[i - 1] \o ss[i]
  <2>h. PICK h : /\ h \in [0 .. N -> D] /\ h[0] = <<>>
                 /\ \A i \in 1 .. N : h[i - 1] \in D /\ h[i] = h[i - 1] \o ss[i]
    <3>1. PICK step : step = [i \in 1 .. N |-> [q \in D |-> q \o ss[i]]]
      OBVIOUS
    <3>2. \A i \in 1 .. N, q \in D : q \o ss[i] \in D
      BY <1>1, ConcatProperties
    <3>3. step \in Steps(N, D)
      BY <3>1, <3>2 DEF Steps
    <3>4. PICK e \in D : e = <<>>
      BY ONLY D = Seq(S), EmptySeq
    <3>5. PICK h : Unrolls(h, N, D, e, step)
      <4>1. \E h : Unrolls(h, N, D, e, step)
        BY ONLY <1>1, <3>3, e \in D, Recursion
      <4>. QED  BY <4>1
    <3>6. h \in [0 .. N -> D] /\ h[0] = <<>>
      BY <3>4, <3>5 DEF Unrolls
    <3>7. ASSUME NEW i \in 1 .. N PROVE h[i - 1] \in D /\ h[i] = h[i - 1] \o ss[i]
      <4>1. i - 1 \in 0 .. N
        BY <1>1
      <4>2. h[i - 1] \in D /\ h[i] = step[i][h[i - 1]]
        BY <3>5, <4>1 DEF Unrolls
      <4>. QED  BY <3>1, <4>2
    <3>. QED  BY <3>6, <3>7
  <2>1. PICK g : g = [i \in 1 .. N |-> IF i = 1 THEN ss[i] ELSE g[i - 1] \o ss[i]]
                 /\ \A i \in 1 .. N : g[i] = h[i]
    <3>8. PICK k : k = [i \in 1 .. N |-> h[i]]
      OBVIOUS
    <3>9. ASSUME NEW i \in 1 .. N PROVE k[i] = IF i = 1 THEN ss[i] ELSE k[i - 1] \o ss[i]
      <4>1. CASE i = 1
        <5>1. h[i] = <<>> \o ss[i] /\ ss[i] \in Seq(S)
          <6>1. h[i - 1] = <<>> /\ ss[i] \in D
            BY <1>1, <2>h, <4>1
          <6>. QED  BY <2>h, <6>1
        <5>2. <<>> \o ss[i] = ss[i]
          BY <5>1, ConcatEmptySeq
        <5>. QED  BY <3>8, <4>1, <5>1, <5>2
      <4>2. CASE i # 1
        <5>1. i - 1 \in 1 .. N
          BY <1>1, <4>2
        <5>. QED  BY <2>h, <3>8, <4>2, <5>1
      <4>. QED  BY <4>1, <4>2
    <3>10. k = [i \in 1 .. N |-> IF i = 1 THEN ss[i] ELSE k[i - 1] \o ss[i]]
      BY ONLY <3>8, <3>9
    <3>11. \A i \in 1 .. N : k[i] = h[i]
      BY ONLY <3>8
    <3>. QED  BY ONLY <3>10, <3>11
  <2>2. flatten = [i \in 1 .. N |-> IF i = 1 THEN ss[i] ELSE flatten[i - 1] \o ss[i]]
    BY <2>1
  <2>3. FlattenSeq(ss) = flatten[N]
    BY <1>3 DEF FlattenSeq
  <2>4. PICK f : f = flatten
    OBVIOUS
  <2>5. f = [i \in 1 .. N |-> IF i = 1 THEN ss[i] ELSE f[i - 1] \o ss[i]] /\ FlattenSeq(ss) = f[N]
    BY <2>2, <2>3, <2>4
  <2>. HIDE DEF flatten
  <2>6. f[N] = h[N]
    <3>. PICK T : T = {i \in 0 .. N : i = 0 \/ f[i] = h[i]}
      OBVIOUS
    <3>1. 0 \in T /\ T \in SUBSET (0 .. N)
      BY <1>1
    <3>2. ASSUME NEW i \in 1 .. N, i - 1 \in T PROVE i \in T
      <4>1. h[i] = IF i = 1 THEN ss[i] ELSE h[i - 1] \o ss[i]
        <5>1. i # 1 => i - 1 \in 1 .. N
          BY <1>1
        <5>. QED  BY <2>1, <5>1
      <4>2. f[i] = IF i = 1 THEN ss[i] ELSE f[i - 1] \o ss[i]
        BY ONLY <2>5, i \in 1 .. N
      <4>. QED  BY <1>1, <3>2, <4>1, <4>2
    <3>3. \A i \in 0 .. N : i \in T
      BY ONLY <1>1, <3>1, <3>2, UpTo
    <3>4. N \in 0 .. N
      BY <1>1
    <3>. QED  BY <1>3, <3>3, <3>4
  <2>7. Builds(h, ss, D)
    BY ONLY <2>h, N = Len(ss) DEF Builds
  <2>8. N \in 0 .. N
    BY <1>1
  <2>9. FlattenSeq(ss) = h[N]
    BY <2>5, <2>6
  <2>. QED  BY ONLY <2>7, <2>9, D = Seq(S), N = Len(ss)
<1>. QED  BY <1>2, <1>3

\* What a concatenation of sequences contains.
LEMMA FlatFacts ==
    ASSUME NEW S, NEW ss \in Seq(Seq(S))
    PROVE  /\ FlattenSeq(ss) \in Seq(S)
           /\ \A x : x \in ToSet(FlattenSeq(ss)) <=> \E i \in DOMAIN ss : x \in ToSet(ss[i])
<1>. PICK N : N = Len(ss)
  OBVIOUS
<1>1. N \in Nat /\ DOMAIN ss = 1 .. N /\ \A i \in 1 .. N : ss[i] \in Seq(S)
  BY LenProperties, ElementOfSeq
<1>. PICK h : Builds(h, ss, Seq(S)) /\ FlattenSeq(ss) = h[Len(ss)]
  BY FlatBuilds
<1>2. h \in [0 .. N -> Seq(S)] /\ h[0] = <<>>
      /\ \A i \in 1 .. N : h[i - 1] \in Seq(S) /\ h[i] = h[i - 1] \o ss[i]
  BY DEF Builds
<1>3. \A i \in 0 .. N : \A x : x \in ToSet(h[i]) <=> \E j \in 1 .. i : x \in ToSet(ss[j])
  <2>. PICK T : T = {i \in 0 .. N : \A x : x \in ToSet(h[i]) <=> \E j \in 1 .. i : x \in ToSet(ss[j])}
    OBVIOUS
  <2>1. 0 \in T /\ T \in SUBSET (0 .. N)
    <3>1. ToSet(h[0]) = {} /\ 1 .. 0 = {}
      BY <1>2 DEF ToSet
    <3>. QED  BY <1>1, <3>1
  <2>2. ASSUME NEW i \in 1 .. N, i - 1 \in T PROVE i \in T
    <3>1. h[i - 1] \in Seq(S) /\ ss[i] \in Seq(S) /\ h[i] = h[i - 1] \o ss[i]
      BY <1>1, <1>2
    <3>2. ToSet(h[i]) = ToSet(h[i - 1]) \cup ToSet(ss[i])
      BY ONLY <3>1, JoinFacts DEF Joined
    <3>3. \A x : x \in ToSet(h[i - 1]) <=> \E j \in 1 .. i - 1 : x \in ToSet(ss[j])
      BY <2>2
    <3>4. \A j : j \in 1 .. i <=> j \in 1 .. i - 1 \/ j = i
      BY <1>1
    <3>5. i \in 0 .. N
      BY <1>1
    <3>6. \A x : x \in ToSet(h[i]) <=> \E j \in 1 .. i : x \in ToSet(ss[j])
      BY ONLY <3>2, <3>3, <3>4
    <3>. QED  BY <3>5, <3>6
  <2>3. \A i \in 0 .. N : i \in T
    BY ONLY <1>1, <2>1, <2>2, UpTo
  <2>. QED  BY <2>3
<1>4. N \in 0 .. N
  BY <1>1
<1>5. FlattenSeq(ss) = h[N] /\ h[N] \in Seq(S)
  BY <1>2, <1>4
<1>. QED  BY ONLY <1>1, <1>3, <1>4, <1>5
=============================================================================
