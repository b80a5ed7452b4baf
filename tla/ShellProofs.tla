---------------------------- MODULE ShellProofs -----------------------------
(***************************************************************************)
(* The pages over one client, for any runs, functions, uploads, stages,    *)
(* images, findings and sessions of any length: what is on screen is the   *)
(* run that was opened, and whoever waits has something that ends it.      *)
(*                                                                         *)
(* A step of one page leaves the others alone, so the invariant of each is *)
(* proved by itself from the steps that reach it, and only the workspace   *)
(* is known to all of them.  What the pages compute is proved first, of    *)
(* any document and of any call graph.                                     *)
(***************************************************************************)
EXTENDS Shell, Induction, FiniteSetTheorems, SequenceTheorems, TLAPS

(***************************************************************************)
(* The symbol tree.  A Forest over a set of ids is a list of nodes whose   *)
(* paths fit together: each id once, each node's path a beginning of the   *)
(* one that ends in the node before it, each folder on a path a node       *)
(* itself.  A leaf is one, two side by side are one when their ids are     *)
(* apart, and a folder over one is one; from these the tree of a document  *)
(* is put together as the code does.  The rows on screen are the nodes     *)
(* whose paths are open, or the matches and what is above them: a part of  *)
(* the forest that leaves no gap above a row.                              *)
(***************************************************************************)

FolderNames == {"functions", "fn-interesting", "fn-rest", "fn-thunks", "imports", "strings",
                "str-own", "str-runtime", "sections"}
FolderIds == ({"folder"} \X FolderNames) \cup ({"library"} \X Nat)
TopFolder == <<"folder", "functions">>
Says == {"", "callers unknown", "callers", "no callers found"}
NodeOf(I) == [id : I, above : Seq(FolderIds), count : Nat, says : Says]

Pre(s, t) == Len(s) <= Len(t) /\ \A n \in 1 .. Len(s) : s[n] = t[n]
\* What may be above the node that follows the first i.
Path(T, i) == IF i = 0 THEN <<>> ELSE Append(T[i].above, T[i].id)
HasParent(T, i, n) ==
    \E j \in DOMAIN T : /\ T[j].id = T[i].above[n]
                        /\ Len(T[j].above) = n - 1 /\ Pre(T[j].above, T[i].above)

\* The nodes of a tree in order, each id once.
Shape(T, I) ==
    /\ T \in Seq(NodeOf(I))
    /\ \A i, j \in DOMAIN T : T[i].id = T[j].id => i = j
    /\ \A i \in DOMAIN T : Pre(T[i].above, Path(T, i - 1))
    /\ \A i \in DOMAIN T : \A n \in 1 .. Len(T[i].above) : HasParent(T, i, n)

\* The symbols in a folder.
Beneath(T, i) == {j \in DOMAIN T : T[i].id \in ToSet(T[j].above)}
SymbolsIn(T, i) == {T[j].id : j \in Beneath(T, i)} \ FolderIds

\* A whole tree: its ids are I, and each count is of the symbols in a folder.
Forest(T, I) ==
    /\ Shape(T, I)
    /\ \A x \in I : \E i \in DOMAIN T : T[i].id = x
    /\ \A i \in DOMAIN T : T[i].id # TopFolder => T[i].count = Cardinality(SymbolsIn(T, i))

LEMMA SeqFacts ==
    ASSUME NEW D, NEW T \in Seq(D)
    PROVE  DOMAIN T = 1 .. Len(T) /\ Len(T) \in Nat /\ \A i \in 1 .. Len(T) : T[i] \in D
BY LenProperties, ElementOfSeq

LEMMA PrePath ==
    ASSUME NEW I, FolderIds \subseteq I, NEW a \in Seq(FolderIds), NEW b \in Seq(FolderIds), NEW x \in I
    PROVE  /\ Pre(a, Append(b, x)) <=>
                 \/ Pre(a, b)
                 \/ Len(a) = Len(b) + 1 /\ Pre(b, a) /\ a[Len(a)] = x
           /\ Len(Append(b, x)) = Len(b) + 1 /\ Append(b, x)[Len(b) + 1] = x
           /\ \A n \in 1 .. Len(b) : Append(b, x)[n] = b[n]
<1>1. Len(a) \in Nat /\ Len(b) \in Nat /\ b \in Seq(I)
  BY SeqFacts
<1>. PICK c : c = Append(b, x)
  OBVIOUS
<1>. PICK m \in Nat : m = Len(a)
  BY <1>1
<1>. PICK n \in Nat : n = Len(b)
  BY <1>1
<1>2. Len(c) = n + 1 /\ c[n + 1] = x /\ \A k \in 1 .. n : c[k] = b[k]
  BY <1>1, AppendProperties
<1>3. ASSUME Pre(a, c), m = n + 1 PROVE Pre(b, a) /\ a[m] = x
  <2>1. \A k \in 1 .. m : a[k] = c[k]
    BY ONLY <1>3, m = Len(a) DEF Pre
  <2>2. m \in 1 .. m /\ (\A k \in 1 .. n : k \in 1 .. m)
    BY <1>3
  <2>3. \A k \in 1 .. n : b[k] = a[k]
    BY ONLY <1>2, <2>1, <2>2
  <2>4. n <= m
    BY <1>3
  <2>. QED  BY ONLY <1>2, <1>3, <2>1, <2>2, <2>3, <2>4, m = Len(a), n = Len(b) DEF Pre
<1>4. ASSUME Pre(a, c), m # n + 1 PROVE Pre(a, b)
  <2>1. m <= n + 1 /\ \A k \in 1 .. m : a[k] = c[k]
    BY ONLY <1>2, <1>4, m = Len(a) DEF Pre
  <2>2. m <= n /\ \A k \in 1 .. m : k \in 1 .. n
    BY <1>4, <2>1
  <2>. QED  BY ONLY <1>2, <2>1, <2>2, m = Len(a), n = Len(b) DEF Pre
<1>5. ASSUME Pre(a, b) PROVE Pre(a, c)
  <2>1. m <= n /\ \A k \in 1 .. m : a[k] = b[k]
    BY ONLY <1>5, m = Len(a), n = Len(b) DEF Pre
  <2>2. m <= n + 1 /\ \A k \in 1 .. m : k \in 1 .. n
    BY <2>1
  <2>. QED  BY ONLY <1>2, <2>1, <2>2, m = Len(a) DEF Pre
<1>6. ASSUME m = n + 1, Pre(b, a), a[m] = x PROVE Pre(a, c)
  <2>1. \A k \in 1 .. n : b[k] = a[k]
    BY ONLY <1>6, n = Len(b) DEF Pre
  <2>2. \A k \in 1 .. m : k \in 1 .. n \/ k = n + 1
    BY <1>6
  <2>3. \A k \in 1 .. m : a[k] = c[k]
    BY ONLY <1>2, <1>6, <2>1, <2>2
  <2>. QED  BY ONLY <1>2, <1>6, <2>3, m = Len(a), m \in Nat DEF Pre
<1>7. Pre(a, c) <=> Pre(a, b) \/ (m = n + 1 /\ Pre(b, a) /\ a[m] = x)
  BY ONLY <1>3, <1>4, <1>5, <1>6
<1>. QED  BY ONLY <1>2, <1>7, m = Len(a), n = Len(b), c = Append(b, x)

LEMMA PreFacts ==
    ASSUME NEW D, NEW a \in Seq(D), NEW b \in Seq(D), Pre(a, b)
    PROVE  /\ ToSet(a) \subseteq ToSet(b) /\ IsPrefix(a, b)
           /\ \A c : Pre(b, c) /\ Len(c) \in Nat => Pre(a, c)
<1>1. /\ DOMAIN a = 1 .. Len(a) /\ Len(a) \in Nat
      /\ DOMAIN b = 1 .. Len(b) /\ Len(b) \in Nat
  BY SeqFacts
<1>2. Len(a) <= Len(b) /\ \A n \in 1 .. Len(a) : a[n] = b[n] /\ n \in 1 .. Len(b)
  BY <1>1 DEF Pre
<1>3. ToSet(a) \subseteq ToSet(b)
  BY ONLY <1>1, <1>2 DEF ToSet
<1>4. IsPrefix(a, b)
  <2>1. IsPrefix(a, b) <=> Len(a) <= Len(b) /\ SubSeq(a, 1, Len(a)) = SubSeq(b, 1, Len(a))
    BY DEF IsPrefix
  <2>. QED  BY <1>1, <1>2, <2>1
<1>5. ASSUME NEW c, Pre(b, c), Len(c) \in Nat PROVE Pre(a, c)
  <2>1. Len(b) <= Len(c) /\ \A n \in 1 .. Len(b) : b[n] = c[n]
    BY <1>5 DEF Pre
  <2>. QED  BY <1>1, <1>2, <1>5, <2>1 DEF Pre
<1>. QED  BY <1>3, <1>4, <1>5

\* What is kept of a tree has every folder above it.
Closed(T, K) ==
    /\ K \subseteq DOMAIN T
    /\ \A k \in K, j \in DOMAIN T : T[j].id \in ToSet(T[k].above) => j \in K

LEMMA ShapeFacts ==
    ASSUME NEW I, NEW T, Shape(T, I)
    PROVE  /\ DOMAIN T = 1 .. Len(T) /\ Len(T) \in Nat
           /\ \A i \in DOMAIN T :
                 /\ T[i].id \in I /\ T[i].count \in Nat /\ T[i].above \in Seq(FolderIds)
                 /\ DOMAIN T[i].above = 1 .. Len(T[i].above) /\ Len(T[i].above) \in Nat
                 /\ i \in Nat
<1>1. DOMAIN T = 1 .. Len(T) /\ Len(T) \in Nat /\ \A i \in 1 .. Len(T) : T[i] \in NodeOf(I)
  BY SeqFacts DEF Shape
<1>2. ASSUME NEW i \in DOMAIN T
      PROVE  /\ T[i].id \in I /\ T[i].count \in Nat /\ T[i].above \in Seq(FolderIds)
             /\ DOMAIN T[i].above = 1 .. Len(T[i].above) /\ Len(T[i].above) \in Nat
             /\ i \in Nat
  <2>1. T[i].id \in I /\ T[i].count \in Nat /\ T[i].above \in Seq(FolderIds) /\ i \in Nat
    BY <1>1 DEF NodeOf
  <2>. QED  BY <2>1, SeqFacts
<1>. QED  BY <1>1, <1>2

\* A step of the way from a kept node back to the kept one before it.
LEMMA PathBack ==
    ASSUME NEW I, FolderIds \subseteq I, NEW T, Shape(T, I), NEW K, Closed(T, K),
           NEW i \in K, NEW m \in DOMAIN T, m \notin K, Pre(T[i].above, Path(T, m))
    PROVE  Pre(T[i].above, Path(T, m - 1))
<1>1. /\ i \in DOMAIN T /\ m \in Nat /\ m # 0
      /\ T[m].id \in I /\ T[m].above \in Seq(FolderIds) /\ T[i].above \in Seq(FolderIds)
      /\ DOMAIN T[i].above = 1 .. Len(T[i].above) /\ Len(T[i].above) \in Nat
      /\ DOMAIN T[m].above = 1 .. Len(T[m].above) /\ Len(T[m].above) \in Nat
  BY ShapeFacts DEF Closed
<1>. PICK a : a = T[i].above
  OBVIOUS
<1>. PICK b : b = T[m].above
  OBVIOUS
<1>2. Pre(a, Append(b, T[m].id))
  BY <1>1 DEF Path
<1>3. Pre(a, b) \/ (Len(a) = Len(b) + 1 /\ a[Len(a)] = T[m].id)
  BY ONLY <1>1, <1>2, FolderIds \subseteq I, a = T[i].above, b = T[m].above, PrePath
<1>4. ~ (Len(a) = Len(b) + 1 /\ a[Len(a)] = T[m].id)
  <2>. SUFFICES ASSUME Len(a) = Len(b) + 1, a[Len(a)] = T[m].id PROVE FALSE
    OBVIOUS
  <2>1. Len(a) \in DOMAIN a
    BY <1>1
  <2>2. T[m].id \in ToSet(a)
    BY ONLY <2>1, a[Len(a)] = T[m].id DEF ToSet
  <2>. QED  BY <2>2 DEF Closed
<1>5. Pre(b, Path(T, m - 1))
  BY DEF Shape
<1>6. Len(Path(T, m - 1)) \in Nat
  <2>1. CASE m - 1 = 0
    <3>1. Path(T, m - 1) = <<>>
      BY ONLY <2>1 DEF Path
    <3>. QED  BY <3>1
  <2>2. CASE m - 1 # 0
    <3>1. PICK l \in DOMAIN T : l = m - 1
      BY <1>1, <2>2, ShapeFacts
    <3>2. T[l].above \in Seq(FolderIds) /\ T[l].id \in I
      BY ShapeFacts
    <3>3. Len(Append(T[l].above, T[l].id)) = Len(T[l].above) + 1 /\ Len(T[l].above) \in Nat
      BY <3>2, PrePath, ShapeFacts
    <3>4. Path(T, m - 1) = Append(T[l].above, T[l].id)
      BY ONLY <2>2, <3>1 DEF Path
    <3>. QED  BY <3>3, <3>4
  <2>. QED  BY <2>1, <2>2
<1>7. Pre(a, b)
  BY <1>3, <1>4
<1>. QED  BY ONLY <1>1, <1>5, <1>6, <1>7, a = T[i].above, b = T[m].above, PreFacts

Rows(T, K) == {T[k] : k \in K}

LEMMA RowsShape ==
    ASSUME NEW I, FolderIds \subseteq I, NEW T, Shape(T, I), NEW K, Closed(T, K)
    PROVE  Shape(At(T, K), I) /\ ToSet(At(T, K)) = Rows(T, K)
<1>. PICK r : r = At(T, K)
  OBVIOUS
<1>1. r \in Seq(NodeOf(I)) /\ \E q : TakenFrom(q, r, T, K)
  BY AtFacts DEF Shape, Closed
<1>q. PICK q : TakenFrom(q, r, T, K)
  BY <1>1
<1>2. /\ \A k \in DOMAIN q : k \in Nat /\ q[k] \in K /\ q[k] \in Nat /\ q[k] \in DOMAIN T /\ r[k] = T[q[k]]
      /\ \A k, l \in DOMAIN q : k < l => q[k] < q[l]
      /\ \A i \in K : \E k \in DOMAIN q : q[k] = i
      /\ DOMAIN r = DOMAIN q
  BY <1>q DEF TakenFrom, Closed
<1>3. DOMAIN r = 1 .. Len(r) /\ Len(r) \in Nat
  BY ONLY <1>1, SeqFacts
<1>t. DOMAIN T = 1 .. Len(T) /\ Len(T) \in Nat /\ \A i \in DOMAIN T : i \in Nat
  BY ShapeFacts
<1>4. ToSet(r) = {T[k] : k \in K}
  <2>1. ToSet(r) = {r[k] : k \in DOMAIN r}
    BY DEF ToSet
  <2>2. \A k \in DOMAIN r : \E i \in K : r[k] = T[i]
    BY ONLY <1>2
  <2>3. \A i \in K : \E k \in DOMAIN r : r[k] = T[i]
    BY ONLY <1>2
  <2>. QED  BY ONLY <2>1, <2>2, <2>3
<1>5. ASSUME NEW k \in DOMAIN r, NEW l \in DOMAIN r, r[k].id = r[l].id PROVE k = l
  <2>1. q[k] = q[l]
    BY <1>2, <1>5 DEF Shape
  <2>. QED  BY ONLY <1>2, <2>1, k \in DOMAIN r, l \in DOMAIN r
<1>6. ASSUME NEW k \in DOMAIN r PROVE Pre(r[k].above, Path(r, k - 1))
  <2>. PICK i : i = q[k]
    OBVIOUS
  <2>1. i \in K /\ i \in DOMAIN T /\ i \in Nat /\ i >= 1 /\ r[k] = T[i] /\ k \in Nat /\ k >= 1
    BY ONLY <1>2, <1>3, <1>t, k \in DOMAIN r, i = q[k]
  <2>. PICK lo : lo = IF k = 1 THEN 0 ELSE q[k - 1]
    OBVIOUS
  <2>2. lo \in Nat /\ lo <= i - 1 /\ (k # 1 => k - 1 \in DOMAIN r /\ lo = q[k - 1])
    <3>1. k # 1 => k - 1 \in DOMAIN r
      BY ONLY <1>3, <2>1, k \in DOMAIN r
    <3>. QED  BY ONLY <1>2, <2>1, <3>1, k \in DOMAIN r, i = q[k], lo = IF k = 1 THEN 0 ELSE q[k - 1]
  <2>. PICK B : B = {m \in lo .. i - 1 : Pre(T[i].above, Path(T, m))}
    OBVIOUS
  <2>3. B \in SUBSET Nat /\ i - 1 \in B
    <3>1. Pre(T[i].above, Path(T, i - 1))
      BY <2>1 DEF Shape
    <3>. QED  BY <2>1, <2>2, <3>1
  <2>4. PICK m \in B : \A n \in B : m <= n
    BY <2>3, Least
  <2>5. m \in Nat /\ lo <= m /\ m <= i - 1 /\ Pre(T[i].above, Path(T, m))
    BY <2>1, <2>2, <2>4
  <2>6. m = lo
    <3>. SUFFICES ASSUME m # lo PROVE FALSE
      OBVIOUS
    <3>1. lo < m /\ m < i /\ m \in DOMAIN T
      <4>1. lo < m /\ m < i /\ 1 <= m
        BY ONLY <2>1, <2>2, <2>5, m # lo
      <4>. QED  BY ONLY <1>t, <2>1, <2>5, <4>1
    <3>2. m \notin K
      <4>. SUFFICES ASSUME m \in K PROVE FALSE
        OBVIOUS
      <4>1. PICK l \in DOMAIN q : q[l] = m
        BY <1>2
      <4>2. l < k
        <5>1. l = k \/ k < l \/ l < k
          BY ONLY <1>2, <2>1, <4>1
        <5>. QED  BY ONLY <1>2, <2>1, <2>5, <3>1, <4>1, <5>1, k \in DOMAIN r, i = q[k]
      <4>3. k # 1 /\ l <= k - 1
        BY ONLY <1>2, <1>3, <2>1, <4>1, <4>2
      <4>4. lo = q[k - 1] /\ k - 1 \in DOMAIN q /\ (l = k - 1 \/ l < k - 1)
        BY ONLY <1>2, <2>1, <2>2, <4>1, <4>3
      <4>5. m <= lo
        BY ONLY <1>2, <4>1, <4>4
      <4>. QED  BY ONLY <2>2, <2>5, <3>1, <4>5
    <3>3. Pre(T[i].above, Path(T, m - 1))
      BY <2>1, <2>5, <3>1, <3>2, PathBack
    <3>4. m - 1 \in B
      BY <2>1, <2>2, <2>5, <3>1, <3>3
    <3>. QED  BY <2>4, <2>5, <3>4
  <2>7. Path(T, lo) = Path(r, k - 1)
    <3>1. CASE k = 1
      BY ONLY <3>1, lo = IF k = 1 THEN 0 ELSE q[k - 1] DEF Path
    <3>2. CASE k # 1
      <4>1. lo \in DOMAIN T /\ r[k - 1] = T[lo] /\ lo # 0 /\ k - 1 # 0
        BY ONLY <1>2, <1>t, <2>1, <2>2, <3>2
      <4>. QED  BY ONLY <4>1 DEF Path
    <3>. QED  BY <3>1, <3>2
  <2>. QED  BY ONLY <2>1, <2>5, <2>6, <2>7
<1>7. ASSUME NEW k \in DOMAIN r, NEW n \in 1 .. Len(r[k].above) PROVE HasParent(r, k, n)
  <2>1. q[k] \in K /\ q[k] \in DOMAIN T /\ r[k] = T[q[k]]
    BY <1>2
  <2>. PICK i : i = q[k]
    OBVIOUS
  <2>2. HasParent(T, i, n)
    BY <2>1 DEF Shape
  <2>3. PICK j \in DOMAIN T : T[j].id = T[i].above[n] /\ Len(T[j].above) = n - 1 /\ Pre(T[j].above, T[i].above)
    BY <2>2 DEF HasParent
  <2>4. n \in DOMAIN T[i].above
    BY <2>1, ShapeFacts
  <2>5. T[j].id \in ToSet(T[i].above)
    BY ONLY <2>3, <2>4 DEF ToSet
  <2>6. j \in K
    BY <2>1, <2>5 DEF Closed
  <2>7. PICK l \in DOMAIN r : r[l] = T[j]
    BY <1>2, <2>6
  <2>. QED  BY ONLY <2>1, <2>3, <2>7, i = q[k] DEF HasParent
<1>8. Shape(r, I)
  BY ONLY <1>1, <1>5, <1>6, <1>7 DEF Shape
<1>9. ToSet(r) = Rows(T, K)
  BY ONLY <1>4 DEF Rows
<1>. QED  BY ONLY <1>8, <1>9, r = At(T, K)

\* A whole tree of the folders F and the symbols S.
Grove(T, F, S) == Forest(T, F \cup S) /\ F \subseteq FolderIds /\ S \cap FolderIds = {}

Kinds == {"fn", "imp", "str", "sect"}

LEMMA PathLength ==
    ASSUME NEW I, NEW T, Shape(T, I), NEW i \in 0 .. Len(T)
    PROVE  Len(Path(T, i)) \in Nat
<1>1. CASE i = 0
  <2>1. Path(T, i) = <<>>
    BY ONLY <1>1 DEF Path
  <2>. QED  BY <2>1
<1>2. CASE i # 0
  <2>0. i \in DOMAIN T
    BY <1>2, ShapeFacts
  <2>. PICK J : J = FolderIds \cup I
    OBVIOUS
  <2>1. T[i].above \in Seq(FolderIds) /\ T[i].id \in J /\ FolderIds \subseteq J
    BY <2>0, ShapeFacts
  <2>2. Len(Append(T[i].above, T[i].id)) = Len(T[i].above) + 1 /\ Len(T[i].above) \in Nat
    BY <2>0, <2>1, PrePath, ShapeFacts
  <2>3. Path(T, i) = Append(T[i].above, T[i].id)
    BY ONLY <1>2 DEF Path
  <2>. QED  BY ONLY <2>2, <2>3
<1>. QED  BY <1>1, <1>2

LEMMA ShapeWider ==
    ASSUME NEW I, NEW T, Shape(T, I), NEW J, I \subseteq J
    PROVE  Shape(T, J)
<1>1. DOMAIN T = 1 .. Len(T) /\ Len(T) \in Nat /\ \A i \in 1 .. Len(T) : T[i] \in NodeOf(I)
  BY SeqFacts DEF Shape
<1>2. NodeOf(I) \subseteq NodeOf(J)
  BY DEF NodeOf
<1>3. T \in Seq(NodeOf(I)) /\ \A i \in 1 .. Len(T) : T[i] \in NodeOf(J)
  BY <1>1, <1>2 DEF Shape
<1>4. T \in Seq(NodeOf(J))
  BY ONLY <1>1, <1>3
<1>. QED  BY <1>4 DEF Shape

\* What is above a node is in the tree.
LEMMA AboveIn ==
    ASSUME NEW I, NEW T, Shape(T, I), NEW i \in DOMAIN T, NEW x \in ToSet(T[i].above)
    PROVE  \E j \in DOMAIN T : T[j].id = x /\ ToSet(T[j].above) \subseteq ToSet(T[i].above)
<1>1. DOMAIN T[i].above = 1 .. Len(T[i].above) /\ T[i].above \in Seq(FolderIds)
  BY ShapeFacts
<1>2. PICK n \in 1 .. Len(T[i].above) : x = T[i].above[n]
  BY ONLY <1>1, x \in ToSet(T[i].above) DEF ToSet
<1>3. HasParent(T, i, n)
  BY DEF Shape
<1>4. PICK j \in DOMAIN T : T[j].id = T[i].above[n] /\ Pre(T[j].above, T[i].above)
  BY <1>3 DEF HasParent
<1>5. T[j].above \in Seq(FolderIds)
  BY ShapeFacts
<1>6. ToSet(T[j].above) \subseteq ToSet(T[i].above)
  BY ONLY <1>1, <1>4, <1>5, PreFacts
<1>. QED  BY <1>2, <1>4, <1>6

LEMMA EmptyGrove == Grove(<<>>, {}, {})
<1>. PICK T : T = <<>>
  OBVIOUS
<1>1. T \in Seq(NodeOf({})) /\ DOMAIN T = {}
  BY EmptySeq
<1>2. Shape(T, {})
  BY ONLY <1>1 DEF Shape
<1>3. Forest(T, {})
  BY ONLY <1>1, <1>2 DEF Forest
<1>4. {} \cup {} = {} /\ {} \cap FolderIds = {} /\ {} \subseteq FolderIds
  OBVIOUS
<1>. QED  BY ONLY <1>3, <1>4, T = <<>> DEF Grove

\* A row of symbols.
LEMMA LeafGrove ==
    ASSUME NEW kind \in Kinds, NEW D, NEW s \in Seq(D), Once(s), NEW key, NEW says,
           \A x, y \in ToSet(s) : key[x] = key[y] => x = y, \A x \in ToSet(s) : says[x] \in Says,
           NEW T, T = [i \in DOMAIN s |-> Leaf(kind, key[s[i]], says[s[i]])],
           NEW S, S = {<<kind, key[x]>> : x \in ToSet(s)}
    PROVE  Grove(T, {}, S) /\ Cardinality(S) = Len(s) /\ Len(T) = Len(s)
<1>. PICK n \in Nat : n = Len(s) /\ DOMAIN s = 1 .. n
  BY SeqFacts
<1>1. \A i \in 1 .. n : s[i] \in ToSet(s)
  BY DEF ToSet
<1>2. \A i \in 1 .. n : T[i] = [id |-> <<kind, key[s[i]]>>, above |-> <<>>, count |-> 0,
                               says |-> says[s[i]]]
  BY DEF Leaf, Node
<1>3. \A i \in 1 .. n : T[i].id = <<kind, key[s[i]]>> /\ T[i].above = <<>> /\ T[i].count = 0
  <2>. SUFFICES ASSUME NEW i \in 1 .. n
                PROVE  T[i].id = <<kind, key[s[i]]>> /\ T[i].above = <<>> /\ T[i].count = 0
    OBVIOUS
  <2>. PICK p : p = <<kind, key[s[i]]>>
    OBVIOUS
  <2>. PICK q : q = says[s[i]]
    OBVIOUS
  <2>1. T[i] = [id |-> p, above |-> <<>>, count |-> 0, says |-> q]
    BY ONLY <1>2, i \in 1 .. n, p = <<kind, key[s[i]]>>, q = says[s[i]]
  <2>2. T[i].id = p /\ T[i].above = <<>> /\ T[i].count = 0
    BY ONLY <2>1
  <2>. QED  BY ONLY <2>2, p = <<kind, key[s[i]]>>
<1>4. \A i, j \in 1 .. n : T[i].id = T[j].id => i = j
  <2>. SUFFICES ASSUME NEW i \in 1 .. n, NEW j \in 1 .. n, T[i].id = T[j].id PROVE i = j
    OBVIOUS
  <2>1. key[s[i]] = key[s[j]]
    BY <1>3
  <2>2. s[i] = s[j]
    BY <1>1, <2>1
  <2>. QED  BY <2>2 DEF Once
<1>5. <<>> \in Seq(FolderIds) /\ Len(<<>>) = 0
  BY EmptySeq
<1>6. \A i \in 1 .. n : T[i].id \in S /\ T[i] \in NodeOf(S)
  <2>. SUFFICES ASSUME NEW i \in 1 .. n PROVE T[i].id \in S /\ T[i] \in NodeOf(S)
    OBVIOUS
  <2>1. T[i].id \in S
    BY <1>1, <1>3
  <2>2. says[s[i]] \in Says
    BY <1>1
  <2>3. <<kind, key[s[i]]>> \in S
    BY <1>3, <2>1
  <2>4. [id |-> <<kind, key[s[i]]>>, above |-> <<>>, count |-> 0, says |-> says[s[i]]] \in NodeOf(S)
    BY ONLY <1>5, <2>2, <2>3 DEF NodeOf
  <2>. QED  BY <1>2, <2>1, <2>4
<1>7. DOMAIN T = 1 .. n /\ Len(T) = n /\ T \in Seq(NodeOf(S))
  <2>1. T \in [1 .. n -> NodeOf(S)]
    BY <1>6
  <2>. QED  BY <2>1
<1>8. \A x \in S : \E i \in 1 .. n : T[i].id = x
  <2>. SUFFICES ASSUME NEW x \in S PROVE \E i \in 1 .. n : T[i].id = x
    OBVIOUS
  <2>1. PICK y \in ToSet(s) : x = <<kind, key[y]>>
    OBVIOUS
  <2>2. PICK i \in 1 .. n : y = s[i]
    BY DEF ToSet
  <2>. QED  BY <1>3, <2>1, <2>2
<1>9. S \cap FolderIds = {}
  <2>1. \A x \in S : x[1] = kind
    OBVIOUS
  <2>2. \A x \in FolderIds : x[1] = "folder" \/ x[1] = "library"
    BY DEF FolderIds
  <2>3. kind # "folder" /\ kind # "library"
    BY DEF Kinds
  <2>. QED  BY ONLY <2>1, <2>2, <2>3
<1>10. \A i \in 1 .. n : Pre(T[i].above, Path(T, i - 1))
  <2>. SUFFICES ASSUME NEW i \in 1 .. n PROVE Pre(T[i].above, Path(T, i - 1))
    OBVIOUS
  <2>1. Len(Path(T, i - 1)) \in Nat
    <3>1. CASE i = 1
      <4>1. Path(T, i - 1) = <<>>
        BY <3>1 DEF Path
      <4>. QED  BY ONLY <1>5, <4>1
    <3>2. CASE i # 1
      <4>1. i - 1 \in 1 .. n /\ i - 1 # 0
        BY <3>2
      <4>2. Path(T, i - 1) = Append(<<>>, T[i - 1].id)
        BY ONLY <1>3, <4>1 DEF Path
      <4>. QED  BY ONLY <4>2
    <3>. QED  BY <3>1, <3>2
  <2>2. T[i].above = <<>> /\ 1 .. 0 = {}
    BY <1>3
  <2>. QED  BY ONLY <1>5, <2>1, <2>2 DEF Pre
<1>11. Shape(T, S)
  <2>1. \A i \in 1 .. n : 1 .. Len(T[i].above) = {}
    BY <1>3, <1>5
  <2>. QED  BY ONLY <1>4, <1>7, <1>10, <2>1 DEF Shape
<1>12. \A i \in 1 .. n : T[i].count = Cardinality(SymbolsIn(T, i))
  <2>. SUFFICES ASSUME NEW i \in 1 .. n PROVE T[i].count = Cardinality(SymbolsIn(T, i))
    OBVIOUS
  <2>1. \A j \in 1 .. n : ToSet(T[j].above) = {}
    BY <1>3 DEF ToSet
  <2>2. Beneath(T, i) = {}
    BY <1>7, <2>1 DEF Beneath
  <2>3. SymbolsIn(T, i) = {}
    BY <2>2 DEF SymbolsIn
  <2>. QED  BY <1>3, <2>3, FS_EmptySet
<1>13. Forest(T, S)
  BY ONLY <1>7, <1>8, <1>11, <1>12 DEF Forest
<1>14. Grove(T, {}, S)
  <2>1. {} \cup S = S /\ {} \subseteq FolderIds
    OBVIOUS
  <2>. QED  BY ONLY <1>9, <1>13, <2>1 DEF Grove
<1>15. Cardinality(S) = n
  <2>1. PICK q : q = [i \in 1 .. n |-> T[i].id]
    OBVIOUS
  <2>2. q \in Seq(S) /\ Len(q) = n /\ DOMAIN q = 1 .. n
    <3>1. q \in [1 .. n -> S]
      BY <1>6, <2>1
    <3>. QED  BY <3>1
  <2>3. Once(q)
    BY ONLY <1>4, <2>1, <2>2 DEF Once
  <2>4. ToSet(q) = S
    <3>1. \A i \in 1 .. n : q[i] = T[i].id
      BY ONLY <2>1
    <3>. QED  BY ONLY <1>6, <1>8, <2>2, <3>1 DEF ToSet
  <2>. QED  BY ONLY <2>2, <2>3, <2>4, OnceCount
<1>. QED  BY ONLY <1>7, <1>14, <1>15, n = Len(s)

\* One tree after another.
LEMMA JoinForest ==
    ASSUME NEW I, NEW A, Forest(A, I), NEW J, NEW B, Forest(B, J), I \cap J = {}
    PROVE  Forest(A \o B, I \cup J)
<1>. PICK K : K = I \cup J
  OBVIOUS
<1>. PICK r : r = A \o B
  OBVIOUS
<1>. PICK m \in Nat : m = Len(A)
  BY ShapeFacts DEF Forest
<1>. PICK n \in Nat : n = Len(B)
  BY ShapeFacts DEF Forest
<1>1. Shape(A, K) /\ Shape(B, K) /\ Shape(A, I) /\ Shape(B, J)
  BY ShapeWider DEF Forest
<1>2. DOMAIN A = 1 .. m /\ DOMAIN B = 1 .. n
  BY <1>1, ShapeFacts
<1>3. /\ r \in Seq(NodeOf(K)) /\ DOMAIN r = 1 .. m + n /\ Len(r) = m + n
      /\ \A i \in 1 .. m : r[i] = A[i]
      /\ \A i \in 1 .. n : r[m + i] = B[i]
  <2>1. A \in Seq(NodeOf(K)) /\ B \in Seq(NodeOf(K))
    BY <1>1 DEF Shape
  <2>2. Joined(NodeOf(K), r, A, B)
    BY ONLY <2>1, r = A \o B, JoinFacts
  <2>. QED  BY ONLY <2>2, m = Len(A), n = Len(B), LenProperties DEF Joined
<1>4. \A i \in 1 .. m + n : i \in 1 .. m \/ \E j \in 1 .. n : i = m + j
  <2>. SUFFICES ASSUME NEW i \in 1 .. m + n, i \notin 1 .. m PROVE \E j \in 1 .. n : i = m + j
    OBVIOUS
  <2>1. i - m \in 1 .. n /\ i = m + (i - m)
    OBVIOUS
  <2>. QED  BY <2>1
<1>5. /\ \A i \in 1 .. m : A[i].id \in I /\ i \in 1 .. m + n
      /\ \A i \in 1 .. n : B[i].id \in J /\ m + i \in 1 .. m + n
  <2>1. \A i \in 1 .. m : i \in 1 .. m + n
    OBVIOUS
  <2>2. \A i \in 1 .. n : m + i \in 1 .. m + n
    OBVIOUS
  <2>. QED  BY <1>1, <1>2, <2>1, <2>2, ShapeFacts
<1>6. /\ \A i \in 1 .. m : ToSet(A[i].above) \subseteq I
      /\ \A i \in 1 .. n : ToSet(B[i].above) \subseteq J
  <2>1. ASSUME NEW i \in 1 .. m, NEW x \in ToSet(A[i].above) PROVE x \in I
    <3>1. PICK j \in DOMAIN A : A[j].id = x
      <4>1. i \in DOMAIN A
        BY <1>2
      <4>2. \E j \in DOMAIN A : A[j].id = x /\ ToSet(A[j].above) \subseteq ToSet(A[i].above)
        BY ONLY <1>1, <2>1, <4>1, AboveIn
      <4>. QED  BY ONLY <4>2
    <3>. QED  BY <1>2, <1>5, <3>1
  <2>2. ASSUME NEW i \in 1 .. n, NEW x \in ToSet(B[i].above) PROVE x \in J
    <3>1. PICK j \in DOMAIN B : B[j].id = x
      <4>1. i \in DOMAIN B
        BY <1>2
      <4>2. \E j \in DOMAIN B : B[j].id = x /\ ToSet(B[j].above) \subseteq ToSet(B[i].above)
        BY ONLY <1>1, <2>2, <4>1, AboveIn
      <4>. QED  BY ONLY <4>2
    <3>. QED  BY <1>2, <1>5, <3>1
  <2>. QED  BY <2>1, <2>2
<1>7. ASSUME NEW i \in DOMAIN r, NEW j \in DOMAIN r, r[i].id = r[j].id PROVE i = j
  <2>1. CASE i \in 1 .. m /\ j \in 1 .. m
    <3>1. A[i].id = A[j].id
      BY <1>3, <1>7, <2>1
    <3>. QED  BY ONLY <1>1, <1>2, <2>1, <3>1 DEF Shape
  <2>2. CASE i \notin 1 .. m /\ j \notin 1 .. m
    <3>1. PICK k \in 1 .. n : i = m + k
      BY <1>3, <1>4, <2>2
    <3>2. PICK l \in 1 .. n : j = m + l
      BY <1>3, <1>4, <2>2
    <3>3. B[k].id = B[l].id
      BY <1>3, <1>7, <3>1, <3>2
    <3>4. k = l
      BY ONLY <1>1, <1>2, <3>3, k \in 1 .. n, l \in 1 .. n DEF Shape
    <3>. QED  BY <3>1, <3>2, <3>4
  <2>3. CASE i \in 1 .. m /\ j \notin 1 .. m
    <3>1. PICK l \in 1 .. n : j = m + l
      BY <1>3, <1>4, <2>3
    <3>2. r[i].id \in I /\ r[j].id \in J
      BY <1>3, <1>5, <2>3, <3>1
    <3>. QED  BY <1>7, <3>2
  <2>4. CASE i \notin 1 .. m /\ j \in 1 .. m
    <3>1. PICK l \in 1 .. n : i = m + l
      BY <1>3, <1>4, <2>4
    <3>2. r[j].id \in I /\ r[i].id \in J
      BY <1>3, <1>5, <2>4, <3>1
    <3>. QED  BY <1>7, <3>2
  <2>. QED  BY <2>1, <2>2, <2>3, <2>4
<1>8. ASSUME NEW i \in DOMAIN r PROVE Pre(r[i].above, Path(r, i - 1))
  <2>1. CASE i \in 1 .. m
    <3>1. Pre(A[i].above, Path(A, i - 1))
      BY <1>1, <1>2, <2>1 DEF Shape
    <3>2. Path(r, i - 1) = Path(A, i - 1)
      <4>1. i - 1 = 0 \/ r[i - 1] = A[i - 1]
        <5>1. i - 1 = 0 \/ i - 1 \in 1 .. m
          BY <2>1
        <5>. QED  BY ONLY <1>3, <5>1
      <4>. QED  BY ONLY <4>1 DEF Path
    <3>. QED  BY <1>3, <2>1, <3>1, <3>2
  <2>2. CASE i \notin 1 .. m
    <3>1. PICK k \in 1 .. n : i = m + k
      BY <1>3, <1>4, <2>2
    <3>2. r[i].above = B[k].above /\ Pre(B[k].above, Path(B, k - 1))
      BY <1>1, <1>2, <1>3, <3>1 DEF Shape
    <3>3. CASE k = 1
      <4>1. Path(B, k - 1) = <<>>
        BY ONLY <3>3 DEF Path
      <4>2. B[k].above \in Seq(FolderIds) /\ Len(B[k].above) \in Nat
        BY <1>1, <1>2, ShapeFacts
      <4>3. Len(B[k].above) = 0
        BY ONLY <3>2, <4>1, <4>2 DEF Pre
      <4>4. Path(r, i - 1) = Path(A, m)
        <5>1. i - 1 = m /\ (m = 0 \/ m \in 1 .. m)
          BY <3>1, <3>3
        <5>2. m = 0 \/ r[m] = A[m]
          BY ONLY <1>3, <5>1
        <5>. QED  BY ONLY <5>1, <5>2 DEF Path
      <4>5. Len(Path(A, m)) \in Nat
        BY <1>1, PathLength
      <4>. QED  BY ONLY <3>2, <4>3, <4>4, <4>5 DEF Pre
    <3>4. CASE k # 1
      <4>1. k - 1 \in 1 .. n /\ i - 1 = m + (k - 1) /\ i - 1 # 0 /\ k - 1 # 0
        BY <3>1, <3>4
      <4>2. r[i - 1] = B[k - 1]
        BY ONLY <1>3, <4>1
      <4>3. Path(r, i - 1) = Path(B, k - 1)
        BY ONLY <4>1, <4>2 DEF Path
      <4>. QED  BY ONLY <3>2, <4>3
    <3>. QED  BY <3>3, <3>4
  <2>. QED  BY <2>1, <2>2
<1>9. ASSUME NEW i \in DOMAIN r, NEW l \in 1 .. Len(r[i].above) PROVE HasParent(r, i, l)
  <2>1. CASE i \in 1 .. m
    <3>1. r[i] = A[i] /\ HasParent(A, i, l)
      BY <1>1, <1>2, <1>3, <2>1 DEF Shape
    <3>2. PICK j \in 1 .. m : /\ A[j].id = A[i].above[l]
                              /\ Len(A[j].above) = l - 1 /\ Pre(A[j].above, A[i].above)
      BY ONLY <1>2, <3>1 DEF HasParent
    <3>3. r[j] = A[j] /\ j \in DOMAIN r
      BY <1>3, <1>5
    <3>. QED  BY ONLY <3>1, <3>2, <3>3 DEF HasParent
  <2>2. CASE i \notin 1 .. m
    <3>1. PICK k \in 1 .. n : i = m + k
      BY <1>3, <1>4, <2>2
    <3>2. r[i] = B[k]
      BY <1>3, <3>1
    <3>3. HasParent(B, k, l)
      BY <1>1, <1>2, <3>2 DEF Shape
    <3>4. PICK j \in 1 .. n : /\ B[j].id = B[k].above[l]
                              /\ Len(B[j].above) = l - 1 /\ Pre(B[j].above, B[k].above)
      BY ONLY <1>2, <3>3 DEF HasParent
    <3>5. r[m + j] = B[j] /\ m + j \in DOMAIN r
      BY <1>3, <1>5
    <3>. QED  BY ONLY <3>2, <3>4, <3>5 DEF HasParent
  <2>. QED  BY <2>1, <2>2
<1>10. Shape(r, K)
  BY ONLY <1>3, <1>7, <1>8, <1>9 DEF Shape
<1>11. ASSUME NEW x \in K PROVE \E i \in DOMAIN r : r[i].id = x
  <2>1. CASE x \in I
    <3>1. PICK i \in 1 .. m : A[i].id = x
      BY <1>2, <2>1 DEF Forest
    <3>. QED  BY <1>3, <1>5, <3>1
  <2>2. CASE x \in J
    <3>1. PICK i \in 1 .. n : B[i].id = x
      BY <1>2, <2>2 DEF Forest
    <3>. QED  BY <1>3, <1>5, <3>1
  <2>. QED  BY <2>1, <2>2
<1>12. ASSUME NEW i \in DOMAIN r, r[i].id # TopFolder
       PROVE  r[i].count = Cardinality(SymbolsIn(r, i))
  <2>1. CASE i \in 1 .. m
    <3>1. r[i] = A[i] /\ A[i].id \in I
      BY <1>3, <1>5, <2>1
    <3>2. A[i].count = Cardinality(SymbolsIn(A, i))
      BY ONLY <1>2, <1>12, <2>1, <3>1, Forest(A, I) DEF Forest
    <3>3. \A j \in 1 .. n : A[i].id \notin ToSet(B[j].above)
      BY <1>6, <3>1
    <3>4. \A x : x \in SymbolsIn(r, i) <=> x \in SymbolsIn(A, i)
      <4>1. ASSUME NEW j \in Beneath(r, i) PROVE j \in Beneath(A, i) /\ r[j].id = A[j].id
        <5>1. j \in 1 .. m + n /\ A[i].id \in ToSet(r[j].above)
          BY ONLY <1>3, <3>1, j \in Beneath(r, i) DEF Beneath
        <5>2. j \in 1 .. m
          BY ONLY <1>3, <1>4, <3>3, <5>1
        <5>. QED  BY ONLY <1>2, <1>3, <5>1, <5>2 DEF Beneath
      <4>2. ASSUME NEW j \in Beneath(A, i) PROVE j \in Beneath(r, i) /\ r[j].id = A[j].id
        <5>1. j \in 1 .. m /\ A[i].id \in ToSet(A[j].above)
          BY ONLY <1>2, j \in Beneath(A, i) DEF Beneath
        <5>. QED  BY ONLY <1>3, <1>5, <3>1, <5>1 DEF Beneath
      <4>. QED  BY ONLY <4>1, <4>2 DEF SymbolsIn
    <3>5. SymbolsIn(r, i) = SymbolsIn(A, i)
      BY ONLY <3>4
    <3>. QED  BY ONLY <3>1, <3>2, <3>5
  <2>2. CASE i \notin 1 .. m
    <3>0. PICK k \in 1 .. n : i = m + k
      BY <1>3, <1>4, <2>2
    <3>1. r[i] = B[k] /\ B[k].id \in J
      BY <1>3, <1>5, <3>0
    <3>2. B[k].count = Cardinality(SymbolsIn(B, k))
      BY ONLY <1>2, <1>12, <3>1, Forest(B, J) DEF Forest
    <3>3. \A j \in 1 .. m : B[k].id \notin ToSet(A[j].above)
      BY <1>6, <3>1
    <3>4. \A x : x \in SymbolsIn(r, i) <=> x \in SymbolsIn(B, k)
      <4>1. ASSUME NEW j \in Beneath(r, i) PROVE \E l \in Beneath(B, k) : r[j].id = B[l].id
        <5>1. j \in 1 .. m + n /\ B[k].id \in ToSet(r[j].above)
          BY ONLY <1>3, <3>1, j \in Beneath(r, i) DEF Beneath
        <5>2. PICK l \in 1 .. n : j = m + l
          BY ONLY <1>3, <1>4, <3>3, <5>1
        <5>3. r[j] = B[l]
          BY ONLY <1>3, <5>2
        <5>4. l \in Beneath(B, k)
          BY ONLY <1>2, <5>1, <5>3, l \in 1 .. n DEF Beneath
        <5>. QED  BY ONLY <5>3, <5>4
      <4>2. ASSUME NEW j \in Beneath(B, k) PROVE m + j \in Beneath(r, i) /\ r[m + j].id = B[j].id
        <5>1. j \in 1 .. n /\ B[k].id \in ToSet(B[j].above)
          BY ONLY <1>2, j \in Beneath(B, k) DEF Beneath
        <5>. QED  BY ONLY <1>3, <1>5, <3>1, <5>1 DEF Beneath
      <4>. QED  BY ONLY <4>1, <4>2 DEF SymbolsIn
    <3>5. SymbolsIn(r, i) = SymbolsIn(B, k)
      BY ONLY <3>4
    <3>. QED  BY ONLY <3>1, <3>2, <3>5
  <2>. QED  BY <2>1, <2>2
<1>13. Forest(r, K)
  BY ONLY <1>10, <1>11, <1>12 DEF Forest
<1>. QED  BY ONLY <1>13, K = I \cup J, r = A \o B

\* A tree put in a folder.
LEMMA UnderForest ==
    ASSUME NEW I, NEW T, Forest(T, I), NEW id \in FolderIds \ I, NEW count \in Nat, NEW says \in Says,
           id = TopFolder \/ count = Cardinality(I \ FolderIds)
    PROVE  Forest(Under(Node(id, count, says), T), I \cup {id})
<1>. PICK K : K = I \cup {id}
  OBVIOUS
<1>. PICK r : r = Under(Node(id, count, says), T)
  OBVIOUS
<1>. PICK n \in Nat : n = Len(T)
  BY ShapeFacts DEF Forest
<1>1. Shape(T, I) /\ DOMAIN T = 1 .. n
  BY ShapeFacts DEF Forest
<1>. PICK top : top = [id |-> id, above |-> <<>>, count |-> count, says |-> says]
  OBVIOUS
<1>2. top.id = id /\ top.above = <<>> /\ top.count = count /\ top.says = says
  OBVIOUS
<1>3. <<>> \in Seq(FolderIds) /\ Len(<<>>) = 0 /\ <<id>> \in Seq(FolderIds) /\ Len(<<id>>) = 1
      /\ <<id>>[1] = id
  BY EmptySeq
<1>4. top \in NodeOf(K)
  BY ONLY <1>3, K = I \cup {id}, count \in Nat, says \in Says,
     top = [id |-> id, above |-> <<>>, count |-> count, says |-> says] DEF NodeOf
<1>. PICK u : u = [i \in 1 .. n |-> [T[i] EXCEPT !.above = <<id>> \o @]]
  OBVIOUS
<1>5. r = <<top>> \o u
  BY <1>1 DEF Under, Node
<1>6. ASSUME NEW i \in 1 .. n
      PROVE  /\ u[i] \in NodeOf(K) /\ u[i].id = T[i].id /\ u[i].count = T[i].count
             /\ T[i].id \in I /\ T[i].above \in Seq(FolderIds)
             /\ u[i].above = <<id>> \o T[i].above
  <2>1. T[i] \in NodeOf(I) /\ T[i].id \in I /\ T[i].above \in Seq(FolderIds)
    <3>1. T \in Seq(NodeOf(I))
      BY <1>1 DEF Shape
    <3>2. T[i] \in NodeOf(I)
      BY ONLY <3>1, n = Len(T), i \in 1 .. n, ElementOfSeq
    <3>. QED  BY ONLY <3>2 DEF NodeOf
  <2>2. <<id>> \o T[i].above \in Seq(FolderIds)
    BY <1>3, <2>1, ConcatProperties
  <2>3. PICK t : t = T[i]
    OBVIOUS
  <2>4. PICK a \in Seq(FolderIds) : a = <<id>> \o t.above
    BY <2>2, <2>3
  <2>5. u[i] = [t EXCEPT !.above = a]
    BY <2>3, <2>4
  <2>6. t \in [id : I, above : Seq(FolderIds), count : Nat, says : Says]
    BY <2>1, <2>3 DEF NodeOf
  <2>7. u[i] \in NodeOf(K) /\ u[i].id = t.id /\ u[i].count = t.count /\ u[i].above = a
    BY ONLY <2>5, <2>6, a \in Seq(FolderIds), K = I \cup {id} DEF NodeOf
  <2>. QED  BY ONLY <2>1, <2>3, <2>4, <2>7
<1>7. /\ r \in Seq(NodeOf(K)) /\ DOMAIN r = 1 .. n + 1 /\ Len(r) = n + 1
      /\ r[1] = top /\ \A i \in 1 .. n : r[i + 1] = u[i]
  <2>1. u \in Seq(NodeOf(K)) /\ Len(u) = n /\ DOMAIN u = 1 .. n
    <3>1. u \in [1 .. n -> NodeOf(K)]
      BY <1>6
    <3>. QED  BY ONLY <3>1, n \in Nat
  <2>2. <<top>> \in Seq(NodeOf(K)) /\ Len(<<top>>) = 1 /\ <<top>>[1] = top
    BY ONLY <1>4
  <2>3. Joined(NodeOf(K), r, <<top>>, u)
    BY ONLY <1>5, <2>1, <2>2, JoinFacts
  <2>4. /\ r \in Seq(NodeOf(K)) /\ Len(r) = 1 + n /\ DOMAIN r = 1 .. 1 + n
        /\ \A i \in 1 .. 1 : r[i] = <<top>>[i] /\ \A j \in 1 .. n : r[1 + j] = u[j]
    BY ONLY <2>1, <2>2, <2>3 DEF Joined
  <2>5. 1 \in 1 .. 1 /\ 1 + n = n + 1 /\ \A j \in 1 .. n : 1 + j = j + 1
    OBVIOUS
  <2>. QED  BY ONLY <2>2, <2>4, <2>5
<1>8. \A i \in 1 .. n + 1 : i = 1 \/ \E j \in 1 .. n : i = j + 1
  <2>. SUFFICES ASSUME NEW i \in 1 .. n + 1, i # 1 PROVE \E j \in 1 .. n : i = j + 1
    OBVIOUS
  <2>1. i - 1 \in 1 .. n /\ i = (i - 1) + 1
    OBVIOUS
  <2>. QED  BY <2>1
<1>9. \A j \in 1 .. n : j + 1 \in 1 .. n + 1 /\ j + 1 # 1
  OBVIOUS
\* What is above in the folder, place by place.
<1>10. ASSUME NEW i \in 1 .. n
       PROVE  /\ Len(u[i].above) = Len(T[i].above) + 1 /\ Len(T[i].above) \in Nat
              /\ u[i].above[1] = id
              /\ \A k \in 1 .. Len(T[i].above) : u[i].above[k + 1] = T[i].above[k]
              /\ ToSet(u[i].above) = ToSet(T[i].above) \cup {id}
  <2>. PICK a : a = T[i].above
    OBVIOUS
  <2>1. a \in Seq(FolderIds) /\ u[i].above = <<id>> \o a
    BY <1>6
  <2>2. Joined(FolderIds, u[i].above, <<id>>, a)
    BY ONLY <1>3, <2>1, JoinFacts
  <2>. PICK c : c = u[i].above
    OBVIOUS
  <2>3. /\ Len(c) = 1 + Len(a) /\ ToSet(c) = ToSet(<<id>>) \cup ToSet(a)
        /\ \A k \in 1 .. 1 : c[k] = <<id>>[k]
        /\ \A k \in 1 .. Len(a) : c[1 + k] = a[k]
    BY ONLY <1>3, <2>2, c = u[i].above DEF Joined
  <2>4. Len(a) \in Nat
    BY ONLY <2>1, LenProperties
  <2>5. ToSet(<<id>>) = {id}
    BY ONLY <1>3 DEF ToSet
  <2>6. c[1] = id /\ \A k \in 1 .. Len(a) : c[k + 1] = a[k]
    <3>1. \A k \in 1 .. Len(a) : 1 + k = k + 1
      BY ONLY <2>4
    <3>2. 1 \in 1 .. 1
      OBVIOUS
    <3>. QED  BY ONLY <1>3, <2>3, <3>1, <3>2
  <2>. QED  BY ONLY <2>3, <2>4, <2>5, <2>6, a = T[i].above, c = u[i].above
<1>11. ASSUME NEW i \in DOMAIN r, NEW j \in DOMAIN r, r[i].id = r[j].id PROVE i = j
  <2>1. \A k \in 1 .. n : r[k + 1].id = T[k].id /\ T[k].id \in I
    BY ONLY <1>6, <1>7
  <2>2. r[1].id = id /\ id \notin I
    BY <1>2, <1>7
  <2>3. \A k, l \in 1 .. n : T[k].id = T[l].id => k = l
    BY <1>1 DEF Shape
  <2>a. \A k \in 1 .. n + 1 : k # 1 => r[k].id # id
    BY ONLY <1>8, <2>1, <2>2
  <2>4. i = 1 <=> j = 1
    BY ONLY <1>7, <1>11, <2>a, <2>2
  <2>5. CASE i # 1
    <3>1. PICK k \in 1 .. n : i = k + 1
      BY <1>7, <1>8, <2>5
    <3>2. PICK l \in 1 .. n : j = l + 1
      BY <1>7, <1>8, <2>4, <2>5
    <3>3. k = l
      BY ONLY <1>11, <2>1, <2>3, <3>1, <3>2
    <3>. QED  BY <3>1, <3>2, <3>3
  <2>. QED  BY <2>4, <2>5
<1>12. ASSUME NEW i \in DOMAIN r PROVE Pre(r[i].above, Path(r, i - 1))
  <2>1. CASE i = 1
    <3>1. r[i].above = <<>> /\ Path(r, i - 1) = <<>>
      BY ONLY <1>2, <1>7, <2>1 DEF Path
    <3>. QED  BY ONLY <1>3, <3>1 DEF Pre
  <2>2. CASE i # 1
    <3>1. PICK j \in 1 .. n : i = j + 1
      BY <1>7, <1>8, <2>2
    <3>. PICK a : a = T[j].above
      OBVIOUS
    <3>. PICK c : c = r[i].above
      OBVIOUS
    <3>2. c = u[j].above
      BY <1>7, <3>1
    <3>3. /\ Len(c) = Len(a) + 1 /\ Len(a) \in Nat /\ c[1] = id
          /\ \A k \in 1 .. Len(a) : c[k + 1] = a[k]
      BY ONLY <1>10, <3>2, j \in 1 .. n, a = T[j].above
    <3>4. Pre(a, Path(T, j - 1))
      BY <1>1 DEF Shape
    <3>. PICK b : b = Path(T, j - 1)
      OBVIOUS
    <3>. PICK d : d = Path(r, i - 1)
      OBVIOUS
    <3>5. /\ Len(d) = Len(b) + 1 /\ Len(b) \in Nat /\ d[1] = id
          /\ \A k \in 1 .. Len(b) : d[k + 1] = b[k]
      <4>1. CASE j = 1
        <5>1. b = <<>>
          BY ONLY <4>1, b = Path(T, j - 1) DEF Path
        <5>2. i - 1 = 1
          BY <3>1, <4>1
        <5>3. d = Append(<<>>, id)
          <6>1. d = Append(r[1].above, r[1].id)
            BY ONLY <5>2, d = Path(r, i - 1) DEF Path
          <6>2. r[1].above = <<>> /\ r[1].id = id
            BY ONLY <1>2, <1>7
          <6>. QED  BY ONLY <6>1, <6>2
        <5>4. Append(<<>>, id) = <<id>>
          OBVIOUS
        <5>. QED  BY ONLY <1>3, <5>1, <5>3, <5>4
      <4>2. CASE j # 1
        <5>0. PICK l \in 1 .. n : l = j - 1 /\ l # 0 /\ i - 1 = l + 1 /\ i - 1 # 0
          BY <3>1, <4>2
        <5>1. b = Append(T[l].above, T[l].id)
          BY ONLY <5>0, b = Path(T, j - 1) DEF Path
        <5>2. d = Append(u[l].above, T[l].id)
          <6>1. d = Append(r[l + 1].above, r[l + 1].id)
            BY ONLY <5>0, d = Path(r, i - 1) DEF Path
          <6>. QED  BY ONLY <1>6, <1>7, <6>1, l \in 1 .. n
        <5>. PICK e : e = T[l].above
          OBVIOUS
        <5>. PICK f : f = u[l].above
          OBVIOUS
        <5>. PICK J : J = FolderIds \cup I
          OBVIOUS
        <5>3. e \in Seq(FolderIds) /\ T[l].id \in J /\ FolderIds \subseteq J
          BY <1>6
        <5>4. f \in Seq(FolderIds)
          <6>1. f = <<id>> \o e
            BY ONLY <1>6, l \in 1 .. n, e = T[l].above, f = u[l].above
          <6>. QED  BY ONLY <1>3, <5>3, <6>1, ConcatProperties
        <5>5. /\ Len(f) = Len(e) + 1 /\ Len(e) \in Nat /\ f[1] = id
              /\ \A k \in 1 .. Len(e) : f[k + 1] = e[k]
          BY ONLY <1>10, l \in 1 .. n, e = T[l].above, f = u[l].above
        <5>6. /\ Len(b) = Len(e) + 1 /\ b[Len(e) + 1] = T[l].id
              /\ \A k \in 1 .. Len(e) : b[k] = e[k]
          BY ONLY <5>1, <5>3, e = T[l].above, PrePath
        <5>7. /\ Len(d) = Len(f) + 1 /\ d[Len(f) + 1] = T[l].id
              /\ \A k \in 1 .. Len(f) : d[k] = f[k]
          BY ONLY <5>2, <5>3, <5>4, f = u[l].above, PrePath
        <5>8. 1 \in 1 .. Len(f) /\ \A k \in 1 .. Len(e) : k + 1 \in 1 .. Len(f)
          BY ONLY <5>5
        <5>9. \A k \in 1 .. Len(b) : k \in 1 .. Len(e) \/ k = Len(e) + 1
          BY ONLY <5>5, <5>6
        <5>. QED  BY ONLY <5>5, <5>6, <5>7, <5>8, <5>9
      <4>. QED  BY <4>1, <4>2
    <3>6. Len(a) <= Len(b) /\ \A k \in 1 .. Len(a) : a[k] = b[k] /\ k \in 1 .. Len(b)
      <4>1. Len(a) <= Len(b) /\ \A k \in 1 .. Len(a) : a[k] = b[k]
        BY ONLY <3>4, a = T[j].above, b = Path(T, j - 1) DEF Pre
      <4>. QED  BY ONLY <3>3, <3>5, <4>1
    <3>7. \A k \in 1 .. Len(c) : k = 1 \/ \E l \in 1 .. Len(a) : k = l + 1
      <4>. SUFFICES ASSUME NEW k \in 1 .. Len(c), k # 1 PROVE \E l \in 1 .. Len(a) : k = l + 1
        OBVIOUS
      <4>1. k - 1 \in 1 .. Len(a) /\ k = (k - 1) + 1
        BY <3>3
      <4>. QED  BY <4>1
    <3>8. \A k \in 1 .. Len(c) : c[k] = d[k]
      BY ONLY <3>3, <3>5, <3>6, <3>7
    <3>9. Len(c) <= Len(d)
      BY ONLY <3>3, <3>5, <3>6
    <3>. QED  BY ONLY <3>8, <3>9, c = r[i].above, d = Path(r, i - 1) DEF Pre
  <2>. QED  BY <2>1, <2>2
<1>13. ASSUME NEW i \in DOMAIN r, NEW k \in 1 .. Len(r[i].above) PROVE HasParent(r, i, k)
  <2>1. i # 1
    <3>. SUFFICES ASSUME i = 1 PROVE FALSE
      OBVIOUS
    <3>1. r[i].above = <<>>
      BY <1>2, <1>7
    <3>. QED  BY <1>3, <3>1
  <2>2. PICK j \in 1 .. n : i = j + 1
    BY <1>7, <1>8, <2>1
  <2>3. r[i].above = u[j].above
    BY <1>7, <2>2
  <2>. PICK a : a = T[j].above
    OBVIOUS
  <2>. PICK c : c = r[i].above
    OBVIOUS
  <2>4. /\ Len(c) = Len(a) + 1 /\ Len(a) \in Nat /\ c[1] = id
        /\ \A l \in 1 .. Len(a) : c[l + 1] = a[l]
    BY ONLY <1>10, <2>3, j \in 1 .. n, a = T[j].above, c = r[i].above
  <2>5. CASE k = 1
    <3>1. r[1].id = c[k] /\ r[1].above = <<>> /\ 1 \in DOMAIN r
      BY <1>2, <1>7, <2>4, <2>5
    <3>2. Len(r[1].above) = k - 1 /\ Pre(r[1].above, c)
      BY ONLY <1>3, <2>4, <2>5, <3>1 DEF Pre
    <3>. QED  BY ONLY <3>1, <3>2, c = r[i].above DEF HasParent
  <2>6. CASE k # 1
    <3>1. PICK l \in 1 .. Len(a) : k = l + 1
      <4>1. k - 1 \in 1 .. Len(a) /\ k = (k - 1) + 1
        BY <2>4, <2>6
      <4>. QED  BY <4>1
    <3>2. HasParent(T, j, l)
      BY <1>1 DEF Shape
    <3>3. PICK p \in 1 .. n : T[p].id = a[l] /\ Len(T[p].above) = l - 1 /\ Pre(T[p].above, a)
      BY ONLY <1>1, <3>2, a = T[j].above DEF HasParent
    <3>. PICK b : b = T[p].above
      OBVIOUS
    <3>. PICK d : d = r[p + 1].above
      OBVIOUS
    <3>4. r[p + 1].id = c[k] /\ d = u[p].above /\ p + 1 \in DOMAIN r
      BY Zenon, <1>6, <1>7, <1>9, <2>4, <3>1, <3>3
    <3>5. /\ Len(d) = Len(b) + 1 /\ Len(b) \in Nat /\ d[1] = id
          /\ \A q \in 1 .. Len(b) : d[q + 1] = b[q]
      BY ONLY <1>10, <3>4, p \in 1 .. n, b = T[p].above
    <3>6. Len(b) <= Len(a) /\ \A q \in 1 .. Len(b) : b[q] = a[q]
      BY ONLY <3>3, b = T[p].above DEF Pre
    <3>7. \A q \in 1 .. Len(b) : q \in 1 .. Len(a)
      BY ONLY <2>4, <3>5, <3>6
    <3>8. \A q \in 1 .. Len(d) : q = 1 \/ \E l_1 \in 1 .. Len(b) : q = l_1 + 1
      <4>. SUFFICES ASSUME NEW q \in 1 .. Len(d), q # 1 PROVE \E l_1 \in 1 .. Len(b) : q = l_1 + 1
        OBVIOUS
      <4>1. q - 1 \in 1 .. Len(b) /\ q = (q - 1) + 1
        BY ONLY <3>5, q \in 1 .. Len(d), q # 1
      <4>. QED  BY <4>1
    <3>9. \A q \in 1 .. Len(d) : d[q] = c[q]
      BY ONLY <2>4, <3>5, <3>6, <3>7, <3>8
    <3>10. Len(d) <= Len(c)
      BY ONLY <2>4, <3>5, <3>6
    <3>11. Pre(d, c)
      BY ONLY <3>9, <3>10 DEF Pre
    <3>12. Len(d) = k - 1
      BY ONLY <2>4, <3>1, <3>3, <3>5, b = T[p].above
    <3>. QED  BY ONLY <3>4, <3>11, <3>12, c = r[i].above, d = r[p + 1].above DEF HasParent
  <2>. QED  BY <2>5, <2>6
<1>14. Shape(r, K)
  BY ONLY <1>7, <1>11, <1>12, <1>13 DEF Shape
<1>15. ASSUME NEW x \in K PROVE \E i \in DOMAIN r : r[i].id = x
  <2>1. CASE x = id
    <3>1. 1 \in 1 .. n + 1
      OBVIOUS
    <3>2. r[1].id = x /\ 1 \in DOMAIN r
      BY ONLY <1>2, <1>7, <2>1, <3>1
    <3>. QED  BY ONLY <3>2
  <2>2. CASE x \in I
    <3>1. PICK i \in 1 .. n : T[i].id = x
      BY <1>1, <2>2 DEF Forest
    <3>2. u[i].id = T[i].id /\ r[i + 1] = u[i] /\ i + 1 \in DOMAIN r
      BY ONLY <1>6, <1>7, <1>9, i \in 1 .. n
    <3>3. r[i + 1].id = x
      BY ONLY <3>1, <3>2
    <3>. QED  BY ONLY <3>2, <3>3
  <2>. QED  BY <2>1, <2>2
<1>16. ASSUME NEW i \in DOMAIN r, r[i].id # TopFolder
       PROVE  r[i].count = Cardinality(SymbolsIn(r, i))
  <2>1. CASE i = 1
    <3>1. r[i].id = id /\ r[i].count = count /\ r[i].above = <<>>
      BY <1>2, <1>7, <2>1
    <3>2. ToSet(r[1].above) = {}
      BY ONLY <2>1, <3>1 DEF ToSet
    <3>3. \A j \in 1 .. n : j + 1 \in Beneath(r, i) /\ r[j + 1].id = T[j].id
      BY ONLY <1>6, <1>7, <1>9, <1>10, <3>1 DEF Beneath
    <3>4. \A j \in Beneath(r, i) : \E k \in 1 .. n : j = k + 1
      BY ONLY <1>7, <1>8, <3>1, <3>2 DEF Beneath
    <3>5. \A x : x \in {r[j].id : j \in Beneath(r, i)} <=> x \in I
      <4>1. \A x \in I : \E j \in 1 .. n : T[j].id = x
        BY <1>1 DEF Forest
      <4>2. \A j \in 1 .. n : T[j].id \in I
        BY <1>6
      <4>3. \A j \in Beneath(r, i) : r[j].id \in I
        BY ONLY <3>3, <3>4, <4>2
      <4>4. \A x \in I : \E j \in Beneath(r, i) : r[j].id = x
        BY ONLY <3>3, <4>1
      <4>. QED  BY ONLY <4>3, <4>4
    <3>6. SymbolsIn(r, i) = I \ FolderIds
      BY ONLY <3>5 DEF SymbolsIn
    <3>. QED  BY <1>16, <3>1, <3>6
  <2>2. CASE i # 1
    <3>0. PICK k \in 1 .. n : i = k + 1
      BY <1>7, <1>8, <2>2
    <3>1. r[i] = u[k] /\ r[i].id = T[k].id /\ r[i].count = T[k].count /\ T[k].id # id
      BY <1>6, <1>7, <3>0
    <3>2. T[k].count = Cardinality(SymbolsIn(T, k))
      BY ONLY <1>1, <1>16, <3>1, k \in 1 .. n, Forest(T, I) DEF Forest
    <3>3. \A x : x \in SymbolsIn(r, i) <=> x \in SymbolsIn(T, k)
      <4>1. ASSUME NEW j \in Beneath(r, i) PROVE \E l \in Beneath(T, k) : r[j].id = T[l].id
        <5>1. j \in 1 .. n + 1 /\ T[k].id \in ToSet(r[j].above)
          BY ONLY <1>7, <3>1, j \in Beneath(r, i) DEF Beneath
        <5>2. j # 1
          <6>. SUFFICES ASSUME j = 1 PROVE FALSE
            OBVIOUS
          <6>1. r[j].above = <<>>
            BY <1>2, <1>7
          <6>2. ToSet(r[j].above) = {}
            BY ONLY <6>1 DEF ToSet
          <6>. QED  BY <5>1, <6>2
        <5>3. PICK l \in 1 .. n : j = l + 1
          BY ONLY <1>8, <5>1, <5>2
        <5>4. r[j].id = T[l].id /\ T[k].id \in ToSet(T[l].above)
          <6>1. r[j] = u[l] /\ u[l].id = T[l].id
            BY ONLY <1>6, <1>7, <5>3
          <6>2. ToSet(u[l].above) = ToSet(T[l].above) \cup {id}
            BY <1>10
          <6>. QED  BY ONLY <3>1, <5>1, <6>1, <6>2
        <5>5. l \in Beneath(T, k)
          BY ONLY <1>1, <5>4, l \in 1 .. n DEF Beneath
        <5>. QED  BY ONLY <5>4, <5>5
      <4>2. ASSUME NEW j \in Beneath(T, k) PROVE j + 1 \in Beneath(r, i) /\ r[j + 1].id = T[j].id
        <5>1. j \in 1 .. n /\ T[k].id \in ToSet(T[j].above)
          BY ONLY <1>1, j \in Beneath(T, k) DEF Beneath
        <5>. QED  BY ONLY <1>6, <1>7, <1>9, <1>10, <3>1, <5>1 DEF Beneath
      <4>. QED  BY ONLY <4>1, <4>2 DEF SymbolsIn
    <3>4. SymbolsIn(r, i) = SymbolsIn(T, k)
      BY ONLY <3>3
    <3>. QED  BY ONLY <3>1, <3>2, <3>4
  <2>. QED  BY <2>1, <2>2
<1>17. Forest(r, K)
  BY ONLY <1>14, <1>15, <1>16 DEF Forest
<1>. QED  BY ONLY <1>17, K = I \cup {id}, r = Under(Node(id, count, says), T)

LEMMA JoinGrove ==
    ASSUME NEW A, NEW F, NEW S, Grove(A, F, S), NEW B, NEW G, NEW U, Grove(B, G, U),
           F \cap G = {}, S \cap U = {}
    PROVE  Grove(A \o B, F \cup G, S \cup U)
<1>1. F \subseteq FolderIds /\ G \subseteq FolderIds /\ S \cap FolderIds = {} /\ U \cap FolderIds = {}
  BY DEF Grove
<1>2. (F \cup S) \cap (G \cup U) = {}
  BY <1>1
<1>3. (F \cup S) \cup (G \cup U) = (F \cup G) \cup (S \cup U)
  OBVIOUS
<1>4. Forest(A, F \cup S) /\ Forest(B, G \cup U)
  BY DEF Grove
<1>5. Forest(A \o B, (F \cup S) \cup (G \cup U))
  BY ONLY <1>2, <1>4, JoinForest
<1>6. F \cup G \subseteq FolderIds /\ (S \cup U) \cap FolderIds = {}
  BY <1>1
<1>. QED  BY ONLY <1>3, <1>5, <1>6 DEF Grove

LEMMA UnderGrove ==
    ASSUME NEW T, NEW F, NEW S, Grove(T, F, S), NEW id \in FolderIds \ F, NEW count \in Nat,
           id = TopFolder \/ count = Cardinality(S)
    PROVE  Grove(Under(Node(id, count, ""), T), F \cup {id}, S)
<1>1. F \subseteq FolderIds /\ S \cap FolderIds = {} /\ Forest(T, F \cup S)
  BY DEF Grove
<1>. PICK I : I = F \cup S
  OBVIOUS
<1>2. id \in FolderIds \ I /\ I \ FolderIds = S /\ "" \in Says
  <2>1. \A x \in S : x \notin FolderIds
    BY <1>1
  <2>2. I \ FolderIds = S
    BY ONLY <1>1, <2>1, I = F \cup S
  <2>3. id \in FolderIds /\ id \notin F
    OBVIOUS
  <2>4. "" \in Says
    BY DEF Says
  <2>. QED  BY ONLY <2>1, <2>2, <2>3, <2>4, I = F \cup S
<1>3. id = TopFolder \/ count = Cardinality(I \ FolderIds)
  BY <1>2
<1>4. Forest(Under(Node(id, count, ""), T), I \cup {id})
  BY ONLY <1>1, <1>2, <1>3, I = F \cup S, count \in Nat, UnderForest
<1>5. I \cup {id} = (F \cup {id}) \cup S /\ F \cup {id} \subseteq FolderIds
  BY <1>1
<1>. QED  BY ONLY <1>1, <1>4, <1>5 DEF Grove

LEMMA FolderGrove ==
    ASSUME NEW T, NEW F, NEW S, Grove(T, F, S), NEW name \in FolderNames, <<"folder", name>> \notin F,
           NEW count \in Nat, name = "functions" \/ count = Cardinality(S)
    PROVE  Grove(Folder(name, count, T), F \cup {<<"folder", name>>}, S)
<1>1. <<"folder", name>> \in FolderIds \ F
  BY DEF FolderIds
<1>2. <<"folder", name>> = TopFolder \/ count = Cardinality(S)
  BY DEF TopFolder
<1>3. Grove(Under(Node(<<"folder", name>>, count, ""), T), F \cup {<<"folder", name>>}, S)
  BY ONLY <1>1, <1>2, Grove(T, F, S), count \in Nat, UnderGrove
<1>. QED  BY ONLY <1>3 DEF Folder

\* Many trees, one after another.
Many(ss, N, F, S) ==
    /\ \A i \in 1 .. N : Grove(ss[i], F[i], S[i])
    /\ \A i, j \in 1 .. N : i # j => F[i] \cap F[j] = {} /\ S[i] \cap S[j] = {}

LEMMA FlatGrove ==
    ASSUME NEW N \in Nat, NEW ss, DOMAIN ss = 1 .. N, ss = [i \in 1 .. N |-> ss[i]],
           NEW F, NEW S, Many(ss, N, F, S)
    PROVE  Grove(FlattenSeq(ss), UNION {F[i] : i \in 1 .. N}, UNION {S[i] : i \in 1 .. N})
<1>. PICK I : I = FolderIds \cup UNION {S[i] : i \in 1 .. N}
  OBVIOUS
<1>. PICK D : D = Seq(NodeOf(I))
  OBVIOUS
<1>1. \A i \in 1 .. N : ss[i] \in D
  <2>. SUFFICES ASSUME NEW i \in 1 .. N PROVE ss[i] \in D
    OBVIOUS
  <2>1. Grove(ss[i], F[i], S[i])
    BY DEF Many
  <2>2. Shape(ss[i], F[i] \cup S[i]) /\ F[i] \subseteq FolderIds
    BY ONLY <2>1 DEF Grove, Forest
  <2>3. F[i] \cup S[i] \subseteq I
    BY <2>2
  <2>4. Shape(ss[i], I)
    BY ONLY <2>2, <2>3, ShapeWider
  <2>. QED  BY <2>4 DEF Shape
<1>2. ss \in Seq(D) /\ Len(ss) = N
  <2>1. ss \in [1 .. N -> D]
    BY <1>1
  <2>. QED  BY ONLY <2>1, N \in Nat
<1>3. PICK h : Builds(h, ss, D) /\ FlattenSeq(ss) = h[N]
  <2>1. \E h : Builds(h, ss, Seq(NodeOf(I))) /\ FlattenSeq(ss) = h[Len(ss)]
    BY ONLY <1>2, D = Seq(NodeOf(I)), FlatBuilds
  <2>. QED  BY ONLY <1>2, <2>1, D = Seq(NodeOf(I))
<1>4. /\ h[0] = <<>>
      /\ \A i \in 1 .. N : h[i] = h[i - 1] \o ss[i]
  BY ONLY <1>2, <1>3 DEF Builds
<1>. DEFINE Fs(n) == UNION {F[i] : i \in 1 .. n}
            Ss(n) == UNION {S[i] : i \in 1 .. n}
            T == {n \in 0 .. N : Grove(h[n], Fs(n), Ss(n))}
<1>5. 0 \in T
  <2>1. Fs(0) = {} /\ Ss(0) = {} /\ 0 \in 0 .. N
    OBVIOUS
  <2>. HIDE DEF Fs, Ss
  <2>2. Grove(h[0], Fs(0), Ss(0))
    BY ONLY <1>4, <2>1, EmptyGrove
  <2>. QED  BY ONLY <2>1, <2>2 DEF T
<1>6. ASSUME NEW n \in 1 .. N, n - 1 \in T PROVE n \in T
  <2>1. \A i : i \in 1 .. n <=> i \in 1 .. n - 1 \/ i = n
    OBVIOUS
  <2>2. Fs(n) = Fs(n - 1) \cup F[n] /\ Ss(n) = Ss(n - 1) \cup S[n]
    BY <2>1
  <2>3. \A i \in 1 .. n - 1 : i \in 1 .. N /\ i # n
    OBVIOUS
  <2>4. Fs(n - 1) \cap F[n] = {} /\ Ss(n - 1) \cap S[n] = {}
    <3>1. \A i \in 1 .. n - 1 : F[i] \cap F[n] = {} /\ S[i] \cap S[n] = {}
      BY <2>3 DEF Many
    <3>. QED  BY <3>1
  <2>5. Grove(h[n - 1], Fs(n - 1), Ss(n - 1))
    BY <1>6
  <2>6. Grove(ss[n], F[n], S[n])
    BY DEF Many
  <2>7. h[n] = h[n - 1] \o ss[n] /\ n \in 0 .. N
    BY <1>4
  <2>. HIDE DEF Fs, Ss
  <2>8. Grove(h[n], Fs(n), Ss(n))
    BY ONLY <2>2, <2>4, <2>5, <2>6, <2>7, JoinGrove
  <2>. QED  BY ONLY <2>7, <2>8 DEF T
<1>7. T \in SUBSET (0 .. N)
  OBVIOUS
<1>8. N \in 0 .. N
  OBVIOUS
<1>. HIDE DEF Fs, Ss
<1>9. N \in T
  <2>. HIDE DEF T
  <2>1. \A i \in 0 .. N : i \in T
    BY ONLY <1>5, <1>6, <1>7, N \in Nat, UpTo
  <2>. QED  BY ONLY <1>8, <2>1
<1>10. Grove(h[N], Fs(N), Ss(N))
  BY ONLY <1>9 DEF T
<1>. QED  BY ONLY <1>3, <1>10 DEF Fs, Ss

Fn == [va : Vas, score : Nat, stub : BOOLEAN]
Imp == [slot : Nat, library : Nat, callers : Nat]
Str == [address : Nat, runtime : BOOLEAN]


LEMMA FnLeavesGrove ==
    ASSUME NEW s \in Seq(Fn), Once(s), \A f, g \in ToSet(s) : f.va = g.va => f = g,
           NEW T, T = [i \in DOMAIN s |-> Leaf("fn", s[i].va, "")],
           NEW S, S = {<<"fn", f.va>> : f \in ToSet(s)}
    PROVE  Grove(T, {}, S) /\ Cardinality(S) = Len(s)
<1>. PICK key : key = [f \in Fn |-> f.va]
  OBVIOUS
<1>. PICK says : says = [f \in Fn |-> ""]
  OBVIOUS
<1>1. \A i \in DOMAIN s : s[i] \in Fn
  BY ElementOfSeq, LenProperties
<1>2. \A f \in ToSet(s) : f \in Fn /\ key[f] = f.va /\ says[f] = "" /\ says[f] \in Says
  <2>1. \A f \in ToSet(s) : f \in Fn
    BY <1>1 DEF ToSet
  <2>2. "" \in Says
    BY DEF Says
  <2>. QED  BY ONLY <2>1, <2>2, key = [f \in Fn |-> f.va], says = [f \in Fn |-> ""]
<1>3. T = [i \in DOMAIN s |-> Leaf("fn", key[s[i]], says[s[i]])]
  BY <1>1
<1>4. S = {<<"fn", key[f]>> : f \in ToSet(s)}
  BY Zenon, <1>2
<1>5. \A x, y \in ToSet(s) : key[x] = key[y] => x = y
  BY <1>2
<1>6. "fn" \in Kinds /\ \A x \in ToSet(s) : says[x] \in Says
  BY <1>2 DEF Kinds
<1>. QED  BY ONLY <1>3, <1>4, <1>5, <1>6, s \in Seq(Fn), Once(s), LeafGrove

LEMMA StrLeavesGrove ==
    ASSUME NEW s \in Seq(Str), Once(s), \A f, g \in ToSet(s) : f.address = g.address => f = g,
           NEW T, T = [i \in DOMAIN s |-> Leaf("str", s[i].address, "")],
           NEW S, S = {<<"str", f.address>> : f \in ToSet(s)}
    PROVE  Grove(T, {}, S) /\ Cardinality(S) = Len(s)
<1>. PICK key : key = [f \in Str |-> f.address]
  OBVIOUS
<1>. PICK says : says = [f \in Str |-> ""]
  OBVIOUS
<1>1. \A i \in DOMAIN s : s[i] \in Str
  BY ElementOfSeq, LenProperties
<1>2. \A f \in ToSet(s) : f \in Str /\ key[f] = f.address /\ says[f] = "" /\ says[f] \in Says
  <2>1. \A f \in ToSet(s) : f \in Str
    BY <1>1 DEF ToSet
  <2>2. "" \in Says
    BY DEF Says
  <2>. QED  BY ONLY <2>1, <2>2, key = [f \in Str |-> f.address], says = [f \in Str |-> ""]
<1>3. T = [i \in DOMAIN s |-> Leaf("str", key[s[i]], says[s[i]])]
  BY <1>1
<1>4. S = {<<"str", key[f]>> : f \in ToSet(s)}
  BY Zenon, <1>2
<1>5. \A x, y \in ToSet(s) : key[x] = key[y] => x = y
  BY <1>2
<1>6. "str" \in Kinds /\ \A x \in ToSet(s) : says[x] \in Says
  BY <1>2 DEF Kinds
<1>. QED  BY ONLY <1>3, <1>4, <1>5, <1>6, s \in Seq(Str), Once(s), LeafGrove

LEMMA ImpLeavesGrove ==
    ASSUME NEW doc, NEW s \in Seq(Imp), Once(s), \A f, g \in ToSet(s) : f.slot = g.slot => f = g,
           NEW T, T = [i \in DOMAIN s |-> Leaf("imp", s[i].slot, Callers(doc, s[i]))],
           NEW S, S = {<<"imp", f.slot>> : f \in ToSet(s)}
    PROVE  Grove(T, {}, S) /\ Cardinality(S) = Len(s)
<1>. PICK key : key = [f \in Imp |-> f.slot]
  OBVIOUS
<1>. PICK says : says = [f \in Imp |-> Callers(doc, f)]
  OBVIOUS
<1>1. \A i \in DOMAIN s : s[i] \in Imp
  BY ElementOfSeq, LenProperties
<1>2. \A f \in ToSet(s) : f \in Imp /\ key[f] = f.slot /\ says[f] = Callers(doc, f) /\ says[f] \in Says
  <2>1. \A f \in ToSet(s) : f \in Imp
    BY <1>1 DEF ToSet
  <2>2. \A f \in Imp : Callers(doc, f) \in Says
    BY DEF Callers, Says
  <2>. QED  BY ONLY <2>1, <2>2, key = [f \in Imp |-> f.slot], says = [f \in Imp |-> Callers(doc, f)]
<1>3. T = [i \in DOMAIN s |-> Leaf("imp", key[s[i]], says[s[i]])]
  BY <1>1
<1>4. S = {<<"imp", key[f]>> : f \in ToSet(s)}
  BY <1>2
<1>5. \A x, y \in ToSet(s) : key[x] = key[y] => x = y
  BY <1>2
<1>6. "imp" \in Kinds /\ \A x \in ToSet(s) : says[x] \in Says
  BY <1>2 DEF Kinds
<1>. QED  BY ONLY <1>3, <1>4, <1>5, <1>6, s \in Seq(Imp), Once(s), LeafGrove

\* What a document does not promise: each import has a slot, each section a
\* name, of its own.
NamedApart(doc) ==
    /\ \A i, j \in DOMAIN doc.imports : doc.imports[i].slot = doc.imports[j].slot => i = j
    /\ Once(doc.sections)

\* A part of a list of different things is one.
LEMMA Part ==
    ASSUME NEW D, NEW s \in Seq(D), NEW S, NEW r, r = Keep(s, S)
    PROVE  r \in Seq(D) /\ ToSet(r) = ToSet(s) \cap S /\ (Once(s) => Once(r)) /\ Len(r) \in Nat
<1>1. Filtered(D, r, s, S)
  BY KeepFacts
<1>2. r \in Seq(D) /\ ToSet(r) = ToSet(s) \cap S /\ (Once(s) => Once(r))
  BY ONLY <1>1 DEF Filtered
<1>. QED  BY ONLY <1>2, LenProperties

FnFolders == {<<"folder", n>> : n \in {"functions", "fn-interesting", "fn-rest", "fn-thunks"}}

LEMMA FunctionGrove ==
    ASSUME NEW doc \in Document,
           \A i, j \in DOMAIN doc.functions : doc.functions[i].va = doc.functions[j].va => i = j
    PROVE  Grove(FunctionFolder(doc), FnFolders, {<<"fn", f.va>> : f \in ToSet(doc.functions)})
<1>. PICK s : s = doc.functions
  OBVIOUS
<1>. PICK all : all = ToSet(s)
  OBVIOUS
<1>1. s \in Seq(Fn) /\ DOMAIN s = 1 .. Len(s) /\ \A i \in DOMAIN s : s[i] \in Fn
  <2>1. s \in Seq(Fn)
    BY DEF Document, Fn
  <2>. QED  BY <2>1, SeqFacts
<1>2. Once(s) /\ (\A f, g \in all : f.va = g.va => f = g) /\ (\A f \in all : f \in Fn)
  <2>1. \A f \in all : \E i \in DOMAIN s : f = s[i]
    BY DEF ToSet
  <2>2. \A i, j \in DOMAIN s : s[i].va = s[j].va => i = j
    OBVIOUS
  <2>. QED  BY ONLY <1>1, <2>1, <2>2 DEF Once
<1>3. \A f \in all : f.score \in Nat /\ f.stub \in BOOLEAN
  BY <1>2 DEF Fn
<1>. PICK real : real = Keep(s, {f \in all : ~f.stub})
  OBVIOUS
<1>. PICK thunks : thunks = Keep(s, {f \in all : f.stub})
  OBVIOUS
<1>. PICK int : int = Keep(real, {f \in all : f.score >= WorthReview})
  OBVIOUS
<1>. PICK rest : rest = Keep(real, {f \in all : f.score < WorthReview})
  OBVIOUS
<1>. PICK sorted : sorted = Descending(int, [i \in DOMAIN int |-> int[i].score])
  OBVIOUS
<1>4. real \in Seq(Fn) /\ ToSet(real) = {f \in all : ~f.stub} /\ Once(real) /\ Len(real) \in Nat
  <2>1. real \in Seq(Fn) /\ ToSet(real) = all \cap {f \in all : ~f.stub} /\ Once(real) /\ Len(real) \in Nat
    BY ONLY <1>1, <1>2, all = ToSet(s), real = Keep(s, {f \in all : ~f.stub}), Part
  <2>. QED  BY ONLY <2>1
<1>5. thunks \in Seq(Fn) /\ ToSet(thunks) = {f \in all : f.stub} /\ Once(thunks) /\ Len(thunks) \in Nat
  <2>1. thunks \in Seq(Fn) /\ ToSet(thunks) = all \cap {f \in all : f.stub} /\ Once(thunks) /\ Len(thunks) \in Nat
    BY ONLY <1>1, <1>2, all = ToSet(s), thunks = Keep(s, {f \in all : f.stub}), Part
  <2>. QED  BY ONLY <2>1
<1>6. int \in Seq(Fn) /\ ToSet(int) = ToSet(real) \cap {f \in all : f.score >= WorthReview} /\ Once(int)
      /\ Len(int) \in Nat
  BY ONLY <1>4, int = Keep(real, {f \in all : f.score >= WorthReview}), Part
<1>7. rest \in Seq(Fn) /\ ToSet(rest) = ToSet(real) \cap {f \in all : f.score < WorthReview} /\ Once(rest)
      /\ Len(rest) \in Nat
  BY ONLY <1>4, rest = Keep(real, {f \in all : f.score < WorthReview}), Part
<1>8. sorted \in Seq(Fn) /\ ToSet(sorted) = ToSet(int) /\ Once(sorted) /\ Len(sorted) = Len(int)
  <2>1. \A i \in DOMAIN int : int[i].score \in Nat
    <3>1. \A i \in DOMAIN int : int[i] \in Fn
      BY ONLY <1>6, SeqFacts
    <3>. QED  BY ONLY <3>1 DEF Fn
  <2>. PICK w : w = [i \in DOMAIN int |-> int[i].score]
    OBVIOUS
  <2>2. \A i \in DOMAIN int : w[i] \in Nat
    BY <2>1
  <2>3. Ranked(Fn, sorted, int, w)
    BY ONLY <1>6, <2>2, sorted = Descending(int, [i \in DOMAIN int |-> int[i].score]),
       w = [i \in DOMAIN int |-> int[i].score], DescendingFacts
  <2>. QED  BY ONLY <1>6, <2>3 DEF Ranked
<1>9. /\ \A f \in ToSet(sorted) : f \in all /\ ~f.stub /\ f.score >= WorthReview
      /\ \A f \in ToSet(rest) : f \in all /\ ~f.stub /\ f.score < WorthReview
      /\ \A f \in ToSet(thunks) : f \in all /\ f.stub
      /\ \A f \in all : f \in ToSet(sorted) \/ f \in ToSet(rest) \/ f \in ToSet(thunks)
      /\ \A f \in all : ~ (f.score >= WorthReview /\ f.score < WorthReview)
  <2>1. \A f \in all : f.score >= WorthReview <=> ~ (f.score < WorthReview)
    BY <1>3 DEF WorthReview
  <2>. QED  BY ONLY <1>4, <1>5, <1>6, <1>7, <1>8, <2>1
<1>. PICK S1 : S1 = {<<"fn", f.va>> : f \in ToSet(sorted)}
  OBVIOUS
<1>. PICK S2 : S2 = {<<"fn", f.va>> : f \in ToSet(rest)}
  OBVIOUS
<1>. PICK S3 : S3 = {<<"fn", f.va>> : f \in ToSet(thunks)}
  OBVIOUS
<1>10. S1 \cap S2 = {} /\ S1 \cap S3 = {} /\ S2 \cap S3 = {}
  <2>1. \A x \in S1, y \in S2 : x # y
    BY ONLY <1>2, <1>9, S1 = {<<"fn", f.va>> : f \in ToSet(sorted)},
            S2 = {<<"fn", f.va>> : f \in ToSet(rest)}
  <2>2. \A x \in S1, y \in S3 : x # y
    BY ONLY <1>2, <1>9, S1 = {<<"fn", f.va>> : f \in ToSet(sorted)},
            S3 = {<<"fn", f.va>> : f \in ToSet(thunks)}
  <2>3. \A x \in S2, y \in S3 : x # y
    BY ONLY <1>2, <1>9, S2 = {<<"fn", f.va>> : f \in ToSet(rest)},
            S3 = {<<"fn", f.va>> : f \in ToSet(thunks)}
  <2>. QED  BY ONLY <2>1, <2>2, <2>3
<1>11. (S1 \cup S2) \cup S3 = {<<"fn", f.va>> : f \in all}
  BY ONLY <1>9, S1 = {<<"fn", f.va>> : f \in ToSet(sorted)}, S2 = {<<"fn", f.va>> : f \in ToSet(rest)},
     S3 = {<<"fn", f.va>> : f \in ToSet(thunks)}
<1>. DEFINE FnLeaves(q) == [i \in DOMAIN q |-> Leaf("fn", q[i].va, "")]
<1>12. /\ Grove(FnLeaves(sorted), {}, S1) /\ Cardinality(S1) = Len(sorted)
       /\ Grove(FnLeaves(rest), {}, S2) /\ Cardinality(S2) = Len(rest)
       /\ Grove(FnLeaves(thunks), {}, S3) /\ Cardinality(S3) = Len(thunks)
  <2>1. \A f, g \in ToSet(sorted) : f.va = g.va => f = g
    BY ONLY <1>2, <1>9
  <2>2. \A f, g \in ToSet(rest) : f.va = g.va => f = g
    BY ONLY <1>2, <1>9
  <2>3. \A f, g \in ToSet(thunks) : f.va = g.va => f = g
    BY ONLY <1>2, <1>9
  <2>4. Grove(FnLeaves(sorted), {}, S1) /\ Cardinality(S1) = Len(sorted)
    BY ONLY Zenon, <1>8, <2>1, S1 = {<<"fn", f.va>> : f \in ToSet(sorted)}, FnLeavesGrove
  <2>5. Grove(FnLeaves(rest), {}, S2) /\ Cardinality(S2) = Len(rest)
    BY ONLY <1>7, <2>2, S2 = {<<"fn", f.va>> : f \in ToSet(rest)}, FnLeavesGrove
  <2>6. Grove(FnLeaves(thunks), {}, S3) /\ Cardinality(S3) = Len(thunks)
    BY ONLY Zenon, <1>5, <2>3, S3 = {<<"fn", f.va>> : f \in ToSet(thunks)}, FnLeavesGrove
  <2>. QED  BY <2>4, <2>5, <2>6
<1>13. FunctionFolder(doc) =
         Folder("functions", Len(real),
                (Folder("fn-interesting", Len(int), FnLeaves(sorted))
                 \o Folder("fn-rest", Len(rest), FnLeaves(rest)))
                \o Folder("fn-thunks", Len(thunks), FnLeaves(thunks)))
  BY DEF FunctionFolder
<1>. PICK A : A = FnLeaves(sorted)
  BY Zenon
<1>. PICK B : B = FnLeaves(rest)
  BY Zenon
<1>. PICK C : C = FnLeaves(thunks)
  BY Zenon
<1>14. /\ Grove(A, {}, S1) /\ Grove(B, {}, S2) /\ Grove(C, {}, S3)
       /\ FunctionFolder(doc) =
            Folder("functions", Len(real),
                   (Folder("fn-interesting", Len(int), A) \o Folder("fn-rest", Len(rest), B))
                   \o Folder("fn-thunks", Len(thunks), C))
  BY ONLY Zenon, <1>12, <1>13, A = FnLeaves(sorted), B = FnLeaves(rest), C = FnLeaves(thunks)
<1>. HIDE DEF FnLeaves
<1>. PICK A1 : A1 = Folder("fn-interesting", Len(int), A)
  OBVIOUS
<1>. PICK B1 : B1 = Folder("fn-rest", Len(rest), B)
  OBVIOUS
<1>. PICK C1 : C1 = Folder("fn-thunks", Len(thunks), C)
  OBVIOUS
<1>n. /\ "fn-interesting" \in FolderNames /\ "fn-rest" \in FolderNames /\ "fn-thunks" \in FolderNames
      /\ "functions" \in FolderNames
  BY DEF FolderNames
<1>15. Grove(A1, {<<"folder", "fn-interesting">>}, S1)
  <2>1. Grove(A1, {} \cup {<<"folder", "fn-interesting">>}, S1)
    BY ONLY <1>6, <1>8, <1>12, <1>14, <1>n, A1 = Folder("fn-interesting", Len(int), A), FolderGrove
  <2>2. {} \cup {<<"folder", "fn-interesting">>} = {<<"folder", "fn-interesting">>}
    OBVIOUS
  <2>. QED  BY ONLY <2>1, <2>2
<1>16. Grove(B1, {<<"folder", "fn-rest">>}, S2)
  <2>1. Grove(B1, {} \cup {<<"folder", "fn-rest">>}, S2)
    BY ONLY <1>7, <1>12, <1>14, <1>n, B1 = Folder("fn-rest", Len(rest), B), FolderGrove
  <2>2. {} \cup {<<"folder", "fn-rest">>} = {<<"folder", "fn-rest">>}
    OBVIOUS
  <2>. QED  BY ONLY <2>1, <2>2
<1>17. Grove(C1, {<<"folder", "fn-thunks">>}, S3)
  <2>1. Grove(C1, {} \cup {<<"folder", "fn-thunks">>}, S3)
    BY ONLY <1>5, <1>12, <1>14, <1>n, C1 = Folder("fn-thunks", Len(thunks), C), FolderGrove
  <2>2. {} \cup {<<"folder", "fn-thunks">>} = {<<"folder", "fn-thunks">>}
    OBVIOUS
  <2>. QED  BY ONLY <2>1, <2>2
<1>18. Grove(A1 \o B1, {<<"folder", "fn-interesting">>, <<"folder", "fn-rest">>}, S1 \cup S2)
  <2>1. {<<"folder", "fn-interesting">>} \cap {<<"folder", "fn-rest">>} = {}
    OBVIOUS
  <2>2. Grove(A1 \o B1, {<<"folder", "fn-interesting">>} \cup {<<"folder", "fn-rest">>}, S1 \cup S2)
    BY ONLY <1>10, <1>15, <1>16, <2>1, JoinGrove
  <2>3. {<<"folder", "fn-interesting">>} \cup {<<"folder", "fn-rest">>}
          = {<<"folder", "fn-interesting">>, <<"folder", "fn-rest">>}
    OBVIOUS
  <2>. QED  BY ONLY <2>2, <2>3
<1>. PICK F : F = {<<"folder", "fn-interesting">>, <<"folder", "fn-rest">>} \cup {<<"folder", "fn-thunks">>}
  OBVIOUS
<1>19. Grove((A1 \o B1) \o C1, F, (S1 \cup S2) \cup S3)
  <2>1. {<<"folder", "fn-interesting">>, <<"folder", "fn-rest">>} \cap {<<"folder", "fn-thunks">>} = {}
    OBVIOUS
  <2>2. (S1 \cup S2) \cap S3 = {}
    BY Zenon, <1>10
  <2>. QED  BY ONLY <1>17, <1>18, <2>1, <2>2, JoinGrove,
               F = {<<"folder", "fn-interesting">>, <<"folder", "fn-rest">>} \cup {<<"folder", "fn-thunks">>}
<1>20. <<"folder", "functions">> \notin F /\ F \cup {<<"folder", "functions">>} = FnFolders
  BY ONLY F = {<<"folder", "fn-interesting">>, <<"folder", "fn-rest">>} \cup {<<"folder", "fn-thunks">>} DEF FnFolders
<1>21. Grove(Folder("functions", Len(real), (A1 \o B1) \o C1), F \cup {<<"folder", "functions">>},
             (S1 \cup S2) \cup S3)
  BY ONLY <1>4, <1>19, <1>20, <1>n, FolderGrove
<1>22. FunctionFolder(doc) = Folder("functions", Len(real), (A1 \o B1) \o C1)
  BY ONLY <1>14, A1 = Folder("fn-interesting", Len(int), A), B1 = Folder("fn-rest", Len(rest), B),
     C1 = Folder("fn-thunks", Len(thunks), C)
<1>. QED  BY ONLY <1>11, <1>20, <1>21, <1>22, all = ToSet(s), s = doc.functions

StrFolders == {<<"folder", n>> : n \in {"strings", "str-own", "str-runtime"}}

LEMMA StringGrove ==
    ASSUME NEW doc \in Document,
           \A i, j \in DOMAIN doc.strings : doc.strings[i].address = doc.strings[j].address => i = j
    PROVE  \E F : /\ F \subseteq StrFolders
                  /\ Grove(StringFolder(doc), F, {<<"str", t.address>> : t \in ToSet(doc.strings)})
<1>. PICK s : s = doc.strings
  OBVIOUS
<1>. PICK all : all = ToSet(s)
  OBVIOUS
<1>1. s \in Seq(Str) /\ DOMAIN s = 1 .. Len(s) /\ Len(s) \in Nat /\ \A i \in DOMAIN s : s[i] \in Str
  <2>1. s \in Seq(Str)
    BY DEF Document, Str
  <2>. QED  BY <2>1, SeqFacts
<1>2. Once(s) /\ (\A f, g \in all : f.address = g.address => f = g) /\ (\A f \in all : f \in Str)
  <2>1. \A f \in all : \E i \in DOMAIN s : f = s[i]
    BY DEF ToSet
  <2>2. \A i, j \in DOMAIN s : s[i].address = s[j].address => i = j
    OBVIOUS
  <2>. QED  BY ONLY <1>1, <2>1, <2>2 DEF Once
<1>. PICK own : own = Keep(s, {f \in all : ~f.runtime})
  OBVIOUS
<1>. PICK late : late = Keep(s, {f \in all : f.runtime})
  OBVIOUS
<1>4. own \in Seq(Str) /\ ToSet(own) = {f \in all : ~f.runtime} /\ Once(own) /\ Len(own) \in Nat
  <2>1. own \in Seq(Str) /\ ToSet(own) = all \cap {f \in all : ~f.runtime} /\ Once(own) /\ Len(own) \in Nat
    BY ONLY <1>1, <1>2, all = ToSet(s), own = Keep(s, {f \in all : ~f.runtime}), Part
  <2>. QED  BY ONLY <2>1
<1>5. late \in Seq(Str) /\ ToSet(late) = {f \in all : f.runtime} /\ Once(late) /\ Len(late) \in Nat
  <2>1. late \in Seq(Str) /\ ToSet(late) = all \cap {f \in all : f.runtime} /\ Once(late) /\ Len(late) \in Nat
    BY ONLY <1>1, <1>2, all = ToSet(s), late = Keep(s, {f \in all : f.runtime}), Part
  <2>. QED  BY ONLY <2>1
<1>. PICK S1 : S1 = {<<"str", f.address>> : f \in ToSet(own)}
  OBVIOUS
<1>. PICK S2 : S2 = {<<"str", f.address>> : f \in ToSet(late)}
  OBVIOUS
<1>. PICK S : S = {<<"str", f.address>> : f \in all}
  OBVIOUS
<1>6. S1 \cap S2 = {}
  <2>1. \A x \in S1, y \in S2 : x # y
    BY ONLY <1>2, <1>4, <1>5, S1 = {<<"str", f.address>> : f \in ToSet(own)},
       S2 = {<<"str", f.address>> : f \in ToSet(late)}
  <2>. QED  BY ONLY <2>1
<1>7. S1 \cup S2 = S
  BY ONLY <1>4, <1>5, S1 = {<<"str", f.address>> : f \in ToSet(own)},
     S2 = {<<"str", f.address>> : f \in ToSet(late)}, S = {<<"str", f.address>> : f \in all}
<1>. DEFINE StrLeaves(q) == [i \in DOMAIN q |-> Leaf("str", q[i].address, "")]
<1>8. /\ Grove(StrLeaves(own), {}, S1) /\ Cardinality(S1) = Len(own)
      /\ Grove(StrLeaves(late), {}, S2) /\ Cardinality(S2) = Len(late)
      /\ Cardinality(S) = Len(s)
  <2>1. \A f, g \in ToSet(own) : f.address = g.address => f = g
    BY ONLY <1>2, <1>4
  <2>2. \A f, g \in ToSet(late) : f.address = g.address => f = g
    BY ONLY <1>2, <1>5
  <2>3. Grove(StrLeaves(own), {}, S1) /\ Cardinality(S1) = Len(own)
    BY ONLY <1>4, <2>1, S1 = {<<"str", f.address>> : f \in ToSet(own)}, StrLeavesGrove
  <2>4. Grove(StrLeaves(late), {}, S2) /\ Cardinality(S2) = Len(late)
    BY ONLY <1>5, <2>2, S2 = {<<"str", f.address>> : f \in ToSet(late)}, StrLeavesGrove
  <2>5. Grove(StrLeaves(s), {}, S) /\ Cardinality(S) = Len(s)
    BY ONLY <1>1, <1>2, all = ToSet(s), S = {<<"str", f.address>> : f \in all}, StrLeavesGrove
  <2>. QED  BY <2>3, <2>4, <2>5
<1>9. StringFolder(doc) =
        Folder("strings", Len(s),
               IF late = <<>> THEN StrLeaves(own)
               ELSE Folder("str-own", Len(own), StrLeaves(own))
                    \o Folder("str-runtime", Len(late), StrLeaves(late)))
  BY DEF StringFolder
<1>. PICK A : A = StrLeaves(own)
  OBVIOUS
<1>. PICK B : B = StrLeaves(late)
  OBVIOUS
<1>10. /\ Grove(A, {}, S1) /\ Grove(B, {}, S2)
       /\ StringFolder(doc) =
            Folder("strings", Len(s),
                   IF late = <<>> THEN A
                   ELSE Folder("str-own", Len(own), A) \o Folder("str-runtime", Len(late), B))
  BY ONLY <1>8, <1>9, A = StrLeaves(own), B = StrLeaves(late)
<1>. HIDE DEF StrLeaves
<1>n. "strings" \in FolderNames /\ "str-own" \in FolderNames /\ "str-runtime" \in FolderNames
  BY DEF FolderNames
<1>11. \E F \in SUBSET StrFolders : Grove(StringFolder(doc), F, S)
  <2>1. CASE late = <<>>
    <3>1. ToSet(late) = {}
      BY <2>1 DEF ToSet
    <3>2. S1 = S
      BY ONLY <1>7, <3>1, S2 = {<<"str", f.address>> : f \in ToSet(late)}
    <3>3. <<"folder", "strings">> \notin {} /\ Cardinality(S1) = Len(s)
      BY <1>8, <3>2
    <3>4. Grove(Folder("strings", Len(s), A), {} \cup {<<"folder", "strings">>}, S1)
      BY ONLY <1>1, <1>10, <1>n, <3>3, FolderGrove
    <3>5. {} \cup {<<"folder", "strings">>} \in SUBSET StrFolders
      BY DEF StrFolders
    <3>6. StringFolder(doc) = Folder("strings", Len(s), A)
      BY ONLY <1>10, <2>1
    <3>. QED  BY ONLY <3>2, <3>4, <3>5, <3>6
  <2>2. CASE late # <<>>
    <3>. PICK A1 : A1 = Folder("str-own", Len(own), A)
      OBVIOUS
    <3>. PICK B1 : B1 = Folder("str-runtime", Len(late), B)
      OBVIOUS
    <3>1. Grove(A1, {} \cup {<<"folder", "str-own">>}, S1)
      BY ONLY <1>4, <1>8, <1>10, <1>n, A1 = Folder("str-own", Len(own), A), FolderGrove
    <3>2. Grove(B1, {} \cup {<<"folder", "str-runtime">>}, S2)
      BY ONLY <1>5, <1>8, <1>10, <1>n, B1 = Folder("str-runtime", Len(late), B), FolderGrove
    <3>. PICK F : F = ({} \cup {<<"folder", "str-own">>}) \cup ({} \cup {<<"folder", "str-runtime">>})
      OBVIOUS
    <3>3. ({} \cup {<<"folder", "str-own">>}) \cap ({} \cup {<<"folder", "str-runtime">>}) = {}
      OBVIOUS
    <3>4. Grove(A1 \o B1, F, S1 \cup S2)
      BY ONLY <1>6, <3>1, <3>2, <3>3, JoinGrove,
         F = ({} \cup {<<"folder", "str-own">>}) \cup ({} \cup {<<"folder", "str-runtime">>})
    <3>5. <<"folder", "strings">> \notin F /\ F \cup {<<"folder", "strings">>} \in SUBSET StrFolders
      BY ONLY F = ({} \cup {<<"folder", "str-own">>}) \cup ({} \cup {<<"folder", "str-runtime">>})
              DEF StrFolders
    <3>6. Cardinality(S1 \cup S2) = Len(s)
      BY <1>7, <1>8
    <3>7. Grove(Folder("strings", Len(s), A1 \o B1), F \cup {<<"folder", "strings">>}, S1 \cup S2)
      BY ONLY <1>1, <1>n, <3>4, <3>5, <3>6, FolderGrove
    <3>8. StringFolder(doc) = Folder("strings", Len(s), A1 \o B1)
      BY ONLY <1>10, <2>2, A1 = Folder("str-own", Len(own), A), B1 = Folder("str-runtime", Len(late), B)
    <3>. QED  BY ONLY <1>7, <3>5, <3>7, <3>8
  <2>. QED  BY <2>1, <2>2
<1>. QED  BY ONLY <1>11, all = ToSet(s), s = doc.strings, S = {<<"str", f.address>> : f \in all}

LEMMA SectionGrove ==
    ASSUME NEW doc \in Document, Once(doc.sections)
    PROVE  Grove(SectionFolder(doc), {<<"folder", "sections">>}, {<<"sect", name>> : name \in ToSet(doc.sections)})
<1>. PICK s : s = doc.sections
  OBVIOUS
<1>1. s \in Seq(STRING) /\ Len(s) \in Nat /\ Once(s) /\ \A i \in DOMAIN s : s[i] \in STRING
  <2>1. s \in Seq(STRING)
    BY DEF Document
  <2>. QED  BY <2>1, SeqFacts
<1>. PICK key : key = [x \in STRING |-> x]
  OBVIOUS
<1>. PICK says : says = [x \in STRING |-> ""]
  OBVIOUS
<1>2. \A x \in ToSet(s) : key[x] = x /\ says[x] = "" /\ says[x] \in Says
  <2>1. \A x \in ToSet(s) : x \in STRING
    BY <1>1 DEF ToSet
  <2>2. "" \in Says
    BY DEF Says
  <2>. QED  BY ONLY <2>1, <2>2, key = [x \in STRING |-> x], says = [x \in STRING |-> ""]
<1>. PICK T : T = [i \in DOMAIN s |-> Leaf("sect", key[s[i]], says[s[i]])]
  OBVIOUS
<1>3. T = [i \in DOMAIN doc.sections |-> Leaf("sect", doc.sections[i], "")]
  BY <1>1
<1>. PICK S : S = {<<"sect", key[x]>> : x \in ToSet(s)}
  OBVIOUS
<1>4. Grove(T, {}, S) /\ Cardinality(S) = Len(s)
  <2>1. "sect" \in Kinds
    BY DEF Kinds
  <2>2. (\A x, y \in ToSet(s) : key[x] = key[y] => x = y) /\ \A x \in ToSet(s) : says[x] \in Says
    BY ONLY <1>2
  <2>. QED  BY ONLY <1>1, <2>1, <2>2, T = [i \in DOMAIN s |-> Leaf("sect", key[s[i]], says[s[i]])],
               S = {<<"sect", key[x]>> : x \in ToSet(s)}, LeafGrove
<1>5. S = {<<"sect", name>> : name \in ToSet(doc.sections)}
  BY ONLY <1>2, s = doc.sections, S = {<<"sect", key[x]>> : x \in ToSet(s)}
<1>6. "sections" \in FolderNames /\ <<"folder", "sections">> \notin {}
  BY DEF FolderNames
<1>7. Grove(Folder("sections", Len(s), T), {} \cup {<<"folder", "sections">>}, S)
  BY ONLY <1>1, <1>4, <1>6, FolderGrove
<1>8. SectionFolder(doc) = Folder("sections", Len(s), T)
  BY ONLY <1>3, s = doc.sections DEF SectionFolder
<1>9. {} \cup {<<"folder", "sections">>} = {<<"folder", "sections">>}
  OBVIOUS
<1>. QED  BY ONLY <1>5, <1>7, <1>8, <1>9

ImpFolders == {<<"folder", "imports">>} \cup ({"library"} \X Nat)

LEMMA ImportGrove ==
    ASSUME NEW doc \in Document,
           \A i, j \in DOMAIN doc.imports : doc.imports[i].slot = doc.imports[j].slot => i = j
    PROVE  \E F : /\ F \subseteq ImpFolders
                  /\ Grove(ImportFolder(doc), F, {<<"imp", i.slot>> : i \in ToSet(doc.imports)})
<1>. PICK s : s = doc.imports
  OBVIOUS
<1>. PICK all : all = ToSet(s)
  OBVIOUS
<1>1. s \in Seq(Imp) /\ DOMAIN s = 1 .. Len(s) /\ Len(s) \in Nat /\ \A i \in DOMAIN s : s[i] \in Imp
  <2>1. s \in Seq(Imp)
    BY DEF Document, Imp
  <2>. QED  BY <2>1, SeqFacts
<1>2. Once(s) /\ (\A f, g \in all : f.slot = g.slot => f = g) /\ (\A f \in all : f \in Imp)
  <2>1. \A f \in all : \E i \in DOMAIN s : f = s[i]
    BY DEF ToSet
  <2>2. \A i, j \in DOMAIN s : s[i].slot = s[j].slot => i = j
    OBVIOUS
  <2>. QED  BY ONLY <1>1, <2>1, <2>2 DEF Once
<1>. PICK S : S = {<<"imp", i.slot>> : i \in all}
  OBVIOUS
<1>3. Cardinality(S) = Len(s)
  <2>. PICK T : T = [i \in DOMAIN s |-> Leaf("imp", s[i].slot, Callers(doc, s[i]))]
    OBVIOUS
  <2>. QED  BY ONLY <1>1, <1>2, all = ToSet(s), S = {<<"imp", i.slot>> : i \in all},
               T = [i \in DOMAIN s |-> Leaf("imp", s[i].slot, Callers(doc, s[i]))], ImpLeavesGrove
<1>. PICK L : L = {i.library : i \in all}
  OBVIOUS
<1>4. L \in SUBSET Nat /\ IsFiniteSet(L)
  <2>1. L \in SUBSET Nat
    BY <1>2 DEF Imp
  <2>. PICK g : g = [i \in 1 .. Len(s) |-> s[i].library]
    OBVIOUS
  <2>2. IsFiniteSet(1 .. Len(s))
    BY ONLY <1>1, FS_Interval
  <2>3. \A i \in 1 .. Len(s) : s[i] \in all /\ s[i].library \in L
    <3>1. \A i \in 1 .. Len(s) : s[i] \in all
      BY <1>1 DEF ToSet
    <3>. QED  BY <3>1
  <2>4. \A l \in L : \E i \in 1 .. Len(s) : g[i] = l
    <3>. SUFFICES ASSUME NEW l \in L PROVE \E i \in 1 .. Len(s) : g[i] = l
      OBVIOUS
    <3>1. PICK x \in all : x.library = l
      OBVIOUS
    <3>2. PICK i \in 1 .. Len(s) : s[i] = x
      BY <1>1 DEF ToSet
    <3>. QED  BY <3>1, <3>2
  <2>5. g \in Surjection(1 .. Len(s), L)
    BY ONLY <2>3, <2>4, g = [i \in 1 .. Len(s) |-> s[i].library] DEF Surjection
  <2>. QED  BY ONLY <2>1, <2>2, <2>5, FS_Surjection
<1>. PICK q : q = ListOf(L)
  OBVIOUS
<1>. PICK N \in Nat : N = Cardinality(L)
  BY <1>4, ListFacts
<1>5. Ascending(q, L)
  BY <1>4, ListFacts
<1>6. /\ DOMAIN q = 1 .. N /\ \A i \in 1 .. N : q[i] \in L /\ q[i] \in Nat
      /\ \A i, j \in 1 .. N : q[i] = q[j] => i = j
      /\ \A l \in L : \E i \in 1 .. N : q[i] = l
  <2>1. /\ q \in Seq(L) /\ Len(q) = N /\ DOMAIN q = 1 .. N
        /\ \A i, j \in 1 .. N : i < j => q[i] < q[j]
        /\ \A x \in L : \E i \in 1 .. N : q[i] = x
    BY ONLY <1>5, N = Cardinality(L) DEF Ascending
  <2>2. \A i \in 1 .. N : q[i] \in L
    BY ONLY <2>1, ElementOfSeq
  <2>3. \A i \in 1 .. N : q[i] \in Nat /\ i \in Nat
    <3>1. \A l \in L : l \in Nat
      BY <1>4
    <3>. QED  BY ONLY <2>2, <3>1, N \in Nat
  <2>4. \A i, j \in 1 .. N : q[i] = q[j] => i = j
    <3>. SUFFICES ASSUME NEW i \in 1 .. N, NEW j \in 1 .. N, q[i] = q[j], i # j PROVE FALSE
      OBVIOUS
    <3>1. i < j \/ j < i
      OBVIOUS
    <3>2. q[i] < q[j] \/ q[j] < q[i]
      BY ONLY <2>1, <3>1, i \in 1 .. N, j \in 1 .. N
    <3>. QED  BY ONLY <2>3, <3>2, q[i] = q[j], i \in 1 .. N, j \in 1 .. N
  <2>. QED  BY ONLY <2>1, <2>2, <2>3, <2>4
<1>. PICK of : of = [i \in 1 .. N |-> Keep(s, {x \in all : x.library = q[i]})]
  OBVIOUS
<1>. PICK T : T = [i \in 1 .. N |-> [k \in DOMAIN of[i] |-> Leaf("imp", of[i][k].slot, Callers(doc, of[i][k]))]]
  OBVIOUS
<1>. PICK ss : ss = [i \in 1 .. N |-> Under(Node(<<"library", q[i]>>, Len(of[i]), ""), T[i])]
  OBVIOUS
<1>. PICK Fs : Fs = [i \in 1 .. N |-> {<<"library", q[i]>>}]
  BY Zenon
<1>. PICK Ss : Ss = [i \in 1 .. N |-> {<<"imp", x.slot>> : x \in {x \in all : x.library = q[i]}}]
  OBVIOUS
<1>7. ImportFolder(doc) = Folder("imports", Len(s), FlattenSeq(ss))
  <2>. DEFINE Of(l) == Keep(s, {i \in all : i.library = l})
              Library(l) == Under(Node(<<"library", l>>, Len(Of(l)), ""),
                                  [i \in DOMAIN Of(l) |-> Leaf("imp", Of(l)[i].slot, Callers(doc, Of(l)[i]))])
  <2>1. ImportFolder(doc) = Folder("imports", Len(s), FlattenSeq([i \in DOMAIN q |-> Library(q[i])]))
    BY Zenon DEF ImportFolder
  <2>2. \A i \in 1 .. N : of[i] = Of(q[i])
    BY Zenon
  <2>3. \A i \in 1 .. N : T[i] = [k \in DOMAIN Of(q[i]) |-> Leaf("imp", Of(q[i])[k].slot, Callers(doc, Of(q[i])[k]))]
    <3>. HIDE DEF Of
    <3>. QED  BY Zenon, <2>2
  <2>4. \A i \in 1 .. N : ss[i] = Library(q[i])
    <3>. HIDE DEF Of
    <3>. QED  BY Zenon, <2>2, <2>3
  <2>. HIDE DEF Library
  <2>5. [i \in DOMAIN q |-> Library(q[i])] = ss
    <3>1. ss = [i \in 1 .. N |-> ss[i]]
      BY Zenon
    <3>. QED  BY ONLY <1>6, <2>4, <3>1
  <2>. QED  BY ONLY <2>1, <2>5
<1>8. ASSUME NEW i \in 1 .. N PROVE Grove(ss[i], Fs[i], Ss[i])
  <2>. PICK all1 : all1 = {x \in all : x.library = q[i]}
    BY Zenon
  <2>. PICK r : r = of[i]
    OBVIOUS
  <2>1. r \in Seq(Imp) /\ ToSet(r) = all1 /\ Once(r) /\ Len(r) \in Nat
    <3>1. r = Keep(s, all1)
      BY Zenon
    <3>2. r \in Seq(Imp) /\ ToSet(r) = all \cap all1 /\ Once(r) /\ Len(r) \in Nat
      BY ONLY <1>1, <1>2, <3>1, all = ToSet(s), Part
    <3>3. all \cap all1 = all1
      BY Zenon
    <3>. QED  BY ONLY <3>2, <3>3
  <2>2. \A f, g \in ToSet(r) : f.slot = g.slot => f = g
    <3>1. \A f \in ToSet(r) : f \in all
      BY Zenon, <2>1
    <3>. QED  BY ONLY <1>2, <3>1
  <2>. PICK t : t = T[i]
    BY Zenon
  <2>3. t = [k \in DOMAIN r |-> Leaf("imp", r[k].slot, Callers(doc, r[k]))]
    BY Zenon
  <2>4. Ss[i] = {<<"imp", f.slot>> : f \in ToSet(r)}
    BY Zenon, <2>1
  <2>. PICK U : U = Ss[i]
    BY Zenon
  <2>5. Grove(t, {}, U) /\ Cardinality(U) = Len(r)
    BY ONLY <2>1, <2>2, <2>3, <2>4, U = Ss[i], ImpLeavesGrove
  <2>6. <<"library", q[i]>> \in FolderIds \ {}
    BY Zenon, <1>6 DEF FolderIds
  <2>. PICK id : id = <<"library", q[i]>>
    OBVIOUS
  <2>7. Grove(Under(Node(id, Len(r), ""), t), {} \cup {id}, U)
    BY ONLY Zenon, <2>1, <2>5, <2>6, id = <<"library", q[i]>>, UnderGrove
  <2>8. ss[i] = Under(Node(id, Len(r), ""), t) /\ Fs[i] = {id} /\ {} \cup {id} = {id}
    OBVIOUS
  <2>. QED  BY ONLY Zenon, <2>7, <2>8, U = Ss[i]
<1>9. ASSUME NEW i \in 1 .. N, NEW j \in 1 .. N, i # j
      PROVE  Fs[i] \cap Fs[j] = {} /\ Ss[i] \cap Ss[j] = {}
  <2>1. q[i] # q[j]
    BY ONLY <1>6, <1>9
  <2>a. Fs[i] = {<<"library", q[i]>>} /\ Fs[j] = {<<"library", q[j]>>}
    BY ONLY i \in 1 .. N, j \in 1 .. N, Fs = [k \in 1 .. N |-> {<<"library", q[k]>>}]
  <2>2. Fs[i] \cap Fs[j] = {}
    BY ONLY <2>1, <2>a
  <2>3. \A x \in Ss[i], y \in Ss[j] : x # y
    <3>. SUFFICES ASSUME NEW x \in Ss[i], NEW y \in Ss[j], x = y PROVE FALSE
      BY Zenon
    <3>1. PICK f \in all : f.library = q[i] /\ x = <<"imp", f.slot>>
      BY Zenon
    <3>2. PICK g \in all : g.library = q[j] /\ y = <<"imp", g.slot>>
      OBVIOUS
    <3>3. f.slot = g.slot
      BY ONLY <3>1, <3>2, x = y
    <3>. QED  BY ONLY <1>2, <2>1, <3>1, <3>2, <3>3
  <2>. QED  BY ONLY <2>2, <2>3
<1>10. Many(ss, N, Fs, Ss)
  BY ONLY <1>8, <1>9 DEF Many
<1>. PICK F : F = UNION {Fs[i] : i \in 1 .. N}
  BY Zenon
<1>. PICK R : R = FlattenSeq(ss)
  OBVIOUS
<1>11. UNION {Ss[i] : i \in 1 .. N} = S
  <2>1. ASSUME NEW i \in 1 .. N, NEW x \in Ss[i] PROVE x \in S
    BY Zenon
  <2>2. ASSUME NEW x \in S PROVE \E i \in 1 .. N : x \in Ss[i]
    <3>1. PICK f \in all : x = <<"imp", f.slot>>
      BY Zenon
    <3>2. f.library \in L
      BY Zenon
    <3>3. PICK i \in 1 .. N : q[i] = f.library
      BY Zenon, <1>6, <3>2
    <3>4. Ss[i] = {<<"imp", y.slot>> : y \in {y \in all : y.library = q[i]}}
      BY Zenon
    <3>5. f \in {y \in all : y.library = q[i]}
      BY Zenon, <3>3
    <3>. QED  BY ONLY <3>1, <3>4, <3>5
  <2>. QED  BY ONLY <2>1, <2>2
<1>12. Grove(R, F, S)
  <2>1. DOMAIN ss = 1 .. N /\ ss = [i \in 1 .. N |-> ss[i]]
    OBVIOUS
  <2>. QED  BY ONLY <1>10, <1>11, <2>1, N \in Nat, F = UNION {Fs[i] : i \in 1 .. N},
                    R = FlattenSeq(ss), FlatGrove
<1>13. F \subseteq {"library"} \X Nat
  <2>1. \A i \in 1 .. N : Fs[i] \subseteq {"library"} \X Nat
    <3>. SUFFICES ASSUME NEW i \in 1 .. N PROVE Fs[i] \subseteq {"library"} \X Nat
      OBVIOUS
    <3>1. Fs[i] = {<<"library", q[i]>>} /\ q[i] \in Nat
      BY ONLY <1>6, i \in 1 .. N, Fs = [k \in 1 .. N |-> {<<"library", q[k]>>}]
    <3>. QED  BY ONLY <3>1
  <2>. QED  BY ONLY <2>1, F = UNION {Fs[i] : i \in 1 .. N}
<1>14. <<"folder", "imports">> \notin F /\ F \cup {<<"folder", "imports">>} \subseteq ImpFolders
  <2>1. <<"folder", "imports">> \notin {"library"} \X Nat
    BY Zenon
  <2>. QED  BY ONLY <1>13, <2>1 DEF ImpFolders
<1>15. "imports" \in FolderNames
  BY DEF FolderNames
<1>16. Grove(Folder("imports", Len(s), R), F \cup {<<"folder", "imports">>}, S)
  BY ONLY <1>1, <1>3, <1>12, <1>14, <1>15, FolderGrove
<1>. QED  BY ONLY <1>7, <1>14, <1>16, R = FlattenSeq(ss), all = ToSet(s), s = doc.imports,
             S = {<<"imp", i.slot>> : i \in all}

LEMMA TreeGrove ==
    ASSUME TreeAssumption, NEW s \in DOMAIN Documents, NamedApart(Documents[s])
    PROVE  \E F : Grove(BuildTree(Documents[s]), F, Symbols(Documents[s]))
<1>. PICK doc : doc = Documents[s]
  OBVIOUS
<1>1. /\ doc \in Document
      /\ ~doc.image => doc.imports = <<>> /\ doc.sections = <<>>
      /\ \A i, j \in DOMAIN doc.functions : doc.functions[i].va = doc.functions[j].va => i = j
      /\ \A i, j \in DOMAIN doc.strings : doc.strings[i].address = doc.strings[j].address => i = j
  BY Zenon DEF TreeAssumption
<1>2. /\ \A i, j \in DOMAIN doc.imports : doc.imports[i].slot = doc.imports[j].slot => i = j
      /\ Once(doc.sections)
  BY DEF NamedApart
<1>. PICK S1 : S1 = {<<"fn", f.va>> : f \in ToSet(doc.functions)}
  OBVIOUS
<1>. PICK S2 : S2 = {<<"imp", i.slot>> : i \in ToSet(doc.imports)}
  OBVIOUS
<1>. PICK S3 : S3 = {<<"str", t.address>> : t \in ToSet(doc.strings)}
  OBVIOUS
<1>. PICK S4 : S4 = {<<"sect", name>> : name \in ToSet(doc.sections)}
  OBVIOUS
<1>. PICK A : A = FunctionFolder(doc)
  OBVIOUS
<1>. PICK B : B = IF doc.imports # <<>> THEN ImportFolder(doc) ELSE <<>>
  OBVIOUS
<1>. PICK C : C = IF doc.strings # <<>> THEN StringFolder(doc) ELSE <<>>
  OBVIOUS
<1>. PICK D : D = IF doc.image THEN SectionFolder(doc) ELSE <<>>
  OBVIOUS
<1>3. Grove(A, FnFolders, S1)
  BY ONLY <1>1, A = FunctionFolder(doc), S1 = {<<"fn", f.va>> : f \in ToSet(doc.functions)},
          FunctionGrove
<1>4. \E F \in SUBSET ImpFolders : Grove(B, F, S2)
  <2>1. CASE doc.imports # <<>>
    <3>1. \E F : F \subseteq ImpFolders /\ Grove(ImportFolder(doc), F, S2)
      BY ONLY <1>1, <1>2, S2 = {<<"imp", i.slot>> : i \in ToSet(doc.imports)}, ImportGrove
    <3>. QED  BY ONLY <2>1, <3>1, B = IF doc.imports # <<>> THEN ImportFolder(doc) ELSE <<>>
  <2>2. CASE doc.imports = <<>>
    <3>1. ToSet(doc.imports) = {}
      BY ONLY <2>2 DEF ToSet
    <3>2. S2 = {} /\ B = <<>>
      BY ONLY <2>2, <3>1, B = IF doc.imports # <<>> THEN ImportFolder(doc) ELSE <<>>,
         S2 = {<<"imp", i.slot>> : i \in ToSet(doc.imports)}
    <3>3. Grove(B, {}, S2)
      BY ONLY <3>2, EmptyGrove
    <3>. QED  BY ONLY <3>3
  <2>. QED  BY <2>1, <2>2
<1>5. \E F \in SUBSET StrFolders : Grove(C, F, S3)
  <2>1. CASE doc.strings # <<>>
    <3>1. \E F : F \subseteq StrFolders /\ Grove(StringFolder(doc), F, S3)
      BY ONLY <1>1, S3 = {<<"str", t.address>> : t \in ToSet(doc.strings)}, StringGrove
    <3>. QED  BY ONLY <2>1, <3>1, C = IF doc.strings # <<>> THEN StringFolder(doc) ELSE <<>>
  <2>2. CASE doc.strings = <<>>
    <3>1. ToSet(doc.strings) = {}
      BY ONLY <2>2 DEF ToSet
    <3>2. S3 = {} /\ C = <<>>
      BY ONLY <2>2, <3>1, C = IF doc.strings # <<>> THEN StringFolder(doc) ELSE <<>>,
         S3 = {<<"str", t.address>> : t \in ToSet(doc.strings)}
    <3>3. Grove(C, {}, S3)
      BY ONLY <3>2, EmptyGrove
    <3>. QED  BY ONLY <3>3
  <2>. QED  BY <2>1, <2>2
<1>6. \E F \in SUBSET {<<"folder", "sections">>} : Grove(D, F, S4)
  <2>1. CASE doc.image
    <3>1. Grove(SectionFolder(doc), {<<"folder", "sections">>}, S4)
      BY ONLY <1>1, <1>2, S4 = {<<"sect", name>> : name \in ToSet(doc.sections)}, SectionGrove
    <3>. QED  BY ONLY <2>1, <3>1, D = IF doc.image THEN SectionFolder(doc) ELSE <<>>
  <2>2. CASE ~doc.image
    <3>1. doc.sections = <<>>
      BY ONLY <1>1, <2>2
    <3>2. ToSet(doc.sections) = {}
      BY ONLY <3>1 DEF ToSet
    <3>3. S4 = {} /\ D = <<>>
      BY ONLY <2>2, <3>2, D = IF doc.image THEN SectionFolder(doc) ELSE <<>>,
         S4 = {<<"sect", name>> : name \in ToSet(doc.sections)}
    <3>4. Grove(D, {}, S4)
      BY ONLY <3>3, EmptyGrove
    <3>. QED  BY ONLY <3>4
  <2>. QED  BY <2>1, <2>2
<1>. PICK F2 \in SUBSET ImpFolders : Grove(B, F2, S2)
  BY Zenon, <1>4
<1>. PICK F3 \in SUBSET StrFolders : Grove(C, F3, S3)
  BY <1>5
<1>. PICK F4 \in SUBSET {<<"folder", "sections">>} : Grove(D, F4, S4)
  BY <1>6
<1>7. /\ FnFolders \cap ImpFolders = {} /\ FnFolders \cap StrFolders = {} /\ ImpFolders \cap StrFolders = {}
      /\ <<"folder", "sections">> \notin FnFolders /\ <<"folder", "sections">> \notin ImpFolders
      /\ <<"folder", "sections">> \notin StrFolders
  <2>1. /\ \A x \in FnFolders : x[1] = "folder" /\ x[2] \in {"functions", "fn-interesting", "fn-rest", "fn-thunks"}
        /\ \A x \in StrFolders : x[1] = "folder" /\ x[2] \in {"strings", "str-own", "str-runtime"}
        /\ \A x \in ImpFolders : x[1] = "library" \/ x = <<"folder", "imports">>
    <3>1. \A x \in FnFolders : x[1] = "folder" /\ x[2] \in {"functions", "fn-interesting", "fn-rest", "fn-thunks"}
      <4>1. ASSUME NEW x \in FnFolders
            PROVE  x[1] = "folder" /\ x[2] \in {"functions", "fn-interesting", "fn-rest", "fn-thunks"}
        <5>1. PICK n \in {"functions", "fn-interesting", "fn-rest", "fn-thunks"} : x = <<"folder", n>>
          BY DEF FnFolders
        <5>. QED  BY ONLY <5>1
      <4>. QED  BY <4>1
    <3>2. \A x \in StrFolders : x[1] = "folder" /\ x[2] \in {"strings", "str-own", "str-runtime"}
      <4>1. ASSUME NEW x \in StrFolders
            PROVE  x[1] = "folder" /\ x[2] \in {"strings", "str-own", "str-runtime"}
        <5>1. PICK n \in {"strings", "str-own", "str-runtime"} : x = <<"folder", n>>
          BY DEF StrFolders
        <5>. QED  BY ONLY <5>1
      <4>. QED  BY <4>1
    <3>3. \A x \in ImpFolders : x[1] = "library" \/ x = <<"folder", "imports">>
      BY DEF ImpFolders
    <3>. QED  BY ONLY <3>1, <3>2, <3>3
  <2>. QED  BY ONLY <2>1
<1>8. /\ \A x \in S1 : x[1] = "fn"
      /\ \A x \in S2 : x[1] = "imp"
      /\ \A x \in S3 : x[1] = "str"
      /\ \A x \in S4 : x[1] = "sect"
  <2>1. \A k, v : LET x == <<k, v>> IN x[1] = k
    OBVIOUS
  <2>2. \A x \in S1 : x[1] = "fn"
    BY ONLY <2>1, S1 = {<<"fn", f.va>> : f \in ToSet(doc.functions)}
  <2>3. \A x \in S2 : x[1] = "imp"
    BY ONLY <2>1, S2 = {<<"imp", i.slot>> : i \in ToSet(doc.imports)}
  <2>4. \A x \in S3 : x[1] = "str"
    BY ONLY <2>1, S3 = {<<"str", t.address>> : t \in ToSet(doc.strings)}
  <2>5. \A x \in S4 : x[1] = "sect"
    BY ONLY <2>1, S4 = {<<"sect", name>> : name \in ToSet(doc.sections)}
  <2>. QED  BY ONLY <2>2, <2>3, <2>4, <2>5
<1>9. S1 \cap S2 = {} /\ (S1 \cup S2) \cap S3 = {} /\ ((S1 \cup S2) \cup S3) \cap S4 = {}
  BY ONLY <1>8
<1>10. FnFolders \cap F2 = {} /\ (FnFolders \cup F2) \cap F3 = {} /\ ((FnFolders \cup F2) \cup F3) \cap F4 = {}
  BY ONLY <1>7, F2 \in SUBSET ImpFolders, F3 \in SUBSET StrFolders,
          F4 \in SUBSET {<<"folder", "sections">>}
<1>11. Grove(A \o B, FnFolders \cup F2, S1 \cup S2)
  BY ONLY <1>3, <1>9, <1>10, Grove(B, F2, S2), JoinGrove
<1>12. Grove((A \o B) \o C, (FnFolders \cup F2) \cup F3, (S1 \cup S2) \cup S3)
  BY ONLY <1>11, <1>9, <1>10, Grove(C, F3, S3), JoinGrove
<1>13. Grove(((A \o B) \o C) \o D, ((FnFolders \cup F2) \cup F3) \cup F4, ((S1 \cup S2) \cup S3) \cup S4)
  BY ONLY <1>12, <1>9, <1>10, Grove(D, F4, S4), JoinGrove
<1>14. BuildTree(doc) = ((A \o B) \o C) \o D
  BY ONLY A = FunctionFolder(doc), B = IF doc.imports # <<>> THEN ImportFolder(doc) ELSE <<>>,
     C = IF doc.strings # <<>> THEN StringFolder(doc) ELSE <<>>,
     D = IF doc.image THEN SectionFolder(doc) ELSE <<>> DEF BuildTree
<1>15. Symbols(doc) = ((S1 \cup S2) \cup S3) \cup S4
  BY ONLY S1 = {<<"fn", f.va>> : f \in ToSet(doc.functions)},
          S2 = {<<"imp", i.slot>> : i \in ToSet(doc.imports)},
     S3 = {<<"str", t.address>> : t \in ToSet(doc.strings)},
     S4 = {<<"sect", name>> : name \in ToSet(doc.sections)} DEF Symbols
<1>. QED  BY ONLY <1>13, <1>14, <1>15, doc = Documents[s]

LEMMA OrderedRows ==
    ASSUME NEW I, FolderIds \subseteq I, NEW R, Shape(R, I)
    PROVE  /\ Cardinality(Ids(R)) = Len(R)
           /\ \A i \in DOMAIN R :
                 IF i = 1 THEN R[i].above = <<>>
                 ELSE IsPrefix(R[i].above, Append(R[i - 1].above, R[i - 1].id))
<1>1. DOMAIN R = 1 .. Len(R) /\ Len(R) \in Nat /\ \A i \in DOMAIN R : R[i].id \in I
  BY ShapeFacts
<1>. PICK n : n = Len(R)
  OBVIOUS
<1>2. Cardinality(Ids(R)) = n
  <2>. PICK q : q = [i \in 1 .. n |-> R[i].id]
    OBVIOUS
  <2>1. q \in Seq(I) /\ Len(q) = n /\ DOMAIN q = 1 .. n
    <3>1. q \in [1 .. n -> I]
      BY <1>1
    <3>. QED  BY ONLY <1>1, <3>1, n = Len(R)
  <2>2. \A i \in 1 .. n : q[i] = R[i].id
    OBVIOUS
  <2>3. Once(q)
    <3>1. \A i, j \in 1 .. n : R[i].id = R[j].id => i = j
      BY <1>1 DEF Shape
    <3>. QED  BY ONLY <2>1, <2>2, <3>1 DEF Once
  <2>4. ToSet(q) = Ids(R)
    BY ONLY <1>1, <2>1, <2>2, n = Len(R) DEF ToSet, Ids
  <2>. QED  BY ONLY <2>1, <2>3, <2>4, OnceCount
<1>3. ASSUME NEW i \in DOMAIN R
      PROVE  IF i = 1 THEN R[i].above = <<>>
             ELSE IsPrefix(R[i].above, Append(R[i - 1].above, R[i - 1].id))
  <2>. PICK a : a = R[i].above
    OBVIOUS
  <2>1. Pre(a, Path(R, i - 1)) /\ a \in Seq(FolderIds)
    <3>1. a \in Seq(FolderIds)
      BY ShapeFacts
    <3>. QED  BY <3>1 DEF Shape
  <2>2. CASE i = 1
    <3>1. Path(R, i - 1) = <<>>
      BY ONLY <2>2 DEF Path
    <3>2. Len(a) = 0
      BY ONLY <2>1, <3>1, LenProperties DEF Pre
    <3>3. a = <<>>
      BY ONLY <2>1, <3>2, EmptySeq
    <3>. QED  BY ONLY <2>2, <3>3, a = R[i].above
  <2>3. CASE i # 1
    <3>. PICK l \in DOMAIN R : l = i - 1 /\ l # 0
      BY <1>1, <2>3
    <3>1. Path(R, i - 1) = Append(R[l].above, R[l].id)
      BY ONLY l = i - 1, l # 0 DEF Path
    <3>2. R[l].above \in Seq(FolderIds) /\ R[l].id \in I
      BY ShapeFacts
    <3>. PICK b : b = R[l].above
      OBVIOUS
    <3>. PICK c : c = Append(b, R[l].id)
      OBVIOUS
    <3>3. a \in Seq(I) /\ b \in Seq(I)
      <4>1. \A s \in Seq(FolderIds) : s \in Seq(I)
        BY FolderIds \subseteq I
      <4>. QED  BY ONLY <2>1, <3>2, <4>1, b = R[l].above
    <3>4. c \in Seq(I)
      BY ONLY <3>2, <3>3, c = Append(b, R[l].id), AppendProperties
    <3>5. Pre(a, c)
      BY ONLY <2>1, <3>1, b = R[l].above, c = Append(b, R[l].id)
    <3>6. IsPrefix(a, c)
      BY ONLY <3>3, <3>4, <3>5, PreFacts
    <3>. QED  BY ONLY <2>3, <3>6, a = R[i].above, b = R[l].above, c = Append(b, R[l].id), l = i - 1
  <2>. QED  BY ONLY <2>2, <2>3
<1>. QED  BY ONLY <1>2, <1>3, n = Len(R)

\* The folders above a row are shown when all of them are open.
LEMMA OpenClosed ==
    ASSUME NEW I, NEW T, Shape(T, I), NEW open,
           NEW K, K = {i \in DOMAIN T : ToSet(T[i].above) \subseteq open}
    PROVE  Closed(T, K)
<1>1. ASSUME NEW k \in K, NEW j \in DOMAIN T, T[j].id \in ToSet(T[k].above) PROVE j \in K
  <2>1. k \in DOMAIN T /\ ToSet(T[k].above) \subseteq open
    OBVIOUS
  <2>2. PICK l \in DOMAIN T : T[l].id = T[j].id /\ ToSet(T[l].above) \subseteq ToSet(T[k].above)
    BY ONLY <1>1, <2>1, Shape(T, I), AboveIn
  <2>3. l = j
    BY ONLY <2>2, Shape(T, I), j \in DOMAIN T DEF Shape
  <2>. QED  BY <2>1, <2>2, <2>3
<1>2. K \subseteq DOMAIN T
  OBVIOUS
<1>. QED  BY ONLY <1>1, <1>2 DEF Closed

\* A folder with a row below it is open; opened to the end, it shows all its symbols.
LEMMA OpenedAll ==
    ASSUME NEW I, FolderIds \subseteq I, NEW T, Shape(T, I), NEW open,
           NEW K, K = {k \in DOMAIN T : ToSet(T[k].above) \subseteq open},
           NEW i \in K, T[i].id \in open,
           \A k \in K : T[i].id \in ToSet(T[k].above) /\ T[k].id \in FolderIds => T[k].id \in open,
           NEW j \in Beneath(T, i)
    PROVE  j \in K
<1>0. i \in DOMAIN T /\ ToSet(T[i].above) \subseteq open /\ j \in DOMAIN T /\ T[i].id \in ToSet(T[j].above)
  BY DEF Beneath
<1>. PICK a : a = T[j].above
  OBVIOUS
<1>1. a \in Seq(FolderIds) /\ DOMAIN a = 1 .. Len(a) /\ Len(a) \in Nat /\ \A n \in 1 .. Len(a) : a[n] \in FolderIds
  <2>1. a \in Seq(FolderIds) /\ DOMAIN a = 1 .. Len(a) /\ Len(a) \in Nat
    BY <1>0, ShapeFacts
  <2>. QED  BY ONLY <2>1, ElementOfSeq
<1>2. PICK p \in 1 .. Len(a) : a[p] = T[i].id
  BY ONLY <1>0, <1>1, a = T[j].above DEF ToSet
<1>. DEFINE Closings == {n \in 1 .. Len(a) : a[n] \notin open}
<1>. SUFFICES ASSUME Closings # {} PROVE FALSE
  <2>1. CASE Closings = {}
    <3>1. ToSet(a) \subseteq open
      <4>1. \A n \in 1 .. Len(a) : a[n] \in open
        BY <2>1
      <4>. QED  BY ONLY <1>1, <4>1 DEF ToSet
    <3>. QED  BY <1>0, <3>1
  <2>. QED  BY <2>1
<1>3. Closings \in SUBSET Nat
  BY <1>1
<1>4. PICK n \in Closings : \A m \in Closings : n <= m
  BY <1>3, Least
<1>5. n \in 1 .. Len(a) /\ a[n] \notin open /\ n \in Nat
  BY <1>3
<1>6. \A m \in 1 .. n - 1 : m \in 1 .. Len(a) /\ a[m] \in open
  <2>. SUFFICES ASSUME NEW m \in 1 .. n - 1 PROVE m \in 1 .. Len(a) /\ a[m] \in open
    OBVIOUS
  <2>1. m \in 1 .. Len(a) /\ ~ (n <= m)
    BY ONLY <1>1, <1>5, m \in 1 .. n - 1
  <2>. QED  BY <1>4, <2>1
<1>. HIDE DEF Closings
\* The shut folder has a row.
<1>7. PICK l \in DOMAIN T : T[l].id = a[n] /\ Len(T[l].above) = n - 1 /\ Pre(T[l].above, a)
  <2>1. HasParent(T, j, n)
    BY <1>0, <1>5 DEF Shape
  <2>. QED  BY ONLY <2>1, a = T[j].above DEF HasParent
<1>8. DOMAIN T[l].above = 1 .. n - 1 /\ \A m \in 1 .. n - 1 : T[l].above[m] = a[m]
  <2>1. DOMAIN T[l].above = 1 .. Len(T[l].above)
    BY ShapeFacts
  <2>. QED  BY ONLY <1>7, <2>1 DEF Pre
<1>9. l \in K
  <2>1. ToSet(T[l].above) \subseteq open
    BY ONLY <1>6, <1>8 DEF ToSet
  <2>. QED  BY <2>1
<1>10. CASE p < n
  <2>1. p \in 1 .. n - 1
    BY ONLY <1>2, <1>5, <1>10, <1>1
  <2>2. T[i].id \in ToSet(T[l].above)
    BY ONLY <1>2, <1>8, <2>1 DEF ToSet
  <2>3. T[l].id \in FolderIds
    BY ONLY <1>1, <1>5, <1>7
  <2>4. T[l].id \in open
    BY <1>9, <2>2, <2>3
  <2>. QED  BY ONLY <1>5, <1>7, <2>4
<1>11. CASE p = n
  BY <1>2, <1>5, <1>11
<1>12. CASE n < p
  <2>1. PICK k \in DOMAIN T : T[k].id = a[p] /\ Len(T[k].above) = p - 1 /\ Pre(T[k].above, a)
    <3>1. HasParent(T, j, p)
      BY <1>0, <1>2 DEF Shape
    <3>. QED  BY ONLY <3>1, a = T[j].above DEF HasParent
  <2>2. k = i
    BY ONLY <1>0, <1>2, <2>1, Shape(T, I) DEF Shape
  <2>3. DOMAIN T[i].above = 1 .. p - 1 /\ \A m \in 1 .. p - 1 : T[i].above[m] = a[m]
    <3>1. DOMAIN T[i].above = 1 .. Len(T[i].above)
      BY <1>0, ShapeFacts
    <3>. QED  BY ONLY <2>1, <2>2, <3>1 DEF Pre
  <2>4. n \in 1 .. p - 1
    BY ONLY <1>2, <1>5, <1>12, <1>1
  <2>5. a[n] \in ToSet(T[i].above)
    BY ONLY <2>3, <2>4 DEF ToSet
  <2>. QED  BY ONLY <1>0, <1>5, <2>5
<1>. QED  BY ONLY <1>1, <1>2, <1>5, <1>10, <1>11, <1>12

\* As many rows as ids.
LEMMA RowCount ==
    ASSUME NEW I, NEW T, Shape(T, I), NEW J \in SUBSET DOMAIN T
    PROVE  Cardinality({T[j] : j \in J}) = Cardinality({T[j].id : j \in J})
<1>. PICK X : X = {T[j] : j \in J}
  OBVIOUS
<1>. PICK Y : Y = {T[j].id : j \in J}
  OBVIOUS
<1>1. IsFiniteSet(J)
  <2>1. DOMAIN T = 1 .. Len(T) /\ Len(T) \in Nat
    BY ShapeFacts
  <2>2. IsFiniteSet(1 .. Len(T))
    BY ONLY <2>1, FS_Interval
  <2>. QED  BY ONLY <2>1, <2>2, J \in SUBSET DOMAIN T, FS_Subset
<1>. PICK f : f = [j \in J |-> T[j]]
  OBVIOUS
<1>2. IsFiniteSet(X)
  <2>1. f \in Surjection(J, X)
    BY ONLY f = [j \in J |-> T[j]], X = {T[j] : j \in J} DEF Surjection
  <2>. QED  BY ONLY <1>1, <2>1, FS_Surjection
<1>. PICK g : g = [x \in X |-> x.id]
  OBVIOUS
<1>3. g \in Bijection(X, Y)
  <2>1. \A x \in X : \E j \in J : x = T[j]
    OBVIOUS
  <2>2. \A j, k \in J : T[j].id = T[k].id => j = k
    BY DEF Shape
  <2>3. \A x, y \in X : x.id = y.id => x = y
    BY ONLY <2>1, <2>2
  <2>4. g \in [X -> Y]
    BY ONLY <2>1, g = [x \in X |-> x.id], Y = {T[j].id : j \in J}
  <2>5. \A y \in Y : \E x \in X : g[x] = y
    BY ONLY g = [x \in X |-> x.id], X = {T[j] : j \in J}, Y = {T[j].id : j \in J}
  <2>. QED  BY ONLY <2>3, <2>4, <2>5, g = [x \in X |-> x.id] DEF Bijection, Injection, Surjection,
                    IsInjective
<1>4. ExistsBijection(X, Y)
  BY ONLY <1>3 DEF ExistsBijection
<1>. QED  BY ONLY <1>2, <1>4, FS_Bijection, X = {T[j] : j \in J}, Y = {T[j].id : j \in J}

LEMMA OpenRows ==
    ASSUME NEW T, NEW F, NEW S, Grove(T, F, S), NEW t, t.filter = ""
    PROVE  RowsRight(S, Flatten(T, t.open), t)
<1>. PICK open : open = t.open
  OBVIOUS
<1>. PICK I : I = FolderIds \cup S
  OBVIOUS
<1>1. Shape(T, I) /\ FolderIds \subseteq I /\ S \cap FolderIds = {} /\ Forest(T, F \cup S) /\ F \subseteq FolderIds
  <2>1. Forest(T, F \cup S) /\ F \subseteq FolderIds /\ S \cap FolderIds = {}
    BY DEF Grove
  <2>2. F \cup S \subseteq I
    BY <2>1
  <2>3. Shape(T, F \cup S)
    BY <2>1 DEF Forest
  <2>. QED  BY ONLY <2>1, <2>2, <2>3, ShapeWider, I = FolderIds \cup S
<1>. PICK K : K = {i \in DOMAIN T : ToSet(T[i].above) \subseteq open}
  OBVIOUS
<1>. PICK R : R = Flatten(T, t.open)
  OBVIOUS
<1>2. R = At(T, K)
  BY DEF Flatten
<1>3. Closed(T, K)
  BY ONLY <1>1, K = {i \in DOMAIN T : ToSet(T[i].above) \subseteq open}, OpenClosed
<1>4. Shape(R, I) /\ ToSet(R) = {T[k] : k \in K}
  <2>1. Shape(At(T, K), I) /\ ToSet(At(T, K)) = Rows(T, K)
    BY ONLY <1>1, <1>3, RowsShape
  <2>. QED  BY ONLY <1>2, <2>1 DEF Rows
<1>5. /\ Cardinality(Ids(R)) = Len(R)
      /\ \A i \in DOMAIN R :
            IF i = 1 THEN R[i].above = <<>>
            ELSE IsPrefix(R[i].above, Append(R[i - 1].above, R[i - 1].id))
  BY ONLY <1>1, <1>4, OrderedRows
<1>. PICK shown : shown = Ids(R) \cap S
  OBVIOUS
<1>6. \A k \in K : T[k].id \in shown <=> T[k].id \notin FolderIds
  <2>1. \A k \in K : T[k].id \in Ids(R)
    BY ONLY <1>4 DEF Ids
  <2>2. \A k \in K : T[k].id \in I
    BY ONLY <1>1, K = {i \in DOMAIN T : ToSet(T[i].above) \subseteq open}, ShapeFacts
  <2>. QED  BY ONLY <1>1, <2>1, <2>2, I = FolderIds \cup S, shown = Ids(R) \cap S
<1>7. ASSUME NEW row \in ToSet(R), NEW below, below = {r \in ToSet(R) : row.id \in ToSet(r.above)}
      PROVE  /\ below # {} => row.id \in open
             /\ below # {} /\ row.id # <<"folder", "functions">>
                /\ (\A r \in below : r.id \in shown \/ r.id \in open)
                => row.count = Cardinality({r \in below : r.id \in shown})
  <2>1. PICK i \in K : row = T[i]
    BY ONLY <1>4, row \in ToSet(R)
  <2>2. \A r \in below : \E k \in K : r = T[k] /\ T[i].id \in ToSet(T[k].above)
    BY ONLY <1>4, <1>7, <2>1
  <2>3. below # {} => T[i].id \in open
    BY ONLY <2>2, K = {k \in DOMAIN T : ToSet(T[k].above) \subseteq open}
  <2>4. ASSUME below # {}, row.id # <<"folder", "functions">>,
               \A r \in below : r.id \in shown \/ r.id \in open
        PROVE  row.count = Cardinality({r \in below : r.id \in shown})
    <3>1. ASSUME NEW k \in K, T[i].id \in ToSet(T[k].above)
          PROVE  T[k] \in below
      BY ONLY <1>4, <1>7, <2>1, <3>1
    <3>2. \A k \in K : T[i].id \in ToSet(T[k].above) /\ T[k].id \in FolderIds => T[k].id \in open
      BY ONLY <1>6, <2>4, <3>1
    <3>3. \A j \in Beneath(T, i) : j \in K
      BY ONLY <1>1, <2>3, <2>4, <3>2, i \in K,
              K = {k \in DOMAIN T : ToSet(T[k].above) \subseteq open}, OpenedAll
    <3>. PICK J : J = {j \in Beneath(T, i) : T[j].id \notin FolderIds}
      OBVIOUS
    <3>4. \A j \in Beneath(T, i) : j \in DOMAIN T /\ T[i].id \in ToSet(T[j].above)
      BY DEF Beneath
    <3>5. \A k \in K : T[i].id \in ToSet(T[k].above) => k \in Beneath(T, i)
      BY ONLY K = {k \in DOMAIN T : ToSet(T[k].above) \subseteq open} DEF Beneath
    <3>6. {r \in below : r.id \in shown} = {T[j] : j \in J}
      <4>1. ASSUME NEW r \in below, r.id \in shown PROVE \E j \in J : r = T[j]
        <5>1. PICK k \in K : r = T[k] /\ T[i].id \in ToSet(T[k].above)
          BY ONLY <2>2, r \in below
        <5>2. k \in J
          BY ONLY <1>6, <3>5, <4>1, <5>1, J = {j \in Beneath(T, i) : T[j].id \notin FolderIds}
        <5>. QED  BY ONLY <5>1, <5>2
      <4>2. ASSUME NEW j \in J PROVE T[j] \in below /\ T[j].id \in shown
        <5>1. j \in K /\ T[j].id \notin FolderIds /\ T[i].id \in ToSet(T[j].above)
          BY ONLY <3>3, <3>4, j \in J, J = {j_1 \in Beneath(T, i) : T[j_1].id \notin FolderIds}
        <5>. QED  BY ONLY <1>6, <3>1, <5>1
      <4>. QED  BY ONLY <4>1, <4>2
    <3>7. SymbolsIn(T, i) = {T[j].id : j \in J}
      BY ONLY J = {j \in Beneath(T, i) : T[j].id \notin FolderIds} DEF SymbolsIn
    <3>8. J \in SUBSET DOMAIN T
      BY ONLY <3>4, J = {j \in Beneath(T, i) : T[j].id \notin FolderIds}
    <3>9. Cardinality({T[j] : j \in J}) = Cardinality({T[j].id : j \in J})
      BY ONLY <1>1, <3>8, RowCount
    <3>10. T[i].count = Cardinality(SymbolsIn(T, i))
      BY ONLY <1>1, <2>1, <2>4, i \in K, K = {k \in DOMAIN T : ToSet(T[k].above) \subseteq open}
         DEF Forest, TopFolder
    <3>. QED  BY ONLY <2>1, <3>6, <3>7, <3>9, <3>10
  <2>5. row.id = T[i].id
    BY <2>1
  <2>. QED  BY ONLY <2>3, <2>4, <2>5
<1>8. RowsRight(S, R, t)
  <2>1. \A row \in ToSet(R) :
          \A below \in {{r \in ToSet(R) : row.id \in ToSet(r.above)}} :
             /\ below # {} => row.id \in t.open
             /\ below # {} /\ row.id # <<"folder", "functions">>
                /\ (\A r \in below : r.id \in Ids(R) \cap S \/ r.id \in t.open)
                => row.count = Cardinality({r \in below : r.id \in Ids(R) \cap S})
    BY ONLY <1>7, open = t.open, shown = Ids(R) \cap S
  <2>. QED  BY ONLY <1>5, <2>1, t.filter = "" DEF RowsRight
<1>. QED  BY ONLY <1>8, R = Flatten(T, t.open)

LEMMA FilteredRows ==
    ASSUME NEW T, NEW F, NEW S, Grove(T, F, S), NEW t, t.filter # "", NEW P, P = Prune(T, t.filter)
    PROVE  RowsRight(S, Flatten(P, Ids(P)), t)
<1>. PICK needle : needle = t.filter
  OBVIOUS
<1>. PICK I : I = FolderIds \cup S
  OBVIOUS
<1>1. Shape(T, I) /\ FolderIds \subseteq I /\ S \cap FolderIds = {} /\ Forest(T, F \cup S) /\ F \subseteq FolderIds
  <2>1. Forest(T, F \cup S) /\ F \subseteq FolderIds /\ S \cap FolderIds = {}
    BY DEF Grove
  <2>2. F \cup S \subseteq I
    BY <2>1
  <2>3. Shape(T, F \cup S)
    BY <2>1 DEF Forest
  <2>. QED  BY ONLY <2>1, <2>2, <2>3, ShapeWider, I = FolderIds \cup S
<1>. PICK matching : matching = {n \in ToSet(T) : Matches(n.id, needle)}
  OBVIOUS
<1>. PICK kept : kept = {n.id : n \in matching} \cup UNION {ToSet(n.above) : n \in matching}
  OBVIOUS
<1>. PICK K : K = {i \in DOMAIN T : T[i].id \in kept}
  OBVIOUS
<1>2. P = At(T, K)
  BY DEF Prune
<1>3. \A x \in kept : \/ Matches(x, needle)
                      \/ \E j \in DOMAIN T : Matches(T[j].id, needle) /\ x \in ToSet(T[j].above)
  BY ONLY matching = {n \in ToSet(T) : Matches(n.id, needle)},
     kept = {n.id : n \in matching} \cup UNION {ToSet(n.above) : n \in matching} DEF ToSet
<1>4. \A j \in DOMAIN T : Matches(T[j].id, needle) => T[j].id \in kept /\ ToSet(T[j].above) \subseteq kept
  <2>. SUFFICES ASSUME NEW j \in DOMAIN T, Matches(T[j].id, needle)
                PROVE  T[j].id \in kept /\ ToSet(T[j].above) \subseteq kept
    OBVIOUS
  <2>1. T[j] \in matching
    BY DEF ToSet
  <2>. QED  BY ONLY <2>1, kept = {n.id : n \in matching} \cup UNION {ToSet(n.above) : n \in matching}
<1>5. Closed(T, K)
  <2>1. ASSUME NEW k \in K, NEW j \in DOMAIN T, T[j].id \in ToSet(T[k].above) PROVE j \in K
    <3>1. k \in DOMAIN T /\ T[k].id \in kept
      OBVIOUS
    <3>2. CASE Matches(T[k].id, needle)
      BY <1>4, <2>1, <3>1, <3>2
    <3>3. CASE ~ Matches(T[k].id, needle)
      <4>1. PICK m \in DOMAIN T : Matches(T[m].id, needle) /\ T[k].id \in ToSet(T[m].above)
        BY ONLY <1>3, <3>1, <3>3
      <4>2. PICK l \in DOMAIN T : T[l].id = T[k].id /\ ToSet(T[l].above) \subseteq ToSet(T[m].above)
        BY ONLY <1>1, <4>1, AboveIn
      <4>3. l = k
        BY ONLY <1>1, <3>1, <4>2 DEF Shape
      <4>4. T[j].id \in kept
        BY ONLY <1>4, <2>1, <4>1, <4>2, <4>3
      <4>. QED  BY <4>4
    <3>. QED  BY <3>2, <3>3
  <2>2. K \subseteq DOMAIN T
    OBVIOUS
  <2>. QED  BY ONLY <2>1, <2>2 DEF Closed
<1>6. Shape(P, I) /\ ToSet(P) = {T[k] : k \in K}
  <2>1. Shape(At(T, K), I) /\ ToSet(At(T, K)) = Rows(T, K)
    BY ONLY <1>1, <1>5, RowsShape
  <2>. QED  BY ONLY <1>2, <2>1 DEF Rows
<1>. PICK open : open = Ids(P)
  OBVIOUS
<1>. PICK K2 : K2 = {i \in DOMAIN P : ToSet(P[i].above) \subseteq open}
  OBVIOUS
<1>. PICK R : R = Flatten(P, Ids(P))
  OBVIOUS
<1>7. R = At(P, K2) /\ Closed(P, K2)
  <2>1. R = At(P, K2)
    BY DEF Flatten
  <2>. QED  BY ONLY <1>6, <2>1, K2 = {i \in DOMAIN P : ToSet(P[i].above) \subseteq open}, OpenClosed
<1>8. Shape(R, I) /\ ToSet(R) = {P[k] : k \in K2}
  <2>1. Shape(At(P, K2), I) /\ ToSet(At(P, K2)) = Rows(P, K2)
    BY ONLY <1>1, <1>6, <1>7, RowsShape
  <2>. QED  BY ONLY <1>7, <2>1 DEF Rows
<1>9. ToSet(R) = {T[k] : k \in K}
  <2>1. \A i \in DOMAIN P : ToSet(P[i].above) \subseteq open
    <3>. SUFFICES ASSUME NEW i \in DOMAIN P, NEW x \in ToSet(P[i].above) PROVE x \in open
      OBVIOUS
    <3>1. PICK j \in DOMAIN P : P[j].id = x
      BY ONLY <1>6, i \in DOMAIN P, x \in ToSet(P[i].above), AboveIn
    <3>. QED  BY ONLY <3>1, open = Ids(P) DEF Ids, ToSet
  <2>2. K2 = DOMAIN P
    BY ONLY <2>1, K2 = {i \in DOMAIN P : ToSet(P[i].above) \subseteq open}
  <2>. QED  BY ONLY <1>6, <1>8, <2>2 DEF ToSet
<1>10. /\ Cardinality(Ids(R)) = Len(R)
       /\ \A i \in DOMAIN R :
             IF i = 1 THEN R[i].above = <<>>
             ELSE IsPrefix(R[i].above, Append(R[i - 1].above, R[i - 1].id))
  BY ONLY <1>1, <1>8, OrderedRows
<1>11. Ids(R) \cap S = {x \in S : Matches(x, needle)}
  <2>1. ASSUME NEW x \in Ids(R), x \in S PROVE Matches(x, needle)
    <3>1. PICK k \in K : x = T[k].id
      BY ONLY <1>9, x \in Ids(R) DEF Ids
    <3>2. x \in kept
      BY <3>1
    <3>3. ASSUME NEW j \in DOMAIN T, x \in ToSet(T[j].above) PROVE FALSE
      <4>1. T[j].above \in Seq(FolderIds)
        BY <1>1, ShapeFacts
      <4>2. x \in FolderIds
        BY ONLY <3>3, <4>1, ElementOfSeq, LenProperties DEF ToSet
      <4>. QED  BY ONLY <1>1, <2>1, <4>2
    <3>. QED  BY ONLY <1>3, <3>2, <3>3
  <2>2. ASSUME NEW x \in S, Matches(x, needle) PROVE x \in Ids(R)
    <3>1. PICK k \in DOMAIN T : T[k].id = x
      BY <1>1 DEF Forest
    <3>2. k \in K
      BY <1>4, <2>2, <3>1
    <3>. QED  BY ONLY <1>9, <3>1, <3>2 DEF Ids
  <2>. QED  BY ONLY <2>1, <2>2
<1>12. ASSUME NEW row \in ToSet(R)
       PROVE  Matches(row.id, needle) \/ {r \in ToSet(R) : row.id \in ToSet(r.above)} # {}
  <2>1. PICK k \in K : row = T[k]
    BY ONLY <1>9, row \in ToSet(R)
  <2>2. row.id \in kept
    BY <2>1
  <2>3. ASSUME NEW j \in DOMAIN T, Matches(T[j].id, needle), row.id \in ToSet(T[j].above)
        PROVE  {r \in ToSet(R) : row.id \in ToSet(r.above)} # {}
    <3>1. j \in K
      BY <1>4, <2>3
    <3>. QED  BY ONLY <1>9, <2>3, <3>1
  <2>. QED  BY ONLY <1>3, <2>2, <2>3
<1>13. RowsRight(S, R, t)
  BY ONLY <1>10, <1>11, <1>12, needle = t.filter, t.filter # "" DEF RowsRight
<1>. QED  BY ONLY <1>13, R = Flatten(P, Ids(P))

LEMMA TreeRight ==
    ASSUME TreeAssumption, app.data \in DOMAIN Documents, NamedApart(Documents[app.data])
    PROVE  RowsRight(Symbols(Documents[app.data]), TreeRows, tree)
<1>. PICK T : T = Trees[app.data]
  OBVIOUS
<1>. PICK S : S = Symbols(Documents[app.data])
  BY Zenon
<1>1. PICK F : Grove(T, F, S)
  <2>1. T = BuildTree(Documents[app.data])
    BY DEF Trees
  <2>. QED  BY ONLY <2>1, TreeAssumption, app.data \in DOMAIN Documents, NamedApart(Documents[app.data]),
               S = Symbols(Documents[app.data]), TreeGrove
<1>2. CASE tree.filter = ""
  <2>1. TreeRows = Flatten(T, tree.open)
    BY Zenon, <1>2 DEF TreeRows
  <2>2. RowsRight(S, Flatten(T, tree.open), tree)
    BY ONLY Zenon, <1>1, <1>2, OpenRows
  <2>. QED  BY <2>1, <2>2
<1>3. CASE tree.filter # ""
  <2>. PICK P : P = Prune(T, tree.filter)
    OBVIOUS
  <2>1. TreeRows = Flatten(P, Ids(P))
    BY Zenon, <1>3 DEF TreeRows, Expanded
  <2>2. RowsRight(S, Flatten(P, Ids(P)), tree)
    BY ONLY Zenon, <1>1, <1>3, P = Prune(T, tree.filter), FilteredRows
  <2>. QED  BY Zenon, <2>1, <2>2
<1>. QED  BY <1>2, <1>3

-----------------------------------------------------------------------------
(* The composition.                                                        *)

USE ClientAssumption, WorkspaceAssumption, UploadsAssumption, StagesAssumption
-----------------------------------------------------------------------------
(* The steps of each page.                                                 *)

WorkspaceStep ==
    \/ \E r \in Runs : OpenReport(r) /\ UNCHANGED pageVars /\ Opened
    \/ Reload /\ UNCHANGED pageVars /\ Opened
    \/ \E m \in Modes : SwitchMode(m) /\ UNCHANGED pageVars /\ Opened
    \/ \E l \in loads : LoadAnswered(l) /\ Elsewhere
    \/ \E l \in loads : LoadFails(l) /\ Elsewhere
    \/ \E va \in Vas : OpenFunction(va) /\ Elsewhere
    \/ \E va \in Vas : SelectFunction(va) /\ Elsewhere
    \/ \E i \in 1 .. MaxTrail : Jump(i) /\ Elsewhere
    \/ \E o \in opens : OpenAnswered(o) /\ InShell /\ Follows
    \/ \E o \in opens : OpenFails(o) /\ Elsewhere
    \/ \E v \in Views : ShowView(v) /\ UNCHANGED <<pageVars, windowVars, treeVars>> /\ Leaves /\ Mounts
    \/ PinRoot /\ InShell /\ Leaves

UploadStep ==
    \/ \E u \in Numbers : SendFile(u) /\ OnUploadPage
    \/ \E u \in Numbers : FileSent(u) /\ OnUploadPage
    \/ \E u \in Numbers : SendFails(u) /\ OnUploadPage
    \/ \E u \in Numbers : RunSettles(u) /\ OnUploadPage
    \/ \E u \in Numbers : Tick(u) /\ OnUploadPage
    \/ \E u \in Numbers : TickEnds(u) /\ OnUploadPage
    \/ \E u \in Numbers : TickWaits(u) /\ OnUploadPage

\* The one step of the upload page that reaches over to the workspace.
UploadOpens == \E u \in Numbers : TickDone(u) /\ UNCHANGED autoVars /\ Opened

AutoStep ==
    \/ PressStart /\ OnAutoPage
    \/ \E p \in posts : PostLands(p) /\ OnAutoPage
    \/ \E p \in posts : PostBlocked(p) /\ OnAutoPage
    \/ \E p \in posts : PostRefused(p) /\ OnAutoPage
    \/ \E r \in Runs, k \in StageNumbers : JobEnds(r, k) /\ OnAutoPage
    \/ \E r \in Runs, k \in StageNumbers : CountersFill(r, k) /\ OnAutoPage
    \/ \E r \in Runs, k \in StageNumbers : CountersRight(r, k) /\ OnAutoPage
    \/ Poll /\ OnAutoPage
    \/ \E t \in polls : ReadJob(t) /\ OnAutoPage
    \/ \E t \in polls : PollStopped(t) /\ OnAutoPage
    \/ \E t \in polls : PollAdvances(t) /\ OnAutoPage
    \/ \E t \in polls : PollFinishes(t) /\ OnAutoPage
    \/ \E t \in polls : PollWaits(t) /\ OnAutoPage
    \/ PressStop /\ OnAutoPage
    \/ StopLands /\ OnAutoPage
    \/ StopFails /\ OnAutoPage
    \/ PressReset /\ OnAutoPage
    \/ \E r \in clearing : ResetLands(r) /\ OnAutoPage
    \/ \E r \in clearing : ResetFails(r) /\ OnAutoPage

TabStep ==
    \/ \E q \in model : ModelAnswers(q) /\ UNCHANGED left /\ OnTab
    \/ FetchAnswered /\ UNCHANGED left /\ OnTab
    \/ FetchFails /\ OnTab
    \/ PressLift /\ OnTab
    \/ \E w \in waits : LiftQueued(w) /\ UNCHANGED left /\ OnTab
    \/ \E w \in waits : LiftOver(w) /\ UNCHANGED left /\ OnTab
    \/ \E w \in waits : LiftFails(w) /\ OnTab
    \/ \E w \in waits : PollLands(w) /\ UNCHANGED left /\ OnTab
    \/ \E w \in waits : Expire(w) /\ UNCHANGED left /\ OnTab
    \/ Review /\ OnTab
    \/ \E va \in Vas, pinned \in BOOLEAN : ShowCard(va, pinned) /\ OnTab
    \/ DropCard /\ OnTab
    \/ \E l \in lookups : LookupRead(l) /\ UNCHANGED left /\ OnTab
    \/ \E l \in lookups : LookupOver(l) /\ UNCHANGED left /\ OnTab
    \/ \E l \in lookups : LookupFails(l) /\ OnTab
    \/ GraphAnswered /\ UNCHANGED left /\ OnTab

SecurityStep ==
    \/ \E c \in commands : ReportAnswered(c) /\ OnSecurity
    \/ \E c \in commands : ReportFails(c) /\ OnSecurity
    \/ TickWx /\ OnSecurity
    \/ \E anyway \in BOOLEAN : PressHarden(anyway) /\ OnSecurity
    \/ \E c \in commands : Engine(c) /\ OnSecurity
    \/ \E c \in commands : Written(c) /\ OnSecurity
    \/ \E c \in commands : HardenAnswered(c) /\ OnSecurity
    \/ \E c \in commands : HardenFails(c) /\ OnSecurity

WindowStep ==
    \/ \E f \in Findings : OpenFinding(f) /\ InWindow
    \/ CloseFinding /\ InWindow
    \/ \E r \in reads : ReadAnswered(r) /\ InWindow
    \/ \E r \in reads : ReadFails(r) /\ InWindow
    \/ PressExplain /\ InWindow
    \/ \E e \in explains : ExplainAnswered(e) /\ InWindow
    \/ \E e \in explains : ExplainFails(e) /\ InWindow
    \/ \E q \in prompts : Explained(q) /\ InWindow
    \/ \E e \in explains : ExplainPolled(e) /\ InWindow
    \/ \E e \in explains : ExplainDropped(e) /\ InWindow

TreeStep ==
    \/ \E id \in Folders : Toggle(id) /\ InTree
    \/ \E needle \in Needles : TypeFilter(needle) /\ InTree

LEMMA EveryStep ==
    ASSUME [Next]_shellVars
    PROVE  \/ WorkspaceStep \/ UploadStep \/ UploadOpens \/ AutoStep \/ TabStep
           \/ SecurityStep \/ WindowStep \/ TreeStep \/ UNCHANGED shellVars
BY DEF Next, WorkspaceStep, UploadStep, UploadOpens, AutoStep, TabStep, SecurityStep,
       WindowStep, TreeStep

LEMMA UploadFrame ==
    ASSUME UploadStep PROVE UNCHANGED <<client, appVars, autoVars, tabVars, asideVars>>
BY DEF UploadStep, SendFile, FileSent, SendFails, RunSettles, Tick, TickEnds, TickWaits,
       OnUploadPage

LEMMA AutoFrame ==
    ASSUME AutoStep PROVE UNCHANGED <<client, appVars, uploadVars, tabVars, asideVars>>
BY Zenon DEF AutoStep, PressStart, PostLands, PostBlocked, PostRefused, JobEnds, CountersFill,
       CountersRight, JobMoves, Poll, ReadJob, PollStopped, PollAdvances, PollFinishes, PollWaits,
       PollOver, PressStop, StopLands, StopFails, PressReset, ResetLands, ResetFails, OnAutoPage

LEMMA TabFrame ==
    ASSUME TabStep PROVE UNCHANGED <<client, appVars, pageVars, asideVars>>
BY DEF TabStep, OnTab, InShell

LEMMA SecurityFrame ==
    ASSUME SecurityStep
    PROVE  UNCHANGED <<client, appVars, pageVars, tabVars, windowVars, treeVars>>
BY Zenon DEF SecurityStep, OnSecurity, ReportAnswered, ReportFails, TickWx, PressHarden, Engine,
       Written, HardenAnswered, HardenFails

LEMMA WindowFrame ==
    ASSUME WindowStep
    PROVE  UNCHANGED <<client, appVars, pageVars, tabVars, secVars, treeVars>>
BY Zenon DEF WindowStep, InWindow, OpenFinding, CloseFinding, ReadAnswered, ReadFails, PressExplain,
       ExplainAnswered, ExplainFails, Explained, ExplainPolled, ExplainDropped

LEMMA TreeFrame ==
    ASSUME TreeStep
    PROVE  UNCHANGED <<client, appVars, pageVars, tabVars, secVars, windowVars>>
BY Zenon DEF TreeStep, InTree, Toggle, TypeFilter, AtTree

\* What a workspace step leaves alone.
LEMMA WorkspaceFrame ==
    ASSUME WorkspaceStep PROVE UNCHANGED <<pageVars, lifts, model, waits, cache, lookups, program,
                                           told, reviewed, windowVars, treeVars>>
BY DEF WorkspaceStep, Opened, Elsewhere, InShell, Follows, Leaves, Outlives, asideVars, tabVars,
       windowVars, serverVars, paneVars, cardVars
-----------------------------------------------------------------------------
(* The workspace: types.                                                   *)

RunIds == Runs \cup {"current", "sample-notepad"}
Places == RunIds \cup {Sample, "none"}
AppType == [mode : Modes, run : RunIds, data : Runs \cup {Sample, "none"},
            view : Views \cup {"analysis"}, asking : BOOLEAN, root : Vas \cup {None}]
Load == [n : Nat, newest : BOOLEAN, source : Runs \cup {Sample}, ask : BOOLEAN]
Open == [n : Nat, newest : BOOLEAN, source : Places, va : Vas,
         by : {"analysis", "shell"}, jump : BOOLEAN]
Shown == [source : Places, va : Vas \cup {None}]

\* The pointer is at a crumb, if there is one.
NavOK ==
    /\ nav \in [trail : Seq(Vas), index : Nat]
    /\ nav.index \in 0 .. Len(nav.trail)

WorkspaceType ==
    /\ client \in [mode : Modes, run : RunIds]
    /\ app \in AppType /\ NavOK
    /\ detail \in Shown /\ selected \in Shown /\ replaying \in Vas \cup {None}
    /\ loads \subseteq Load /\ IsFiniteSet(loads)
    /\ opens \subseteq Open /\ IsFiniteSet(opens)
    /\ answered \in [load : BOOLEAN, open : BOOLEAN, source : BOOLEAN] /\ mixed \in BOOLEAN

\* There is a number that no request under way has.
LEMMA FreshNumber ==
    ASSUME NEW S, IsFiniteSet(S)
    PROVE  Fresh(S) \in Nat \ {0} /\ \A x \in S : x.n # Fresh(S)
<1>. PICK k : k = Cardinality(S)
  OBVIOUS
<1>0. k \in Nat
  BY FS_CardinalityType
<1>. PICK T : T = {x.n : x \in S}
  OBVIOUS
<1>. PICK f : f = [x \in S |-> x.n]
  OBVIOUS
<1>1. f \in Surjection(S, T)
  BY DEF Surjection
<1>2. IsFiniteSet(T) /\ Cardinality(T) <= k
  BY <1>1, FS_Surjection
<1>3. Cardinality(T) \in Nat
  BY <1>2, FS_CardinalityType
<1>4. Cardinality(1 .. k + 1) = k + 1
  BY <1>0, FS_Interval
<1>5. ~(1 .. k + 1 \subseteq T)
  <2>1. SUFFICES ASSUME 1 .. k + 1 \in SUBSET T PROVE FALSE
    OBVIOUS
  <2>2. Cardinality(1 .. k + 1) <= Cardinality(T)
    BY <1>2, <2>1, FS_Subset
  <2>. QED  BY <1>0, <1>2, <1>3, <1>4, <2>2
<1>6. \E n \in 1 .. k + 1 : \A x \in S : x.n # n
  BY <1>5
<1>7. Fresh(S) \in 1 .. k + 1 /\ \A x \in S : x.n # Fresh(S)
  BY <1>6 DEF Fresh
<1>. QED  BY <1>0, <1>7

LEMMA OlderLoads ==
    ASSUME NEW S, S \subseteq Load, IsFiniteSet(S)
    PROVE  /\ Older(S) \subseteq Load /\ IsFiniteSet(Older(S))
           /\ \A y \in Older(S) : ~y.newest
           /\ \A y \in Older(S) : \E x \in S : y.n = x.n /\ y.source = x.source
           /\ \A x \in S : \E y \in Older(S) : y.n = x.n
<1>. DEFINE f == [x \in S |-> [x EXCEPT !.newest = FALSE]]
<1>1. Older(S) \subseteq Load /\ \A y \in Older(S) : ~y.newest
  BY DEF Older, Load
<1>2. \A x \in S : /\ [x EXCEPT !.newest = FALSE].n = x.n
                   /\ [x EXCEPT !.newest = FALSE].source = x.source
  BY DEF Load
<1>3. f \in Surjection(S, Older(S))
  BY DEF Surjection, Older
<1>4. IsFiniteSet(Older(S))
  BY <1>3, FS_Surjection
<1>. HIDE DEF f
<1>5. /\ \A y \in Older(S) : \E x \in S : y = [x EXCEPT !.newest = FALSE]
      /\ \A x \in S : [x EXCEPT !.newest = FALSE] \in Older(S)
  BY DEF Older
<1>. QED  BY Zenon, <1>1, <1>2, <1>4, <1>5

LEMMA OlderOpens ==
    ASSUME NEW S, S \subseteq Open, IsFiniteSet(S)
    PROVE  /\ Older(S) \subseteq Open /\ IsFiniteSet(Older(S))
           /\ \A y \in Older(S) : ~y.newest
           /\ \A y \in Older(S) : \E x \in S : y.n = x.n /\ y.source = x.source
                                  /\ y.by = x.by /\ y.va = x.va /\ y.jump = x.jump
           /\ \A x \in S : \E y \in Older(S) : y.n = x.n
<1>. DEFINE f == [x \in S |-> [x EXCEPT !.newest = FALSE]]
<1>1. Older(S) \subseteq Open /\ \A y \in Older(S) : ~y.newest
  BY DEF Older, Open
<1>2. \A x \in S : LET y == [x EXCEPT !.newest = FALSE]
                  IN  /\ y.n = x.n /\ y.source = x.source
                      /\ y.by = x.by /\ y.va = x.va /\ y.jump = x.jump
  BY DEF Open
<1>3. f \in Surjection(S, Older(S))
  BY DEF Surjection, Older
<1>4. IsFiniteSet(Older(S))
  BY <1>3, FS_Surjection
<1>. HIDE DEF f
<1>5. /\ \A y \in Older(S) : \E x \in S : y = [x EXCEPT !.newest = FALSE]
      /\ \A x \in S : [x EXCEPT !.newest = FALSE] \in Older(S)
  BY DEF Older
<1>6. \A y \in Older(S) : \E x \in S : y.n = x.n /\ y.source = x.source
                               /\ y.by = x.by /\ y.va = x.va /\ y.jump = x.jump
  <2>. TAKE y \in Older(S)
  <2>. PICK x \in S : y = [x EXCEPT !.newest = FALSE]
    BY <1>5
  <2>. QED  BY <1>2
<1>7. \A x \in S : \E y \in Older(S) : y.n = x.n
  BY <1>2, <1>5
<1>. QED  BY <1>1, <1>4, <1>6, <1>7

LEMMA OneMore ==
    ASSUME NEW S, IsFiniteSet(S), NEW x
    PROVE  IsFiniteSet(S \cup {x}) /\ IsFiniteSet(S \ {x})
BY FS_AddElement, FS_RemoveElement

Uploaded == [stage : {"none", "sending", "analysing", "done", "failed", "over"}, mode : Modes]

UploadType ==
    /\ page \in [busy : BOOLEAN, upload : 0 .. Len(Uploads)]
    /\ upload \in [Numbers -> Uploaded]
    /\ poll \in 0 .. Len(Uploads) /\ timers \subseteq Numbers
    /\ ticks \in [Numbers -> Nat] /\ opened \in [Numbers -> Nat] /\ slow \in BOOLEAN

\* What is asked for is the run that the client points to, in the mode the
\* menu shows; and functions are only asked for, and gone through, in a run.
OneRun ==
    /\ loads # {} \/ Loaded => client.run \in Runs /\ app.run = client.run
    /\ \A l, k \in loads : l.newest /\ k.newest => l = k
    /\ \A l \in loads : l.newest => /\ ~answered.load
                                    /\ answered.source => l.source = Source(client)
    /\ answered.source => app.mode = client.mode
    /\ Loaded /\ answered.load /\ answered.source => app.data = Source(client)
    /\ ~Loaded => opens = {} /\ nav = NoTrail
    /\ ~mixed => \A o \in opens : o.source = Source(client)
    /\ ~mixed /\ nav.trail # <<>> => detail.source = Source(client)

WorkspaceInv == WorkspaceType /\ UploadType /\ OneRun

LEMMA WorkspaceStart == ASSUME Init PROVE WorkspaceInv
<1>1. WorkspaceType
  <2>1. WorkspaceInit
    BY DEF Init
  <2>2. app \in AppType /\ client \in [mode : Modes, run : RunIds]
    BY <2>1 DEF WorkspaceInit, AppType, RunIds, Views
  <2>3. NavOK
    BY <2>1 DEF WorkspaceInit, NavOK, NoTrail
  <2>4. loads = {} /\ opens = {} /\ IsFiniteSet({})
    BY <2>1, FS_EmptySet DEF WorkspaceInit
  <2>5. detail \in Shown /\ selected \in Shown
    BY <2>1 DEF WorkspaceInit, NoFunction, Shown, Places
  <2>. QED  BY <2>1, <2>2, <2>3, <2>4, <2>5 DEF WorkspaceInit, WorkspaceType
<1>2. UploadType
  <2>1. Len(Uploads) \in Nat
    OBVIOUS
  <2>2. page \in [busy : BOOLEAN, upload : 0 .. Len(Uploads)] /\ poll \in 0 .. Len(Uploads)
    BY <2>1 DEF Init, UploadInit
  <2>3. upload \in [Numbers -> Uploaded]
    BY DEF Init, UploadInit, Uploaded
  <2>. QED  BY <2>2, <2>3 DEF Init, UploadInit, UploadType
<1>3. OneRun
  BY DEF Init, WorkspaceInit, OneRun, NoTrail, Loaded
<1>. QED  BY <1>1, <1>2, <1>3 DEF WorkspaceInv

\* The request of a load becomes the newest, and is the only newest one.
LEMMA AskedLoads ==
    ASSUME WorkspaceType, NEW src \in Runs \cup {Sample}, NEW ask \in BOOLEAN,
           NEW S, S = Asking(src, ask)
    PROVE  /\ S \subseteq Load /\ IsFiniteSet(S) /\ S # {}
           /\ \A l, k \in S : l.newest /\ k.newest => l = k
           /\ \A l \in S : l.newest => l.source = src
<1>0. loads \subseteq Load /\ IsFiniteSet(loads)
  BY DEF WorkspaceType
<1>. PICK old : old = Older(loads)
  OBVIOUS
<1>. PICK new : new = [n |-> Fresh(loads), newest |-> TRUE, source |-> src, ask |-> ask]
  OBVIOUS
<1>1. S = old \cup {new}
  BY DEF Asking
<1>2. new \in Load /\ new.source = src
  BY <1>0, FreshNumber DEF Load
<1>3. old \subseteq Load /\ IsFiniteSet(old) /\ \A y \in old : ~y.newest
  BY <1>0, OlderLoads
<1>4. S \subseteq Load /\ IsFiniteSet(S)
  <2>1. IsFiniteSet(old \cup {new})
    BY <1>3, OneMore
  <2>. QED  BY <1>1, <1>2, <1>3, <2>1
<1>5. new \in S
  BY <1>1
<1>6. \A l \in S : l.newest => l = new
  BY ONLY <1>1, <1>3
<1>. QED  BY ONLY <1>2, <1>4, <1>5, <1>6

\* loadRun, from wherever it is called.
LEMMA LoadRunKeeps ==
    ASSUME WorkspaceInv, NEW id \in Runs, NEW m \in Modes, NEW ask \in BOOLEAN,
           LoadRun(id, m, ask), UNCHANGED <<detail, selected, replaying, opens>>
    PROVE  WorkspaceType' /\ OneRun'
<1>. PICK src : src = Source(client')
  OBVIOUS
<1>1. /\ client' = [mode |-> m, run |-> id] /\ loads' = Asking(src, ask)
      /\ WorkspaceType
  BY DEF WorkspaceInv, LoadRun, Configure
<1>2. src \in Runs \cup {Sample}
  BY <1>1 DEF Source
<1>3. /\ loads' \subseteq Load /\ IsFiniteSet(loads')
      /\ \A l, k \in loads' : l.newest /\ k.newest => l = k
      /\ \A l \in loads' : l.newest => l.source = Source(client')
  BY <1>1, <1>2, AskedLoads
<1>4. WorkspaceType'
  <2>1. app' \in AppType
    BY <1>1 DEF WorkspaceType, LoadRun, AppType, RunIds
  <2>2. NavOK'
    BY DEF LoadRun, NavOK, NoTrail
  <2>3. client' \in [mode : Modes, run : RunIds]
    BY <1>1 DEF RunIds
  <2>4. /\ answered' \in [load : BOOLEAN, open : BOOLEAN, source : BOOLEAN]
        /\ mixed' \in BOOLEAN
    BY <1>1 DEF WorkspaceType, LoadRun
  <2>. QED  BY <1>1, <1>3, <2>1, <2>2, <2>3, <2>4 DEF WorkspaceType
<1>5. /\ client'.run = id /\ client'.mode = m /\ app'.run = id /\ app'.mode = app.mode
      /\ app'.data = app.data /\ ~answered'.load /\ answered'.source = (m = app.mode)
      /\ nav' = NoTrail /\ nav'.trail = <<>>
  BY <1>1 DEF WorkspaceType, LoadRun, AppType, NoTrail
<1>6. mixed' \/ opens' = {}
  BY DEF LoadRun
<1>7. ~Loaded' => opens' = {} /\ nav' = NoTrail
  BY <1>5 DEF WorkspaceInv, OneRun, Loaded
<1>8. OneRun'
  BY <1>3, <1>5, <1>6, <1>7 DEF OneRun
<1>. QED  BY <1>4, <1>8

\* The data source is switched: what the client points to is loaded again.
LEMMA SwitchModeKeeps ==
    ASSUME WorkspaceInv, NEW m \in Modes, SwitchMode(m)
    PROVE  WorkspaceType' /\ OneRun'
<1>0. WorkspaceType /\ OneRun /\ UNCHANGED <<detail, selected, replaying, opens>>
  BY DEF WorkspaceInv, SwitchMode
<1>1. CASE Loaded
  <2>. PICK src : src = Source([client EXCEPT !.mode = m])
    OBVIOUS
  <2>1. /\ client' = [mode |-> m, run |-> client.run] /\ loads' = Asking(src, FALSE)
        /\ client.run \in Runs
    BY <1>0, <1>1 DEF OneRun, SwitchMode, Configure
  <2>2. src \in Runs \cup {Sample} /\ src = Source(client')
    <3>1. /\ [client EXCEPT !.mode = m].mode = m
          /\ [client EXCEPT !.mode = m].run = client.run
      BY <1>0 DEF WorkspaceType
    <3>. QED  BY <2>1, <3>1 DEF Source
  <2>3. /\ loads' \subseteq Load /\ IsFiniteSet(loads')
        /\ \A l, k \in loads' : l.newest /\ k.newest => l = k
        /\ \A l \in loads' : l.newest => l.source = Source(client')
    <3>1. PICK ask \in BOOLEAN : ask = FALSE
      OBVIOUS
    <3>2. loads' = Asking(src, ask)
      BY <2>1, <3>1
    <3>. QED  BY <1>0, <2>2, <3>2, AskedLoads
  <2>4. /\ app' = [app EXCEPT !.mode = m, !.run = client.run, !.root = None] /\ nav' = NoTrail
        /\ answered' = [answered EXCEPT !.load = FALSE, !.source = TRUE]
        /\ mixed' = (mixed \/ opens # {})
    BY <1>1 DEF SwitchMode
  <2>5. app' \in AppType /\ client' \in [mode : Modes, run : RunIds] /\ NavOK'
    <3>1. app' \in AppType
      BY <1>0, <2>1, <2>4 DEF WorkspaceType, AppType, RunIds
    <3>2. client' \in [mode : Modes, run : RunIds]
      BY <2>1 DEF RunIds
    <3>3. NavOK'
      BY <2>4 DEF NavOK, NoTrail
    <3>. QED  BY <3>1, <3>2, <3>3
  <2>6. /\ answered' \in [load : BOOLEAN, open : BOOLEAN, source : BOOLEAN]
        /\ mixed' \in BOOLEAN
    BY <1>0, <2>4 DEF WorkspaceType
  <2>7. WorkspaceType'
    BY <1>0, <2>3, <2>5, <2>6 DEF WorkspaceType
  <2>8. /\ client'.run = client.run /\ client'.mode = m /\ app'.run = client.run
        /\ app'.mode = m /\ app'.data = app.data /\ ~answered'.load /\ nav'.trail = <<>>
    BY <1>0, <2>1, <2>4 DEF WorkspaceType, AppType, NoTrail
  <2>9. OneRun'
    BY <1>0, <1>1, <2>1, <2>3, <2>4, <2>8 DEF OneRun, Loaded
  <2>. QED  BY <2>7, <2>9
<1>2. CASE ~Loaded
  <2>1. /\ app' = [app EXCEPT !.mode = m] /\ client' = [client EXCEPT !.mode = m]
        /\ answered' = [answered EXCEPT !.source = (loads = {})]
        /\ UNCHANGED <<nav, loads, mixed>>
    BY <1>2 DEF SwitchMode
  <2>2. app' \in AppType /\ client' \in [mode : Modes, run : RunIds]
        /\ answered' \in [load : BOOLEAN, open : BOOLEAN, source : BOOLEAN] /\ NavOK'
    BY <1>0, <2>1 DEF WorkspaceType, AppType, NavOK
  <2>3. WorkspaceType'
    BY <1>0, <2>1, <2>2 DEF WorkspaceType
  <2>4. /\ client'.run = client.run /\ client'.mode = m /\ app'.run = app.run
        /\ app'.mode = m /\ app'.data = app.data /\ answered'.load = answered.load
        /\ answered'.source = (loads = {})
    BY <1>0, <2>1 DEF WorkspaceType, AppType
  <2>5. opens' = {} /\ nav' = NoTrail /\ nav'.trail = <<>> /\ ~Loaded'
    BY <1>0, <1>2, <2>1, <2>4 DEF OneRun, NoTrail, Loaded
  <2>6. OneRun'
    BY <1>0, <2>1, <2>4, <2>5 DEF OneRun
  <2>. QED  BY <2>3, <2>6
<1>. QED  BY <1>1, <1>2

\* What is asked for is asked of the run that the client points to.
LEMMA AskedOpens ==
    ASSUME WorkspaceType, NEW va \in Vas, NEW by \in {"analysis", "shell"}, NEW jump \in BOOLEAN,
           NEW S, S \in {opens \cup Request(va, by, jump), Older(opens) \cup Request(va, by, jump)}
    PROVE  /\ S \subseteq Open /\ IsFiniteSet(S)
           /\ \A o \in S : o.source = Source(client) \/ \E x \in opens : o.source = x.source
<1>0. opens \subseteq Open /\ IsFiniteSet(opens) /\ Source(client) \in Places
  BY DEF WorkspaceType, Source, Places
<1>. PICK b \in BOOLEAN : b = (by = "analysis")
  OBVIOUS
<1>. PICK new : new = [n |-> Fresh(opens), newest |-> b, source |-> Source(client),
                       va |-> va, by |-> by, jump |-> jump]
  OBVIOUS
<1>1. Request(va, by, jump) = {new}
  BY DEF Request
<1>2. new \in Open /\ new.source = Source(client)
  BY <1>0, FreshNumber DEF Open
<1>3. /\ Older(opens) \subseteq Open /\ IsFiniteSet(Older(opens))
      /\ \A y \in Older(opens) : \E x \in opens : y.source = x.source
  BY <1>0, OlderOpens
<1>. PICK old : old \in {opens, Older(opens)} /\ S = old \cup {new}
  BY <1>1
<1>4. /\ old \subseteq Open /\ IsFiniteSet(old)
      /\ \A y \in old : \E x \in opens : y.source = x.source
  BY <1>0, <1>3
<1>5. IsFiniteSet(old \cup {new})
  BY <1>4, OneMore
<1>6. \A o \in S : o.source = Source(client) \/ \E x \in opens : o.source = x.source
  BY <1>2, <1>4
<1>. QED  BY <1>2, <1>4, <1>5, <1>6

LEMMA AskKeeps ==
    ASSUME WorkspaceType, OneRun, NEW va \in Vas, NEW by \in {"analysis", "shell"},
           NEW jump \in BOOLEAN, Ask(va, by, jump)
    PROVE  /\ opens' \subseteq Open /\ IsFiniteSet(opens')
           /\ answered' \in [load : BOOLEAN, open : BOOLEAN, source : BOOLEAN]
           /\ answered'.load = answered.load /\ answered'.source = answered.source
           /\ mixed' \in BOOLEAN /\ (mixed => mixed')
           /\ ~mixed => \A o \in opens' : o.source = Source(client)
<1>. PICK S : S = opens'
  OBVIOUS
<1>1. S \in {opens \cup Request(va, by, jump), Older(opens) \cup Request(va, by, jump)}
  BY DEF Ask
<1>2. /\ S \subseteq Open /\ IsFiniteSet(S)
      /\ \A o \in S : o.source = Source(client) \/ \E x \in opens : o.source = x.source
  <2>0. WorkspaceType /\ va \in Vas /\ by \in {"analysis", "shell"} /\ jump \in BOOLEAN
    OBVIOUS
  <2>1. CASE S = opens \cup Request(va, by, jump)
    BY ONLY <2>0, <2>1, AskedOpens
  <2>2. CASE S = Older(opens) \cup Request(va, by, jump)
    BY ONLY <2>0, <2>2, AskedOpens
  <2>. QED  BY <1>1, <2>1, <2>2
<1>3. /\ answered' \in [load : BOOLEAN, open : BOOLEAN, source : BOOLEAN]
      /\ answered'.load = answered.load /\ answered'.source = answered.source
  BY DEF Ask, WorkspaceType
<1>4. mixed' \in BOOLEAN /\ (mixed => mixed')
  BY DEF Ask, WorkspaceType
<1>. QED  BY <1>2, <1>3, <1>4 DEF OneRun

LEMMA LoadAnsweredKeeps ==
    ASSUME WorkspaceType, OneRun, NEW l \in loads, LoadAnswered(l)
    PROVE  WorkspaceType' /\ OneRun'
<1>0. /\ l \in Load /\ loads' = loads \ {l} /\ UNCHANGED <<client, detail, selected, nav, replaying>>
      /\ IsFiniteSet(loads') /\ loads' \subseteq Load
  BY OneMore DEF LoadAnswered, WorkspaceType
<1>1. /\ app' \in AppType /\ app'.data = l.source /\ app'.run = app.run /\ app'.mode = app.mode
      /\ Loaded' /\ NavOK'
  <2>1. l.source \in Runs \cup {Sample} /\ l.source # "none" /\ l.ask \in BOOLEAN
    BY <1>0 DEF Load, Sample
  <2>2. app \in AppType /\ app' = [app EXCEPT !.data = l.source, !.view = "analysis",
                                            !.asking = @ \/ l.ask]
    BY DEF LoadAnswered, WorkspaceType
  <2>3. app' \in AppType /\ app'.data = l.source /\ app'.run = app.run /\ app'.mode = app.mode
    BY <2>1, <2>2 DEF AppType
  <2>4. NavOK'
    BY <1>0 DEF WorkspaceType, NavOK
  <2>. QED  BY <2>1, <2>3, <2>4 DEF Loaded
<1>2. /\ answered' \in [load : BOOLEAN, open : BOOLEAN, source : BOOLEAN]
      /\ answered'.load = l.newest /\ answered'.source = answered.source
  BY Zenon, <1>0 DEF LoadAnswered, WorkspaceType, Load
<1>3. mixed' \in BOOLEAN /\ (mixed => mixed')
  BY DEF LoadAnswered, WorkspaceType
<1>4. /\ opens' \subseteq Open /\ IsFiniteSet(opens')
      /\ ~mixed => \A o \in opens' : o.source = Source(client)
  <2>1. CASE detail = NoFunction
    <3>. PICK jump \in BOOLEAN : jump = FALSE
      OBVIOUS
    <3>. PICK S : S = opens'
      OBVIOUS
    <3>1. S = Older(opens) \cup Request(First, "analysis", jump)
      BY <2>1 DEF LoadAnswered
    <3>2. /\ S \subseteq Open /\ IsFiniteSet(S)
          /\ \A o \in S : o.source = Source(client) \/ \E x \in opens : o.source = x.source
      BY <3>1, AskedOpens
    <3>. QED  BY <3>2 DEF OneRun
  <2>2. CASE detail # NoFunction
    BY <2>2 DEF LoadAnswered, OneRun, WorkspaceType
  <2>. QED  BY <2>1, <2>2
<1>5. WorkspaceType'
  BY <1>0, <1>1, <1>2, <1>3, <1>4 DEF WorkspaceType
<1>6. client.run \in Runs /\ app.run = client.run
  BY DEF OneRun
<1>7. \A k \in loads' : ~(l.newest /\ k.newest)
  BY <1>0 DEF OneRun
<1>8. /\ \A k, j \in loads' : k.newest /\ j.newest => k = j
      /\ \A k \in loads' : k.newest => ~l.newest /\ (answered.source => k.source = Source(client))
      /\ answered.source => app.mode = client.mode
      /\ l.newest /\ answered.source => l.source = Source(client)
      /\ ~mixed' /\ nav.trail # <<>> => detail.source = Source(client)
  BY <1>0, <1>3, <1>7 DEF OneRun
<1>9. OneRun'
  BY <1>0, <1>1, <1>2, <1>3, <1>4, <1>6, <1>8 DEF OneRun
<1>. QED  BY <1>5, <1>9

\* recordVisit leaves a trail with a crumb, at which the pointer is, if it
\* leaves one.
LEMMA VisitedOK ==
    ASSUME NavOK, NEW va \in Vas
    PROVE  /\ Visited(va) \in [trail : Seq(Vas), index : Nat]
           /\ Visited(va).index \in 0 .. Len(Visited(va).trail)
<1>. PICK kept : kept = Append(SubSeq(nav.trail, 1, nav.index), va)
  OBVIOUS
<1>1. kept \in Seq(Vas) /\ Len(kept) = nav.index + 1
  BY DEF NavOK
<1>. PICK capped : capped = IF Len(kept) > MaxTrail THEN Tail(kept) ELSE kept
  OBVIOUS
<1>2. capped \in Seq(Vas) /\ Len(capped) \in Nat
  BY <1>1
<1>3. Visited(va) \in {nav, [trail |-> capped, index |-> Len(capped)]}
  BY DEF Visited
<1>4. CASE Visited(va) = nav
  BY <1>4 DEF NavOK
<1>5. CASE Visited(va) = [trail |-> capped, index |-> Len(capped)]
  BY ONLY <1>2, <1>5
<1>. QED  BY <1>3, <1>4, <1>5

LEMMA FunctionStepsKeep ==
    ASSUME WorkspaceType, OneRun,
           \/ \E va \in Vas : OpenFunction(va) \/ SelectFunction(va)
           \/ \E i \in 1 .. MaxTrail : Jump(i)
    PROVE  WorkspaceType' /\ OneRun'
<1>1. PICK va \in Vas, by \in {"analysis", "shell"}, jump \in BOOLEAN :
        /\ Ask(va, by, jump) /\ Loaded /\ app' \in {app, [app EXCEPT !.view = "analysis"]}
        /\ UNCHANGED <<client, detail, selected, loads>>
        /\ \/ UNCHANGED <<nav, replaying>>
           \/ \E i \in DOMAIN nav.trail : /\ nav' = [nav EXCEPT !.index = i]
                                          /\ replaying' = nav.trail[i]
  <2>1. ASSUME NEW va \in Vas, OpenFunction(va) \/ SelectFunction(va)
        PROVE  \E by \in {"analysis", "shell"}, jump \in BOOLEAN :
                 /\ Ask(va, by, jump) /\ Loaded
                 /\ app' \in {app, [app EXCEPT !.view = "analysis"]}
                 /\ UNCHANGED <<client, detail, selected, loads, nav, replaying>>
    <3>1. CASE OpenFunction(va)
      <4>1. Ask(va, "analysis", FALSE)
        BY <3>1 DEF OpenFunction
      <4>. QED  BY <3>1, <4>1 DEF OpenFunction
    <3>2. CASE SelectFunction(va)
      <4>1. Ask(va, "shell", FALSE)
        BY <3>2 DEF SelectFunction
      <4>. QED  BY <3>2, <4>1 DEF SelectFunction
    <3>. QED  BY <2>1, <3>1, <3>2
  <2>2. ASSUME NEW i \in 1 .. MaxTrail, Jump(i)
        PROVE  /\ i \in DOMAIN nav.trail /\ nav.trail[i] \in Vas
               /\ Ask(nav.trail[i], "analysis", TRUE) /\ Loaded
               /\ app' = [app EXCEPT !.view = "analysis"]
               /\ UNCHANGED <<client, detail, selected, loads>>
               /\ nav' = [nav EXCEPT !.index = i] /\ replaying' = nav.trail[i]
    <3>1. i \in DOMAIN nav.trail /\ nav.trail[i] \in Vas
      BY <2>2 DEF Jump, WorkspaceType, NavOK
    <3>2. Ask(nav.trail[i], "analysis", TRUE)
      BY <2>2 DEF Jump
    <3>. QED  BY <2>2, <3>1, <3>2 DEF Jump
  <2>. QED  BY Zenon, <2>1, <2>2
<1>2. /\ opens' \subseteq Open /\ IsFiniteSet(opens')
      /\ answered' \in [load : BOOLEAN, open : BOOLEAN, source : BOOLEAN]
      /\ answered'.load = answered.load /\ answered'.source = answered.source
      /\ mixed' \in BOOLEAN /\ (mixed => mixed')
      /\ ~mixed => \A o \in opens' : o.source = Source(client)
  <2>1. Ask(va, by, jump)
    BY <1>1
  <2>. QED  BY <2>1, AskKeeps
<1>3. app' \in AppType /\ app'.run = app.run /\ app'.mode = app.mode /\ app'.data = app.data
  BY <1>1 DEF WorkspaceType, AppType
<1>4. /\ NavOK' /\ nav'.trail = nav.trail /\ replaying' \in Vas \cup {None}
  <2>1. CASE UNCHANGED <<nav, replaying>>
    BY <2>1 DEF WorkspaceType, NavOK
  <2>2. ASSUME NEW i \in DOMAIN nav.trail, nav' = [nav EXCEPT !.index = i],
               replaying' = nav.trail[i]
        PROVE  /\ NavOK' /\ nav'.trail = nav.trail /\ replaying' \in Vas \cup {None}
    BY <2>2 DEF WorkspaceType, NavOK
  <2>. QED  BY <1>1, <2>1, <2>2
<1>5. WorkspaceType'
  BY <1>1, <1>2, <1>3, <1>4 DEF WorkspaceType
<1>6. Loaded /\ Loaded' /\ UNCHANGED <<client, detail, loads>>
  BY <1>1, <1>3 DEF Loaded
<1>7. OneRun'
  BY <1>2, <1>3, <1>4, <1>6 DEF OneRun
<1>. QED  BY <1>5, <1>7

LEMMA OpenAnsweredKeeps ==
    ASSUME WorkspaceType, OneRun, NEW o \in opens, OpenAnswered(o)
    PROVE  WorkspaceType' /\ OneRun'
<1>0. /\ o \in Open /\ opens' = opens \ {o} /\ UNCHANGED <<client, app, loads, mixed>>
      /\ IsFiniteSet(opens') /\ opens' \subseteq Open
  BY OneMore DEF OpenAnswered, WorkspaceType
<1>1. /\ [source |-> o.source, va |-> o.va] \in Shown
      /\ [source |-> o.source, va |-> o.va].source = o.source
  BY <1>0 DEF Open, Shown
<1>2. /\ selected' \in Shown /\ detail' \in Shown /\ replaying' \in Vas \cup {None} /\ NavOK'
      /\ answered' \in [load : BOOLEAN, open : BOOLEAN, source : BOOLEAN]
      /\ answered'.load = answered.load /\ answered'.source = answered.source
      /\ \/ detail'.source = o.source
         \/ UNCHANGED <<detail, nav>>
  <2>1. CASE o.by = "analysis"
    <3>1. /\ selected' = [source |-> o.source, va |-> o.va] /\ detail' = selected'
          /\ nav' = Visited(o.va) /\ replaying' = None
          /\ answered' = [answered EXCEPT !.open = o.newest]
      BY <2>1 DEF OpenAnswered
    <3>2. o.va \in Vas /\ o.newest \in BOOLEAN
      BY <1>0 DEF Open
    <3>3. NavOK'
      BY <3>1, <3>2, VisitedOK DEF NavOK, WorkspaceType
    <3>. QED  BY <1>1, <3>1, <3>2, <3>3 DEF WorkspaceType
  <2>2. CASE o.by # "analysis"
    BY <1>1, <2>2 DEF OpenAnswered, WorkspaceType, NavOK
  <2>. QED  BY <2>1, <2>2
<1>3. WorkspaceType'
  BY <1>0, <1>2 DEF WorkspaceType
<1>4. Loaded /\ Loaded'
  BY <1>0 DEF OneRun, Loaded
<1>5. ~mixed => o.source = Source(client)
  BY DEF OneRun
<1>6. OneRun'
  BY <1>0, <1>2, <1>4, <1>5 DEF OneRun
<1>. QED  BY <1>3, <1>6

LEMMA OtherStepsKeep ==
    ASSUME WorkspaceType, OneRun,
           \/ \E l \in loads : LoadFails(l)
           \/ \E o \in opens : OpenFails(o)
           \/ \E v \in Views : ShowView(v)
           \/ PinRoot
    PROVE  WorkspaceType' /\ OneRun'
<1>1. CASE \E l \in loads : LoadFails(l)
  <2>. PICK l \in loads : LoadFails(l)
    BY <1>1
  <2>1. /\ loads' = loads \ {l} /\ IsFiniteSet(loads')
        /\ UNCHANGED <<client, app, detail, selected, nav, replaying, opens, answered, mixed>>
    BY OneMore DEF LoadFails, WorkspaceType
  <2>. QED  BY <2>1 DEF WorkspaceType, OneRun, Loaded, NavOK
<1>2. CASE \E o \in opens : OpenFails(o)
  <2>. PICK o \in opens : OpenFails(o)
    BY <1>2
  <2>1. /\ opens' = opens \ {o} /\ IsFiniteSet(opens') /\ mixed' = TRUE
        /\ UNCHANGED <<client, app, detail, selected, nav, replaying, loads, answered>>
    BY OneMore DEF OpenFails, WorkspaceType
  <2>. QED  BY <2>1 DEF WorkspaceType, OneRun, Loaded, NavOK
<1>3. CASE (\E v \in Views : ShowView(v)) \/ PinRoot
  <2>1. /\ app' \in AppType /\ app'.run = app.run /\ app'.mode = app.mode /\ app'.data = app.data
        /\ UNCHANGED <<client, detail, selected, nav, replaying, loads, opens, answered, mixed>>
    <3>1. CASE \E v \in Views : ShowView(v)
      BY <3>1 DEF ShowView, WorkspaceType, AppType
    <3>2. CASE PinRoot
      <4>1. nav.trail[nav.index] \in Vas
        BY <3>2 DEF PinRoot, WorkspaceType, NavOK
      <4>. QED  BY <3>2, <4>1 DEF PinRoot, WorkspaceType, AppType
    <3>. QED  BY <1>3, <3>1, <3>2
  <2>. QED  BY <2>1 DEF WorkspaceType, OneRun, Loaded, NavOK
<1>. QED  BY <1>1, <1>2, <1>3

LEMMA WorkspaceStepKeeps ==
    ASSUME WorkspaceInv, WorkspaceStep PROVE WorkspaceType' /\ OneRun'
<1>0. WorkspaceType /\ OneRun
  BY DEF WorkspaceInv
<1>1. ASSUME NEW r \in Runs, OpenReport(r) PROVE WorkspaceType' /\ OneRun'
  <2>1. app.mode \in Modes
    BY <1>0 DEF WorkspaceType, AppType
  <2>2. PICK ask \in BOOLEAN : ask = FALSE
    OBVIOUS
  <2>3. /\ LoadRun(r, app.mode, ask) /\ UNCHANGED <<detail, selected, replaying, opens>>
    BY <1>1, <2>2 DEF OpenReport
  <2>. QED  BY <2>1, <2>3, LoadRunKeeps
<1>2. CASE Reload
  <2>1. app.mode \in Modes /\ app.run \in Runs
    BY <1>0, <1>2 DEF WorkspaceType, AppType, Reload, OneRun
  <2>2. PICK ask \in BOOLEAN : ask = FALSE
    OBVIOUS
  <2>3. LoadRun(app.run, app.mode, ask) /\ UNCHANGED <<detail, selected, replaying, opens>>
    BY <1>2, <2>2 DEF Reload
  <2>. QED  BY <2>1, <2>3, LoadRunKeeps
<1>3. CASE \E m \in Modes : SwitchMode(m)
  BY <1>3, SwitchModeKeeps
<1>4. CASE \E l \in loads : LoadAnswered(l)
  BY <1>0, <1>4, LoadAnsweredKeeps
<1>5. CASE \/ \E va \in Vas : OpenFunction(va) \/ SelectFunction(va)
           \/ \E i \in 1 .. MaxTrail : Jump(i)
  BY <1>0, <1>5, FunctionStepsKeep
<1>6. CASE \E o \in opens : OpenAnswered(o)
  BY <1>0, <1>6, OpenAnsweredKeeps
<1>7. CASE \/ \E l \in loads : LoadFails(l)
           \/ \E o \in opens : OpenFails(o)
           \/ \E v \in Views : ShowView(v)
           \/ PinRoot
  BY <1>0, <1>7, OtherStepsKeep
<1>. QED  BY <1>1, <1>2, <1>3, <1>4, <1>5, <1>6, <1>7 DEF WorkspaceStep

LEMMA UploadTypeKeeps ==
    ASSUME WorkspaceInv, UploadStep \/ UploadOpens PROVE UploadType'
<1>0. UploadType /\ app.mode \in Modes /\ Len(Uploads) \in Nat /\ Numbers = 1 .. Len(Uploads)
  BY DEF WorkspaceInv, WorkspaceType, AppType, Numbers
<1>1. ASSUME NEW u \in Numbers, SendFile(u) PROVE UploadType'
  <2>1. [stage |-> "sending", mode |-> app.mode] \in Uploaded
    BY <1>0 DEF Uploaded
  <2>2. upload' \in [Numbers -> Uploaded]
    BY <1>0, <1>1, <2>1 DEF SendFile, UploadType
  <2>3. page' \in [busy : BOOLEAN, upload : 0 .. Len(Uploads)]
    BY <1>0, <1>1 DEF SendFile
  <2>. QED  BY <1>0, <1>1, <2>2, <2>3 DEF SendFile, UploadType
<1>2. ASSUME NEW u \in Numbers, NEW s \in {"analysing", "over", "done", "failed"}
      PROVE  [upload EXCEPT ![u].stage = s] \in [Numbers -> Uploaded]
  <2>. PICK x \in Uploaded : x = upload[u]
    BY <1>0 DEF UploadType
  <2>1. [x EXCEPT !.stage = s] \in Uploaded
    BY ONLY s \in {"analysing", "over", "done", "failed"}, x \in Uploaded DEF Uploaded
  <2>. QED  BY <1>0, <2>1 DEF UploadType
<1>3. ASSUME NEW u \in Numbers, FileSent(u) PROVE UploadType'
  <2>1. upload' \in [Numbers -> Uploaded]
    BY <1>2, <1>3 DEF FileSent, UploadBinary
  <2>. QED  BY <1>0, <1>3, <2>1 DEF FileSent, UploadType
<1>4. ASSUME NEW u \in Numbers, SendFails(u) PROVE UploadType'
  <2>1. upload' \in [Numbers -> Uploaded]
    BY <1>2, <1>4 DEF SendFails, UploadBinary
  <2>. QED  BY <1>0, <1>4, <2>1 DEF SendFails, UploadType
<1>5. ASSUME NEW u \in Numbers, RunSettles(u) PROVE UploadType'
  <2>1. upload' \in [Numbers -> Uploaded]
    <3>1. PICK s \in {"done", "failed"} : upload' = [upload EXCEPT ![u].stage = s]
      BY <1>5 DEF RunSettles
    <3>. QED  BY <1>2, <3>1
  <2>. QED  BY <1>0, <1>5, <2>1 DEF RunSettles, UploadType
<1>6. ASSUME NEW u \in Numbers, Tick(u) PROVE UploadType'
  BY <1>0, <1>6 DEF Tick, UploadType
<1>7. ASSUME NEW u \in Numbers, ticks[u] > 0, ticks' = [ticks EXCEPT ![u] = @ - 1]
      PROVE  ticks' \in [Numbers -> Nat]
  BY <1>0, <1>7 DEF UploadType
<1>8. ASSUME NEW u \in Numbers, TickDone(u) PROVE UploadType'
  <2>1. ticks' \in [Numbers -> Nat] /\ opened' \in [Numbers -> Nat]
    <3>1. ticks[u] > 0 /\ ticks' = [ticks EXCEPT ![u] = @ - 1]
      BY <1>8 DEF TickDone, TickOver
    <3>2. opened' = [opened EXCEPT ![u] = @ + 1] /\ opened \in [Numbers -> Nat]
      BY <1>0, <1>8 DEF TickDone, UploadType
    <3>3. ticks' \in [Numbers -> Nat]
      BY <1>7, <3>1
    <3>4. opened' \in [Numbers -> Nat]
      BY ONLY <3>2
    <3>. QED  BY <3>3, <3>4
  <2>. QED  BY <1>0, <1>8, <2>1 DEF TickDone, Ended, UploadType
<1>9. ASSUME NEW u \in Numbers, TickEnds(u) PROVE UploadType'
  <2>1. ticks' \in [Numbers -> Nat]
    BY <1>7, <1>9 DEF TickEnds, TickOver
  <2>. QED  BY <1>0, <1>9, <2>1 DEF TickEnds, Ended, UploadType
<1>10. ASSUME NEW u \in Numbers, TickWaits(u) PROVE UploadType'
  <2>1. ticks' \in [Numbers -> Nat]
    BY <1>7, <1>10 DEF TickWaits, TickOver
  <2>. QED  BY <1>0, <1>10, <2>1 DEF TickWaits, UploadType
<1>. QED  BY <1>1, <1>3, <1>4, <1>5, <1>6, <1>8, <1>9, <1>10 DEF UploadStep, UploadOpens

LEMMA WorkspaceNext == ASSUME WorkspaceInv, [Next]_shellVars PROVE WorkspaceInv'
<1>1. ASSUME UNCHANGED <<client, appVars>> PROVE WorkspaceType' /\ OneRun'
  BY <1>1 DEF WorkspaceInv, WorkspaceType, OneRun, appVars, NavOK, Loaded
<1>2. ASSUME UNCHANGED uploadVars PROVE UploadType'
  BY <1>2 DEF WorkspaceInv, UploadType, uploadVars
<1>3. CASE WorkspaceStep
  BY <1>2, <1>3, WorkspaceStepKeeps, WorkspaceFrame DEF WorkspaceInv, pageVars
<1>4. CASE UploadStep
  BY <1>1, <1>4, UploadFrame, UploadTypeKeeps DEF WorkspaceInv
<1>5. CASE UploadOpens
  <2>. PICK u \in Numbers : TickDone(u)
    BY <1>5 DEF UploadOpens
  <2>1. Uploads[u] \in Runs /\ upload[u].mode \in Modes
    BY DEF WorkspaceInv, UploadType, Uploaded, Numbers
  <2>2. PICK ask \in BOOLEAN : ask = TRUE
    OBVIOUS
  <2>3. LoadRun(Uploads[u], upload[u].mode, ask) /\ UNCHANGED <<detail, selected, replaying, opens>>
    BY <2>2 DEF TickDone
  <2>4. WorkspaceType' /\ OneRun'
    BY <2>1, <2>3, LoadRunKeeps
  <2>. QED  BY <1>5, <2>4, UploadTypeKeeps DEF WorkspaceInv
<1>6. CASE AutoStep \/ TabStep \/ SecurityStep \/ WindowStep \/ TreeStep \/ UNCHANGED shellVars
  <2>1. UNCHANGED <<client, appVars, uploadVars>>
    BY <1>6, AutoFrame, TabFrame, SecurityFrame, WindowFrame, TreeFrame DEF pageVars, shellVars
  <2>. QED  BY <1>1, <1>2, <2>1 DEF WorkspaceInv
<1>. QED  BY <1>3, <1>4, <1>5, <1>6, EveryStep

LEMMA WorkspaceInvariance == Spec => []WorkspaceInv
BY WorkspaceStart, WorkspaceNext, PTL DEF Spec

\* Whichever loads are answered in whatever order, or not at all: once the last
\* that was asked for has been answered last, the data on screen, the run and
\* mode that requests go to, the menu and the function opened since are of one
\* run.
THEOREM ScreenShowsOneRun == Spec => []ScreenIsOneRun
<1>1. WorkspaceInv => ScreenIsOneRun
  BY DEF WorkspaceInv, OneRun, ScreenIsOneRun
<1>. QED  BY <1>1, WorkspaceInvariance, PTL
-----------------------------------------------------------------------------
(* The upload page.                                                        *)

\* Of the uploads, the last is the one under way.  Its timer is set, and the
\* only one, from the moment its binary has been sent.
UploadInv ==
    ~slow =>
        /\ \A u \in Numbers : ticks[u] <= 1 /\ opened[u] <= 1
        /\ \A u \in Numbers : u > page.upload => opened[u] = 0
        /\ \A u \in Numbers : upload[u].stage = "sending" => page.busy /\ page.upload = u
        /\ ~page.busy => timers = {} /\ \A u \in Numbers : ticks[u] = 0
        /\ page.busy =>
              /\ page.upload \in Numbers /\ opened[page.upload] = 0
              /\ \A u \in Numbers : ticks[u] > 0 => u = page.upload
              /\ IF upload[page.upload].stage = "sending"
                 THEN timers = {} /\ \A u \in Numbers : ticks[u] = 0
                 ELSE timers = {page.upload} /\ poll = page.upload

LEMMA UploadStart == ASSUME Init PROVE UploadInv
BY DEF Init, UploadInit, UploadInv

LEMMA UploadNext == ASSUME WorkspaceInv, UploadInv, [Next]_shellVars PROVE UploadInv'
<1>0. UploadType /\ Len(Uploads) \in Nat /\ Numbers = 1 .. Len(Uploads)
  BY DEF WorkspaceInv, Numbers
<1>1. ASSUME NEW u \in Numbers, SendFile(u) PROVE UploadInv'
  BY <1>0, <1>1 DEF SendFile, UploadInv, UploadType, Uploaded
<1>2. ASSUME NEW u \in Numbers, FileSent(u) PROVE UploadInv'
  BY <1>0, <1>2 DEF FileSent, UploadBinary, UploadInv, UploadType, Uploaded
<1>3. ASSUME NEW u \in Numbers, SendFails(u) PROVE UploadInv'
  BY <1>0, <1>3 DEF SendFails, UploadBinary, UploadInv, UploadType, Uploaded
<1>4. ASSUME NEW u \in Numbers, RunSettles(u) PROVE UploadInv'
  BY <1>0, <1>4 DEF RunSettles, UploadInv, UploadType, Uploaded
<1>5. ASSUME NEW u \in Numbers, Tick(u) PROVE UploadInv'
  BY <1>0, <1>5 DEF Tick, UploadInv, UploadType
<1>6. ASSUME NEW u \in Numbers, TickDone(u) PROVE UploadInv'
  BY <1>0, <1>6 DEF TickDone, TickOver, Ended, UploadInv, UploadType
<1>7. ASSUME NEW u \in Numbers, TickEnds(u) PROVE UploadInv'
  BY <1>0, <1>7 DEF TickEnds, TickOver, Ended, UploadInv, UploadType
<1>8. ASSUME NEW u \in Numbers, TickWaits(u) PROVE UploadInv'
  BY <1>0, <1>8 DEF TickWaits, TickOver, UploadInv, UploadType
<1>9. CASE UploadStep \/ UploadOpens
  BY <1>1, <1>2, <1>3, <1>4, <1>5, <1>6, <1>7, <1>8, <1>9 DEF UploadStep, UploadOpens
<1>10. ASSUME UNCHANGED uploadVars PROVE UploadInv'
  BY <1>10 DEF UploadInv, uploadVars
<1>11. CASE \/ WorkspaceStep \/ AutoStep \/ TabStep \/ SecurityStep \/ WindowStep \/ TreeStep
            \/ UNCHANGED shellVars
  BY <1>10, <1>11, WorkspaceFrame, AutoFrame, TabFrame, SecurityFrame, WindowFrame, TreeFrame
     DEF pageVars, shellVars
<1>. QED  BY <1>9, <1>11, EveryStep

\* While the page says that a binary is being analysed, its run is polled; when
\* it says nothing no timer is left; and a run is opened once.
THEOREM UploadIsWatched == Spec => []UploadWatched
<1>1. UploadInv => UploadWatched
  BY DEF UploadInv, UploadWatched
<1>. QED  BY <1>1, UploadStart, UploadNext, WorkspaceInvariance, PTL DEF Spec
-----------------------------------------------------------------------------
(* The automated run.                                                      *)

JobStates == {"not-started", "running", "full", "done", "stopped"}
AutoState == [state : {"idle", "running", "blocked", "done", "stopped"},
              stage : 0 .. Len(Stages), guard : BOOLEAN]
PollRec == [n : Nat, stage : StageNumbers, read : JobStates \cup {Unread, "null"}]
PostRec == [n : Nat, source : Runs \cup {Sample}, stage : StageNumbers]

Busy == polls # {} \/ posts # {} \/ stops # <<>> \/ clearing # {}

AutoType ==
    /\ auto \in AutoState
    /\ auto.state = "running" => auto.stage \in StageNumbers
    /\ polls \subseteq PollRec /\ IsFiniteSet(polls)
    /\ posts \subseteq PostRec /\ IsFiniteSet(posts) /\ stops \in Seq(StageNumbers)
    /\ jobs \in [Runs -> [StageNumbers -> JobStates]] /\ strained \in BOOLEAN
    /\ auto.state = "running" \/ Busy => Loaded

\* A stage that was left for good: it is done, or its counters had said so.
LeftOff(r, k) == jobs[r][k] = "done" \/ Stage(r, k) \in behind

\* The stages at work that the page has not left.
Held(r, k) == jobs[r][k] \in Working /\ Stage(r, k) \notin behind

\* While the page says that a run is going, nothing is being stopped or reset;
\* what is being started is the stage it is at, of the run it was started for.
Starting ==
    /\ auto.state = "running" => stops = <<>> /\ clearing = {}
    /\ posts # {} => auto.state = "running"
    /\ \A p \in posts :
          /\ p.source = target /\ p.stage = auto.stage
          /\ p.stage = 1 => posts = {p}
          /\ p.stage > 1 /\ p.source # Sample => LeftOff(p.source, p.stage - 1)

\* The only stage at work that it has not left is the one it is at, or one that
\* an open Stop has still to reach.
OneAtWork ==
    \A r \in Runs, k \in StageNumbers : Held(r, k) =>
        /\ r = target
        /\ \A j \in StageNumbers : Held(r, j) => j = k
        /\ auto.state = "running" => k = auto.stage
        /\ auto.state # "running" => \E i \in DOMAIN stops : stops[i] = k

\* What a tick has been told is still so, and nobody has started its stage
\* again: it is one that the page has left, or the page is waiting there.
ReadTrue(t) ==
    /\ target \in Runs /\ t.stage <= auto.stage
    /\ t.stage = auto.stage => posts = {}
    /\ t.read = "stopped" => t.stage = auto.stage /\ jobs[target][t.stage] = "stopped"
    /\ t.read = "done" => jobs[target][t.stage] = "done"
    /\ t.read = "full" =>
          /\ jobs[target][t.stage] \in Working \cup {"done"}
          /\ t.stage < auto.stage => LeftOff(target, t.stage)

ReadsTrue == auto.state = "running" => \A t \in polls : Tells(t.read) => ReadTrue(t)

AutoInv == ~strained => Starting /\ OneAtWork /\ ReadsTrue

LEMMA AutoStart == ASSUME Init PROVE AutoType /\ AutoInv
<1>1. AutoInit
  BY DEF Init
<1>2. /\ auto = [state |-> "idle", stage |-> 0, guard |-> FALSE]
      /\ polls = {} /\ posts = {} /\ stops = <<>> /\ clearing = {}
      /\ jobs = [r \in Runs |-> [k \in StageNumbers |-> "not-started"]] /\ strained = FALSE
  BY <1>1 DEF AutoInit
<1>3. AutoType
  <2>1. auto \in AutoState /\ auto.state # "running"
    BY <1>2 DEF AutoState
  <2>2. jobs \in [Runs -> [StageNumbers -> JobStates]]
    BY <1>2 DEF JobStates
  <2>3. stops \in Seq(StageNumbers) /\ ~Busy
    BY <1>2 DEF Busy
  <2>. QED  BY <1>2, <2>1, <2>2, <2>3, FS_EmptySet DEF AutoType
<1>4. AutoInv
  BY <1>2 DEF AutoInv, Starting, OneAtWork, Held, Working, ReadsTrue
<1>. QED  BY <1>3, <1>4

LEMMA HereInRuns == ASSUME WorkspaceInv, Loaded PROVE Here \in Runs \cup {Sample}
BY DEF WorkspaceInv, WorkspaceType, OneRun, Here, Source

\* What a run is asked about its jobs.
LEMMA AskedJob ==
    ASSUME WorkspaceInv, AutoType, Loaded, NEW k \in StageNumbers
    PROVE  /\ GetAiJob(k) \in JobStates
           /\ Here \in Runs => GetAiJob(k) = jobs[Here][k]
           /\ Here \notin Runs => GetAiJob(k) = "not-started"
<1>1. Here \in Runs \cup {Sample} /\ Sample \notin Runs
  BY HereInRuns DEF Sample
<1>. QED  BY <1>1 DEF GetAiJob, AutoType, JobStates

LEMMA LoadedStays == ASSUME WorkspaceInv, [Next]_shellVars, Loaded PROVE Loaded'
<1>1. WorkspaceType
  BY DEF WorkspaceInv
<1>2. ASSUME NEW l \in loads, app'.data = l.source PROVE Loaded'
  <2>1. l.source \in Runs \cup {Sample}
    BY <1>1 DEF WorkspaceType, Load
  <2>. QED  BY <1>2, <2>1 DEF Loaded, Sample
<1>3. ASSUME app'.data = app.data PROVE Loaded'
  BY <1>3 DEF Loaded
<1>4. CASE \E l \in loads : LoadAnswered(l)
  <2>. PICK l \in loads : LoadAnswered(l)
    BY <1>4
  <2>1. /\ app' = [app EXCEPT !.data = l.source, !.view = "analysis", !.asking = @ \/ l.ask]
        /\ app \in AppType
    BY <1>1 DEF LoadAnswered, WorkspaceType
  <2>2. app'.data = l.source
    BY ONLY <2>1 DEF AppType
  <2>. QED  BY <1>2, <2>2
<1>5. CASE WorkspaceStep /\ ~(\E l \in loads : LoadAnswered(l))
  <2>1. app \in AppType
    BY <1>1 DEF WorkspaceType
  <2>2. CASE \/ \E r \in Runs : OpenReport(r)
             \/ Reload
             \/ \E m \in Modes : SwitchMode(m)
    BY Zenon, <1>3, <2>1, <2>2 DEF AppType, OpenReport, Reload, SwitchMode, LoadRun
  <2>3. CASE \/ \E va \in Vas : OpenFunction(va) \/ SelectFunction(va)
             \/ \E i \in 1 .. MaxTrail : Jump(i)
    BY <1>3, <2>1, <2>3 DEF AppType, OpenFunction, SelectFunction, Jump
  <2>4. CASE \/ \E l \in loads : LoadFails(l)
             \/ \E o \in opens : OpenAnswered(o) \/ OpenFails(o)
    BY <1>3, <2>4 DEF LoadFails, OpenAnswered, OpenFails
  <2>5. CASE \/ \E v \in Views : ShowView(v)
             \/ PinRoot
    BY <1>3, <2>1, <2>5 DEF AppType, ShowView, PinRoot
  <2>. QED  BY <1>5, <2>2, <2>3, <2>4, <2>5 DEF WorkspaceStep
<1>6. CASE UploadOpens
  <2>1. app'.data = app.data
    BY <1>1, <1>6 DEF UploadOpens, TickDone, LoadRun, WorkspaceType, AppType
  <2>. QED  BY <1>3, <2>1
<1>7. CASE \/ UploadStep \/ AutoStep \/ TabStep \/ SecurityStep \/ WindowStep \/ TreeStep
           \/ UNCHANGED shellVars
  <2>1. UNCHANGED appVars
    BY <1>7, UploadFrame, AutoFrame, TabFrame, SecurityFrame, WindowFrame, TreeFrame DEF shellVars
  <2>. QED  BY <1>3, <2>1 DEF appVars
<1>. QED  BY <1>4, <1>5, <1>6, <1>7, EveryStep

LEMMA AutoTypeNext ==
    ASSUME WorkspaceInv, AutoType, [Next]_shellVars PROVE AutoType'
<1>0. /\ auto \in AutoState /\ (auto.state = "running" => auto.stage \in StageNumbers)
      /\ polls \subseteq PollRec /\ IsFiniteSet(polls)
      /\ posts \subseteq PostRec /\ IsFiniteSet(posts) /\ stops \in Seq(StageNumbers)
      /\ jobs \in [Runs -> [StageNumbers -> JobStates]] /\ strained \in BOOLEAN
      /\ (auto.state = "running" \/ Busy => Loaded)
  BY DEF AutoType
<1>1. Len(Stages) \in Nat \ {0} /\ StageNumbers = 1 .. Len(Stages) /\ 1 \in StageNumbers
  BY DEF StageNumbers
<1>2. ASSUME UNCHANGED autoVars PROVE AutoType'
  BY <1>0, <1>2, LoadedStays DEF AutoType, autoVars, Busy
<1>. DEFINE Frame == UNCHANGED <<client, app>>
<1>3. ASSUME Frame, auto' \in AutoState,
             auto'.state = "running" => auto'.stage \in StageNumbers /\ Loaded,
             polls' = polls, posts' \subseteq PostRec, IsFiniteSet(posts'), stops' = stops,
             clearing' = clearing,
             posts' # {} => posts # {} \/ Loaded,
             jobs' \in [Runs -> [StageNumbers -> JobStates]], strained' \in BOOLEAN
      PROVE  AutoType'
  BY <1>0, <1>3 DEF AutoType, Busy, Loaded
<1>4. ASSUME PressStart PROVE AutoType'
  <2>1. Here \in Runs \cup {Sample}
    BY <1>4, HereInRuns DEF PressStart
  <2>2. /\ auto' = [state |-> "running", stage |-> 1, guard |-> TRUE]
        /\ posts' = posts \cup {[n |-> Fresh(posts), source |-> Here, stage |-> 1]}
    BY <1>4 DEF PressStart, PostTo
  <2>5. PICK p : p = [n |-> Fresh(posts), source |-> Here, stage |-> 1]
    OBVIOUS
  <2>6. p \in PostRec
    BY <1>0, <1>1, <2>1, <2>5, FreshNumber DEF PostRec
  <2>3. posts' \subseteq PostRec /\ IsFiniteSet(posts')
    BY <1>0, <2>2, <2>5, <2>6, OneMore
  <2>4. auto' \in AutoState /\ auto'.stage = 1
    BY <1>1, <2>2 DEF AutoState
  <2>. QED  BY <1>0, <1>1, <1>3, <1>4, <2>3, <2>4 DEF PressStart, appVars
<1>5. ASSUME NEW p \in posts, PostLands(p) PROVE AutoType'
  <2>1. p \in PostRec
    BY <1>0
  <2>2. jobs' \in [Runs -> [StageNumbers -> JobStates]]
    <3>1. CASE p.source = Sample
      BY <1>0, <1>5, <3>1 DEF PostLands
    <3>2. CASE p.source # Sample
      <4>1. PICK s \in {"running", "done", jobs[p.source][p.stage]} :
               jobs' = [jobs EXCEPT ![p.source][p.stage] = s]
        BY <1>5, <3>2 DEF PostLands
      <4>2. p.source \in Runs /\ p.stage \in StageNumbers
        BY <2>1, <3>2 DEF PostRec
      <4>3. s \in JobStates
        BY <1>0, <4>2 DEF JobStates
      <4>. QED  BY <1>0, <4>1, <4>2, <4>3
    <3>. QED  BY <3>1, <3>2
  <2>3. auto' \in AutoState /\ (auto'.state = "running" => auto' = auto)
    BY <1>0, <1>5 DEF PostLands, AutoState
  <2>. QED  BY <1>0, <1>3, <1>5, <2>2, <2>3, OneMore DEF PostLands, appVars
<1>6. ASSUME NEW p \in posts, PostRefused(p) PROVE AutoType'
  <2>1. auto' \in AutoState /\ auto'.state # "running"
    <3>1. PICK s \in {"idle", "done"} : auto' = [auto EXCEPT !.state = s, !.guard = FALSE]
      BY <1>6 DEF PostRefused
    <3>. QED  BY <1>0, <3>1 DEF AutoState
  <2>. QED  BY <1>0, <1>3, <1>6, <2>1, OneMore DEF PostRefused, appVars
<1>21. ASSUME NEW p \in posts, PostBlocked(p) PROVE AutoType'
  <2>1. auto' \in AutoState /\ auto'.state # "running"
    BY <1>0, <1>21 DEF PostBlocked, AutoState
  <2>2. jobs' \in [Runs -> [StageNumbers -> JobStates]]
    BY <1>0, <1>1, <1>21 DEF PostBlocked, JobStates
  <2>. QED  BY <1>0, <1>3, <1>21, <2>1, <2>2, OneMore DEF PostBlocked, appVars
<1>7. ASSUME NEW r \in Runs, NEW k \in StageNumbers,
             JobEnds(r, k) \/ CountersFill(r, k) \/ CountersRight(r, k)
      PROVE  AutoType'
  <2>1. jobs' \in [Runs -> [StageNumbers -> JobStates]]
    <3>1. PICK to \in JobStates : jobs' = [jobs EXCEPT ![r][k] = to]
      BY <1>7 DEF JobEnds, CountersFill, CountersRight, JobMoves, JobStates
    <3>. QED  BY <1>0, <3>1
  <2>. QED  BY <1>0, <1>3, <1>7, <2>1 DEF JobEnds, CountersFill, CountersRight, JobMoves, appVars
<1>8. ASSUME Poll PROVE AutoType'
  <2>1. [n |-> Fresh(polls), stage |-> auto.stage, read |-> Unread] \in PollRec
    BY <1>0, <1>8, FreshNumber DEF Poll, PollRec
  <2>2. polls' \subseteq PollRec /\ IsFiniteSet(polls')
    BY <1>0, <1>8, <2>1, OneMore DEF Poll
  <2>3. Loaded /\ UNCHANGED <<auto, posts, stops, jobs, app>> /\ strained' \in BOOLEAN
    BY <1>0, <1>8 DEF Poll, Busy, appVars
  <2>. QED  BY <1>0, <2>2, <2>3 DEF AutoType, Loaded
<1>9. ASSUME NEW t \in polls, ReadJob(t) PROVE AutoType'
  <2>1. Loaded
    BY <1>0 DEF Busy
  <2>2. t \in PollRec
    BY <1>0
  <2>3. GetAiJob(t.stage) \in JobStates
    BY <2>1, <2>2, AskedJob DEF PollRec
  <2>4. PICK r \in {GetAiJob(t.stage), "null"} : polls' = (polls \ {t}) \cup {[t EXCEPT !.read = r]}
    BY <1>9 DEF ReadJob
  <2>5. [t EXCEPT !.read = r] \in PollRec
    BY <2>2, <2>3 DEF PollRec
  <2>6. polls' \subseteq PollRec /\ IsFiniteSet(polls')
    BY <1>0, <2>4, <2>5, OneMore
  <2>7. UNCHANGED <<auto, posts, stops, jobs, app>> /\ strained' \in BOOLEAN
    BY <1>0, <1>9 DEF ReadJob, appVars
  <2>. QED  BY <1>0, <2>1, <2>6, <2>7 DEF AutoType, Loaded
<1>10. ASSUME NEW t \in polls, polls' = polls \ {t}, UNCHANGED <<app, stops, clearing, jobs>>,
              auto' \in AutoState, auto'.state = "running" => auto'.stage \in StageNumbers,
              posts' \subseteq PostRec, IsFiniteSet(posts'), strained' \in BOOLEAN
       PROVE  AutoType'
  <2>1. Loaded'
    BY <1>0, <1>10 DEF Busy, Loaded
  <2>2. polls' \subseteq PollRec /\ IsFiniteSet(polls')
    BY <1>0, <1>10, OneMore
  <2>. QED  BY <1>0, <1>10, <2>1, <2>2 DEF AutoType
<1>11. ASSUME NEW t \in polls, PollStopped(t) \/ PollFinishes(t) \/ PollWaits(t) PROVE AutoType'
  <2>1. auto' \in AutoState /\ (auto'.state = "running" => auto'.stage \in StageNumbers)
    BY <1>0, <1>11 DEF PollStopped, PollFinishes, PollWaits, AutoState
  <2>. QED  BY <1>0, <1>10, <1>11, <2>1 DEF PollStopped, PollFinishes, PollWaits, PollOver, appVars
<1>12. ASSUME NEW t \in polls, PollAdvances(t) PROVE AutoType'
  <2>1. t.stage + 1 \in StageNumbers /\ t.stage + 1 \in 0 .. Len(Stages)
    <3>1. t.stage \in StageNumbers
      BY <1>0 DEF PollRec
    <3>. QED  BY <1>1, <1>12, <3>1 DEF PollAdvances
  <2>2. auto' \in AutoState /\ auto'.stage \in StageNumbers
    BY <1>0, <1>12, <2>1 DEF PollAdvances, AutoState
  <2>3. Here \in Runs \cup {Sample}
    BY <1>0, HereInRuns DEF Busy
  <2>5. PICK p : p = [n |-> Fresh(posts), source |-> Here, stage |-> t.stage + 1]
    OBVIOUS
  <2>6. p \in PostRec
    BY <1>0, <2>1, <2>3, <2>5, FreshNumber DEF PostRec
  <2>4. posts' \subseteq PostRec /\ IsFiniteSet(posts')
    BY <1>0, <1>12, <2>5, <2>6, OneMore DEF PollAdvances, PostTo
  <2>. QED  BY <1>0, <1>10, <1>12, <2>2, <2>4 DEF PollAdvances, PollOver, appVars
<1>13. ASSUME PressStop PROVE AutoType'
  <2>1. auto' \in AutoState /\ auto'.state # "running"
    BY <1>0, <1>13 DEF PressStop, AutoState
  <2>2. stops' \in Seq(StageNumbers)
    BY <1>1, <1>13 DEF PressStop, StopsAll
  <2>. QED  BY <1>0, <1>13, <2>1, <2>2 DEF PressStop, AutoType, Loaded, appVars
<1>14. ASSUME StopLands PROVE AutoType'
  <2>1. stops' \in Seq(StageNumbers) /\ Loaded
    BY <1>0, <1>14 DEF StopLands, Busy
  <2>2. Here \in Runs \cup {Sample}
    BY <2>1, HereInRuns
  <2>3. Head(stops) \in StageNumbers
    BY <1>0, <1>14 DEF StopLands
  <2>4. jobs' \in [Runs -> [StageNumbers -> JobStates]]
    BY <1>0, <1>14, <2>2, <2>3 DEF StopLands, StopAiBatch, JobStates
  <2>. QED  BY <1>0, <1>14, <2>1, <2>4 DEF StopLands, AutoType, Loaded, appVars
<1>15. ASSUME StopFails PROVE AutoType'
  <2>1. stops' \in Seq(StageNumbers)
    BY <1>15 DEF StopFails
  <2>. QED  BY <1>0, <1>15, <2>1 DEF StopFails, AutoType, Loaded, Busy, appVars
<1>16. ASSUME PressReset PROVE AutoType'
  BY <1>0, <1>16 DEF PressReset, AutoType, Loaded, appVars
<1>17. ASSUME NEW r \in clearing, ResetLands(r) PROVE AutoType'
  <2>1. auto' = [state |-> "idle", stage |-> 0, guard |-> FALSE] /\ Loaded
    BY <1>0, <1>17 DEF ResetLands, Busy
  <2>2. auto' \in AutoState /\ auto'.state # "running"
    BY <2>1 DEF AutoState
  <2>3. jobs' \in [Runs -> [StageNumbers -> JobStates]]
    BY <1>0, <1>17 DEF ResetLands, ResetAi, JobStates
  <2>. QED  BY <1>0, <1>17, <2>1, <2>2, <2>3 DEF ResetLands, AutoType, Loaded, appVars
<1>18. ASSUME NEW r \in clearing, ResetFails(r) PROVE AutoType'
  BY <1>0, <1>18 DEF ResetFails, AutoType, Loaded, Busy, appVars
<1>19. CASE AutoStep
  BY <1>4, <1>5, <1>6, <1>21, <1>7, <1>8, <1>9, <1>11, <1>12, <1>13, <1>14, <1>15, <1>16, <1>17,
     <1>18, <1>19
     DEF AutoStep
<1>20. CASE \/ WorkspaceStep \/ UploadStep \/ UploadOpens \/ TabStep \/ SecurityStep \/ WindowStep
            \/ TreeStep \/ UNCHANGED shellVars
  <2>1. UNCHANGED autoVars
    BY <1>20, WorkspaceFrame, UploadFrame, TabFrame, SecurityFrame, WindowFrame, TreeFrame
       DEF UploadOpens, pageVars, shellVars
  <2>. QED  BY <1>2, <2>1
<1>. QED  BY <1>19, <1>20, EveryStep

\* What a step may do to the jobs without anybody noticing: a stage that is at
\* work ends, fills its counters or puts them right.
LEMMA JobMovesKeeps ==
    ASSUME AutoType, Starting, OneAtWork, ReadsTrue,
           NEW src \in Runs, NEW l \in StageNumbers,
           JobEnds(src, l) \/ CountersFill(src, l) \/ CountersRight(src, l)
    PROVE  Starting' /\ OneAtWork' /\ ReadsTrue'
<1>0. polls \subseteq PollRec /\ posts \subseteq PostRec
      /\ jobs \in [Runs -> [StageNumbers -> JobStates]]
  BY DEF AutoType
<1>1. PICK to \in Working \cup {"done"} : jobs' = [jobs EXCEPT ![src][l] = to]
  BY DEF JobEnds, CountersFill, CountersRight, JobMoves, Working
<1>2. jobs[src][l] \in Working
      /\ UNCHANGED <<auto, polls, posts, stops, clearing, target, behind>>
  BY DEF JobEnds, CountersFill, CountersRight, JobMoves, Working
<1>3. \A r \in Runs, k \in StageNumbers :
         /\ jobs'[r][k] \in Working => jobs[r][k] \in Working
         /\ jobs[r][k] \in Working => jobs'[r][k] \in Working \cup {"done"}
         /\ jobs[r][k] \notin Working => jobs'[r][k] = jobs[r][k]
  BY <1>0, <1>1, <1>2
<1>. HIDE DEF Working
<1>4. "done" \notin Working /\ "stopped" \notin Working
  BY DEF Working
<1>5. \A r \in Runs, k \in StageNumbers : LeftOff(r, k) => LeftOff(r, k)'
  BY <1>2, <1>3, <1>4 DEF LeftOff, Stage
<1>6. \A r \in Runs, k \in StageNumbers : Held(r, k)' => Held(r, k)
  BY <1>2, <1>3 DEF Held, Stage
<1>7. Starting'
  <2>1. \A p \in posts : p.stage > 1 /\ p.source # Sample =>
                            p.source \in Runs /\ p.stage - 1 \in StageNumbers
    BY <1>0 DEF PostRec, StageNumbers
  <2>. QED  BY <1>2, <1>5, <2>1 DEF Starting
<1>8. OneAtWork'
  BY <1>2, <1>6 DEF OneAtWork
<1>9. ReadsTrue'
  <2>. SUFFICES ASSUME auto.state = "running", NEW t \in polls, Tells(t.read), ReadTrue(t)
                PROVE  ReadTrue(t)'
    BY <1>2 DEF ReadsTrue
  <2>1. target \in Runs /\ t.stage \in StageNumbers
    BY <1>0 DEF ReadTrue, PollRec
  <2>. QED  BY <1>2, <1>3, <1>4, <1>5, <2>1 DEF ReadTrue
<1>. QED  BY <1>7, <1>8, <1>9

\* Where a step ends with the page not running and nothing being started, it
\* is enough that no stage has gone to work and that an open Stop has still to
\* reach those that are.
LEMMA NotGoing ==
    ASSUME OneAtWork, UNCHANGED target, auto'.state # "running", posts' = {},
           \A r \in Runs, k \in StageNumbers :
              Held(r, k)' => Held(r, k) /\ \E i \in DOMAIN stops' : stops'[i] = k
    PROVE  Starting' /\ OneAtWork' /\ ReadsTrue'
<1>1. Starting' /\ ReadsTrue'
  BY DEF Starting, ReadsTrue
<1>2. OneAtWork'
  <2>. SUFFICES ASSUME NEW r \in Runs, NEW k \in StageNumbers, Held(r, k)'
                PROVE  /\ r = target
                       /\ \A j \in StageNumbers : Held(r, j)' => j = k
                       /\ \E i \in DOMAIN stops' : stops'[i] = k
    BY DEF OneAtWork
  <2>. QED  BY DEF OneAtWork
<1>. QED  BY <1>1, <1>2

\* A tick that moves the run on to the next stage.
LEMMA AdvanceKeeps ==
    ASSUME WorkspaceInv, AutoType, Starting, OneAtWork, ReadsTrue,
           NEW t \in polls, PollAdvances(t), ~strained'
    PROVE  Starting' /\ OneAtWork' /\ ReadsTrue'
<1>0. /\ auto \in AutoState /\ auto.stage \in StageNumbers /\ polls \subseteq PollRec
      /\ posts \subseteq PostRec /\ jobs \in [Runs -> [StageNumbers -> JobStates]]
      /\ Here = target /\ auto.state = "running" /\ auto.stage \in {t.stage, t.stage + 1}
      /\ \A u \in polls : u.stage = t.stage + 1 => ~Tells(u.read)
  BY DEF AutoType, PollAdvances
<1>1. StageNumbers \subseteq Nat /\ t.stage \in StageNumbers
  BY <1>0 DEF StageNumbers, PollRec
<1>2. /\ polls' = polls \ {t} /\ UNCHANGED <<stops, clearing, jobs, target>>
      /\ auto' = [auto EXCEPT !.stage = t.stage + 1]
      /\ behind' = IF t.read = "full" THEN behind \cup {Stage(target, t.stage)} ELSE behind
      /\ t.read \in {"done", "full"}
  BY <1>0 DEF PollAdvances, PollOver, Leave, Over, Settled, PollRec, JobStates, Unread
<1>3. auto'.state = "running" /\ auto'.stage = t.stage + 1 /\ t.stage + 1 \in Nat \ {0, 1}
  BY <1>0, <1>1, <1>2 DEF AutoState, StageNumbers
<1>4. PICK p : p.source = target /\ p.stage = t.stage + 1 /\ posts' = posts \cup {p}
  BY <1>0 DEF PollAdvances, PostTo
<1>5. Tells(t.read) /\ ReadTrue(t)
  BY <1>0, <1>2 DEF ReadsTrue, Tells, Settled
<1>6. behind \subseteq behind' /\ target \in Runs /\ LeftOff(target, t.stage)'
  BY <1>2, <1>5 DEF ReadTrue, LeftOff, Stage
<1>7. \A r \in Runs, k \in StageNumbers : /\ LeftOff(r, k) => LeftOff(r, k)'
                                          /\ Held(r, k)' => Held(r, k)
  BY <1>2, <1>6 DEF LeftOff, Held, Stage
<1>8. auto.stage = t.stage => posts = {}
  BY <1>5 DEF ReadTrue
<1>9. Starting'
  <2>1. stops' = <<>> /\ clearing' = {}
    BY <1>0, <1>2 DEF Starting
  <2>2. ASSUME NEW q \in posts'
        PROVE  /\ q.source = target /\ q.stage = t.stage + 1
               /\ q.stage > 1 /\ q.source # Sample => LeftOff(q.source, q.stage - 1)'
    <3>1. CASE q = p
      BY <1>1, <1>2, <1>4, <1>6, <3>1 DEF LeftOff, Stage
    <3>2. CASE q \in posts
      <4>1. q.source = target /\ q.stage = t.stage + 1
        BY <1>0, <1>8, <3>2 DEF Starting
      <4>3. PICK i \in Nat : i = t.stage
        BY <1>1
      <4>4. q.stage = i + 1
        BY <4>1, <4>3
      <4>5. q.stage - 1 = i
        BY ONLY <4>4
      <4>2. q.stage - 1 = t.stage
        BY ONLY <4>3, <4>5
      <4>. QED  BY <1>2, <1>3, <1>6, <4>1, <4>2 DEF LeftOff, Stage
    <3>. QED  BY <1>4, <2>2, <3>1, <3>2
  <2>. QED  BY <1>2, <1>3, <2>1, <2>2 DEF Starting
<1>10. OneAtWork'
  <2>. SUFFICES ASSUME NEW r \in Runs, NEW k \in StageNumbers, Held(r, k)'
                PROVE  /\ r = target
                       /\ \A j \in StageNumbers : Held(r, j)' => j = k
                       /\ k = t.stage + 1
    BY <1>2, <1>3 DEF OneAtWork
  <2>1. Held(r, k) /\ r = target /\ k = auto.stage
    BY <1>0, <1>7 DEF OneAtWork
  <2>2. k # t.stage
    <3>. SUFFICES ASSUME k = t.stage PROVE FALSE
      OBVIOUS
    <3>. QED  BY <1>2, <1>6, <2>1 DEF LeftOff, Held, Stage, Working
  <2>3. \A j \in StageNumbers : Held(r, j)' => j = k
    BY <1>7, <2>1 DEF OneAtWork
  <2>. QED  BY <1>0, <2>1, <2>2, <2>3
<1>11. ReadsTrue'
  <2>. SUFFICES ASSUME NEW u \in polls, Tells(u.read) PROVE ReadTrue(u)'
    BY <1>2 DEF ReadsTrue
  <2>1. ReadTrue(u) /\ u.stage \in StageNumbers /\ u.stage # t.stage + 1
    BY <1>0 DEF ReadsTrue, PollRec
  <2>5. PICK a, i, j \in Nat : a = auto.stage /\ i = t.stage /\ j = u.stage
    BY <1>0, <1>1, <2>1
  <2>6. j <= a /\ a \in {i, i + 1} /\ j # i + 1
    BY <1>0, <2>1, <2>5 DEF ReadTrue
  <2>7. j < i + 1 /\ (j < a \/ j = i)
    BY ONLY <2>5, <2>6
  <2>2. u.stage < t.stage + 1
    BY <2>5, <2>7
  <2>3. u.read # "stopped"
    <3>. SUFFICES ASSUME u.read = "stopped" PROVE FALSE
      OBVIOUS
    <3>1. u.stage = t.stage /\ jobs[target][t.stage] = "stopped"
      BY <1>0, <2>1 DEF ReadTrue
    <3>. QED  BY <1>2, <1>5, <3>1 DEF ReadTrue, Working
  <2>4. u.read = "full" => LeftOff(target, u.stage)'
    <3>. SUFFICES ASSUME u.read = "full" PROVE LeftOff(target, u.stage)'
      OBVIOUS
    <3>1. CASE u.stage < auto.stage
      BY <1>2, <1>6, <2>1, <3>1 DEF ReadTrue, LeftOff, Stage
    <3>2. CASE u.stage = t.stage
      BY <1>6, <3>2
    <3>. QED  BY <2>5, <2>7, <3>1, <3>2
  <2>. QED  BY <1>1, <1>2, <1>3, <2>1, <2>2, <2>3, <2>4 DEF ReadTrue
<1>. QED  BY <1>9, <1>10, <1>11

\* A batch that lands goes to work at the stage the page is at.
LEMMA PostKeeps ==
    ASSUME AutoType, Starting, OneAtWork, ReadsTrue, NEW p \in posts, PostLands(p)
    PROVE  Starting' /\ OneAtWork' /\ ReadsTrue'
<1>0. /\ auto \in AutoState /\ auto.state = "running" /\ auto.stage \in StageNumbers
      /\ polls \subseteq PollRec /\ posts \subseteq PostRec
      /\ jobs \in [Runs -> [StageNumbers -> JobStates]]
      /\ p \in PostRec /\ p.source = target /\ p.stage = auto.stage
      /\ p.stage = 1 => posts = {p}
      /\ stops = <<>> /\ clearing = {}
  BY DEF AutoType, Starting
<1>1. StageNumbers \subseteq Nat /\ Sample \notin Runs
  BY DEF StageNumbers, Sample
<1>2. posts' = posts \ {p} /\ UNCHANGED <<polls, stops, clearing, target>>
  BY DEF PostLands
<1>3. CASE p.source = Sample
  <2>1. UNCHANGED <<jobs, behind>>
    BY <1>3 DEF PostLands
  <2>2. \A r \in Runs, k \in StageNumbers : ~Held(r, k)
    BY <1>0, <1>1, <1>3 DEF OneAtWork
  <2>3. \A r \in Runs, k \in StageNumbers : ~Held(r, k)'
    BY <2>1, <2>2 DEF Held, Stage
  <2>4. CASE p.stage = 1
    <3>1. auto'.state = "blocked" /\ posts' = {}
      BY <1>0, <1>2, <1>3, <2>4 DEF PostLands, AutoState
    <3>. QED  BY <1>2, <2>3, <3>1, NotGoing
  <2>5. CASE p.stage # 1
    <3>1. UNCHANGED auto
      BY <1>3, <2>5 DEF PostLands
    <3>2. \A r, k : LeftOff(r, k)' = LeftOff(r, k)
      BY <2>1 DEF LeftOff, Stage
    <3>3. \A t \in polls : Tells(t.read) => FALSE
      BY <1>0, <1>1, <1>3 DEF ReadsTrue, ReadTrue
    <3>4. Starting'
      BY <1>0, <1>2, <3>1, <3>2 DEF Starting
    <3>. QED  BY <1>2, <2>3, <3>1, <3>3, <3>4 DEF OneAtWork, ReadsTrue
  <2>. QED  BY <2>4, <2>5
<1>4. CASE p.source # Sample
  <2>1. target \in Runs
    BY <1>0, <1>4 DEF PostRec
  <2>2. PICK s \in {"running", "done", jobs[target][auto.stage]} :
           jobs' = [jobs EXCEPT ![target][auto.stage] = s]
    BY <1>0, <1>4 DEF PostLands
  <2>3. behind' = behind \ {Stage(target, auto.stage)} /\ UNCHANGED auto
    BY <1>0, <1>4 DEF PostLands
  <2>4. \A r \in Runs, k \in StageNumbers : r # target \/ k # auto.stage =>
           /\ jobs'[r][k] = jobs[r][k]
           /\ Stage(r, k) \in behind' <=> Stage(r, k) \in behind
    BY <1>0, <2>1, <2>2, <2>3 DEF Stage
  <2>5. \A r \in Runs, k \in StageNumbers : r # target \/ k # auto.stage =>
           LeftOff(r, k)' = LeftOff(r, k) /\ ~Held(r, k)'
    <3>1. \A r \in Runs, k \in StageNumbers : r # target \/ k # auto.stage => ~Held(r, k)
      BY <1>0 DEF OneAtWork
    <3>. QED  BY <2>4, <3>1 DEF LeftOff, Held, Stage
  <2>6. Starting'
    <3>1. ASSUME NEW q \in posts'
          PROVE  /\ q.source = target /\ q.stage = auto.stage
                 /\ q.stage = 1 => posts' = {q}
                 /\ q.stage > 1 /\ q.source # Sample => LeftOff(q.source, q.stage - 1)'
      <4>1. /\ q.source = target /\ q.stage = auto.stage /\ q.stage # 1
            /\ q.stage > 1 /\ q.source # Sample => LeftOff(q.source, q.stage - 1)
        BY <1>0, <1>2, <3>1 DEF Starting
      <4>2. auto.stage - 1 # auto.stage /\ (auto.stage > 1 => auto.stage - 1 \in StageNumbers)
        BY <1>0 DEF StageNumbers
      <4>. QED  BY <2>1, <2>5, <4>1, <4>2
    <3>. QED  BY <1>0, <1>2, <2>3, <3>1 DEF Starting
  <2>7. OneAtWork'
    BY <1>0, <1>2, <2>3, <2>5 DEF OneAtWork
  <2>8. ReadsTrue'
    <3>. SUFFICES ASSUME NEW t \in polls, Tells(t.read) PROVE ReadTrue(t)'
      BY <1>2 DEF ReadsTrue
    <3>1. ReadTrue(t) /\ t.stage \in StageNumbers /\ t.stage # auto.stage
      BY <1>0 DEF ReadsTrue, ReadTrue, PollRec
    <3>2. jobs'[target][t.stage] = jobs[target][t.stage] /\ LeftOff(target, t.stage)' = LeftOff(target, t.stage)
      BY <1>2, <2>1, <2>4, <3>1 DEF LeftOff, Stage
    <3>. QED  BY <1>2, <2>1, <2>3, <3>1, <3>2 DEF ReadTrue
  <2>. QED  BY <2>6, <2>7, <2>8
<1>. QED  BY <1>3, <1>4

\* Any other step of the page.
LEMMA AutoStepKeeps ==
    ASSUME WorkspaceInv, AutoType, AutoInv, AutoStep, ~strained' PROVE AutoInv'
<1>0. /\ auto \in AutoState
      /\ polls \subseteq PollRec /\ posts \subseteq PostRec /\ stops \in Seq(StageNumbers)
      /\ jobs \in [Runs -> [StageNumbers -> JobStates]]
      /\ (auto.state = "running" => auto.stage \in StageNumbers)
      /\ (auto.state = "running" \/ Busy => Loaded)
  BY DEF AutoType
<1>1. Len(Stages) \in Nat \ {0} /\ StageNumbers = 1 .. Len(Stages) /\ Sample \notin Runs
  BY DEF StageNumbers, Sample
<1>2. ~strained
  BY Zenon, <1>0 DEF AutoStep, AutoType, PressStart, PostLands, PostBlocked, PostRefused, JobEnds,
     CountersFill, CountersRight, JobMoves, Poll, ReadJob, PollStopped, PollAdvances, PollFinishes,
     PollWaits, PressStop, StopLands, StopFails, PressReset, ResetLands, ResetFails
<1>3. Starting /\ OneAtWork /\ ReadsTrue
  BY <1>2 DEF AutoInv
<1>. DEFINE Keeps == Starting' /\ OneAtWork' /\ ReadsTrue'
<1>. SUFFICES Keeps
  BY DEF AutoInv
<1>4. auto.state # "running" => posts = {}
  BY <1>3 DEF Starting
<1>5. ASSUME PressStart PROVE Keeps
  <2>1. /\ auto.state # "running" /\ stops = <<>> /\ clearing = {} /\ posts = {}
        /\ \A t \in polls : ~Tells(t.read)
    BY <1>4, <1>5 DEF PressStart
  <2>2. PICK p : p.source = Here /\ p.stage = 1 /\ posts' = {p}
    BY <1>5, <2>1 DEF PressStart, PostTo
  <2>3. /\ auto' = [state |-> "running", stage |-> 1, guard |-> TRUE]
        /\ target' = Here /\ UNCHANGED <<polls, stops, clearing, jobs, behind>>
    BY <1>5 DEF PressStart
  <2>4. \A r \in Runs, k \in StageNumbers : ~Held(r, k)
    BY <1>3, <2>1 DEF OneAtWork
  <2>5. \A r \in Runs, k \in StageNumbers : ~Held(r, k)'
    BY <2>3, <2>4 DEF Held, Stage
  <2>. QED  BY <2>1, <2>2, <2>3, <2>5 DEF Starting, OneAtWork, ReadsTrue
<1>6. ASSUME NEW p \in posts, PostLands(p) PROVE Keeps
  BY <1>3, <1>6, PostKeeps
<1>7. ASSUME NEW p \in posts, p.source # Sample
      PROVE  /\ auto.state = "running" /\ p.source = target /\ p.stage = auto.stage
             /\ target \in Runs /\ auto.stage \in StageNumbers /\ (p.stage = 1 => posts = {p})
             /\ \A r \in Runs, k \in StageNumbers : Held(r, k) => r = target /\ k = auto.stage
  BY <1>0, <1>3, <1>7 DEF Starting, OneAtWork, PostRec
<1>8. ASSUME NEW p \in posts, PostBlocked(p) PROVE Keeps
  <2>1. /\ p.source # Sample /\ p.stage = 1 /\ posts' = posts \ {p} /\ UNCHANGED target
        /\ jobs' = [jobs EXCEPT ![target][1] = "running"]
        /\ behind' = behind \cup {Stage(target, 1)} /\ auto'.state = "blocked"
    BY <1>0, <1>7, <1>8 DEF PostBlocked, AutoState
  <2>2. posts' = {}
    BY <1>7, <2>1
  <2>3. \A r \in Runs, k \in StageNumbers : ~Held(r, k)'
    <3>. SUFFICES ASSUME NEW r \in Runs, NEW k \in StageNumbers, Held(r, k)' PROVE FALSE
      OBVIOUS
    <3>1. r # target \/ k # 1
      BY <2>1 DEF Held, Stage
    <3>2. Held(r, k)
      BY <1>0, <2>1, <3>1 DEF Held, Stage
    <3>. QED  BY <1>7, <2>1, <3>1, <3>2
  <2>. QED  BY <1>3, <2>1, <2>2, <2>3, NotGoing
<1>9. ASSUME NEW p \in posts, PostRefused(p) PROVE Keeps
  <2>1. /\ p.source # Sample /\ posts' = posts \ {p} /\ UNCHANGED <<target, jobs, behind>>
        /\ posts = {p} /\ jobs[p.source][p.stage] \notin Working
    BY <1>9 DEF PostRefused
  <2>2. auto'.state # "running"
    BY <1>0, <1>9 DEF PostRefused, AutoState
  <2>3. \A r \in Runs, k \in StageNumbers : ~Held(r, k)'
    BY <1>7, <2>1 DEF Held, Stage
  <2>. QED  BY <1>3, <2>1, <2>2, <2>3, NotGoing
<1>10. ASSUME NEW r \in Runs, NEW k \in StageNumbers,
              JobEnds(r, k) \/ CountersFill(r, k) \/ CountersRight(r, k)
       PROVE  Keeps
  BY <1>3, <1>10, JobMovesKeeps
<1>11. ASSUME UNCHANGED <<auto, posts, stops, jobs, target, behind>>, clearing' \subseteq clearing,
              \A t \in polls' : t \in polls \/ (auto.state = "running" /\ Tells(t.read) => ReadTrue(t))
       PROVE  Keeps
  <2>1. (\A r, k : LeftOff(r, k)' = LeftOff(r, k) /\ Held(r, k)' = Held(r, k))
        /\ \A t : ReadTrue(t)' = ReadTrue(t)
    BY <1>11 DEF LeftOff, Held, Stage, ReadTrue
  <2>. QED  BY <1>3, <1>11, <2>1 DEF Starting, OneAtWork, ReadsTrue
<1>12. ASSUME Poll PROVE Keeps
  <2>3. PICK t : t = [n |-> Fresh(polls), stage |-> auto.stage, read |-> Unread]
    OBVIOUS
  <2>1. polls' = polls \cup {t} /\ t.read = "unread"
    BY <1>12, <2>3 DEF Poll, Unread
  <2>2. ~Tells(t.read)
    BY <2>1 DEF Tells, Settled
  <2>. QED  BY <1>11, <1>12, <2>1, <2>2 DEF Poll
<1>13. ASSUME NEW t \in polls, ReadJob(t) PROVE Keeps
  <2>1. PICK r \in {GetAiJob(t.stage), "null"} :
           /\ polls' = (polls \ {t}) \cup {[t EXCEPT !.read = r]}
           /\ Tells(r) => ~Overtaken(t)
    BY <1>13 DEF ReadJob
  <2>2. t \in PollRec /\ Loaded
    BY <1>0 DEF Busy
  <2>3. PICK u : u = [t EXCEPT !.read = r]
    OBVIOUS
  <2>4. u.stage = t.stage /\ u.read = r
    BY <2>2, <2>3 DEF PollRec
  <2>5. Tells(r) => ReadTrue(u)
    <3>. SUFFICES ASSUME Tells(r) PROVE ReadTrue(u)
      OBVIOUS
    <3>1. Here = target /\ posts = {} /\ t.stage = auto.stage /\ t.stage \in StageNumbers
      BY <2>1, <2>2 DEF Overtaken, PollRec
    <3>2. r \notin {"null", "not-started"} /\ r = GetAiJob(t.stage)
      BY DEF Tells, Settled
    <3>3. target \in Runs /\ jobs[target][t.stage] = r
      BY <2>2, <3>1, <3>2, AskedJob
    <3>. QED  BY <1>1, <2>4, <3>1, <3>3 DEF ReadTrue, Working
  <2>6. UNCHANGED <<auto, posts, stops, clearing, jobs, target, behind>>
    BY <1>13 DEF ReadJob
  <2>. QED  BY <1>11, <2>1, <2>3, <2>4, <2>5, <2>6
<1>14. ASSUME NEW t \in polls, PollWaits(t) PROVE Keeps
  BY <1>11, <1>14 DEF PollWaits, PollOver
<1>15. ASSUME NEW t \in polls, PollAdvances(t) PROVE Keeps
  BY <1>3, <1>15, AdvanceKeeps
<1>16. ASSUME NEW t \in polls, PollStopped(t) \/ PollFinishes(t) PROVE Keeps
  <2>1. /\ UNCHANGED <<posts, stops, jobs, target>> /\ behind \subseteq behind'
        /\ t.read = "full" => Stage(target, t.stage) \in behind'
        /\ t.read \in {"done", "stopped", "full"} /\ Tells(t.read)
        /\ t.read # "stopped" => t.stage = Len(Stages)
        /\ t \in PollRec
    BY <1>0, <1>16 DEF PollStopped, PollFinishes, PollOver, Leave, Over, Tells, Settled, PollRec,
                       JobStates, Unread
  <2>2. auto'.state # "running"
    BY <1>0, <1>16 DEF PollStopped, PollFinishes, AutoState
  <2>3. \A r \in Runs, k \in StageNumbers : Held(r, k)' => Held(r, k)
    BY <2>1 DEF Held, Stage
  <2>4. CASE auto.state # "running"
    BY <1>3, <1>4, <2>1, <2>2, <2>3, <2>4, NotGoing DEF OneAtWork
  <2>5. CASE auto.state = "running"
    <3>1. ReadTrue(t)
      BY <1>3, <2>1, <2>5 DEF ReadsTrue
    <3>2. t.stage = auto.stage /\ posts = {}
      BY <1>0, <1>1, <2>1, <2>5, <3>1 DEF ReadTrue, PollRec
    <3>3. \A r \in Runs, k \in StageNumbers : ~Held(r, k)'
      <4>. SUFFICES ASSUME NEW r \in Runs, NEW k \in StageNumbers, Held(r, k)' PROVE FALSE
        OBVIOUS
      <4>1. r = target /\ k = t.stage
        BY <1>3, <2>3, <2>5, <3>2 DEF OneAtWork
      <4>. QED  BY <2>1, <3>1, <4>1 DEF ReadTrue, Held, Working
    <3>. QED  BY <1>3, <2>1, <2>2, <3>2, <3>3, NotGoing
  <2>. QED  BY <2>4, <2>5
<1>17. ASSUME PressStop PROVE Keeps
  <2>1. /\ auto.state = "running" /\ posts = {} /\ stops' = StopsAll
        /\ UNCHANGED <<posts, jobs, target, behind>>
    BY <1>17 DEF PressStop
  <2>2. auto'.state # "running"
    BY <1>0, <1>17 DEF PressStop, AutoState
  <2>3. \A k \in StageNumbers : k \in DOMAIN stops' /\ stops'[k] = k
    BY <2>1 DEF StopsAll
  <2>4. \A r \in Runs, k \in StageNumbers : Held(r, k)' => Held(r, k)
    BY <2>1 DEF Held, Stage
  <2>. QED  BY <1>3, <2>1, <2>2, <2>3, <2>4, NotGoing
<1>18. ASSUME StopLands PROVE Keeps
  <2>1. Here = target /\ stops # <<>> /\ Loaded
    BY <1>0, <1>18 DEF StopLands, Busy
  <2>2. auto.state # "running" /\ posts = {} /\ UNCHANGED <<auto, posts, target, behind>>
    BY <1>3, <1>4, <1>18, <2>1 DEF StopLands, Starting
  <2>3. Head(stops) \in StageNumbers
    BY <1>0, <2>1
  <2>4. Here \in Runs \cup {Sample}
    BY <2>1, HereInRuns
  <2>5. \A k \in StageNumbers : (\E i \in DOMAIN stops : stops[i] = k) /\ k # Head(stops) =>
           \E i \in DOMAIN stops' : stops'[i] = k
    <3>. SUFFICES ASSUME NEW k \in StageNumbers, NEW i \in DOMAIN stops, stops[i] = k,
                         k # Head(stops)
                  PROVE  \E j \in DOMAIN stops' : stops'[j] = k
      OBVIOUS
    <3>1. stops' = Tail(stops) /\ stops \in Seq(StageNumbers) /\ stops # <<>>
      BY <1>0, <1>18, <2>1 DEF StopLands
    <3>2. i \in 1 .. Len(stops) /\ i # 1
      BY <3>1
    <3>3. i - 1 \in DOMAIN stops' /\ stops'[i - 1] = stops[i]
      BY <3>1, <3>2
    <3>. QED  BY <3>3
  <2>6. \A r \in Runs, k \in StageNumbers : Held(r, k)' =>
           Held(r, k) /\ (r = target => k # Head(stops))
    <3>1. CASE jobs' = jobs
      <4>1. GetAiJob(Head(stops)) \notin Working
        BY <1>0, <1>18, <2>3, <2>4, <3>1, AskedJob, <2>1 DEF StopLands, StopAiBatch, GetAiJob, Working
      <4>. QED  BY <2>1, <2>2, <2>3, <3>1, <4>1, AskedJob DEF Held, Stage
    <3>2. CASE jobs' = [jobs EXCEPT ![Here][Head(stops)] = "stopped"]
      BY <1>0, <2>1, <2>2, <2>3, <3>2 DEF Held, Stage, Working
    <3>. QED  BY <1>18, <3>1, <3>2 DEF StopLands, StopAiBatch
  <2>. QED  BY <1>3, <2>2, <2>5, <2>6, NotGoing DEF OneAtWork
<1>19. ASSUME PressReset PROVE Keeps
  <2>1. auto.state # "running" /\ UNCHANGED <<auto, polls, posts, stops, jobs, target, behind>>
    BY <1>19 DEF PressReset
  <2>2. \A r \in Runs, k \in StageNumbers : Held(r, k)' => Held(r, k)
    BY <2>1 DEF Held, Stage
  <2>. QED  BY <1>3, <1>4, <2>1, <2>2, NotGoing DEF OneAtWork
<1>20. ASSUME NEW r \in clearing, ResetLands(r) PROVE Keeps
  <2>1. auto.state # "running" /\ posts = {} /\ UNCHANGED <<posts, stops, target, behind>>
    BY <1>3, <1>4, <1>20 DEF ResetLands, Starting
  <2>2. auto'.state # "running"
    BY <1>20 DEF ResetLands
  <2>3. \A s \in Runs, k \in StageNumbers : Held(s, k)' => Held(s, k)
    BY <1>0, <1>20, <2>1 DEF ResetLands, ResetAi, Held, Stage, Working
  <2>. QED  BY <1>3, <2>1, <2>2, <2>3, NotGoing DEF OneAtWork
<1>21. ASSUME NEW r \in clearing, ResetFails(r) PROVE Keeps
  BY <1>11, <1>21 DEF ResetFails
<1>22. CASE StopFails
  BY <1>22 DEF StopFails
<1>. QED  BY <1>5, <1>6, <1>8, <1>9, <1>10, <1>12, <1>13, <1>14, <1>15, <1>16, <1>17, <1>18,
             <1>19, <1>20, <1>21, <1>22 DEF AutoStep

\* Once the requests of a run have overlapped, nothing is said of it.
LEMMA AutoNext ==
    ASSUME WorkspaceInv, AutoType, AutoInv, [Next]_shellVars PROVE AutoInv'
<1>1. CASE AutoStep
  BY <1>1, AutoStepKeeps DEF AutoInv
<1>2. CASE \/ WorkspaceStep \/ UploadStep \/ UploadOpens \/ TabStep \/ SecurityStep \/ WindowStep
           \/ TreeStep \/ UNCHANGED shellVars
  <2>1. UNCHANGED autoVars
    BY <1>2, WorkspaceFrame, UploadFrame, TabFrame, SecurityFrame, WindowFrame, TreeFrame
       DEF UploadOpens, pageVars, shellVars
  <2>. QED  BY <2>1 DEF AutoInv, Starting, OneAtWork, Held, LeftOff, ReadsTrue, ReadTrue, autoVars
<1>. QED  BY <1>1, <1>2, EveryStep

\* However the ticks of an automated run overlap and its jobs move, two stages
\* are at work together only if the counters of one said that it had nothing
\* left; a stage starts when the one before is done or said so; and when the
\* page says that the run is over, nothing else of it is left.
THEOREM StagesGoInTurn == Spec => []StagesInTurn
<1>1. AutoType /\ AutoInv => StagesInTurn
  <2>. SUFFICES ASSUME AutoType, AutoInv, ~strained PROVE StagesInTurn
    BY DEF StagesInTurn
  <2>. QED  BY DEF AutoType, AutoInv, Starting, OneAtWork, Held, LeftOff, StagesInTurn, PostRec,
                  Settled
<1>. QED  BY <1>1, AutoStart, AutoTypeNext, AutoNext, WorkspaceInvariance, PTL DEF Spec
-----------------------------------------------------------------------------
(* What is known of the workspace wherever a page relies on it.            *)

\* A function is on screen once a run has been loaded, and only then are the
\* views of a run shown.
Found ==
    /\ detail # NoFunction => Loaded /\ detail.va \in Vas
    /\ app.view \notin {"upload", "reports"} => Loaded

LEMMA FoundStart == ASSUME Init PROVE Found
BY DEF Init, WorkspaceInit, Found

LEMMA FoundNext == ASSUME WorkspaceInv, Found, [Next]_shellVars PROVE Found'
<1>0. app \in AppType /\ opens \subseteq Open /\ (Loaded => Loaded') /\ (opens # {} => Loaded)
  BY LoadedStays DEF WorkspaceInv, WorkspaceType, OneRun
<1>1. detail' = detail \/ (Loaded /\ detail'.va \in Vas)
  <2>1. CASE \E o \in opens : OpenAnswered(o)
    <3>. PICK o \in opens : OpenAnswered(o)
      BY <2>1
    <3>1. o.va \in Vas
      BY <1>0 DEF Open
    <3>2. detail' = detail \/ detail' = [source |-> o.source, va |-> o.va]
      BY DEF OpenAnswered
    <3>. QED  BY <1>0, <3>1, <3>2
  <2>2. CASE WorkspaceStep /\ ~(\E o \in opens : OpenAnswered(o))
    BY <2>2 DEF WorkspaceStep, OpenReport, Reload, SwitchMode, LoadAnswered, LoadFails, OpenFunction,
       SelectFunction, Jump, OpenFails, ShowView, PinRoot
  <2>3. CASE UploadOpens
    BY <2>3 DEF UploadOpens, TickDone
  <2>4. CASE \/ UploadStep \/ AutoStep \/ TabStep \/ SecurityStep \/ WindowStep \/ TreeStep
             \/ UNCHANGED shellVars
    BY <2>4, UploadFrame, AutoFrame, TabFrame, SecurityFrame, WindowFrame, TreeFrame
       DEF shellVars, appVars
  <2>. QED  BY <2>1, <2>2, <2>3, <2>4, EveryStep
<1>2. app'.view = app.view \/ Loaded' \/ app'.view \in {"upload", "reports"}
  <2>1. CASE \E l \in loads : LoadAnswered(l)
    <3>. PICK l \in loads : LoadAnswered(l)
      BY <2>1
    <3>1. app' = [app EXCEPT !.data = l.source, !.view = "analysis", !.asking = @ \/ l.ask]
      BY DEF LoadAnswered
    <3>2. app'.data = l.source
      BY ONLY <1>0, <3>1 DEF AppType
    <3>3. l.source # "none"
      BY DEF WorkspaceInv, WorkspaceType, Load, Sample
    <3>. QED  BY <3>2, <3>3 DEF Loaded
  <2>2. CASE \/ \E r \in Runs : OpenReport(r)
             \/ Reload
             \/ \E m \in Modes : SwitchMode(m)
    BY Zenon, <1>0, <2>2 DEF AppType, OpenReport, Reload, SwitchMode, LoadRun
  <2>3. CASE \/ \E va \in Vas : OpenFunction(va) \/ SelectFunction(va)
             \/ \E i \in 1 .. MaxTrail : Jump(i)
    BY <1>0, <2>3 DEF OpenFunction, SelectFunction, Jump
  <2>4. CASE \/ \E l \in loads : LoadFails(l)
             \/ \E o \in opens : OpenAnswered(o) \/ OpenFails(o)
    BY <2>4 DEF LoadFails, OpenAnswered, OpenFails
  <2>5. CASE \/ \E v \in Views : ShowView(v)
             \/ PinRoot
    BY <1>0, <2>5 DEF AppType, ShowView, PinRoot
  <2>6. CASE UploadOpens
    BY <1>0, <2>6 DEF AppType, UploadOpens, TickDone, LoadRun
  <2>7. CASE \/ UploadStep \/ AutoStep \/ TabStep \/ SecurityStep \/ WindowStep \/ TreeStep
             \/ UNCHANGED shellVars
    BY <2>7, UploadFrame, AutoFrame, TabFrame, SecurityFrame, WindowFrame, TreeFrame
       DEF shellVars, appVars
  <2>. QED  BY <2>1, <2>2, <2>3, <2>4, <2>5, <2>6, <2>7, EveryStep DEF WorkspaceStep
<1>. QED  BY <1>0, <1>1, <1>2 DEF Found

LEMMA FoundInvariance == Spec => []Found
BY FoundStart, FoundNext, WorkspaceInvariance, PTL DEF Spec

\* The client moves to another run or source only where the pages hear of it.
LEMMA ClientStays ==
    ASSUME [Next]_shellVars
    PROVE  UNCHANGED client \/ (Opened /\ UNCHANGED detail)
<1>1. CASE WorkspaceStep
  BY <1>1 DEF WorkspaceStep, Opened, OpenReport, Reload, SwitchMode, LoadAnswered, LoadFails,
     OpenFunction, SelectFunction, Jump, OpenAnswered, OpenFails, ShowView, PinRoot
<1>2. CASE UploadOpens
  BY <1>2 DEF UploadOpens, TickDone
<1>3. CASE \/ UploadStep \/ AutoStep \/ TabStep \/ SecurityStep \/ WindowStep \/ TreeStep
           \/ UNCHANGED shellVars
  BY <1>3, UploadFrame, AutoFrame, TabFrame, SecurityFrame, WindowFrame, TreeFrame DEF shellVars
<1>. QED  BY <1>1, <1>2, <1>3, EveryStep
-----------------------------------------------------------------------------
(* The Analysis tab: types.                                                *)

Lift == [known : {"lift", "absent"}, source : Sources \cup {"none"}, va : Vas \cup {None},
         id : Nat, text : Nat]
Wait == [n : Nat, mount : Nat, va : Vas, before : Lift, source : Sources,
         at : {"asked", "polling", "landed"}]
Lookup == [n : Nat, va : Vas, joined : BOOLEAN, source : Sources, read : Lift \cup {Unanswered}]
PaneStates == {"not-run", "queued", "running", "done", "failed"}
Pane == [mount : Nat, lifted : Lift, state : PaneStates, busy : BOOLEAN]

TabType ==
    /\ lifts \in [Sources -> [Vas -> Lift]]
    /\ model \subseteq [source : Runs, va : Vas]
    /\ pane \in Pane /\ fetch \in Sources \cup {"none"}
    /\ waits \subseteq Wait /\ IsFiniteSet(waits)
    /\ cache \in [Vas -> Lift \cup {Unasked}]
    /\ lookups \subseteq Lookup /\ IsFiniteSet(lookups)
    /\ told \subseteq Vas /\ foreign \in BOOLEAN /\ reviewed \in BOOLEAN

\* What is under way in the tab is about a function on screen, and its numbers
\* tell the polls apart.
TabBusy ==
    /\ fetch # "none" \/ waits # {} \/ told # {} \/ lookups # {} => detail # NoFunction
    /\ \A w \in waits : w.mount <= pane.mount
    /\ \A v, w \in waits : v.n = w.n => v = w

LEMMA NoLiftTyped == NoLift \in Lift /\ NoLift # Unasked /\ NoLift # Unanswered
<1>1. NoLift \in Lift
  BY DEF NoLift, Lift, None
<1>2. NoLift.known # Unasked.known /\ NoLift.known # Unanswered.known
  BY DEF NoLift, Unasked, Unanswered
<1>. QED  BY <1>1, <1>2

LEMMA VersionTyped ==
    ASSUME NEW s \in Sources, NEW v \in Vas, NEW i \in Nat, NEW t \in Nat
    PROVE  /\ Version(s, v, i, t) \in Lift /\ Version(s, v, i, t) # NoLift
           /\ Version(s, v, i, t).known = "lift" /\ Version(s, v, i, t).source = s
           /\ Version(s, v, i, t).va = v /\ Version(s, v, i, t).id = i
           /\ Version(s, v, i, t).text = t
<1>1. Version(s, v, i, t) \in Lift
  BY DEF Version, Lift
<1>2. /\ Version(s, v, i, t).known = "lift" /\ Version(s, v, i, t).source = s
      /\ Version(s, v, i, t).va = v /\ Version(s, v, i, t).id = i
      /\ Version(s, v, i, t).text = t
  BY DEF Version
<1>3. NoLift.known = "absent"
  BY DEF NoLift
<1>. QED  BY <1>1, <1>2, <1>3

\* What a change of the entry of an address makes of the lookups.
Parted(S, va) == {[l EXCEPT !.joined = @ /\ l.va # va] : l \in S}

LEMMA PartedLookups ==
    ASSUME NEW S, S \subseteq Lookup, IsFiniteSet(S), NEW va
    PROVE  /\ Parted(S, va) \subseteq Lookup /\ IsFiniteSet(Parted(S, va))
           /\ \A k \in Parted(S, va) : \E l \in S : k.va = l.va /\ k.source = l.source
                                                     /\ k.read = l.read
           /\ S = {} => Parted(S, va) = {}
<1>. DEFINE f == [l \in S |-> [l EXCEPT !.joined = @ /\ l.va # va]]
<1>1. \A l \in S : LET k == [l EXCEPT !.joined = @ /\ l.va # va]
                   IN  k \in Lookup /\ k.va = l.va /\ k.source = l.source /\ k.read = l.read
  BY DEF Lookup
<1>2. f \in Surjection(S, Parted(S, va))
  BY DEF Surjection, Parted
<1>3. IsFiniteSet(Parted(S, va))
  BY <1>2, FS_Surjection
<1>. HIDE DEF f
<1>4. \A k \in Parted(S, va) : \E l \in S : k = [l EXCEPT !.joined = @ /\ l.va # va]
  BY DEF Parted
<1>5. \A k \in Parted(S, va) : k \in Lookup /\ \E l \in S : k.va = l.va /\ k.source = l.source
                                                             /\ k.read = l.read
  <2>. TAKE k \in Parted(S, va)
  <2>. PICK l \in S : k = [l EXCEPT !.joined = @ /\ l.va # va]
    BY <1>4
  <2>. QED  BY <1>1
<1>. QED  BY <1>3, <1>4, <1>5

\* The steps that reach the tab.
LEMMA TabSteps ==
    ASSUME [Next]_shellVars
    PROVE  \/ TabStep /\ UNCHANGED <<client, appVars>>
           \/ \E o \in opens : OpenAnswered(o) /\ Follows
           \/ Leaves /\ UNCHANGED detail
           \/ UNCHANGED <<tabVars, client, detail>>
<1>1. CASE WorkspaceStep
  BY <1>1 DEF WorkspaceStep, Opened, Elsewhere, OpenReport, Reload, SwitchMode, LoadAnswered,
     LoadFails, OpenFunction, SelectFunction, Jump, OpenFails, ShowView, PinRoot
<1>2. CASE UploadOpens
  BY <1>2 DEF UploadOpens, TickDone, Opened
<1>3. CASE TabStep
  BY <1>3, TabFrame
<1>4. CASE UploadStep \/ AutoStep \/ SecurityStep \/ WindowStep \/ TreeStep \/ UNCHANGED shellVars
  BY <1>4, UploadFrame, AutoFrame, SecurityFrame, WindowFrame, TreeFrame DEF shellVars, appVars
<1>. QED  BY <1>1, <1>2, <1>3, <1>4, EveryStep

LEMMA OnScreenInRun ==
    ASSUME WorkspaceInv, Found, detail # NoFunction
    PROVE  /\ detail.va \in Vas /\ Source(client) \in Sources
           /\ client.mode # "sample" => Source(client) \in Runs
<1>1. Loaded /\ detail.va \in Vas
  BY DEF Found
<1>. QED  BY <1>1, HereInRuns DEF Here, Sources, WorkspaceInv, OneRun, Source

\* The polls after one of them has moved on.
LEMMA NowTyped ==
    ASSUME TabType, TabBusy, NEW w \in waits, NEW at \in {"asked", "polling", "landed"}, Now(w, at)
    PROVE  /\ waits' \subseteq Wait /\ IsFiniteSet(waits')
           /\ \E u \in waits' : /\ waits' = (waits \ {w}) \cup {u} /\ u.at = at /\ u.n = w.n
                                /\ u.mount = w.mount /\ u.va = w.va /\ u.before = w.before
                                /\ u.source = w.source
           /\ \A u, v \in waits' : u.n = v.n => u = v
<1>0. w \in Wait /\ waits \subseteq Wait /\ IsFiniteSet(waits)
  BY DEF TabType
<1>. PICK u : u = [w EXCEPT !.at = at]
  OBVIOUS
<1>1. /\ u \in Wait /\ u.at = at /\ u.n = w.n /\ u.mount = w.mount /\ u.va = w.va
      /\ u.before = w.before /\ u.source = w.source
  BY <1>0 DEF Wait
<1>2. waits' = (waits \ {w}) \cup {u}
  BY DEF Now
<1>3. IsFiniteSet(waits')
  BY <1>0, <1>2, OneMore
<1>4. \A x, y \in waits' : x.n = y.n => x = y
  <2>1. \A x, y \in waits : x.n = y.n => x = y
    BY DEF TabBusy
  <2>2. \A x \in waits \ {w} : x \in waits /\ x.n # u.n
    BY <1>1, <2>1
  <2>. SUFFICES ASSUME NEW x \in waits', NEW y \in waits', x.n = y.n PROVE x = y
    OBVIOUS
  <2>3. (x \in waits \ {w} \/ x = u) /\ (y \in waits \ {w} \/ y = u)
    BY <1>2
  <2>. QED  BY <2>1, <2>2, <2>3
<1>. QED  BY <1>0, <1>1, <1>2, <1>3, <1>4

LEMMA TabTypeKeeps ==
    ASSUME WorkspaceInv, Found, TabType, TabBusy, TabStep, UNCHANGED <<client, appVars>>
    PROVE  TabType' /\ TabBusy'
<1>0. /\ lifts \in [Sources -> [Vas -> Lift]] /\ model \subseteq [source : Runs, va : Vas]
      /\ pane \in Pane /\ fetch \in Sources \cup {"none"}
      /\ waits \subseteq Wait /\ IsFiniteSet(waits) /\ cache \in [Vas -> Lift \cup {Unasked}]
      /\ lookups \subseteq Lookup /\ IsFiniteSet(lookups)
      /\ told \subseteq Vas /\ foreign \in BOOLEAN /\ reviewed \in BOOLEAN
      /\ UNCHANGED <<client, detail>>
  BY DEF TabType, appVars
<1>1. detail # NoFunction => /\ detail.va \in Vas /\ Source(client) \in Sources
                             /\ client.mode # "sample" => Source(client) \in Runs
  BY OnScreenInRun
\* The pane takes another lift or state, and keeps its number.
<1>2. ASSUME NEW p, pane' = p, p \in Pane, p.mount = pane.mount
      PROVE  pane' \in Pane /\ pane'.mount = pane.mount
  BY <1>2
<1>3. ASSUME NEW w \in waits, waits' = waits \ {w}
      PROVE  /\ waits' \subseteq Wait /\ IsFiniteSet(waits') /\ waits' \subseteq waits
             /\ \A u, v \in waits' : u.n = v.n => u = v
  BY <1>0, <1>3, OneMore DEF TabBusy
<1>4. ASSUME NEW va, Forget(va)
      PROVE  /\ cache' \in [Vas -> Lift \cup {Unasked}] /\ lookups' \subseteq Lookup
             /\ IsFiniteSet(lookups') /\ (lookups = {} => lookups' = {})
  <2>1. lookups' = Parted(lookups, va) /\ cache' = [cache EXCEPT ![va] = Unasked]
    BY <1>4 DEF Forget, Parted
  <2>. QED  BY <1>0, <2>1, PartedLookups
<1>5. ASSUME NEW q \in model, ModelAnswers(q) PROVE TabType' /\ TabBusy'
  <2>1. q.source \in Sources /\ q.va \in Vas
    BY <1>0 DEF Sources
  <2>2. PICK n : n = IF lifts[q.source][q.va] = NoLift THEN 1 ELSE lifts[q.source][q.va].id + 1
    OBVIOUS
  <2>3. n \in Nat
    BY <1>0, <2>1, <2>2 DEF Lift
  <2>4. lifts' = [lifts EXCEPT ![q.source][q.va] = Version(q.source, q.va, n, n)]
    BY <1>5, <2>2 DEF ModelAnswers
  <2>5. lifts' \in [Sources -> [Vas -> Lift]]
    BY <1>0, <2>1, <2>3, <2>4, VersionTyped
  <2>. QED  BY <1>0, <1>5, <2>5 DEF ModelAnswers, paneVars, cardVars, TabType, TabBusy
<1>6. ASSUME FetchAnswered PROVE TabType' /\ TabBusy'
  <2>1. fetch \in Sources /\ detail.va \in Vas
    BY <1>0, <1>1, <1>6 DEF FetchAnswered, TabBusy
  <2>2. PICK read : read = lifts[fetch][detail.va]
    OBVIOUS
  <2>3. PICK s \in PaneStates : pane' = [pane EXCEPT !.lifted = read, !.state = s]
    BY <1>6, <2>2 DEF FetchAnswered, PaneStates
  <2>4. pane \in Pane /\ read \in Lift
    BY <1>0, <2>1, <2>2
  <2>5. pane' \in Pane /\ pane'.mount = pane.mount
    BY ONLY <2>3, <2>4 DEF Pane
  <2>. QED  BY <1>0, <1>6, <2>5 DEF FetchAnswered, serverVars, cardVars, TabType, TabBusy
<1>7. ASSUME PressLift PROVE TabType' /\ TabBusy'
  <2>1. detail # NoFunction
    BY <1>7 DEF PressLift, OnScreen
  <2>2. PICK u : u = [n |-> Fresh(waits), mount |-> pane.mount, va |-> detail.va,
                      before |-> pane.lifted, source |-> Source(client), at |-> "asked"]
    OBVIOUS
  <2>3. u \in Wait /\ u.n = Fresh(waits) /\ u.mount = pane.mount
    BY <1>0, <1>1, <2>1, <2>2, FreshNumber DEF Wait, Pane
  <2>4. waits' = waits \cup {u}
    BY <1>7, <2>2 DEF PressLift
  <2>5. /\ waits' \subseteq Wait /\ IsFiniteSet(waits')
        /\ \A v, w \in waits' : v.n = w.n => v = w
    BY Zenon, <1>0, <2>3, <2>4, FreshNumber, OneMore DEF TabBusy
  <2>6. model' \subseteq [source : Runs, va : Vas]
    BY <1>0, <1>1, <1>7, <2>1 DEF PressLift, RequestLift
  <2>7. pane' \in Pane /\ pane'.mount = pane.mount /\ pane.mount \in Nat
    BY <1>0, <1>7 DEF PressLift, Pane
  <2>. QED  BY <1>0, <1>7, <2>1, <2>3, <2>4, <2>5, <2>6, <2>7
            DEF PressLift, cardVars, TabType, TabBusy
<1>8. ASSUME NEW w \in waits, NEW at \in {"asked", "polling", "landed"}, Now(w, at),
             pane' \in Pane, pane'.mount = pane.mount
      PROVE  /\ waits' \subseteq Wait /\ IsFiniteSet(waits')
             /\ \A u, v \in waits' : u.n = v.n => u = v
             /\ \A u \in waits' : u.mount <= pane'.mount
  BY <1>8, NowTyped DEF TabBusy
<1>9. ASSUME NEW w \in waits, LiftQueued(w) PROVE TabType' /\ TabBusy'
  <2>1. PICK s \in {"queued", "running"} : SetPane(w, [pane EXCEPT !.state = s, !.busy = FALSE])
    BY <1>9 DEF LiftQueued
  <2>2. pane' \in Pane /\ pane'.mount = pane.mount
    BY <1>0, <2>1 DEF SetPane, Pane, PaneStates
  <2>3. Now(w, "polling")
    BY <1>9 DEF LiftQueued
  <2>. QED  BY <1>0, <1>8, <1>9, <2>2, <2>3 DEF LiftQueued, serverVars, cardVars, TabType, TabBusy
<1>10. ASSUME NEW w \in waits PROVE w.va \in Vas /\ lifts[Source(client)][w.va] \in Lift
  <2>1. detail # NoFunction /\ w.va \in Vas
    BY <1>0 DEF TabBusy, Wait
  <2>. QED  BY <1>0, <1>1, <2>1
<1>11. ASSUME NEW w \in waits, LiftOver(w) PROVE TabType' /\ TabBusy'
  <2>1. PICK stored : stored = lifts[Source(client)][w.va]
    OBVIOUS
  <2>2. PICK s \in PaneStates :
           SetPane(w, [pane EXCEPT !.lifted = stored, !.busy = FALSE, !.state = s])
    BY <1>11, <2>1 DEF LiftOver, PaneStates
  <2>3. pane' \in Pane /\ pane'.mount = pane.mount
    BY <1>0, <1>10, <2>1, <2>2 DEF SetPane, Pane
  <2>4. waits' = waits \ {w} /\ Forget(w.va)
    BY <1>11 DEF LiftOver
  <2>. QED  BY <1>0, <1>3, <1>4, <1>11, <2>3, <2>4 DEF LiftOver, serverVars, TabType, TabBusy
<1>12. ASSUME NEW w \in waits, LiftFails(w) PROVE TabType' /\ TabBusy'
  <2>1. pane' \in Pane /\ pane'.mount = pane.mount
    BY <1>0, <1>12 DEF LiftFails, SetPane, Pane, PaneStates
  <2>2. waits' = waits \ {w}
    BY <1>12 DEF LiftFails
  <2>. QED  BY <1>0, <1>3, <1>12, <2>1, <2>2 DEF LiftFails, serverVars, cardVars, TabType, TabBusy
<1>13. ASSUME NEW w \in waits, PollLands(w) PROVE TabType' /\ TabBusy'
  <2>1. PICK read : read = lifts[Source(client)][w.va]
    OBVIOUS
  <2>2. SetPane(w, [pane EXCEPT !.lifted = read, !.state = "done"])
    BY <1>13, <2>1 DEF PollLands
  <2>3. pane' \in Pane /\ pane'.mount = pane.mount
    BY <1>0, <1>10, <2>1, <2>2 DEF SetPane, Pane, PaneStates
  <2>4. Now(w, "landed") /\ Forget(w.va)
    BY <1>13 DEF PollLands
  <2>5. told' \subseteq Vas
    BY <1>0, <1>10, <1>13 DEF PollLands
  <2>. QED  BY <1>0, <1>4, <1>8, <1>13, <2>3, <2>4, <2>5 DEF PollLands, serverVars, TabType, TabBusy
<1>14. ASSUME NEW w \in waits, Expire(w) PROVE TabType' /\ TabBusy'
  <2>1. pane' \in Pane /\ pane'.mount = pane.mount
    BY <1>0, <1>14 DEF Expire, SetPane, GivenUp, Pane, PaneStates
  <2>2. waits' = waits \ {w}
    BY <1>14 DEF Expire
  <2>. QED  BY <1>0, <1>3, <1>14, <2>1, <2>2 DEF Expire, serverVars, cardVars, TabType, TabBusy
<1>15. ASSUME Review PROVE TabType' /\ TabBusy'
  <2>1. detail # NoFunction
    BY <1>15 DEF Review, OnScreen
  <2>2. PICK s : s = Source(client)
    OBVIOUS
  <2>3. s \in Sources /\ detail.va \in Vas /\ lifts[s][detail.va] \in Lift
    BY <1>0, <1>1, <2>1, <2>2
  <2>4. lifts' = lifts \/ lifts' = [lifts EXCEPT ![s][detail.va].id = @ + 1]
    BY <1>15, <2>2 DEF Review, ReviewLift
  <2>5. [lifts[s][detail.va] EXCEPT !.id = @ + 1] \in Lift
    BY <2>3 DEF Lift
  <2>6. lifts' \in [Sources -> [Vas -> Lift]]
    BY <1>0, <2>3, <2>4, <2>5
  <2>. QED  BY <1>0, <1>15, <2>6 DEF Review, paneVars, cardVars, TabType, TabBusy
<1>16. ASSUME NEW va \in Vas, NEW pinned \in BOOLEAN, ShowCard(va, pinned) PROVE TabType' /\ TabBusy'
  <2>1. detail # NoFunction
    BY <1>16 DEF ShowCard, OnScreen
  <2>2. PICK l : l = [n |-> Fresh(lookups), va |-> va, joined |-> TRUE, source |-> Source(client),
                      read |-> Unanswered]
    OBVIOUS
  <2>3. l \in Lookup
    BY <1>0, <1>1, <2>1, <2>2, FreshNumber DEF Lookup
  <2>4. lookups' = lookups \/ lookups' = lookups \cup {l}
    BY <1>16, <2>2 DEF ShowCard, Wonder
  <2>5. lookups' \subseteq Lookup
    BY <1>0, <2>3, <2>4
  <2>6. IsFiniteSet(lookups')
    <3>1. IsFiniteSet(lookups \cup {l})
      BY <1>0, OneMore
    <3>. QED  BY <1>0, <2>4, <3>1
  <2>. QED  BY <1>0, <1>16, <2>1, <2>5, <2>6 DEF ShowCard, serverVars, paneVars, TabType, TabBusy
<1>17. ASSUME DropCard \/ GraphAnswered PROVE TabType' /\ TabBusy'
  BY <1>0, <1>17 DEF DropCard, GraphAnswered, serverVars, paneVars, cardVars, TabType, TabBusy
<1>18. ASSUME NEW l \in lookups, LookupRead(l) PROVE TabType' /\ TabBusy'
  <2>1. l \in Lookup /\ detail # NoFunction
    BY <1>0 DEF TabBusy
  <2>2. [l EXCEPT !.read = lifts[l.source][l.va]] \in Lookup
    BY <1>0, <2>1 DEF Lookup
  <2>3. lookups' \subseteq Lookup /\ IsFiniteSet(lookups')
    BY <1>0, <1>18, <2>2, OneMore DEF LookupRead
  <2>. QED  BY <1>0, <1>18, <2>1, <2>3 DEF LookupRead, serverVars, paneVars, TabType, TabBusy
<1>19. ASSUME NEW l \in lookups, LookupOver(l) \/ LookupFails(l) PROVE TabType' /\ TabBusy'
  <2>1. l \in Lookup /\ detail # NoFunction
    BY <1>0 DEF TabBusy
  <2>2. PICK S : S = lookups \ {l}
    OBVIOUS
  <2>3. lookups' = Parted(S, l.va) /\ S \subseteq Lookup /\ IsFiniteSet(S)
    BY <1>0, <1>19, <2>2, OneMore DEF LookupOver, LookupFails, Enter, Parted
  <2>4. lookups' \subseteq Lookup /\ IsFiniteSet(lookups')
    BY <2>3, PartedLookups
  <2>5. cache' \in [Vas -> Lift \cup {Unasked}]
    BY <1>0, <1>19, <2>1, NoLiftTyped DEF LookupOver, LookupFails, Enter, Lookup
  <2>6. told' \subseteq told
    BY <1>19 DEF LookupOver, LookupFails
  <2>. QED  BY <1>0, <1>19, <2>1, <2>4, <2>5, <2>6
            DEF LookupOver, LookupFails, serverVars, paneVars, TabType, TabBusy
<1>20. ASSUME FetchFails PROVE TabType' /\ TabBusy'
  BY <1>0, <1>20 DEF FetchFails, serverVars, cardVars, TabType, TabBusy
<1>. QED  BY <1>5, <1>6, <1>7, <1>9, <1>11, <1>12, <1>13, <1>14, <1>15, <1>16, <1>17, <1>18, <1>19, <1>20
          DEF TabStep

LEMMA TabStart == ASSUME Init PROVE TabType /\ TabBusy
<1>1. /\ lifts = [s \in Sources |-> [v \in Vas |->
                    IF s = Sample /\ v \in SampleLifted THEN Version(s, v, None, 1) ELSE NoLift]]
      /\ model = {} /\ fetch = "none" /\ waits = {} /\ lookups = {} /\ told = {}
      /\ pane = [mount |-> 0, lifted |-> NoLift, state |-> "not-run", busy |-> FALSE]
      /\ cache = [v \in Vas |-> Unasked] /\ foreign = FALSE /\ reviewed = FALSE
  BY DEF Init, TabInit
<1>2. lifts \in [Sources -> [Vas -> Lift]]
  BY <1>1, NoLiftTyped, VersionTyped DEF None
<1>3. pane \in Pane /\ pane.mount = 0
  BY <1>1, NoLiftTyped DEF Pane, PaneStates
<1>. QED  BY <1>1, <1>2, <1>3, FS_EmptySet DEF TabType, TabBusy

\* A function that comes on screen: another address gets another pane.
LEMMA FollowsDetail ==
    ASSUME WorkspaceInv, Found, NEW o \in opens, OpenAnswered(o), Follows
    PROVE  /\ Source(client) \in Sources /\ UNCHANGED client
           /\ detail' = detail \/ detail' # NoFunction
           /\ detail'.va # detail.va => detail' # NoFunction
           /\ detail # NoFunction => detail' # NoFunction
<1>1. Loaded /\ o.va \in Vas
  BY DEF WorkspaceInv, OneRun, WorkspaceType, Open
<1>2. detail' = detail \/ detail' = [source |-> o.source, va |-> o.va]
  BY DEF OpenAnswered
<1>3. [source |-> o.source, va |-> o.va] # NoFunction
  BY <1>1 DEF NoFunction
<1>. QED  BY <1>1, <1>2, <1>3, HereInRuns DEF Here, Sources, OpenAnswered

LEMMA TabNext ==
    ASSUME WorkspaceInv, Found, TabType, TabBusy, [Next]_shellVars
    PROVE  TabType' /\ TabBusy' /\ (detail # NoFunction => detail' # NoFunction)
<1>1. CASE TabStep /\ UNCHANGED <<client, appVars>>
  BY <1>1, TabTypeKeeps DEF appVars
<1>2. CASE \E o \in opens : OpenAnswered(o) /\ Follows
  <2>. PICK o \in opens : OpenAnswered(o) /\ Follows
    BY <1>2
  <2>1. /\ Source(client) \in Sources /\ (detail # NoFunction => detail' # NoFunction)
        /\ (detail'.va # detail.va => detail' # NoFunction)
    BY FollowsDetail
  <2>2. \/ UNCHANGED <<pane, fetch>>
        \/ /\ pane' = [mount |-> pane.mount + 1, lifted |-> NoLift,
                       state |-> "not-run", busy |-> FALSE]
           /\ fetch' = Source(client) /\ detail'.va # detail.va
    BY DEF Follows
  <2>3. pane' \in Pane /\ fetch' \in Sources \cup {"none"} /\ pane.mount <= pane'.mount
    <3>1. pane \in Pane /\ pane.mount \in Nat /\ fetch \in Sources \cup {"none"}
      BY DEF TabType, Pane
    <3>2. [mount |-> pane.mount + 1, lifted |-> NoLift, state |-> "not-run", busy |-> FALSE] \in Pane
      BY <3>1, NoLiftTyped DEF Pane, PaneStates
    <3>3. pane' \in Pane /\ fetch' \in Sources \cup {"none"}
      BY <2>1, <2>2, <3>1, <3>2
    <3>4. pane.mount <= pane'.mount
      BY <2>2, <3>1
    <3>. QED  BY <3>3, <3>4
  <2>4. /\ UNCHANGED <<lifts, model, waits, cache, lookups, told, reviewed>>
        /\ foreign' \in BOOLEAN
    BY DEF Follows, serverVars, TabType
  <2>5. TabType'
    BY <2>3, <2>4 DEF TabType
  <2>6. \A w \in waits : w.mount <= pane'.mount
    BY <2>3 DEF TabType, TabBusy, Wait, Pane
  <2>. QED  BY <2>1, <2>2, <2>4, <2>5, <2>6 DEF TabBusy
<1>3. CASE Leaves /\ UNCHANGED detail
  BY <1>3 DEF Leaves, serverVars, paneVars, cardVars, TabType, TabBusy
<1>4. CASE UNCHANGED <<tabVars, client, detail>>
  BY <1>4 DEF tabVars, TabType, TabBusy
<1>. QED  BY <1>1, <1>2, <1>3, <1>4, TabSteps

LEMMA TabInvariance == Spec => [](TabType /\ TabBusy)
BY TabStart, TabNext, FoundInvariance, WorkspaceInvariance, PTL DEF Spec

\* Whoever puts "queued" on the pane leaves a poll behind, and whoever ends a poll
\* of the pane takes it off.
LEMMA WatchedNext ==
    ASSUME WorkspaceInv, Found, TabType, TabBusy, LiftWatched, [Next]_shellVars PROVE LiftWatched'
<1>0. pane \in Pane /\ waits \subseteq Wait
  BY DEF TabType
<1>1. ASSUME ~Waiting' PROVE LiftWatched'
  BY <1>1 DEF LiftWatched
<1>2. ASSUME pane'.state = pane.state, pane'.mount = pane.mount,
             \A w \in waits : w.at # "asked" => \E u \in waits' : u.mount = w.mount /\ u.at # "asked"
                                                              /\ u.at \in {"polling", "landed"}
      PROVE  LiftWatched'
  BY <1>0, <1>2 DEF LiftWatched, Waiting, Mine
<1>3. ASSUME NEW w \in waits, NEW at \in {"polling", "landed"}, Now(w, at), pane'.mount = pane.mount,
             Mine(w) => pane'.state = pane.state \/ at = "polling", ~Mine(w) => pane' = pane
      PROVE  LiftWatched'
  <2>1. PICK u \in waits' : waits' = (waits \ {w}) \cup {u} /\ u.at = at /\ u.mount = w.mount
    BY <1>3, NowTyped
  <2>. QED  BY <1>0, <1>3, <2>1 DEF LiftWatched, Waiting, Mine
<1>4. ASSUME NEW w \in waits, waits' = waits \ {w}, UNCHANGED pane, w.at = "asked" \/ ~Mine(w)
      PROVE  LiftWatched'
  BY <1>0, <1>4 DEF LiftWatched, Waiting, Mine
<1>5. CASE TabStep /\ UNCHANGED <<client, appVars>>
  <2>1. CASE \/ \E q \in model : ModelAnswers(q)
             \/ \E va \in Vas, pinned \in BOOLEAN : ShowCard(va, pinned)
             \/ \E l \in lookups : LookupRead(l) \/ LookupOver(l) \/ LookupFails(l)
             \/ FetchFails \/ Review \/ DropCard \/ GraphAnswered
    BY <2>1 DEF ModelAnswers, ShowCard, LookupRead, LookupOver, LookupFails, FetchFails, Review,
       DropCard, GraphAnswered, paneVars, LiftWatched, Waiting, Mine
  <2>2. CASE FetchAnswered
    <3>1. PICK s \in {"not-run", "done"} : \E read : pane' = [pane EXCEPT !.lifted = read, !.state = s]
      BY <2>2 DEF FetchAnswered
    <3>. QED  BY <1>0, <1>1, <3>1 DEF Waiting, Pane
  <2>3. CASE PressLift
    <3>1. pane'.state = pane.state /\ pane'.mount = pane.mount /\ waits \subseteq waits'
      BY <1>0, <2>3 DEF PressLift, Pane
    <3>. QED  BY <1>0, <3>1 DEF LiftWatched, Waiting, Mine
  <2>4. CASE \E w \in waits : LiftQueued(w)
    <3>. PICK w \in waits : LiftQueued(w)
      BY <2>4
    <3>1. pane'.mount = pane.mount /\ (~Mine(w) => pane' = pane) /\ Now(w, "polling")
      BY <1>0 DEF LiftQueued, SetPane, Pane
    <3>2. PICK at \in {"polling", "landed"} : at = "polling"
      OBVIOUS
    <3>. QED  BY <1>3, <3>1, <3>2
  <2>5. CASE \E w \in waits : LiftOver(w) \/ LiftFails(w)
    <3>. PICK w \in waits : LiftOver(w) \/ LiftFails(w)
      BY <2>5
    <3>1. waits' = waits \ {w} /\ w.at = "asked" /\ (~Mine(w) => pane' = pane)
      BY DEF LiftOver, LiftFails, SetPane
    <3>2. Mine(w) => pane'.state \in {"not-run", "done", "failed"}
      BY <1>0 DEF LiftOver, LiftFails, SetPane, Pane
    <3>. QED  BY <1>1, <1>4, <3>1, <3>2 DEF Waiting
  <2>6. CASE \E w \in waits : PollLands(w)
    <3>. PICK w \in waits : PollLands(w)
      BY <2>6
    <3>1. /\ pane'.mount = pane.mount /\ (~Mine(w) => pane' = pane)
          /\ (Mine(w) => pane'.state = "done") /\ Now(w, "landed")
      BY <1>0 DEF PollLands, SetPane, Pane
    <3>2. PICK at \in {"polling", "landed"} : at = "landed"
      OBVIOUS
    <3>. QED  BY <1>1, <1>3, <3>1, <3>2 DEF Waiting
  <2>7. CASE \E w \in waits : Expire(w)
    <3>. PICK w \in waits : Expire(w)
      BY <2>7
    <3>1. waits' = waits \ {w} /\ (~Mine(w) => pane' = pane)
          /\ (Mine(w) => pane'.state \notin {"queued", "running"})
      BY <1>0 DEF Expire, SetPane, GivenUp, Waiting, Pane
    <3>. QED  BY <1>1, <1>4, <3>1 DEF Waiting
  <2>. QED  BY <1>5, <2>1, <2>2, <2>3, <2>4, <2>5, <2>6, <2>7 DEF TabStep
<1>6. CASE \E o \in opens : OpenAnswered(o) /\ Follows
  BY <1>0, <1>1, <1>6 DEF Follows, LiftWatched, Waiting, Mine
<1>7. CASE (Leaves /\ UNCHANGED detail) \/ UNCHANGED <<tabVars, client, detail>>
  BY <1>7 DEF Leaves, paneVars, tabVars, LiftWatched, Waiting, Mine
<1>. QED  BY <1>5, <1>6, <1>7, TabSteps

\* A pane that says that a lift is under way has a poll that will end it.
THEOREM LiftIsWatched == Spec => []LiftWatched
<1>1. Init => LiftWatched
  BY DEF Init, TabInit, LiftWatched, Waiting
<1>. QED  BY <1>1, WatchedNext, TabInvariance, FoundInvariance, WorkspaceInvariance, PTL DEF Spec
-----------------------------------------------------------------------------
(* The Analysis tab: what it shows is of the function on screen.           *)

\* What is stored is a version of its own place, and the text of a run's is new
\* with each until one is reviewed.
Numbered(lift) == lift.id # None /\ lift.text = lift.id

Stores ==
    \A s \in Sources, v \in Vas : lifts[s][v] # NoLift =>
        /\ lifts[s][v].known = "lift" /\ lifts[s][v].source = s /\ lifts[s][v].va = v
        /\ s # Sample /\ ~reviewed => Numbered(lifts[s][v])

\* What the pane shows, and what its polls took it to show, is of the function
\* on screen.
IsOwn(lift) ==
    lift # NoLift =>
        /\ lift.va = detail.va
        /\ ~foreign => /\ lift.source = detail.source
                       /\ lift.source # Sample /\ ~reviewed => Numbered(lift)

OwnPane ==
    /\ IsOwn(pane.lifted)
    /\ fetch # "none" /\ ~foreign => fetch = detail.source
    /\ detail # NoFunction /\ ~foreign => detail.source = Source(client)
    /\ \A w \in waits :
          /\ w.at # "asked" => w.source # Sample
          /\ Mine(w) => w.va = detail.va /\ IsOwn(w.before)
          /\ ~foreign => w.source = Source(client)

LEMMA OwnStart == ASSUME Init PROVE Stores /\ OwnPane
<1>1. /\ lifts = [s \in Sources |-> [v \in Vas |->
                    IF s = Sample /\ v \in SampleLifted THEN Version(s, v, None, 1) ELSE NoLift]]
      /\ fetch = "none" /\ waits = {} /\ detail = NoFunction
      /\ pane = [mount |-> 0, lifted |-> NoLift, state |-> "not-run", busy |-> FALSE]
  BY DEF Init, TabInit, WorkspaceInit
<1>2. Stores
  <2>. SUFFICES ASSUME NEW s \in Sources, NEW v \in Vas, lifts[s][v] # NoLift
                PROVE  /\ lifts[s][v].known = "lift" /\ lifts[s][v].source = s
                       /\ lifts[s][v].va = v /\ s = Sample
    BY DEF Stores
  <2>1. s = Sample /\ lifts[s][v] = Version(s, v, None, 1)
    BY <1>1
  <2>2. None \in Nat
    BY DEF None
  <2>. QED  BY <2>1, <2>2, VersionTyped
<1>. QED  BY <1>1, <1>2 DEF OwnPane, IsOwn

\* What is stored stays, and a new version is of its place.
LEMMA StoresNext ==
    ASSUME WorkspaceInv, Found, TabType, TabBusy, Stores, [Next]_shellVars
    PROVE  /\ Stores'
           /\ reviewed => reviewed'
           /\ \A s \in Sources, v \in Vas : lifts[s][v] # NoLift => lifts'[s][v] # NoLift
<1>0. /\ lifts \in [Sources -> [Vas -> Lift]] /\ model \subseteq [source : Runs, va : Vas]
      /\ Sample \notin Runs
  BY DEF TabType, Sample
<1>1. CASE UNCHANGED <<lifts, reviewed>>
  BY <1>1 DEF Stores
<1>2. ASSUME NEW q \in model, ModelAnswers(q)
      PROVE  /\ Stores' /\ (reviewed => reviewed')
             /\ \A s \in Sources, v \in Vas : lifts[s][v] # NoLift => lifts'[s][v] # NoLift
  <2>1. q.source \in Sources /\ q.va \in Vas /\ q.source \in Runs
    BY <1>0 DEF Sources
  <2>2. PICK n : n = IF lifts[q.source][q.va] = NoLift THEN 1 ELSE lifts[q.source][q.va].id + 1
    OBVIOUS
  <2>3. n \in Nat /\ n # None
    <3>1. lifts[q.source][q.va].id \in Nat
      BY <1>0, <2>1 DEF Lift
    <3>. QED  BY <2>2, <3>1 DEF None
  <2>4. lifts' = [lifts EXCEPT ![q.source][q.va] = Version(q.source, q.va, n, n)] /\ reviewed' = reviewed
    BY <1>2, <2>2 DEF ModelAnswers
  <2>5. \A s \in Sources, v \in Vas :
           lifts'[s][v] = IF s = q.source /\ v = q.va THEN Version(q.source, q.va, n, n) ELSE lifts[s][v]
    BY <1>0, <2>1, <2>4
  <2>. QED  BY <2>1, <2>3, <2>4, <2>5, VersionTyped DEF Stores, Numbered
<1>3. ASSUME Review
      PROVE  /\ Stores' /\ (reviewed => reviewed')
             /\ \A s \in Sources, v \in Vas : lifts[s][v] # NoLift => lifts'[s][v] # NoLift
  <2>1. Source(client) \in Sources /\ detail.va \in Vas /\ reviewed' = TRUE
    BY <1>3, OnScreenInRun DEF Review, OnScreen
  <2>2. PICK S, d : S = Source(client) /\ d = detail.va
    OBVIOUS
  <2>3. \/ lifts' = lifts
        \/ lifts[S][d] # NoLift /\ lifts' = [lifts EXCEPT ![S][d].id = @ + 1]
    BY <1>3, <2>2 DEF Review, ReviewLift
  <2>4. PICK u : u = [lifts[S][d] EXCEPT !.id = @ + 1]
    OBVIOUS
  <2>5. u.known = lifts[S][d].known /\ u.source = lifts[S][d].source /\ u.va = lifts[S][d].va
    <3>1. lifts[S][d] \in Lift
      BY <1>0, <2>1, <2>2
    <3>. QED  BY <2>4, <3>1 DEF Lift
  <2>6. \A s \in Sources, v \in Vas :
           \/ lifts'[s][v] = lifts[s][v]
           \/ s = S /\ v = d /\ lifts[S][d] # NoLift /\ lifts'[s][v] = u
    BY <1>0, <2>1, <2>2, <2>3, <2>4
  <2>7. lifts[S][d] # NoLift => u.known = "lift" /\ u.source = S /\ u.va = d
    BY <2>1, <2>2, <2>5 DEF Stores
  <2>8. \A s \in Sources, v \in Vas : lifts'[s][v] # NoLift =>
           lifts'[s][v].known = "lift" /\ lifts'[s][v].source = s /\ lifts'[s][v].va = v
    BY <2>6, <2>7 DEF Stores
  <2>9. \A s \in Sources, v \in Vas : lifts[s][v] # NoLift => lifts'[s][v] # NoLift
    BY <2>6, <2>7 DEF NoLift
  <2>. QED  BY <2>1, <2>8, <2>9 DEF Stores
<1>4. CASE TabStep /\ UNCHANGED <<client, appVars>>
  <2>1. CASE \/ \E va \in Vas, pinned \in BOOLEAN : ShowCard(va, pinned)
             \/ \E l \in lookups : LookupRead(l) \/ LookupOver(l) \/ LookupFails(l)
             \/ FetchAnswered \/ FetchFails \/ PressLift \/ DropCard \/ GraphAnswered
             \/ \E w \in waits : LiftQueued(w) \/ LiftOver(w) \/ LiftFails(w) \/ PollLands(w) \/ Expire(w)
    BY <1>1, <2>1 DEF ShowCard, LookupRead, LookupOver, LookupFails, FetchAnswered, FetchFails,
       PressLift, DropCard, GraphAnswered, LiftQueued, LiftOver, LiftFails, PollLands, Expire, serverVars
  <2>. QED  BY <1>2, <1>3, <1>4, <2>1 DEF TabStep
<1>5. CASE (\E o \in opens : Follows) \/ Leaves \/ UNCHANGED tabVars
  BY <1>1, <1>5 DEF Follows, Leaves, serverVars, tabVars
<1>. QED  BY <1>4, <1>5, TabSteps

LEMMA OwnNext ==
    ASSUME WorkspaceInv, Found, TabType, TabBusy, Stores, OwnPane, [Next]_shellVars
    PROVE  OwnPane' /\ (foreign => foreign')
<1>0. /\ pane \in Pane /\ waits \subseteq Wait /\ (reviewed => reviewed')
      /\ (detail # NoFunction => Source(client) \in Sources /\ detail.va \in Vas)
      /\ (detail # NoFunction /\ ~foreign => detail.source = Source(client))
  BY StoresNext, OnScreenInRun DEF TabType, OwnPane
\* What is stored for the address on screen is its own.
<1>1. ASSUME detail # NoFunction, NEW s, s = Source(client) \/ (fetch # "none" /\ s = fetch),
             s \in Sources, NEW lift, lift = lifts[s][detail.va]
      PROVE  IsOwn(lift)
  <2>1. ~foreign => s = detail.source
    BY <1>0, <1>1 DEF OwnPane
  <2>. QED  BY <1>0, <1>1, <2>1 DEF Stores, IsOwn
<1>2. CASE TabStep /\ UNCHANGED <<client, appVars>>
  <2>0. UNCHANGED <<client, detail>>
    BY <1>2 DEF appVars
  <2>1. ASSUME UNCHANGED <<foreign, fetch>>, IsOwn(pane'.lifted), pane'.mount = pane.mount,
               waits' \subseteq waits
        PROVE  OwnPane' /\ (foreign => foreign')
    BY <1>0, <2>0, <2>1 DEF OwnPane, IsOwn, Mine
  <2>2. ASSUME UNCHANGED <<foreign, fetch>>, IsOwn(pane'.lifted), pane'.mount = pane.mount,
               NEW w \in waits, w.source # Sample, NEW at \in {"polling", "landed"}, Now(w, at)
        PROVE  OwnPane' /\ (foreign => foreign')
    <3>1. PICK u \in waits' : /\ waits' = (waits \ {w}) \cup {u} /\ u.mount = w.mount
                              /\ u.va = w.va /\ u.before = w.before /\ u.source = w.source
      BY <2>2, NowTyped
    <3>2. \A v \in waits' : \E k \in waits : /\ v.mount = k.mount /\ v.va = k.va
                                             /\ v.before = k.before /\ v.source = k.source
      BY <3>1
    <3>3. \A v \in waits' : v.at # "asked" => v.source # Sample
      BY <2>2, <3>1 DEF OwnPane
    <3>. QED  BY <1>0, <2>0, <2>2, <3>2, <3>3 DEF OwnPane, IsOwn, Mine
  <2>3. CASE \/ \E q \in model : ModelAnswers(q)
             \/ \E va \in Vas, pinned \in BOOLEAN : ShowCard(va, pinned)
             \/ \E l \in lookups : LookupRead(l) \/ LookupOver(l) \/ LookupFails(l)
             \/ Review \/ DropCard \/ GraphAnswered
    <3>1. UNCHANGED <<paneVars, foreign>>
      BY <2>3 DEF ModelAnswers, ShowCard, LookupRead, LookupOver, LookupFails, Review, DropCard,
         GraphAnswered
    <3>. QED  BY <2>1, <3>1 DEF paneVars, OwnPane
  <2>4. CASE FetchAnswered
    <3>1. fetch \in Sources /\ detail # NoFunction
      BY <2>4 DEF FetchAnswered, TabType, TabBusy
    <3>2. PICK read : read = lifts[fetch][detail.va]
      OBVIOUS
    <3>3. PICK s \in PaneStates : pane' = [pane EXCEPT !.lifted = read, !.state = s]
      BY <2>4, <3>2 DEF FetchAnswered, PaneStates
    <3>4. pane'.lifted = read /\ pane'.mount = pane.mount
      BY <1>0, <3>3 DEF Pane
    <3>5. PICK src : src = fetch
      OBVIOUS
    <3>6. IsOwn(read)
      BY <1>1, <2>4, <3>1, <3>2, <3>5 DEF FetchAnswered
    <3>7. UNCHANGED <<foreign, waits>> /\ fetch' = "none"
      BY <2>4 DEF FetchAnswered
    <3>. QED  BY <1>0, <2>0, <3>4, <3>6, <3>7 DEF OwnPane, IsOwn, Mine
  <2>5. CASE PressLift
    <3>1. PICK u : u = [n |-> Fresh(waits), mount |-> pane.mount, va |-> detail.va,
                        before |-> pane.lifted, source |-> Source(client), at |-> "asked"]
      OBVIOUS
    <3>2. u.va = detail.va /\ u.before = pane.lifted /\ u.source = Source(client) /\ u.at = "asked"
      BY <3>1
    <3>3. /\ waits' = waits \cup {u} /\ pane'.lifted = pane.lifted /\ pane'.mount = pane.mount
          /\ UNCHANGED <<foreign, fetch>>
      BY <1>0, <2>5, <3>1 DEF PressLift, Pane
    <3>. QED  BY <1>0, <2>0, <3>2, <3>3 DEF OwnPane, IsOwn, Mine
  <2>6. CASE \E w \in waits : LiftQueued(w)
    <3>. PICK w \in waits : LiftQueued(w)
      BY <2>6
    <3>1. /\ pane'.mount = pane.mount /\ pane'.lifted = pane.lifted /\ Now(w, "polling")
          /\ w.source # Sample /\ UNCHANGED <<foreign, fetch>>
      BY <1>0 DEF LiftQueued, SetPane, Pane
    <3>2. PICK at \in {"polling", "landed"} : at = "polling"
      OBVIOUS
    <3>. QED  BY <2>2, <3>1, <3>2 DEF OwnPane
  <2>7. ASSUME NEW w \in waits, NEW read, read = lifts[Source(client)][w.va],
               Mine(w) => pane'.lifted = read, ~Mine(w) => pane' = pane
        PROVE  IsOwn(pane'.lifted)
    <3>1. CASE Mine(w)
      <4>1. detail # NoFunction /\ w.va = detail.va
        BY <3>1 DEF TabBusy, OwnPane
      <4>2. PICK s : s = Source(client)
        OBVIOUS
      <4>. QED  BY <1>0, <1>1, <2>7, <3>1, <4>1, <4>2
    <3>2. CASE ~Mine(w)
      BY <2>7, <3>2 DEF OwnPane
    <3>. QED  BY <3>1, <3>2
  <2>8. CASE \E w \in waits : LiftOver(w)
    <3>. PICK w \in waits : LiftOver(w)
      BY <2>8
    <3>1. PICK read : read = lifts[Source(client)][w.va]
      OBVIOUS
    <3>2. PICK s \in PaneStates :
             SetPane(w, [pane EXCEPT !.lifted = read, !.busy = FALSE, !.state = s])
      BY <3>1 DEF LiftOver, PaneStates
    <3>3. /\ Mine(w) => pane'.lifted = read
          /\ ~Mine(w) => pane' = pane
          /\ pane'.mount = pane.mount
      BY <1>0, <3>2 DEF SetPane, Pane
    <3>4. waits' = waits \ {w} /\ UNCHANGED <<foreign, fetch>>
      BY DEF LiftOver
    <3>. QED  BY <2>1, <2>7, <3>1, <3>3, <3>4
  <2>9. CASE \E w \in waits : LiftFails(w) \/ Expire(w)
    <3>. PICK w \in waits : LiftFails(w) \/ Expire(w)
      BY <2>9
    <3>1. pane'.lifted = pane.lifted /\ pane'.mount = pane.mount /\ waits' = waits \ {w}
          /\ UNCHANGED <<foreign, fetch>>
      BY <1>0 DEF LiftFails, Expire, SetPane, GivenUp, Pane
    <3>. QED  BY <2>1, <3>1 DEF OwnPane
  <2>10. CASE \E w \in waits : PollLands(w)
    <3>. PICK w \in waits : PollLands(w)
      BY <2>10
    <3>1. PICK read : read = lifts[Source(client)][w.va]
      OBVIOUS
    <3>2. SetPane(w, [pane EXCEPT !.lifted = read, !.state = "done"])
      BY <3>1 DEF PollLands
    <3>3. /\ Mine(w) => pane'.lifted = read
          /\ ~Mine(w) => pane' = pane
          /\ pane'.mount = pane.mount
      BY <1>0, <3>2 DEF SetPane, Pane
    <3>4. Now(w, "landed") /\ w.at = "polling" /\ UNCHANGED <<foreign, fetch>>
      BY DEF PollLands
    <3>5. w.source # Sample /\ IsOwn(pane'.lifted)
      BY <2>7, <3>1, <3>3, <3>4 DEF OwnPane
    <3>6. PICK at \in {"polling", "landed"} : at = "landed"
      OBVIOUS
    <3>. QED  BY <2>2, <3>3, <3>4, <3>5, <3>6
  <2>11. CASE FetchFails
    <3>1. UNCHANGED <<pane, waits, foreign>> /\ fetch' = "none"
      BY <2>11 DEF FetchFails
    <3>. QED  BY <1>0, <2>0, <3>1 DEF OwnPane, IsOwn, Mine
  <2>. QED  BY <1>2, <2>3, <2>4, <2>5, <2>6, <2>8, <2>9, <2>10, <2>11 DEF TabStep
<1>3. CASE \E o \in opens : OpenAnswered(o) /\ Follows
  <2>. PICK o \in opens : OpenAnswered(o) /\ Follows
    BY <1>3
  <2>1. Source(client) \in Sources /\ UNCHANGED client /\ (detail' = detail \/ detail' # NoFunction)
    BY FollowsDetail
  <2>2. /\ UNCHANGED <<waits, reviewed>> /\ (foreign => foreign')
        /\ ~foreign' => detail'.source = Source(client)
        /\ ~foreign' /\ detail'.va = detail.va => detail'.source = detail.source
    BY DEF Follows
  <2>3. CASE detail'.va # detail.va
    <3>1. pane' = [mount |-> pane.mount + 1, lifted |-> NoLift, state |-> "not-run", busy |-> FALSE]
          /\ fetch' = Source(client)
      BY <2>3 DEF Follows
    <3>2. pane'.lifted = NoLift /\ \A w \in waits : w.mount # pane'.mount
      BY <1>0, <3>1 DEF TabBusy, Wait, Pane
    <3>. QED  BY <2>1, <2>2, <3>1, <3>2 DEF OwnPane, IsOwn, Mine
  <2>4. CASE detail'.va = detail.va
    <3>1. UNCHANGED <<pane, fetch>>
      BY <2>4 DEF Follows
    <3>. QED  BY <2>1, <2>2, <2>4, <3>1 DEF OwnPane, IsOwn, Mine
  <2>. QED  BY <2>3, <2>4
<1>4. CASE Leaves /\ UNCHANGED detail
  <2>1. /\ UNCHANGED <<pane, fetch, waits, reviewed, detail>> /\ (foreign => foreign')
        /\ ~foreign' /\ detail # NoFunction => Source(client') = Source(client)
    BY <1>4 DEF Leaves, paneVars
  <2>2. Source(client)' = Source(client')
    BY DEF Source
  <2>3. waits # {} => detail # NoFunction
    BY DEF TabBusy
  <2>. QED  BY <2>1, <2>2, <2>3 DEF OwnPane, IsOwn, Mine
<1>5. CASE UNCHANGED <<tabVars, client, detail>>
  BY <1>5 DEF tabVars, OwnPane, IsOwn, Mine, Source
<1>. QED  BY <1>2, <1>3, <1>4, <1>5, TabSteps

LEMMA OwnInvariance == Spec => [](Stores /\ OwnPane)
BY OwnStart, OwnNext, StoresNext, TabInvariance, FoundInvariance, WorkspaceInvariance, PTL DEF Spec

\* What came in through a poll is stored, and whoever looked since has seen it.
ToldIsStored ==
    ~foreign =>
        /\ \A l \in lookups : l.source = Source(client)
        /\ \A v \in told : /\ lifts[Source(client)][v] # NoLift /\ cache[v] # NoLift
                           /\ \A l \in lookups : l.va = v => l.read # NoLift

LEMMA ToldStart == ASSUME Init PROVE ToldIsStored
BY DEF Init, TabInit, ToldIsStored

LEMMA ToldNext ==
    ASSUME WorkspaceInv, Found, TabType, TabBusy, Stores, OwnPane, ToldIsStored, [Next]_shellVars
    PROVE  ToldIsStored'
<1>. SUFFICES ASSUME ~foreign' PROVE ToldIsStored'
  BY DEF ToldIsStored
<1>0. /\ ~foreign
      /\ \A s \in Sources, v \in Vas : lifts[s][v] # NoLift => lifts'[s][v] # NoLift
      /\ \A l \in lookups : l.source = Source(client)
      /\ \A v \in told : /\ lifts[Source(client)][v] # NoLift /\ cache[v] # NoLift
                         /\ \A l \in lookups : l.va = v => l.read # NoLift
      /\ (told # {} \/ lookups # {} \/ waits # {} => detail # NoFunction)
      /\ (detail # NoFunction => Source(client) \in Sources)
      /\ lookups \subseteq Lookup /\ told \subseteq Vas /\ cache \in [Vas -> Lift \cup {Unasked}]
      /\ waits \subseteq Wait
  BY StoresNext, OwnNext, OnScreenInRun DEF ToldIsStored, TabBusy, TabType
<1>1. \A v \in told : lifts'[Source(client)][v] # NoLift
  BY <1>0
\* The address of an entry that changes hands.
<1>2. ASSUME NEW S \in SUBSET lookups, NEW va, lookups' = Parted(S, va)
      PROVE  \A k \in lookups' : \E l \in S : k.va = l.va /\ k.source = l.source /\ k.read = l.read
  <2>1. IsFiniteSet(S)
    BY FS_Subset DEF TabType
  <2>. QED  BY <1>0, <1>2, <2>1, PartedLookups
<1>3. ASSUME NEW va, Forget(va)
      PROVE  /\ \A v \in Vas : cache[v] # NoLift => cache'[v] # NoLift
             /\ va \in Vas => cache'[va] # NoLift
             /\ \A k \in lookups' : \E l \in lookups : k.va = l.va /\ k.source = l.source
                                                         /\ k.read = l.read
  <2>1. lookups' = Parted(lookups, va) /\ cache' = [cache EXCEPT ![va] = Unasked]
    BY <1>3 DEF Forget, Parted
  <2>. QED  BY <1>0, <1>2, <2>1, NoLiftTyped
<1>4. CASE TabStep /\ UNCHANGED <<client, appVars>>
  <2>1. CASE \/ \E q \in model : ModelAnswers(q)
             \/ \E w \in waits : LiftQueued(w) \/ LiftFails(w) \/ Expire(w)
             \/ FetchAnswered \/ FetchFails \/ PressLift \/ Review \/ DropCard \/ GraphAnswered
    <3>1. UNCHANGED <<cache, lookups, told>>
      BY <2>1 DEF ModelAnswers, LiftQueued, LiftFails, Expire, FetchAnswered, FetchFails, PressLift,
         Review, DropCard, GraphAnswered, cardVars
    <3>. QED  BY <1>0, <1>1, <1>4, <3>1 DEF ToldIsStored
  <2>2. CASE \E w \in waits : LiftOver(w)
    <3>. PICK w \in waits : LiftOver(w)
      BY <2>2
    <3>1. Forget(w.va) /\ told' = told
      BY DEF LiftOver
    <3>. QED  BY <1>0, <1>1, <1>3, <1>4, <3>1 DEF ToldIsStored
  <2>3. CASE \E w \in waits : PollLands(w)
    <3>. PICK w \in waits : PollLands(w)
      BY <2>3
    <3>1. /\ Forget(w.va) /\ lifts[Source(client)][w.va] # NoLift /\ w.va \in Vas
          /\ \/ told' = told
             \/ (\A l \in lookups : l.va = w.va => l.read # NoLift) /\ told' = told \cup {w.va}
          /\ detail # NoFunction /\ lifts' = lifts
      BY <1>0 DEF PollLands, IsNew, Wait, serverVars
    <3>2. \A v \in told' : lifts[Source(client)][v] # NoLift /\ cache'[v] # NoLift
      <4>1. \A v \in told : lifts[Source(client)][v] # NoLift /\ cache'[v] # NoLift
        BY <1>0, <1>3, <3>1
      <4>2. cache'[w.va] # NoLift
        BY <1>3, <3>1
      <4>. QED  BY <3>1, <4>1, <4>2
    <3>3. \A v \in told', l \in lookups : l.va = v => l.read # NoLift
      BY <1>0, <3>1
    <3>4. \A k \in lookups' : \E l \in lookups : k.va = l.va /\ k.source = l.source /\ k.read = l.read
      BY <1>3, <3>1
    <3>. QED  BY <1>0, <1>4, <3>1, <3>2, <3>3, <3>4 DEF ToldIsStored
  <2>4. CASE \E va \in Vas, pinned \in BOOLEAN : ShowCard(va, pinned)
    <3>. PICK va \in Vas, pinned \in BOOLEAN : ShowCard(va, pinned)
      BY <2>4
    <3>1. PICK u : u = [n |-> Fresh(lookups), va |-> va, joined |-> TRUE, source |-> Source(client),
                        read |-> Unanswered]
      OBVIOUS
    <3>2. u.source = Source(client) /\ u.read # NoLift
      BY <3>1, NoLiftTyped
    <3>3. /\ lookups' = lookups \/ lookups' = lookups \cup {u}
          /\ UNCHANGED <<cache, told, lifts>>
      BY <3>1 DEF ShowCard, Wonder, serverVars
    <3>. QED  BY <1>0, <1>4, <3>2, <3>3 DEF ToldIsStored
  <2>5. CASE \E l \in lookups : LookupRead(l)
    <3>. PICK l \in lookups : LookupRead(l)
      BY <2>5
    <3>1. PICK u : u = [l EXCEPT !.read = lifts[l.source][l.va]]
      OBVIOUS
    <3>2. u.source = l.source /\ u.va = l.va /\ u.read = lifts[l.source][l.va]
      BY <1>0, <3>1 DEF Lookup
    <3>3. lookups' = (lookups \ {l}) \cup {u} /\ UNCHANGED <<cache, told, lifts>>
      BY <3>1 DEF LookupRead, serverVars
    <3>. QED  BY <1>0, <1>4, <3>2, <3>3 DEF ToldIsStored
  <2>6. CASE \E l \in lookups : LookupOver(l)
    <3>. PICK l \in lookups : LookupOver(l)
      BY <2>6
    <3>1. PICK S \in SUBSET lookups : S = lookups \ {l}
      OBVIOUS
    <3>2. /\ lookups' = Parted(S, l.va) /\ cache' = [cache EXCEPT ![l.va] = l.read]
          /\ UNCHANGED <<told, lifts>>
      BY <3>1 DEF LookupOver, Enter, Parted, serverVars
    <3>3. \A k \in lookups' : \E j \in S : k.va = j.va /\ k.source = j.source /\ k.read = j.read
      BY <1>2, <3>2
    <3>4. \A v \in told : cache'[v] # NoLift
      <4>. TAKE v \in told
      <4>1. v \in DOMAIN cache /\ cache[v] # NoLift /\ (l.va = v => l.read # NoLift)
        BY <1>0
      <4>2. cache'[v] = IF l.va = v THEN l.read ELSE cache[v]
        BY <3>2, <4>1
      <4>. QED  BY <4>1, <4>2
    <3>5. \A k \in lookups' : \E j \in lookups : k.va = j.va /\ k.source = j.source /\ k.read = j.read
      BY <3>1, <3>3
    <3>6. \A k \in lookups' : /\ k.source = Source(client)
                             /\ \A v \in told : k.va = v => k.read # NoLift
      BY <1>0, <3>5
    <3>. QED  BY <1>0, <1>4, <3>2, <3>4, <3>6 DEF ToldIsStored
  <2>7. CASE \E l \in lookups : LookupFails(l)
    <3>. PICK l \in lookups : LookupFails(l)
      BY <2>7
    <3>1. PICK S \in SUBSET lookups : S = lookups \ {l}
      OBVIOUS
    <3>2. /\ lookups' = Parted(S, l.va) /\ cache' = [cache EXCEPT ![l.va] = NoLift]
          /\ told' = told \ {l.va} /\ UNCHANGED lifts
      BY <3>1 DEF LookupFails, Enter, Parted, serverVars
    <3>3. \A k \in lookups' : \E j \in S : k.va = j.va /\ k.source = j.source /\ k.read = j.read
      BY <1>2, <3>2
    <3>4. \A v \in told' : v \in told /\ cache'[v] # NoLift
      BY <1>0, <3>2
    <3>5. \A k \in lookups' : /\ k.source = Source(client)
                             /\ \A v \in told : k.va = v => k.read # NoLift
      BY <1>0, <3>1, <3>3
    <3>. QED  BY <1>0, <1>4, <3>2, <3>4, <3>5 DEF ToldIsStored
  <2>. QED  BY <1>4, <2>1, <2>2, <2>3, <2>4, <2>5, <2>6, <2>7 DEF TabStep
<1>5. CASE \E o \in opens : OpenAnswered(o) /\ Follows
  BY <1>0, <1>5 DEF OpenAnswered, Follows, serverVars, ToldIsStored
<1>6. CASE Leaves /\ UNCHANGED detail
  <2>1. /\ UNCHANGED <<cache, lookups, told, lifts>>
        /\ detail # NoFunction => Source(client') = Source(client)
    BY <1>6 DEF Leaves, cardVars, serverVars
  <2>2. Source(client)' = Source(client')
    BY DEF Source
  <2>. QED  BY <1>0, <2>1, <2>2 DEF ToldIsStored
<1>7. CASE UNCHANGED <<tabVars, client, detail>>
  BY <1>7 DEF tabVars, ToldIsStored, Source
<1>. QED  BY <1>4, <1>5, <1>6, <1>7, TabSteps

\* The pane never shows a lift that was late for another function, and the card
\* does not deny one that has come in, unless a lookup that had read before it was
\* still on its way, or a lookup of the function has failed since.
THEOREM TabIsOfFunction == Spec => []TabShowsOwn
<1>1. OwnPane /\ ToldIsStored => TabShowsOwn
  BY DEF OwnPane, IsOwn, ToldIsStored, TabShowsOwn
<1>. QED  BY <1>1, ToldStart, ToldNext, OwnInvariance, TabInvariance, FoundInvariance,
             WorkspaceInvariance, PTL DEF Spec

\* A poll lands in one step only, and what it puts on the pane is another text
\* than the one that was there when the lift was asked for.
LEMMA LandedIsNew ==
    ASSUME WorkspaceInv, Found, TabType, TabBusy, Stores, OwnPane, [Next]_shellVars,
           ~reviewed, ~foreign', NEW w \in waits, Mine(w), Landed(w)
    PROVE  /\ pane'.state = "done"
           /\ pane'.lifted.va = detail.va /\ pane'.lifted.source = detail.source
           /\ w.before # NoLift => pane'.lifted.text # w.before.text
<1>0. /\ pane \in Pane /\ waits \subseteq Wait /\ w \in Wait /\ w.at = "polling" /\ ~foreign
      /\ detail # NoFunction /\ w.va = detail.va /\ IsOwn(w.before)
      /\ Source(client) \in Sources /\ detail.va \in Vas /\ detail.source = Source(client)
      /\ w.source = Source(client) /\ w.source # Sample
  BY OwnNext, OnScreenInRun DEF TabType, TabBusy, OwnPane, Landed
<1>1. PICK k \in waits' : k.n = w.n /\ k.at = "landed"
  BY DEF Landed
<1>2. k \notin waits
  BY <1>0, <1>1 DEF TabBusy
<1>3. PollLands(w)
  <2>1. TabStep
    <3>1. ~(waits' \subseteq waits)
      BY <1>1, <1>2
    <3>. QED  BY <3>1, TabSteps DEF Follows, Leaves, paneVars, tabVars
  <2>2. PICK v \in waits : LiftQueued(v) \/ PollLands(v) \/ PressLift
    BY <1>1, <1>2, <2>1 DEF TabStep, ModelAnswers, FetchAnswered, FetchFails, LiftOver, LiftFails,
       Expire, Review, ShowCard, DropCard, LookupRead, LookupOver, LookupFails, GraphAnswered, paneVars
  <2>3. ~PressLift
    BY <1>1, <1>2 DEF PressLift
  <2>4. ASSUME NEW at \in {"polling", "landed"}, Now(v, at) PROVE at = "landed" /\ v.n = k.n
    <3>1. PICK u \in waits' : waits' = (waits \ {v}) \cup {u} /\ u.at = at /\ u.n = v.n
      BY <2>4, NowTyped
    <3>. QED  BY <1>1, <1>2, <3>1
  <2>5. ~LiftQueued(v)
    <3>1. PICK at \in {"polling", "landed"} : at = "polling"
      OBVIOUS
    <3>. QED  BY <2>4, <3>1 DEF LiftQueued
  <2>6. v.n = k.n
    <3>1. PICK at \in {"polling", "landed"} : at = "landed"
      OBVIOUS
    <3>. QED  BY <2>2, <2>3, <2>4, <2>5, <3>1 DEF PollLands
  <2>. QED  BY <1>1, <2>2, <2>3, <2>5, <2>6 DEF TabBusy
<1>4. PICK read : read = lifts[Source(client)][w.va]
  OBVIOUS
<1>5. pane' = [pane EXCEPT !.lifted = read, !.state = "done"] /\ IsNew(w, read)
  BY <1>3, <1>4 DEF PollLands, SetPane
<1>6. pane'.lifted = read /\ pane'.state = "done"
  BY <1>0, <1>5 DEF Pane
<1>7. /\ read # NoLift /\ read.source = Source(client) /\ read.va = w.va
      /\ read.text = read.id
  BY <1>0, <1>4, <1>5 DEF Stores, Numbered, IsNew
<1>8. w.before # NoLift => w.before.text # read.text
  BY <1>0, <1>5, <1>7 DEF IsOwn, Numbered, IsNew
<1>. QED  BY <1>0, <1>6, <1>7, <1>8

\* A lift that is asked for again ends with another text of the same function.
THEOREM LiftAgainIsNew == Spec => LiftIsNew
<1>1. ASSUME WorkspaceInv, Found, TabType, TabBusy, Stores, OwnPane, [Next]_shellVars
      PROVE  [~reviewed /\ ~foreign' =>
                \A w \in waits : Mine(w) /\ Landed(w) =>
                    /\ pane'.state = "done"
                    /\ pane'.lifted.va = detail.va /\ pane'.lifted.source = detail.source
                    /\ w.before # NoLift => pane'.lifted.text # w.before.text]_tabVars
  BY <1>1, LandedIsNew
<1>. QED  BY <1>1, OwnInvariance, TabInvariance, FoundInvariance, WorkspaceInvariance, PTL
          DEF Spec, LiftIsNew
-----------------------------------------------------------------------------
(* The window of a finding.                                                *)

Text == [finding : Findings \cup {NoFinding}, source : Sources \cup {"none"}, version : Nat]
Read == [n : Nat, finding : Findings, cancelled : BOOLEAN, source : Sources]
Explain == [n : Nat, mount : Nat, finding : Findings, source : Sources, at : {"asked", "polling"}]
Window == [mount : Nat, finding : Findings \cup {NoFinding}, source : Sources \cup {"none"},
           text : Text, state : PaneStates, busy : BOOLEAN]

WindowType ==
    /\ window \in Window
    /\ reads \subseteq Read /\ IsFiniteSet(reads)
    /\ explains \subseteq Explain /\ IsFiniteSet(explains)
    /\ prompts \subseteq [source : Sources, finding : Findings]
    /\ explained \in [Sources -> [Findings -> Text]] /\ strayed \in BOOLEAN
    /\ IsOpen \/ explains # {} => Loaded

\* Of what finding and run a text is.
TextOf(text, finding, source) == text # NoText => text.finding = finding /\ text.source = source

\* What the window is waiting for is its finding's, and "done" is said of a text.
OwnText ==
    /\ \A s \in Sources, f \in Findings : TextOf(explained[s][f], f, s)
    /\ \A r \in reads : ~r.cancelled => r.finding = window.finding
    /\ IsOpen /\ ~strayed /\ window.state = "done" => window.text # NoText
    /\ WindowShowsOwn

LEMMA NoTextTyped == NoText \in Text /\ Shut \in Window
<1>1. NoText \in Text
  BY DEF NoText, Text
<1>. QED  BY <1>1 DEF Shut, Window, PaneStates

LEMMA WindowStart == ASSUME Init PROVE WindowType /\ OwnText
<1>1. /\ window = Shut /\ reads = {} /\ explains = {} /\ prompts = {} /\ strayed = FALSE
      /\ explained = [s \in Sources |-> [f \in Findings |->
           IF s = Sample /\ f \in SampleExplained
           THEN [finding |-> f, source |-> s, version |-> 1] ELSE NoText]]
  BY DEF Init, WindowInit, Sources
<1>2. ~IsOpen
  BY <1>1 DEF IsOpen, Shut
<1>3. /\ explained \in [Sources -> [Findings -> Text]]
      /\ \A s \in Sources, f \in Findings : TextOf(explained[s][f], f, s)
  <2>. SUFFICES ASSUME NEW s \in Sources, NEW f \in Findings
                PROVE  explained[s][f] \in Text /\ TextOf(explained[s][f], f, s)
    BY <1>1
  <2>1. \/ explained[s][f] = NoText
        \/ explained[s][f] = [finding |-> f, source |-> s, version |-> 1]
    BY <1>1
  <2>. QED  BY <2>1, NoTextTyped DEF Text, TextOf
<1>. QED  BY <1>1, <1>2, <1>3, NoTextTyped, FS_EmptySet DEF WindowType, OwnText, WindowShowsOwn

\* What becomes of the requests of a window that shows another finding.
LEMMA CancelledReads ==
    ASSUME NEW S, S \subseteq Read, IsFiniteSet(S)
    PROVE  Cancelled(S) \subseteq Read /\ IsFiniteSet(Cancelled(S))
           /\ \A r \in Cancelled(S) : r.cancelled
<1>. DEFINE f == [r \in S |-> [r EXCEPT !.cancelled = TRUE]]
<1>1. \A r \in S : [r EXCEPT !.cancelled = TRUE] \in Read /\ [r EXCEPT !.cancelled = TRUE].cancelled
  BY DEF Read
<1>2. f \in Surjection(S, Cancelled(S))
  BY DEF Surjection, Cancelled
<1>3. IsFiniteSet(Cancelled(S))
  BY <1>2, FS_Surjection
<1>. HIDE DEF f
<1>. QED  BY <1>1, <1>3 DEF Cancelled

\* The steps that reach the window.
LEMMA WindowSteps ==
    ASSUME [Next]_shellVars
    PROVE  \/ WindowStep /\ UNCHANGED <<client, appVars>>
           \/ Outlives
           \/ UNCHANGED <<windowVars, client>>
<1>1. CASE WorkspaceStep
  BY <1>1 DEF WorkspaceStep, Opened, Elsewhere, InShell, asideVars, OpenReport, Reload, SwitchMode,
     LoadAnswered, LoadFails, OpenFunction, SelectFunction, Jump, OpenAnswered, OpenFails, ShowView,
     PinRoot
<1>2. CASE UploadOpens
  BY <1>2 DEF UploadOpens, Opened
<1>3. CASE WindowStep
  BY <1>3, WindowFrame
<1>4. CASE UploadStep \/ AutoStep \/ TabStep \/ SecurityStep \/ TreeStep \/ UNCHANGED shellVars
  BY <1>4, UploadFrame, AutoFrame, TabFrame, SecurityFrame, TreeFrame DEF shellVars, asideVars
<1>. QED  BY <1>1, <1>2, <1>3, <1>4, EveryStep

LEMMA WindowTypeKeeps ==
    ASSUME WorkspaceInv, Found, WindowType, WindowStep, UNCHANGED <<client, appVars>>
    PROVE  WindowType'
<1>0. /\ window \in Window /\ reads \subseteq Read /\ IsFiniteSet(reads)
      /\ explains \subseteq Explain /\ IsFiniteSet(explains)
      /\ prompts \subseteq [source : Sources, finding : Findings]
      /\ explained \in [Sources -> [Findings -> Text]] /\ strayed \in BOOLEAN
      /\ (IsOpen \/ explains # {} => Loaded) /\ (Loaded => Loaded')
      /\ (Loaded => Source(client) \in Sources)
      /\ app.data \in Sources \cup {"none"}
  BY HereInRuns DEF WindowType, WorkspaceInv, WorkspaceType, AppType, appVars, Here, Sources, Loaded
\* The window is given a text or a state, and stays.
<1>1. ASSUME window' \in Window, window'.finding = window.finding, explains' \subseteq Explain,
             IsFiniteSet(explains'), explains # {} \/ explains' = {} \/ Loaded,
             reads' \subseteq Read, IsFiniteSet(reads'),
             prompts' \subseteq [source : Sources, finding : Findings],
             explained' \in [Sources -> [Findings -> Text]], strayed' \in BOOLEAN
      PROVE  WindowType'
  BY <1>0, <1>1 DEF WindowType, IsOpen
<1>2. ASSUME NEW f \in Findings, OpenFinding(f) PROVE WindowType'
  <2>1. Loaded /\ app.data \in Sources /\ Source(client) \in Sources
    BY <1>0, <1>2 DEF OpenFinding, Loaded
  <2>2. window' \in Window
    <3>1. PICK w \in Window : window' = [w EXCEPT !.finding = f, !.source = app.data]
                              \/ window' = [w EXCEPT !.mount = window.mount + 1, !.finding = f,
                                                     !.source = app.data]
      BY <1>0, <1>2, NoTextTyped DEF OpenFinding
    <3>2. window.mount + 1 \in Nat
      BY <1>0 DEF Window
    <3>. QED  BY <2>1, <3>1, <3>2 DEF Window
  <2>3. PICK r : r = [n |-> Fresh(reads), finding |-> f, cancelled |-> FALSE, source |-> Source(client)]
    OBVIOUS
  <2>4. r \in Read
    BY <1>0, <2>1, <2>3, FreshNumber DEF Read
  <2>5. Cancelled(reads) \cup {r} \subseteq Read /\ IsFiniteSet(Cancelled(reads) \cup {r})
    BY <1>0, <2>4, CancelledReads, OneMore
  <2>6. reads' = reads \/ reads' = Cancelled(reads) \cup {r}
    BY <1>2, <2>3 DEF OpenFinding
  <2>7. reads' \subseteq Read /\ IsFiniteSet(reads')
    BY <1>0, <2>5, <2>6
  <2>. QED  BY <1>0, <1>2, <2>1, <2>2, <2>7 DEF OpenFinding, WindowType
<1>3. ASSUME CloseFinding PROVE WindowType'
  <2>1. window' = [Shut EXCEPT !.mount = window.mount] /\ window.mount \in Nat
    BY <1>0, <1>3 DEF CloseFinding, Window
  <2>2. window' \in Window
    BY <2>1, NoTextTyped DEF Window
  <2>3. Cancelled(reads) \subseteq Read /\ IsFiniteSet(Cancelled(reads))
    BY <1>0, CancelledReads
  <2>. QED  BY <1>0, <1>3, <2>2, <2>3 DEF CloseFinding, WindowType, IsOpen
<1>4. ASSUME NEW r \in reads, ReadAnswered(r) PROVE WindowType'
  <2>1. explained[r.source][r.finding] \in Text
    BY <1>0 DEF Read
  <2>2. PICK t \in Text, s \in PaneStates :
           window' = window \/ window' = [window EXCEPT !.text = t, !.state = s]
    <3>1. PICK t \in Text : t = explained[r.source][r.finding]
      BY <2>1
    <3>2. PICK s \in PaneStates : s = StateOfText(t)
      BY DEF StateOfText, PaneStates
    <3>. QED  BY Zenon, <1>4, <3>1, <3>2 DEF ReadAnswered
  <2>3. window' \in Window /\ window'.finding = window.finding
    BY <1>0, <2>2 DEF Window
  <2>4. reads' \subseteq Read /\ IsFiniteSet(reads')
    BY <1>0, <1>4, OneMore DEF ReadAnswered
  <2>5. strayed' \in BOOLEAN
    BY <1>0, <1>4 DEF ReadAnswered
  <2>. QED  BY <1>0, <1>1, <1>4, <2>3, <2>4, <2>5 DEF ReadAnswered
<1>5. ASSUME PressExplain PROVE WindowType'
  <2>1. Source(client) \in Sources /\ window.finding \in Findings /\ Loaded
    BY <1>0, <1>5 DEF PressExplain, IsOpen, Window
  <2>2. PICK e : e = [n |-> Fresh(explains), mount |-> window.mount, finding |-> window.finding,
                      source |-> Source(client), at |-> "asked"]
    OBVIOUS
  <2>3. e \in Explain
    BY <1>0, <2>1, <2>2, FreshNumber DEF Explain, Window
  <2>4. explains' = explains \cup {e}
    BY <1>5, <2>2 DEF PressExplain
  <2>5. explains' \subseteq Explain /\ IsFiniteSet(explains')
    BY <1>0, <2>3, <2>4, OneMore
  <2>6. window' \in Window /\ window'.finding = window.finding
    BY <1>0, <1>5 DEF PressExplain, Window
  <2>7. prompts' \subseteq [source : Sources, finding : Findings]
    BY <1>0, <1>5, <2>1 DEF PressExplain
  <2>. QED  BY <1>0, <1>1, <1>5, <2>1, <2>5, <2>6, <2>7 DEF PressExplain
<1>6. ASSUME NEW e \in explains, explains' = explains \ {e} \/
                                 explains' = (explains \ {e}) \cup {[e EXCEPT !.at = "polling"]}
      PROVE  explains' \subseteq Explain /\ IsFiniteSet(explains') /\ explains # {}
  <2>1. [e EXCEPT !.at = "polling"] \in Explain
    BY <1>0 DEF Explain
  <2>2. PICK u \in Explain : u = [e EXCEPT !.at = "polling"]
    BY <2>1
  <2>3. IsFiniteSet(explains \ {e}) /\ IsFiniteSet((explains \ {e}) \cup {u})
    BY <1>0, OneMore
  <2>. QED  BY <1>0, <1>6, <2>2, <2>3
<1>7. ASSUME NEW e \in explains
      PROVE  /\ Stored(e.finding) \in Text
             /\ \A from : Stray(e, from) \in BOOLEAN
             /\ e.source \in Sources /\ e.finding \in Findings
  <2>1. ASSUME NEW from PROVE Stray(e, from) \in BOOLEAN
    BY Zenon, <1>0 DEF Stray
  <2>2. Stored(e.finding) \in Text /\ e.source \in Sources /\ e.finding \in Findings
    BY <1>0, <1>7 DEF Stored, Explain
  <2>. QED  BY <2>1, <2>2
<1>8. ASSUME NEW e \in explains, \/ ExplainAnswered(e) \/ ExplainFails(e) \/ ExplainPolled(e)
                                 \/ ExplainDropped(e)
      PROVE  WindowType'
  <2>1. PICK t \in Text, s \in PaneStates, b \in BOOLEAN :
           \/ window' = window
           \/ window' = [window EXCEPT !.text = t, !.busy = FALSE, !.state = s]
           \/ window' = [window EXCEPT !.state = s, !.busy = FALSE]
           \/ window' = [window EXCEPT !.text = t, !.state = s]
    <3>1. PICK t \in Text : t = Stored(e.finding)
      BY <1>7
    <3>2. CASE ExplainAnswered(e)
      BY Zenon, <3>1, <3>2 DEF ExplainAnswered, StateOfText, PaneStates
    <3>3. CASE ExplainFails(e)
      BY Zenon, <3>1, <3>3 DEF ExplainFails, PaneStates
    <3>4. CASE ExplainPolled(e)
      BY Zenon, <3>1, <3>4 DEF ExplainPolled, PaneStates
    <3>5. CASE ExplainDropped(e)
      BY <3>1, <3>5 DEF ExplainDropped, PaneStates
    <3>. QED  BY Zenon, <1>8, <3>2, <3>3, <3>4, <3>5
  <2>2. window' \in Window /\ window'.finding = window.finding
    BY Zenon, <1>0, <2>1 DEF Window
  <2>3. explains' \subseteq Explain /\ IsFiniteSet(explains') /\ explains # {}
    BY <1>6, <1>8 DEF ExplainAnswered, ExplainFails, ExplainPolled, ExplainDropped
  <2>4. strayed' \in BOOLEAN /\ UNCHANGED <<reads, prompts, explained>>
    BY <1>0, <1>7, <1>8 DEF ExplainAnswered, ExplainFails, ExplainPolled, ExplainDropped
  <2>. QED  BY <1>0, <1>1, <2>2, <2>3, <2>4
<1>9. ASSUME NEW q \in prompts, Explained(q) PROVE WindowType'
  <2>1. q.source \in Sources /\ q.finding \in Findings
    BY <1>0
  <2>2. PICK t : t = [finding |-> q.finding, source |-> q.source,
                      version |-> explained[q.source][q.finding].version + 1]
    OBVIOUS
  <2>3. t \in Text
    BY <1>0, <2>1, <2>2 DEF Text
  <2>4. explained' = [explained EXCEPT ![q.source][q.finding] = t]
    BY <1>0, <1>9, <2>1, <2>2 DEF Explained
  <2>5. explained' \in [Sources -> [Findings -> Text]]
    BY <1>0, <2>1, <2>3, <2>4
  <2>. QED  BY <1>0, <1>1, <1>9, <2>5 DEF Explained
<1>10. ASSUME NEW r \in reads, ReadFails(r) PROVE WindowType'
  <2>1. reads' \subseteq Read /\ IsFiniteSet(reads') /\ strayed' \in BOOLEAN
    BY <1>0, <1>10, OneMore DEF ReadFails
  <2>. QED  BY <1>0, <1>1, <1>10, <2>1 DEF ReadFails
<1>. QED  BY <1>2, <1>3, <1>4, <1>5, <1>8, <1>9, <1>10 DEF WindowStep

LEMMA WindowTypeNext ==
    ASSUME WorkspaceInv, Found, WindowType, [Next]_shellVars PROVE WindowType'
<1>0. Loaded => Loaded'
  BY LoadedStays
<1>1. CASE WindowStep /\ UNCHANGED <<client, appVars>>
  BY <1>1, WindowTypeKeeps
<1>2. CASE Outlives
  BY <1>0, <1>2 DEF Outlives, windowVars, WindowType, IsOpen
<1>3. CASE UNCHANGED <<windowVars, client>>
  BY <1>0, <1>3 DEF windowVars, WindowType, IsOpen
<1>. QED  BY <1>1, <1>2, <1>3, WindowSteps

LEMMA OwnTextKeeps ==
    ASSUME WorkspaceInv, Found, WindowType, OwnText, WindowStep, UNCHANGED <<client, appVars>>
    PROVE  OwnText'
<1>0. /\ window \in Window /\ reads \subseteq Read /\ explains \subseteq Explain
      /\ prompts \subseteq [source : Sources, finding : Findings]
      /\ explained \in [Sources -> [Findings -> Text]] /\ strayed \in BOOLEAN
      /\ (IsOpen \/ explains # {} => Source(client) \in Sources)
      /\ UNCHANGED <<client, app>>
  BY HereInRuns DEF WindowType, appVars, Here, Sources
<1>1. /\ \A s \in Sources, f \in Findings : TextOf(explained[s][f], f, s)
      /\ \A r \in reads : ~r.cancelled => r.finding = window.finding
  BY DEF OwnText
<1>2. IsOpen /\ ~strayed =>
         /\ window.state = "done" => window.text # NoText
         /\ (\A r \in reads : r.cancelled) =>
                TextOf(window.text, window.finding, window.source)
  BY DEF OwnText, WindowShowsOwn, TextOf
\* The window is given a text or a state, and goes on showing the same finding.
<1>3. ASSUME window'.finding = window.finding, window'.source = window.source,
             UNCHANGED explained, reads' \subseteq reads,
             IsOpen /\ ~strayed' =>
                 /\ window'.state = "done" => window'.text # NoText
                 /\ (\A r \in reads' : r.cancelled) =>
                        TextOf(window'.text, window.finding, window.source)
      PROVE  OwnText'
  <2>1. \A r \in reads' : ~r.cancelled => r.finding = window'.finding
    BY <1>1, <1>3
  <2>2. WindowShowsOwn'
    BY <1>3 DEF WindowShowsOwn, TextOf, IsOpen
  <2>. QED  BY <1>1, <1>3, <2>1, <2>2 DEF OwnText, IsOpen
<1>4. ASSUME NEW f \in Findings, OpenFinding(f) PROVE OwnText'
  <2>1. /\ strayed' = (IsOpen /\ (strayed \/ (f = window.finding /\ window.text # NoText)))
        /\ UNCHANGED <<explains, explained>>
    BY <1>4 DEF OpenFinding
  <2>2. /\ window'.finding = f
        /\ window'.text = IF IsOpen THEN window.text ELSE NoText
        /\ window'.state = IF IsOpen THEN window.state ELSE "not-run"
    <3>1. CASE IsOpen
      BY <1>0, <1>4, <3>1 DEF OpenFinding, Window
    <3>2. CASE ~IsOpen
      BY <1>4, <3>2 DEF OpenFinding, Shut
    <3>. QED  BY <3>1, <3>2
  <2>3. ~strayed' /\ window'.state = "done" => window'.text # NoText
    BY <1>2, <2>1, <2>2
  <2>4. CASE f = window.finding
    <3>1. reads' = reads
      BY <1>4, <2>4 DEF OpenFinding
    <3>2. ~strayed' => window'.text = NoText
      BY <2>1, <2>2, <2>4
    <3>. QED  BY <1>1, <2>1, <2>2, <2>3, <2>4, <3>1, <3>2 DEF OwnText, WindowShowsOwn
  <2>5. CASE f # window.finding
    <3>1. PICK r : r = [n |-> Fresh(reads), finding |-> f, cancelled |-> FALSE,
                        source |-> Source(client)]
      OBVIOUS
    <3>2. r.finding = f /\ ~r.cancelled
      BY <3>1
    <3>3. reads' = Cancelled(reads) \cup {r}
      BY <1>4, <2>5, <3>1 DEF OpenFinding
    <3>4. \A q \in Cancelled(reads) : q.cancelled
      BY CancelledReads DEF WindowType
    <3>5. \A q \in reads' : ~q.cancelled => q = r
      BY <3>3, <3>4
    <3>6. WindowShowsOwn'
      BY <3>2, <3>3 DEF WindowShowsOwn
    <3>. QED  BY <1>1, <2>1, <2>2, <2>3, <3>2, <3>5, <3>6 DEF OwnText
  <2>. QED  BY <2>4, <2>5
<1>5. ASSUME CloseFinding PROVE OwnText'
  <2>1. /\ window' = [Shut EXCEPT !.mount = window.mount] /\ reads' = Cancelled(reads)
        /\ UNCHANGED explained
    BY <1>5 DEF CloseFinding
  <2>2. ~IsOpen'
    BY <2>1 DEF Shut, IsOpen
  <2>3. \A r \in reads' : r.cancelled
    BY <2>1, CancelledReads DEF WindowType
  <2>. QED  BY <1>1, <2>1, <2>2, <2>3 DEF OwnText, WindowShowsOwn
<1>6. ASSUME NEW r \in reads, ReadAnswered(r) PROVE OwnText'
  <2>1. PICK t : t = explained[r.source][r.finding]
    OBVIOUS
  <2>2. TextOf(t, r.finding, r.source)
    BY <1>0, <1>1, <2>1 DEF Read
  <2>3. /\ reads' = reads \ {r} /\ UNCHANGED explained
        /\ strayed' = IF r.cancelled THEN strayed ELSE r.source # window.source
    BY <1>6 DEF ReadAnswered
  <2>4. CASE r.cancelled
    BY <1>2, <1>3, <1>6, <2>3, <2>4 DEF ReadAnswered
  <2>5. CASE ~r.cancelled
    <3>1. window' = [window EXCEPT !.text = t, !.state = StateOfText(t)]
      BY <1>6, <2>1, <2>5 DEF ReadAnswered
    <3>2. /\ window'.finding = window.finding /\ window'.source = window.source
          /\ window'.text = t /\ window'.state = StateOfText(t)
      BY <1>0, <3>1 DEF Window
    <3>. QED  BY <1>1, <1>3, <2>2, <2>3, <2>5, <3>2 DEF StateOfText
  <2>. QED  BY <2>4, <2>5
<1>7. ASSUME PressExplain PROVE OwnText'
  <2>1. /\ window'.finding = window.finding /\ window'.source = window.source
        /\ window'.text = window.text /\ window'.state = window.state
        /\ UNCHANGED <<reads, explained, strayed>>
    BY <1>0, <1>7 DEF PressExplain, Window
  <2>. QED  BY <1>2, <1>3, <2>1
<1>8. ASSUME NEW e \in explains, NEW t, t = Stored(e.finding), Beside(e),
             NEW from, Source(client) \in from, ~Stray(e, from)
      PROVE  TextOf(t, window.finding, window.source) /\ from = {window.source}
  <2>1. /\ e.finding = window.finding /\ IsOpen /\ e.finding \in Findings
        /\ Source(client) \in Sources /\ from = {window.source} /\ Source(client) = window.source
    BY <1>0, <1>8 DEF Stray, Beside, Explain
  <2>. QED  BY <1>1, <1>8, <2>1 DEF Stored
<1>9. ASSUME NEW e \in explains, ExplainAnswered(e) PROVE OwnText'
  <2>1. PICK t : t = Stored(e.finding)
    OBVIOUS
  <2>2. UNCHANGED <<reads, explained>>
    BY <1>9 DEF ExplainAnswered
  <2>3. CASE e.source = Sample
    <3>1. PICK from : from = {Sample, Source(client)}
      OBVIOUS
    <3>2. strayed' = Stray(e, from)
      BY <1>9, <2>3, <3>1 DEF ExplainAnswered
    <3>3. CASE ~Beside(e)
      <4>1. window' = window /\ strayed' = strayed
        BY <1>9, <2>3, <3>2, <3>3 DEF ExplainAnswered, Stray
      <4>. QED  BY <1>2, <1>3, <2>2, <4>1
    <3>4. CASE Beside(e)
      <4>1. PICK s : s = StateOfText(explained[Sample][e.finding])
        OBVIOUS
      <4>2. window' = [window EXCEPT !.text = t, !.busy = FALSE, !.state = s]
        BY <1>9, <2>1, <2>3, <3>4, <4>1 DEF ExplainAnswered
      <4>3. /\ window'.finding = window.finding /\ window'.source = window.source
            /\ window'.text = t /\ window'.state = s
        BY <1>0, <4>2 DEF Window
      <4>4. ~strayed' => TextOf(t, window.finding, window.source) /\ from = {window.source}
        <5>1. Source(client) \in from
          BY <3>1
        <5>2. ~strayed' => ~Stray(e, from)
          BY <3>2
        <5>. QED  BY Zenon, <1>8, <2>1, <3>4, <5>1, <5>2
      <4>5. ~strayed' => Source(client) = Sample
        BY <3>1, <4>4
      <4>6. ~strayed' /\ s = "done" => t # NoText
        BY <2>1, <4>1, <4>5 DEF Stored, StateOfText
      <4>. QED  BY <1>3, <2>2, <4>3, <4>4, <4>6
    <3>. QED  BY <3>3, <3>4
  <2>4. CASE e.source # Sample
    <3>1. strayed' = strayed /\ (window' = window \/
             window' = [window EXCEPT !.state = "queued", !.busy = FALSE])
      BY <1>9, <2>4 DEF ExplainAnswered
    <3>2. /\ window'.finding = window.finding /\ window'.source = window.source
          /\ window'.text = window.text
          /\ window'.state = window.state \/ window'.state = "queued"
      BY <1>0, <3>1 DEF Window
    <3>. QED  BY <1>2, <1>3, <2>2, <3>1, <3>2
  <2>. QED  BY <2>3, <2>4
<1>10. ASSUME NEW e \in explains, ExplainFails(e) \/ ExplainDropped(e) PROVE OwnText'
  <2>1. /\ window'.finding = window.finding /\ window'.source = window.source
        /\ window'.text = window.text
        /\ window'.state = window.state \/ window'.state = "failed"
    BY Zenon, <1>0, <1>10 DEF ExplainFails, ExplainDropped, Window
  <2>2. UNCHANGED <<reads, explained, strayed>>
    BY <1>10 DEF ExplainFails, ExplainDropped
  <2>. QED  BY <1>2, <1>3, <2>1, <2>2
<1>11. ASSUME NEW e \in explains, ExplainPolled(e) PROVE OwnText'
  <2>1. PICK t : t = Stored(e.finding)
    OBVIOUS
  <2>2. PICK from : from = {Source(client)}
    OBVIOUS
  <2>3. UNCHANGED <<reads, explained>> /\ t # NoText /\ strayed' = Stray(e, from)
    BY <1>11, <2>1, <2>2 DEF ExplainPolled
  <2>4. CASE ~Beside(e)
    BY <1>2, <1>3, <1>11, <2>3, <2>4 DEF ExplainPolled, Stray
  <2>5. CASE Beside(e)
    <3>1. window' = [window EXCEPT !.text = t, !.state = "done"]
      BY <1>11, <2>1, <2>5 DEF ExplainPolled
    <3>2. /\ window'.finding = window.finding /\ window'.source = window.source
          /\ window'.text = t /\ window'.state = "done"
      BY <1>0, <3>1 DEF Window
    <3>3. ~strayed' => TextOf(t, window.finding, window.source)
      BY <1>8, <2>1, <2>2, <2>3, <2>5
    <3>. QED  BY <1>3, <2>3, <3>2, <3>3
  <2>. QED  BY <2>4, <2>5
<1>12. ASSUME NEW q \in prompts, Explained(q) PROVE OwnText'
  <2>1. q.source \in Sources /\ q.finding \in Findings
    BY <1>0
  <2>2. PICK t : t = [finding |-> q.finding, source |-> q.source,
                      version |-> explained[q.source][q.finding].version + 1]
    OBVIOUS
  <2>3. TextOf(t, q.finding, q.source)
    BY <2>2 DEF TextOf
  <2>4. explained' = [explained EXCEPT ![q.source][q.finding] = t] /\ UNCHANGED <<window, reads, explains, strayed>>
    BY <1>0, <1>12, <2>1, <2>2 DEF Explained
  <2>5. \A s \in Sources, f \in Findings :
           explained'[s][f] = IF s = q.source /\ f = q.finding THEN t ELSE explained[s][f]
    BY <1>0, <2>1, <2>4
  <2>6. \A s \in Sources, f \in Findings : TextOf(explained'[s][f], f, s)
    BY <1>1, <2>3, <2>5
  <2>. QED  BY <1>1, <1>2, <2>4, <2>6 DEF OwnText, WindowShowsOwn, TextOf, IsOpen
<1>13. ASSUME NEW r \in reads, ReadFails(r) PROVE OwnText'
  <2>1. /\ reads' = reads \ {r} /\ UNCHANGED <<window, explained>>
        /\ ~strayed' => ~strayed /\ (r.cancelled \/ window.text = NoText)
    BY <1>13 DEF ReadFails
  <2>2. (\A q \in reads' : q.cancelled) /\ r.cancelled => \A q \in reads : q.cancelled
    BY <2>1
  <2>3. window.text = NoText => TextOf(window.text, window.finding, window.source)
    BY DEF TextOf
  <2>. QED  BY <1>2, <1>3, <2>1, <2>2, <2>3
<1>. QED  BY <1>4, <1>5, <1>6, <1>7, <1>9, <1>10, <1>11, <1>12, <1>13 DEF WindowStep

LEMMA OwnTextNext ==
    ASSUME WorkspaceInv, Found, WindowType, OwnText, [Next]_shellVars PROVE OwnText'
<1>1. CASE WindowStep /\ UNCHANGED <<client, appVars>>
  BY <1>1, OwnTextKeeps
<1>2. CASE Outlives
  BY <1>2 DEF Outlives, windowVars, OwnText, WindowShowsOwn, IsOpen
<1>3. CASE UNCHANGED <<windowVars, client>>
  BY <1>3 DEF windowVars, OwnText, WindowShowsOwn, IsOpen
<1>. QED  BY <1>1, <1>2, <1>3, WindowSteps

\* However findings, answers and polls cross, the explanation in the window is
\* of the finding in its title and of the run it came from, but for what a poll
\* of another finding or of another run has put there, and what stays when the
\* read for a new title fails.
THEOREM WindowIsOfFinding == Spec => []WindowShowsOwn
<1>1. OwnText => WindowShowsOwn
  BY DEF OwnText
<1>. QED  BY <1>1, WindowStart, WindowTypeNext, OwnTextNext, FoundInvariance, WorkspaceInvariance,
             PTL DEF Spec
-----------------------------------------------------------------------------
(* Hardening: what is written is right.                                    *)

Options == [signed : BOOLEAN, wx : BOOLEAN]
Changes == [flags : SUBSET {"dep", "aslr", "he"}, sections : SUBSET Nat]

LEMMA AppliedTyped ==
    ASSUME NEW b \in PeImage, NEW o \in Options
    PROVE  Applied(b, o) \in Changes /\ Nothing \in Changes
<1>1. Offenders(b) \subseteq Nat
  <2>1. DOMAIN b.sections \subseteq Nat
    BY DEF PeImage
  <2>. QED  BY <2>1 DEF Offenders
<1>. QED  BY <1>1 DEF Applied, Changes, Nothing

\* What the engine applies it has to, can, and was asked for.
LEMMA CopyIsRight ==
    ASSUME NEW b \in PeImage, NEW o \in Options, ~Refused(b, o), Applied(b, o) # Nothing
    PROVE  CopyRight(b, Hardened(b, o), o)
<1>. PICK a : a = Applied(b, o)
  OBVIOUS
<1>. PICK T : T = [i \in DOMAIN b.sections |->
                     IF i \in a.sections THEN Permissions(b.sections[i]) ELSE b.sections[i]]
  OBVIOUS
<1>. PICK dep \in BOOLEAN : dep = (b.dep \/ "dep" \in a.flags)
  OBVIOUS
<1>. PICK aslr \in BOOLEAN : aslr = (b.aslr \/ "aslr" \in a.flags)
  OBVIOUS
<1>. PICK he \in BOOLEAN : he = (b.he \/ "he" \in a.flags)
  OBVIOUS
<1>. PICK now : now = Hardened(b, o)
  OBVIOUS
<1>1. now = [b EXCEPT !.dep = dep, !.aslr = aslr, !.he = he, !.sum = TRUE, !.sections = T]
  BY DEF Hardened
<1>2. /\ now.dep = dep /\ now.aslr = aslr /\ now.he = he /\ now.sum = TRUE /\ now.sections = T
      /\ b.sections \in Seq(Section)
      /\ b.dep \in BOOLEAN /\ b.aslr \in BOOLEAN /\ b.he \in BOOLEAN /\ b.plus \in BOOLEAN
      /\ b.reloc \in BOOLEAN /\ b.stripped \in BOOLEAN /\ b.signed \in BOOLEAN /\ b.parsed = TRUE
  BY <1>1 DEF PeImage
<1>3. /\ "dep" \in a.flags <=> ~b.dep
      /\ "aslr" \in a.flags <=> ~b.aslr /\ b.reloc /\ ~b.stripped
      /\ "he" \in a.flags <=> ~b.he /\ b.plus /\ (b.aslr \/ (b.reloc /\ ~b.stripped))
      /\ a.flags \subseteq {"dep", "aslr", "he"}
      /\ a.sections = IF o.wx THEN Offenders(b) ELSE {}
  BY <1>2 DEF Applied
<1>4. b.signed => o.signed
  BY <1>2 DEF Refused
<1>5. \A i \in DOMAIN b.sections : b.sections[i] \in Section
  BY <1>2
<1>6. ASSUME NEW i \in DOMAIN b.sections
      PROVE  IF o.wx /\ WriteExecute(b.sections[i])
             THEN /\ now.sections[i].execute = b.sections[i].code
                  /\ now.sections[i].write = ~b.sections[i].code
             ELSE now.sections[i] = b.sections[i]
  <2>. PICK s : s = b.sections[i]
    OBVIOUS
  <2>1. s \in Section /\ now.sections[i] = IF i \in a.sections THEN Permissions(s) ELSE s
    BY <1>2, <1>5
  <2>2. i \in a.sections <=> o.wx /\ WriteExecute(s)
    BY <1>3 DEF Offenders
  <2>3. CASE o.wx /\ WriteExecute(s) /\ s.code
    <3>1. now.sections[i] = [s EXCEPT !.write = FALSE]
      BY <2>1, <2>2, <2>3 DEF Permissions
    <3>2. now.sections[i].write = FALSE /\ now.sections[i].execute = s.execute
      BY ONLY <2>1, <3>1 DEF Section
    <3>. QED  BY <2>1, <2>3, <3>2 DEF WriteExecute, Section
  <2>4. CASE o.wx /\ WriteExecute(s) /\ ~s.code
    <3>1. now.sections[i] = [s EXCEPT !.execute = FALSE]
      BY <2>1, <2>2, <2>4 DEF Permissions
    <3>2. now.sections[i].execute = FALSE /\ now.sections[i].write = s.write
      BY ONLY <2>1, <3>1 DEF Section
    <3>. QED  BY <2>1, <2>4, <3>2 DEF WriteExecute, Section
  <2>. QED  BY <2>1, <2>2, <2>3, <2>4
<1>7. now # b
  <2>1. CASE "dep" \in a.flags \/ "aslr" \in a.flags \/ "he" \in a.flags
    BY <1>2, <1>3, <2>1
  <2>2. CASE a.sections # {}
    <3>1. PICK i \in DOMAIN b.sections : o.wx /\ WriteExecute(b.sections[i])
      BY <1>3, <2>2 DEF Offenders
    <3>2. b.sections[i].execute /\ b.sections[i].write
      BY <3>1 DEF WriteExecute
    <3>3. now.sections[i] # b.sections[i]
      BY <1>5, <1>6, <3>1, <3>2 DEF Section
    <3>. QED  BY <3>3
  <2>3. CASE a.flags = {} /\ a.sections = {}
    <3>1. a = Nothing
      BY <2>3, AppliedTyped DEF Changes, Nothing
    <3>. QED  BY <3>1
  <2>. QED  BY <1>3, <2>1, <2>2, <2>3
<1>. QED  BY <1>2, <1>3, <1>4, <1>6, <1>7 DEF CopyRight
-----------------------------------------------------------------------------
(* The Security tab.                                                       *)

Told == [run : Runs, ok : BOOLEAN, applied : Changes]
CommandRec == [n : Nat, mount : Nat, kind : {"load", "harden"}, run : Sources, options : Options,
               at : {"asked", "writing", "over"}, result : Told \cup {NoReport}]
ReportRec == [run : Runs, image : PeImage \cup {NotPe}, available : BOOLEAN]
SecRec == [mount : Nat, report : ReportRec \cup {NoReport}, result : Told \cup {NoReport},
           error : BOOLEAN, busy : BOOLEAN, fixWx : BOOLEAN]

SecType ==
    /\ images \in [Runs -> PeImage \cup {NotPe, Unseen}]
    /\ DOMAIN hardened = Runs /\ \A r \in Runs : hardened[r].there \in BOOLEAN
    /\ sec \in SecRec
    /\ commands \subseteq CommandRec /\ IsFiniteSet(commands)
    /\ \A c \in commands : /\ c.kind = "harden" => c.run \in Runs
                           /\ c.at # "asked" => c.kind = "harden" /\ c.result \in Told
    /\ commands # {} \/ sec.report # NoReport => Loaded

\* The view has one request under way at a time, and says so.
OneCommand ==
    /\ \A c \in commands : c.mount <= sec.mount
    /\ \A c, d \in commands : c.mount = sec.mount /\ d.mount = sec.mount => c = d
    /\ \A c \in commands : c.mount = sec.mount =>
          sec.busy \/ (c.kind = "load" /\ sec.report = NoReport)

\* What is being written may be written, what the engine says it applied is on
\* disk, and a whole copy is right.
OnDisk ==
    /\ \A c \in commands : c.at = "writing" =>
          /\ images[c.run] \in PeImage /\ ~Refused(images[c.run], c.options)
          /\ Applied(images[c.run], c.options) # Nothing
    /\ \A c \in commands : c.at # "asked" =>
          /\ c.result.run = c.run
          /\ c.result.applied # Nothing => hardened[c.run].there
    /\ \A r \in Runs : hardened[r].whole =>
          images[r] # Unseen /\ CopyRight(images[r], hardened[r].image, hardened[r].options)

\* The report knows of the file a result is about, unless it is being read again.
Reported ==
    sec.result # NoReport /\ sec.result.applied # Nothing =>
        /\ hardened[sec.result.run].there
        /\ /\ sec.report # NoReport /\ sec.report.run = sec.result.run
           /\ ~sec.busy \/ \E c \in commands : c.kind = "harden" /\ c.mount = sec.mount
           => sec.report.available

SecInv == SecType /\ OneCommand /\ OnDisk /\ Reported

LEMMA ImagesDiffer ==
    /\ Unseen # NotPe /\ ~NotPe.parsed
    /\ \A b \in PeImage : b.parsed /\ b # Unseen /\ b # NotPe
    /\ Images \subseteq PeImage \cup {NotPe}
    /\ NoOptions \in Options /\ \A t \in Told \cup ReportRec : t # NoReport /\ t.run \in Runs
<1>1. Unseen.read = FALSE /\ Unseen.parsed = FALSE /\ NotPe.read = TRUE /\ NotPe.parsed = FALSE
  BY DEF Unseen, NotPe
<1>2. \A b \in PeImage : b.parsed = TRUE
  BY DEF PeImage
<1>3. NoOptions \in Options
  BY DEF NoOptions, Options
<1>4. NoReport.run \notin Runs
  BY DEF NoReport
<1>5. \A t \in Told \cup ReportRec : t.run \in Runs
  BY DEF Told, ReportRec
<1>. QED  BY <1>1, <1>2, <1>3, <1>4, <1>5, SecurityAssumption

LEMMA SecurityStart == ASSUME Init PROVE SecInv
<1>1. /\ images = [r \in Runs |-> Unseen] /\ hardened = [r \in Runs |-> NoFile] /\ commands = {}
      /\ sec = [mount |-> 0, report |-> NoReport, result |-> NoReport,
                error |-> FALSE, busy |-> FALSE, fixWx |-> FALSE]
  BY DEF Init, SecurityInit
<1>2. sec \in SecRec /\ sec.report = NoReport /\ sec.result = NoReport
  BY <1>1 DEF SecRec
<1>3. \A r \in Runs : hardened[r].whole = FALSE /\ hardened[r].there = FALSE
  BY <1>1 DEF NoFile
<1>4. images \in [Runs -> PeImage \cup {NotPe, Unseen}] /\ DOMAIN hardened = Runs
  BY <1>1
<1>. QED  BY <1>1, <1>2, <1>3, <1>4, FS_EmptySet DEF SecInv, SecType, OneCommand, OnDisk, Reported

\* The steps that reach the tab.
LEMMA SecuritySteps ==
    ASSUME [Next]_shellVars
    PROVE  \/ SecurityStep /\ UNCHANGED <<client, appVars>>
           \/ \E v \in Views : ShowView(v) /\ Mounts
           \/ UNCHANGED secVars
<1>1. CASE WorkspaceStep
  BY <1>1 DEF WorkspaceStep, Opened, Elsewhere, InShell, asideVars
<1>2. CASE UploadOpens
  BY <1>2 DEF UploadOpens, Opened
<1>3. CASE SecurityStep
  BY <1>3, SecurityFrame
<1>4. CASE UploadStep \/ AutoStep \/ TabStep \/ WindowStep \/ TreeStep \/ UNCHANGED shellVars
  BY <1>4, UploadFrame, AutoFrame, TabFrame, WindowFrame, TreeFrame DEF shellVars, asideVars
<1>. QED  BY <1>1, <1>2, <1>3, <1>4, EveryStep

\* A request that is made.
LEMMA CommandMade ==
    ASSUME WorkspaceInv, SecType, NEW kind \in {"load", "harden"}, NEW mount \in Nat, NEW run \in Sources,
           NEW options \in Options, kind = "harden" => run \in Runs
    PROVE  \E c \in CommandRec :
              /\ Command(kind, mount, run, options) = {c}
              /\ c.mount = mount /\ c.kind = kind /\ c.run = run /\ c.at = "asked"
<1>1. PICK c : c = [n |-> Fresh(commands), mount |-> mount, kind |-> kind, run |-> run,
                    options |-> options, at |-> "asked", result |-> NoReport]
  OBVIOUS
<1>2. Fresh(commands) \in Nat
  BY FreshNumber DEF SecType
<1>3. c \in CommandRec
  BY <1>1, <1>2 DEF CommandRec
<1>4. c.mount = mount /\ c.kind = kind /\ c.run = run /\ c.at = "asked"
  BY <1>1
<1>. QED  BY <1>1, <1>3, <1>4 DEF Command

\* The view is mounted.
LEMMA MountKeeps ==
    ASSUME WorkspaceInv, SecInv, NEW v \in Views, ShowView(v), Mounts
    PROVE  SecInv'
<1>. SecType /\ OneCommand /\ OnDisk /\ Reported
  BY DEF SecInv
<1>1. CASE app'.view # "security"
  <2>1. UNCHANGED secVars /\ app'.data = app.data
    BY <1>1 DEF Mounts, ShowView, WorkspaceInv, WorkspaceType, AppType
  <2>. QED  BY <2>1 DEF secVars, SecInv, SecType, OneCommand, OnDisk, Reported, Loaded
<1>2. CASE app'.view = "security"
  <2>1. app' = [app EXCEPT !.view = v] /\ app \in AppType /\ (v \in {"upload", "reports"} \/ Loaded)
    BY DEF ShowView, WorkspaceInv, WorkspaceType
  <2>2. app'.view = v /\ app'.data = app.data
    BY ONLY <2>1 DEF AppType
  <2>3. Loaded /\ Loaded'
    BY <1>2, <2>1, <2>2 DEF Loaded
  <2>4. Source(client) \in Sources /\ sec.mount \in Nat /\ sec.mount + 1 \in Nat
    BY <2>3, HereInRuns DEF Here, Sources, SecType, SecRec
  <2>5. PICK kind \in {"load", "harden"} : kind = "load"
    OBVIOUS
  <2>6. PICK m \in Nat : m = sec.mount + 1
    BY <2>4
  <2>7. PICK s \in Sources : s = Source(client)
    BY <2>4
  <2>8. PICK c \in CommandRec : /\ Loads(sec.mount + 1) = {c}
                                /\ c.mount = m /\ c.kind = "load" /\ c.run = s /\ c.at = "asked"
    BY <2>5, <2>6, <2>7, CommandMade, ImagesDiffer DEF Loads
  <2>9. /\ sec' = [mount |-> m, report |-> NoReport, result |-> NoReport,
                   error |-> FALSE, busy |-> FALSE, fixWx |-> FALSE]
        /\ commands' = commands \cup {c} /\ UNCHANGED <<images, hardened>>
    BY <1>2, <2>6, <2>8 DEF Mounts
  <2>10. sec' \in SecRec /\ sec'.mount = m /\ sec'.report = NoReport /\ sec'.result = NoReport
    BY <2>9 DEF SecRec
  <2>11. IsFiniteSet(commands')
    BY <2>9, OneMore DEF SecType
  <2>12. SecType'
    BY <2>3, <2>8, <2>9, <2>10, <2>11 DEF SecType
  <2>13. \A d \in commands : d.mount < m
    BY <2>4, <2>6 DEF OneCommand, SecType, CommandRec
  <2>14. OneCommand'
    BY <2>8, <2>9, <2>10, <2>13 DEF OneCommand, SecType, CommandRec
  <2>15. OnDisk' /\ Reported'
    BY <2>8, <2>9, <2>10 DEF OnDisk, Reported
  <2>. QED  BY <2>12, <2>14, <2>15 DEF SecInv
<1>. QED  BY <1>1, <1>2

\* The image of a run is settled by the first look, and by no later one.
LEMMA Looks ==
    ASSUME SecType, NEW r \in Runs, NEW b \in IF images[r] = Unseen THEN Images ELSE {images[r]},
           images' = [images EXCEPT ![r] = b]
    PROVE  /\ b \in PeImage \cup {NotPe} /\ images'[r] = b
           /\ images' \in [Runs -> PeImage \cup {NotPe, Unseen}]
           /\ \A q \in Runs : images[q] # Unseen => images'[q] = images[q]
<1>1. b \in PeImage \cup {NotPe}
  BY ImagesDiffer DEF SecType
<1>. QED  BY <1>1 DEF SecType

\* A request is over, and if it was the view's, the view may change.
LEMMA FewerRequests ==
    ASSUME SecInv, NEW c \in commands, commands' = commands \ {c}, UNCHANGED <<app, hardened>>,
           images' \in [Runs -> PeImage \cup {NotPe, Unseen}],
           \A q \in Runs : images[q] # Unseen => images'[q] = images[q],
           sec' = sec \/ (c.mount = sec.mount /\ sec' \in SecRec /\ sec'.mount = sec.mount)
    PROVE  SecType' /\ OneCommand' /\ OnDisk'
<1>. SecType /\ OneCommand /\ OnDisk
  BY DEF SecInv
<1>1. IsFiniteSet(commands')
  BY OneMore DEF SecType
<1>2. SecType'
  BY <1>1 DEF SecType, Loaded
<1>3. OneCommand'
  BY DEF OneCommand
<1>4. \A d \in commands' : d.at = "writing" => d.run \in Runs /\ images[d.run] # Unseen
  BY ImagesDiffer DEF SecType, OnDisk, CommandRec
<1>5. \A d \in commands' : d.at = "writing" =>
        /\ images'[d.run] \in PeImage /\ ~Refused(images'[d.run], d.options)
        /\ Applied(images'[d.run], d.options) # Nothing
  BY <1>4 DEF OnDisk
<1>6. \A r \in Runs : hardened'[r].whole =>
        images'[r] # Unseen /\ CopyRight(images'[r], hardened'[r].image, hardened'[r].options)
  BY DEF OnDisk
<1>7. \A d \in commands' : d.at # "asked" =>
        d.result.run = d.run /\ (d.result.applied # Nothing => hardened'[d.run].there)
  BY DEF OnDisk
<1>. QED  BY <1>2, <1>3, <1>5, <1>6, <1>7 DEF OnDisk

\* The engine goes on with a request, whether or not its view is still there.
LEMMA EngineGoesOn ==
    ASSUME SecInv, NEW c \in commands, c.kind = "harden", NEW d \in CommandRec, Moves(c, d),
           d.mount = c.mount, d.kind = c.kind, d.run = c.run, d.at # "asked", d.result \in Told,
           d.result.run = c.run, d.result.applied # Nothing => hardened'[c.run].there,
           UNCHANGED <<app, sec>>,
           images' \in [Runs -> PeImage \cup {NotPe, Unseen}],
           \A q \in Runs : images[q] # Unseen => images'[q] = images[q],
           d.at = "writing" => /\ images'[c.run] \in PeImage /\ ~Refused(images'[c.run], d.options)
                               /\ Applied(images'[c.run], d.options) # Nothing,
           DOMAIN hardened' = Runs,
           \A r \in Runs : hardened'[r].there \in BOOLEAN /\ (hardened[r].there => hardened'[r].there),
           \A r \in Runs : hardened'[r].whole =>
              \/ hardened[r].whole /\ hardened'[r] = hardened[r]
              \/ images'[r] # Unseen /\ CopyRight(images'[r], hardened'[r].image, hardened'[r].options)
    PROVE  SecInv'
<1>. SecType /\ OneCommand /\ OnDisk /\ Reported
  BY DEF SecInv
<1>0. commands' = (commands \ {c}) \cup {d} /\ c.run \in Runs
  BY DEF Moves, SecType
<1>1. IsFiniteSet(commands')
  <2>. PICK S : S = commands \ {c}
    OBVIOUS
  <2>1. IsFiniteSet(S)
    BY OneMore DEF SecType
  <2>. QED  BY <1>0, <2>1, OneMore
<1>2. SecType'
  BY <1>0, <1>1 DEF SecType, Loaded
<1>3. OneCommand'
  BY <1>0 DEF OneCommand
<1>4. \A e \in commands' : e.at = "writing" =>
        /\ images'[e.run] \in PeImage /\ ~Refused(images'[e.run], e.options)
        /\ Applied(images'[e.run], e.options) # Nothing
  <2>1. \A e \in commands : e.at = "writing" => e.run \in Runs /\ images[e.run] # Unseen
    BY ImagesDiffer DEF SecType, OnDisk
  <2>. QED  BY <1>0, <2>1 DEF OnDisk
<1>5. \A e \in commands' : e.at # "asked" =>
        e.result.run = e.run /\ (e.result.applied # Nothing => hardened'[e.run].there)
  <2>1. \A e \in commands : e.at # "asked" => e.run \in Runs
    BY DEF SecType
  <2>. QED  BY <1>0, <2>1 DEF OnDisk
<1>6. \A r \in Runs : hardened'[r].whole =>
        images'[r] # Unseen /\ CopyRight(images'[r], hardened'[r].image, hardened'[r].options)
  BY DEF OnDisk
<1>7. Reported'
  <2>1. ASSUME NEW e \in commands', e.kind = "harden", e.mount = sec.mount
        PROVE  \E f \in commands : f.kind = "harden" /\ f.mount = sec.mount
    BY <1>0, <2>1
  <2>2. sec.result # NoReport => sec.result.run \in Runs
    BY ImagesDiffer DEF SecType, SecRec, Told
  <2>. QED  BY <2>1, <2>2 DEF Reported
<1>. QED  BY <1>2, <1>3, <1>4, <1>5, <1>6, <1>7 DEF SecInv, OnDisk

\* The report is read, or is not.
LEMMA ReportKeeps ==
    ASSUME SecInv, NEW c \in commands, ReportAnswered(c) \/ ReportFails(c) \/ HardenFails(c),
           UNCHANGED <<client, appVars>>
    PROVE  SecInv'
<1>. SecType /\ OneCommand /\ OnDisk /\ Reported
  BY DEF SecInv
<1>0. /\ c \in CommandRec /\ sec \in SecRec /\ UNCHANGED <<app, hardened>>
      /\ commands' = commands \ {c} /\ c.mount \in Nat
  BY Zenon DEF SecType, ReportAnswered, ReportFails, HardenFails, CommandRec, appVars
<1>1. ASSUME ReportAnswered(c) PROVE SecInv'
  <2>1. PICK b \in IF c.run = Sample THEN {NotPe}
                   ELSE IF images[c.run] = Unseen THEN Images ELSE {images[c.run]} :
          /\ images' = IF c.run = Sample THEN images ELSE [images EXCEPT ![c.run] = b]
          /\ sec' = IF ~Shows(c) THEN sec
                    ELSE [sec EXCEPT !.error = FALSE, !.busy = FALSE,
                              !.report = IF c.run = Sample THEN NoReport
                                         ELSE [run |-> c.run, image |-> b,
                                               available |-> hardened[c.run].there]]
    BY <1>1 DEF ReportAnswered
  <2>. PICK report : report = IF c.run = Sample THEN NoReport
                              ELSE [run |-> c.run, image |-> b, available |-> hardened[c.run].there]
    OBVIOUS
  <2>2. c.run = Sample \/ c.run \in Runs
    BY <1>0 DEF CommandRec, Sources
  <2>3. /\ b \in PeImage \cup {NotPe}
        /\ images' \in [Runs -> PeImage \cup {NotPe, Unseen}]
        /\ \A q \in Runs : images[q] # Unseen => images'[q] = images[q]
    <3>1. CASE c.run = Sample
      BY <2>1, <3>1 DEF SecType
    <3>2. CASE c.run # Sample
      BY <2>1, <2>2, <3>2, Looks
    <3>. QED  BY <3>1, <3>2
  <2>4. report \in ReportRec \cup {NoReport}
    BY <2>2, <2>3 DEF ReportRec, SecType
  <2>5. CASE ~Shows(c)
    <3>1. sec' = sec
      BY <2>1, <2>5
    <3>2. SecType' /\ OneCommand' /\ OnDisk'
      BY <1>0, <2>3, <3>1, FewerRequests
    <3>. QED  BY <1>0, <3>1, <3>2 DEF SecInv, Reported
  <2>6. CASE Shows(c)
    <3>1. sec' = [sec EXCEPT !.error = FALSE, !.busy = FALSE, !.report = report]
      BY <2>1, <2>6
    <3>2. /\ sec' \in SecRec /\ sec'.mount = sec.mount /\ ~sec'.busy
          /\ sec'.report = report /\ sec'.result = sec.result
      BY <1>0, <2>4, <3>1 DEF SecRec
    <3>3. SecType' /\ OneCommand' /\ OnDisk'
      BY <1>0, <2>3, <2>6, <3>2, FewerRequests DEF Shows
    <3>4. report # NoReport => report.run = c.run /\ report.available = hardened[c.run].there
      OBVIOUS
    <3>5. Reported'
      BY <1>0, <3>2, <3>4 DEF Reported
    <3>. QED  BY <3>3, <3>5 DEF SecInv
  <2>. QED  BY <2>5, <2>6
<1>2. ASSUME ReportFails(c) PROVE SecInv'
  <2>1. /\ images' = images
        /\ sec' = IF Shows(c)
                  THEN [sec EXCEPT !.report = NoReport, !.error = TRUE, !.busy = FALSE] ELSE sec
    BY <1>2 DEF ReportFails
  <2>2. CASE ~Shows(c)
    <3>1. sec' = sec
      BY <2>1, <2>2
    <3>2. c.kind = "load"
      BY <1>2 DEF ReportFails
    <3>3. SecType' /\ OneCommand' /\ OnDisk'
      BY <1>0, <2>1, <3>1, FewerRequests DEF SecType
    <3>. QED  BY <1>0, <3>1, <3>2, <3>3 DEF SecInv, Reported
  <2>3. CASE Shows(c)
    <3>1. /\ sec' \in SecRec /\ sec'.mount = sec.mount
          /\ sec'.report = NoReport /\ sec'.result = sec.result
      BY <1>0, <2>1, <2>3 DEF SecRec
    <3>2. SecType' /\ OneCommand' /\ OnDisk'
      BY <1>0, <2>1, <2>3, <3>1, FewerRequests DEF Shows, SecType
    <3>. QED  BY <1>0, <3>1, <3>2 DEF SecInv, Reported
  <2>. QED  BY <2>2, <2>3
<1>3. ASSUME HardenFails(c) PROVE SecInv'
  <2>1. /\ images' = images /\ c.kind = "harden"
        /\ sec' = IF Shows(c) THEN [sec EXCEPT !.error = TRUE, !.busy = FALSE] ELSE sec
    BY <1>3 DEF HardenFails
  <2>2. CASE ~Shows(c)
    <3>1. sec' = sec
      BY <2>1, <2>2
    <3>2. SecType' /\ OneCommand' /\ OnDisk'
      BY <1>0, <2>1, <3>1, FewerRequests DEF SecType
    <3>. QED  BY <1>0, <3>1, <3>2 DEF SecInv, Reported
  <2>3. CASE Shows(c)
    <3>1. /\ sec' \in SecRec /\ sec'.mount = sec.mount
          /\ sec'.report = sec.report /\ sec'.result = sec.result
      BY <1>0, <2>1, <2>3 DEF SecRec
    <3>2. SecType' /\ OneCommand' /\ OnDisk'
      BY <1>0, <2>1, <2>3, <3>1, FewerRequests DEF Shows, SecType
    <3>3. \E d \in commands : d.kind = "harden" /\ d.mount = sec.mount
      BY <2>1, <2>3 DEF Shows
    <3>. QED  BY <1>0, <3>1, <3>2, <3>3 DEF SecInv, Reported
  <2>. QED  BY <2>2, <2>3
<1>. QED  BY <1>1, <1>2, <1>3

\* The box is ticked, and the button pressed.
LEMMA PressKeeps ==
    ASSUME WorkspaceInv, SecInv, UNCHANGED <<client, appVars>>,
           TickWx \/ \E anyway \in BOOLEAN : PressHarden(anyway)
    PROVE  SecInv'
<1>. SecType /\ OneCommand /\ OnDisk /\ Reported
  BY DEF SecInv
<1>0. sec \in SecRec /\ UNCHANGED <<app, hardened, images>>
  BY DEF SecType, TickWx, PressHarden, appVars
<1>1. ASSUME TickWx PROVE SecInv'
  <2>1. sec' = [sec EXCEPT !.fixWx = ~@] /\ commands' = commands
    BY <1>1 DEF TickWx
  <2>2. /\ sec' \in SecRec /\ sec'.mount = sec.mount /\ sec'.busy = sec.busy
        /\ sec'.report = sec.report /\ sec'.result = sec.result
    BY <1>0, <2>1 DEF SecRec
  <2>. QED  BY <1>0, <2>1, <2>2 DEF SecInv, SecType, OneCommand, OnDisk, Reported, Loaded
<1>2. ASSUME NEW anyway \in BOOLEAN, PressHarden(anyway) PROVE SecInv'
  <2>1. /\ sec.report # NoReport /\ ~sec.busy
        /\ sec' = [sec EXCEPT !.busy = TRUE, !.error = FALSE]
        /\ commands' = commands \cup
             Command("harden", sec.mount, client.run, [signed |-> anyway, wx |-> sec.fixWx])
    BY <1>2 DEF PressHarden, Readable
  <2>2. /\ sec' \in SecRec /\ sec'.mount = sec.mount /\ sec'.busy
        /\ sec'.report = sec.report /\ sec'.result = sec.result
    BY <1>0, <2>1 DEF SecRec
  <2>3. Loaded /\ client.run \in Runs /\ client.run \in Sources
    BY <2>1 DEF SecType, WorkspaceInv, OneRun, Sources
  <2>4. PICK options \in Options : options = [signed |-> anyway, wx |-> sec.fixWx]
    BY <1>0 DEF Options, SecRec
  <2>5. PICK kind \in {"load", "harden"} : kind = "harden"
    OBVIOUS
  <2>6. PICK m \in Nat : m = sec.mount
    BY <1>0 DEF SecRec
  <2>7. PICK r \in Sources : r = client.run
    BY <2>3
  <2>8. PICK c \in CommandRec : /\ Command("harden", sec.mount, client.run, options) = {c}
                                /\ c.mount = m /\ c.kind = "harden" /\ c.run = r /\ c.at = "asked"
    BY <2>3, <2>5, <2>6, <2>7, CommandMade
  <2>9. commands' = commands \cup {c}
    BY <2>1, <2>4, <2>8
  <2>10. \A d \in commands : d.mount # sec.mount
    BY <2>1 DEF OneCommand
  <2>11. IsFiniteSet(commands')
    BY <2>9, OneMore DEF SecType
  <2>12. SecType'
    BY <1>0, <2>2, <2>3, <2>7, <2>8, <2>9, <2>11 DEF SecType, Loaded
  <2>13. OneCommand'
    BY <2>2, <2>6, <2>8, <2>9, <2>10 DEF OneCommand
  <2>14. OnDisk' /\ Reported'
    BY <1>0, <2>1, <2>2, <2>8, <2>9 DEF OnDisk, Reported
  <2>. QED  BY <2>12, <2>13, <2>14 DEF SecInv
<1>. QED  BY <1>1, <1>2

\* The engine reads the binary, and writes the copy if there is anything to.
LEMMA EngineKeeps ==
    ASSUME SecInv, NEW c \in commands, Engine(c), UNCHANGED <<client, appVars>>
    PROVE  SecInv'
<1>. SecType /\ OneCommand /\ OnDisk /\ Reported
  BY DEF SecInv
<1>0. c \in CommandRec /\ c.kind = "harden" /\ c.run \in Runs /\ c.options \in Options
      /\ UNCHANGED <<app, sec>>
  BY DEF SecType, Engine, appVars, CommandRec
<1>1. PICK b \in IF images[c.run] = Unseen THEN Images ELSE {images[c.run]} :
        /\ images' = [images EXCEPT ![c.run] = b]
        /\ LET refused == Refused(b, c.options)
               a == IF refused THEN Nothing ELSE Applied(b, c.options)
               outcome == [run |-> c.run, ok |-> ~refused, applied |-> a]
           IN  /\ Moves(c, [c EXCEPT !.at = IF a = Nothing THEN "over" ELSE "writing",
                                     !.result = outcome])
               /\ hardened' = IF a = Nothing THEN hardened
                              ELSE [hardened EXCEPT ![c.run] = [there |-> TRUE, whole |-> FALSE]]
  BY Zenon, <1>0 DEF Engine
<1>2. /\ b \in PeImage \cup {NotPe} /\ images'[c.run] = b
      /\ images' \in [Runs -> PeImage \cup {NotPe, Unseen}]
      /\ \A q \in Runs : images[q] # Unseen => images'[q] = images[q]
  BY <1>0, <1>1, Looks
<1>. PICK refused \in BOOLEAN : refused = Refused(b, c.options)
  BY DEF Refused
<1>. PICK a : a = IF refused THEN Nothing ELSE Applied(b, c.options)
  OBVIOUS
<1>. PICK outcome : outcome = [run |-> c.run, ok |-> ~refused, applied |-> a]
  OBVIOUS
<1>. PICK at \in {"over", "writing"} : at = IF a = Nothing THEN "over" ELSE "writing"
  OBVIOUS
<1>. PICK d : d = [c EXCEPT !.at = at, !.result = outcome]
  OBVIOUS
<1>3. ~refused => b \in PeImage /\ ~Refused(b, c.options)
  BY <1>2, ImagesDiffer DEF Refused
<1>4. a \in Changes
  BY <1>0, <1>3, AppliedTyped DEF Changes, Nothing
<1>5. outcome \in Told /\ outcome.run = c.run /\ outcome.applied = a
  BY <1>0, <1>4 DEF Told
<1>6. /\ d \in CommandRec /\ d.mount = c.mount /\ d.kind = c.kind /\ d.run = c.run
      /\ d.at = at /\ d.options = c.options /\ d.result = outcome
  BY <1>0, <1>5 DEF CommandRec
<1>7. /\ Moves(c, d)
      /\ hardened' = IF a = Nothing THEN hardened
                     ELSE [hardened EXCEPT ![c.run] = [there |-> TRUE, whole |-> FALSE]]
  BY <1>1
<1>8. at = "writing" => /\ images'[c.run] \in PeImage /\ ~Refused(images'[c.run], d.options)
                        /\ Applied(images'[c.run], d.options) # Nothing
  BY <1>2, <1>3, <1>6
<1>9. /\ DOMAIN hardened' = Runs
      /\ \A r \in Runs : /\ hardened'[r].there \in BOOLEAN
                         /\ hardened[r].there => hardened'[r].there
                         /\ hardened'[r].whole => hardened[r].whole /\ hardened'[r] = hardened[r]
      /\ a # Nothing => hardened'[c.run].there
  BY <1>0, <1>7 DEF SecType
<1>10. /\ d.at # "asked" /\ d.result \in Told /\ d.result.run = c.run
       /\ d.result.applied # Nothing => hardened'[c.run].there
       /\ d.at = "writing" => /\ images'[c.run] \in PeImage /\ ~Refused(images'[c.run], d.options)
                              /\ Applied(images'[c.run], d.options) # Nothing
  BY <1>5, <1>6, <1>8, <1>9
<1>11. \A r \in Runs : /\ hardened'[r].there \in BOOLEAN
                       /\ hardened[r].there => hardened'[r].there
  BY <1>9
<1>12. \A r \in Runs : hardened'[r].whole =>
         \/ hardened[r].whole /\ hardened'[r] = hardened[r]
         \/ images'[r] # Unseen /\ CopyRight(images'[r], hardened'[r].image, hardened'[r].options)
  BY <1>9
<1>13. SecInv /\ c \in commands /\ DOMAIN hardened' = Runs
  BY <1>9
<1>. QED  BY ONLY <1>0, <1>2, <1>6, <1>7, <1>10, <1>11, <1>12, <1>13, EngineGoesOn

\* The copy is whole.
LEMMA WrittenKeeps ==
    ASSUME SecInv, NEW c \in commands, Written(c), UNCHANGED <<client, appVars>>
    PROVE  SecInv'
<1>. SecType /\ OneCommand /\ OnDisk /\ Reported
  BY DEF SecInv
<1>. PICK d : d = [c EXCEPT !.at = "over"]
  OBVIOUS
<1>. PICK file : file = [there |-> TRUE, whole |-> TRUE, options |-> c.options,
                         image |-> Hardened(images[c.run], c.options)]
  OBVIOUS
<1>1. /\ c \in CommandRec /\ c.kind = "harden" /\ c.run \in Runs /\ c.options \in Options
      /\ c.at = "writing" /\ c.result \in Told /\ UNCHANGED <<app, sec, images>>
      /\ Moves(c, d) /\ hardened' = [hardened EXCEPT ![c.run] = file]
  BY DEF SecType, Written, appVars, CommandRec
<1>2. /\ d \in CommandRec /\ d.mount = c.mount /\ d.kind = c.kind /\ d.run = c.run
      /\ d.at = "over" /\ d.result = c.result
  BY <1>1 DEF CommandRec
<1>3. /\ images[c.run] \in PeImage
      /\ CopyRight(images[c.run], Hardened(images[c.run], c.options), c.options)
  BY <1>1, CopyIsRight DEF OnDisk
<1>4. images[c.run] # Unseen
  BY <1>3, ImagesDiffer
<1>5. /\ DOMAIN hardened' = Runs /\ hardened'[c.run] = file
      /\ \A r \in Runs : r # c.run => hardened'[r] = hardened[r]
  BY <1>1 DEF SecType
<1>6. /\ file.there = TRUE /\ file.options = c.options
      /\ file.image = Hardened(images[c.run], c.options)
  OBVIOUS
<1>7. \A r \in Runs : /\ hardened'[r].there \in BOOLEAN
                      /\ hardened[r].there => hardened'[r].there
  BY <1>5, <1>6 DEF SecType
<1>8. \A r \in Runs : hardened'[r].whole =>
        \/ hardened[r].whole /\ hardened'[r] = hardened[r]
        \/ images'[r] # Unseen /\ CopyRight(images'[r], hardened'[r].image, hardened'[r].options)
  BY <1>1, <1>3, <1>4, <1>5, <1>6
<1>9. d.result.run = c.run /\ d.result.applied # Nothing => hardened'[c.run].there
  BY <1>2, <1>5, <1>6 DEF OnDisk
<1>10. c.result.run = c.run
  BY <1>1 DEF OnDisk
<1>11. images' \in [Runs -> PeImage \cup {NotPe, Unseen}]
  BY <1>1 DEF SecType
<1>12. /\ SecInv /\ c \in commands /\ DOMAIN hardened' = Runs
       /\ d.at # "asked" /\ d.at # "writing" /\ d.result \in Told /\ d.result.run = c.run
       /\ \A q \in Runs : images[q] # Unseen => images'[q] = images[q]
  BY <1>1, <1>2, <1>5, <1>10
<1>. QED  BY ONLY <1>1, <1>2, <1>7, <1>8, <1>9, <1>11, <1>12, EngineGoesOn

\* The answer is shown, and the report asked for again.
LEMMA HardenAnsweredKeeps ==
    ASSUME WorkspaceInv, SecInv, NEW c \in commands, HardenAnswered(c), UNCHANGED <<client, appVars>>
    PROVE  SecInv'
<1>. SecType /\ OneCommand /\ OnDisk /\ Reported
  BY DEF SecInv
<1>1. /\ c \in CommandRec /\ c.kind = "harden" /\ c.at = "over" /\ c.result \in Told
      /\ c.run \in Runs /\ c.result.run = c.run
      /\ (c.result.applied # Nothing => hardened[c.run].there)
      /\ sec \in SecRec /\ UNCHANGED <<app, images, hardened>>
      /\ sec' = IF Shows(c) THEN [sec EXCEPT !.result = c.result] ELSE sec
      /\ commands' = (commands \ {c}) \cup Loads(c.mount)
  BY DEF SecType, OnDisk, HardenAnswered, appVars
<1>2. PICK kind \in {"load", "harden"} : kind = "load"
  OBVIOUS
<1>3. PICK m \in Nat : m = c.mount
  BY <1>1 DEF CommandRec
<1>4. Loaded /\ Source(client) \in Sources
  BY HereInRuns DEF SecType, Here, Sources
<1>5. PICK s \in Sources : s = Source(client)
  BY <1>4
<1>6. PICK l \in CommandRec : /\ Loads(c.mount) = {l}
                              /\ l.mount = m /\ l.kind = "load" /\ l.run = s /\ l.at = "asked"
  BY <1>2, <1>3, <1>5, CommandMade, ImagesDiffer DEF Loads
<1>7. commands' = (commands \ {c}) \cup {l}
  BY <1>1, <1>6
<1>8. /\ sec' \in SecRec /\ sec'.mount = sec.mount /\ sec'.busy = sec.busy
      /\ sec'.report = sec.report
      /\ sec'.result = IF Shows(c) THEN c.result ELSE sec.result
  BY <1>1 DEF SecRec
<1>9. IsFiniteSet(commands')
  <2>. PICK S : S = commands \ {c}
    OBVIOUS
  <2>1. IsFiniteSet(S)
    BY OneMore DEF SecType
  <2>. QED  BY <1>7, <2>1, OneMore
<1>10. SecType'
  BY <1>1, <1>4, <1>6, <1>7, <1>8, <1>9 DEF SecType, Loaded
<1>11. OneCommand'
  BY <1>1, <1>3, <1>6, <1>7, <1>8 DEF OneCommand
<1>12. OnDisk'
  BY <1>1, <1>6, <1>7 DEF OnDisk
<1>13. CASE Shows(c)
  <2>1. sec.busy /\ \A d \in commands : d.mount = sec.mount => d = c
    BY <1>1, <1>13 DEF OneCommand, Shows
  <2>2. ~\E d \in commands' : d.kind = "harden" /\ d.mount = sec.mount
    BY <1>6, <1>7, <2>1
  <2>3. Reported'
    BY <1>1, <1>8, <1>13, <2>1, <2>2 DEF Reported
  <2>. QED  BY <1>10, <1>11, <1>12, <2>3 DEF SecInv
<1>14. CASE ~Shows(c)
  <2>1. sec' = sec
    BY <1>1, <1>14
  <2>2. \A d \in commands' : d.kind = "harden" => d \in commands
    BY <1>6, <1>7
  <2>3. Reported'
    BY <1>1, <2>1, <2>2 DEF Reported
  <2>. QED  BY <1>10, <1>11, <1>12, <2>3 DEF SecInv
<1>. QED  BY <1>13, <1>14

LEMMA SecurityNext ==
    ASSUME WorkspaceInv, SecInv, [Next]_shellVars PROVE SecInv'
<1>1. CASE SecurityStep /\ UNCHANGED <<client, appVars>>
  BY <1>1, ReportKeeps, PressKeeps, EngineKeeps, WrittenKeeps, HardenAnsweredKeeps DEF SecurityStep
<1>2. CASE \E v \in Views : ShowView(v) /\ Mounts
  BY <1>2, MountKeeps
<1>3. CASE UNCHANGED secVars
  BY <1>3, LoadedStays DEF secVars, SecInv, SecType, OneCommand, OnDisk, Reported
<1>. QED  BY <1>1, <1>2, <1>3, SecuritySteps

\* Whatever was asked for twice, given up half way or left alone, a copy that
\* is whole asks the loader for what the binary can have and its owner agreed
\* to, and what the page says was applied is in a file to be downloaded.
THEOREM CopyIsAsAsked == Spec => []HardenedAsAsked
<1>1. SecInv => HardenedAsAsked
  BY DEF SecInv, OnDisk, Reported, HardenedAsAsked
<1>. QED  BY <1>1, SecurityStart, SecurityNext, WorkspaceInvariance, PTL DEF Spec
-----------------------------------------------------------------------------
(* The trail.                                                              *)

\* A trail has a crumb where its pointer is, and no crumb twice in a row.
Walked(n) ==
    /\ n.trail # <<>> => n.index # 0
    /\ \A i \in 1 .. Len(n.trail) - 1 : n.trail[i] # n.trail[i + 1]

\* While functions are asked for one at a time, the one on its way by a jump is
\* the crumb at the pointer, and else the one on screen is.
OnTrail == ~mixed =>
    /\ Walked(nav)
    /\ \A o, k \in opens : o.by = "analysis" /\ k.by = "analysis" => o = k
    /\ \A o \in opens : o.jump => /\ o.by = "analysis" /\ replaying = o.va
                                  /\ nav.trail # <<>> /\ nav.trail[nav.index] = o.va
    /\ (\A o \in opens : ~o.jump) =>
          replaying = None /\ (nav.trail # <<>> => nav.trail[nav.index] = detail.va)

LEMMA TrailStart == ASSUME Init PROVE OnTrail
BY DEF Init, WorkspaceInit, NoTrail, OnTrail, Walked

\* recordVisit leaves the pointer at the function that was visited.
LEMMA VisitedWalks ==
    ASSUME NavOK, Walked(nav), NEW va \in Vas, replaying # va
    PROVE  /\ Walked(Visited(va))
           /\ Visited(va).trail # <<>> /\ Visited(va).trail[Visited(va).index] = va
<1>. PICK T \in Seq(Vas) : T = nav.trail
  BY DEF NavOK
<1>. PICK at \in 0 .. Len(T) : at = nav.index
  BY DEF NavOK
<1>0. Len(T) \in Nat /\ \A i \in 1 .. Len(T) - 1 : T[i] # T[i + 1]
  BY DEF Walked
<1>1. CASE at > 0 /\ T[at] = va
  <2>1. Visited(va) = nav
    BY <1>1 DEF Visited
  <2>. QED  BY <1>1, <2>1
<1>2. CASE ~(at > 0 /\ T[at] = va)
  <2>. PICK kept : kept = Append(SubSeq(T, 1, at), va)
    OBVIOUS
  <2>1. /\ kept \in Seq(Vas) /\ Len(kept) = at + 1 /\ kept[at + 1] = va
        /\ \A i \in 1 .. at : kept[i] = T[i]
    OBVIOUS
  <2>2. \A i \in 1 .. at : kept[i] # kept[i + 1]
    <3>. TAKE i \in 1 .. at
    <3>1. CASE i < at
      BY <1>0, <2>1, <3>1
    <3>2. CASE i = at
      BY <1>2, <2>1, <3>2
    <3>. QED  BY <3>1, <3>2
  <2>. PICK capped : capped = IF Len(kept) > MaxTrail THEN Tail(kept) ELSE kept
    OBVIOUS
  <2>3. /\ capped \in Seq(Vas) /\ Len(capped) \in Nat \ {0} /\ capped[Len(capped)] = va
        /\ \A i \in 1 .. Len(capped) - 1 : capped[i] # capped[i + 1]
    <3>1. CASE Len(kept) > MaxTrail
      <4>1. capped = Tail(kept) /\ at > 1 /\ at \in Nat
        BY <2>1, <3>1
      <4>2. capped \in Seq(Vas) /\ Len(capped) = at /\ \A i \in 1 .. at : capped[i] = kept[i + 1]
        BY ONLY <2>1, <4>1
      <4>3. \A i \in 1 .. at - 1 : capped[i] # capped[i + 1]
        BY ONLY <2>2, <4>1, <4>2
      <4>4. capped[at] = va
        BY ONLY <2>1, <4>1, <4>2
      <4>. QED  BY ONLY <4>1, <4>2, <4>3, <4>4
    <3>2. CASE ~(Len(kept) > MaxTrail)
      <4>1. capped = kept /\ Len(capped) - 1 = at /\ at \in Nat
        BY <2>1, <3>2
      <4>. QED  BY ONLY <2>1, <2>2, <4>1
    <3>. QED  BY Zenon, <3>1, <3>2
  <2>4. Visited(va) = [trail |-> capped, index |-> Len(capped)]
    BY <1>2 DEF Visited
  <2>5. Visited(va).trail = capped /\ Visited(va).index = Len(capped)
    BY ONLY <2>4
  <2>6. capped # <<>>
    BY ONLY <2>3
  <2>. QED  BY ONLY <2>3, <2>5, <2>6 DEF Walked
<1>. QED  BY <1>1, <1>2

\* A function is asked for when none is on its way.
LEMMA AskedOnTrail ==
    ASSUME WorkspaceType, OnTrail, ~mixed, Asked("analysis") = {}, NEW va \in Vas, NEW jump \in BOOLEAN,
           opens' = Older(opens) \cup Request(va, "analysis", jump), UNCHANGED detail,
           IF jump THEN /\ replaying' = va /\ nav'.trail = nav.trail
                        /\ nav'.index \in DOMAIN nav.trail /\ nav.trail[nav'.index] = va
           ELSE UNCHANGED <<nav, replaying>>
    PROVE  OnTrail'
<1>0. opens \subseteq Open /\ IsFiniteSet(opens) /\ NavOK /\ nav.trail \in Seq(Vas)
  BY DEF WorkspaceType, NavOK
<1>. PICK b \in BOOLEAN : b = ("analysis" = "analysis")
  OBVIOUS
<1>. PICK new : new = [n |-> Fresh(opens), newest |-> b, source |-> Source(client),
                       va |-> va, by |-> "analysis", jump |-> jump]
  OBVIOUS
<1>. /\ opens' = Older(opens) \cup {new}
     /\ new.by = "analysis" /\ new.jump = jump /\ new.va = va
  BY DEF Request
<1>1. \A o \in opens : o.by # "analysis" /\ ~o.jump
  BY DEF Asked, OnTrail
<1>2. \A o \in Older(opens) : o.by # "analysis" /\ ~o.jump
  BY <1>0, <1>1, OlderOpens
<1>3. Walked(nav) /\ replaying = None /\ (nav.trail # <<>> => nav.trail[nav.index] = detail.va)
  BY <1>1 DEF OnTrail
<1>4. CASE jump
  <2>1. /\ nav'.trail = nav.trail /\ nav'.index \in DOMAIN nav.trail
        /\ replaying' = va /\ nav.trail[nav'.index] = va
    BY <1>4
  <2>2. nav.trail # <<>> /\ nav'.index # 0
    BY <1>0, <2>1
  <2>3. Walked(nav')
    BY <1>3, <2>1, <2>2 DEF Walked
  <2>. QED  BY <1>2, <1>4, <2>1, <2>2, <2>3 DEF OnTrail
<1>5. CASE ~jump
  BY <1>2, <1>3, <1>5 DEF OnTrail
<1>. QED  BY <1>4, <1>5

\* The function that was asked for is shown.
LEMMA OpenAnsweredOnTrail ==
    ASSUME WorkspaceType, OnTrail, NEW o \in opens, OpenAnswered(o)
    PROVE  OnTrail' /\ (~mixed' /\ o.jump => nav' = nav)
<1>0. /\ o \in Open /\ o.va \in Vas /\ opens' = opens \ {o} /\ mixed' = mixed
  BY DEF OpenAnswered, WorkspaceType, Open
<1>1. CASE mixed
  BY <1>0, <1>1 DEF OnTrail
<1>2. CASE ~mixed /\ o.by = "analysis"
  <2>1. nav' = Visited(o.va) /\ replaying' = None /\ detail'.va = o.va
    BY <1>2 DEF OpenAnswered
  <2>2. \A k \in opens' : k.by # "analysis" /\ ~k.jump
    BY <1>0, <1>2 DEF OnTrail
  <2>3. CASE o.jump
    <3>1. nav' = nav
      BY <1>2, <2>1, <2>3 DEF OnTrail, Visited
    <3>. QED  BY <1>2, <2>1, <2>2, <2>3, <3>1 DEF OnTrail
  <2>4. CASE ~o.jump
    <3>1. \A k \in opens : ~k.jump
      BY <1>0, <2>2, <2>4
    <3>2. replaying # o.va /\ NavOK /\ Walked(nav)
      BY <1>0, <1>2, <3>1 DEF OnTrail, WorkspaceType
    <3>3. Walked(nav') /\ nav'.trail[nav'.index] = o.va
      BY <1>0, <2>1, <3>2, VisitedWalks
    <3>. QED  BY <2>1, <2>2, <2>4, <3>3 DEF OnTrail
  <2>. QED  BY <2>3, <2>4
<1>3. CASE ~mixed /\ o.by # "analysis"
  <2>1. UNCHANGED <<nav, detail, replaying>> /\ ~o.jump
    BY <1>3 DEF OpenAnswered, OnTrail
  <2>. QED  BY <1>0, <1>3, <2>1 DEF OnTrail
<1>. QED  BY <1>1, <1>2, <1>3

\* What a step means to the trail: nothing, a new request, or an answer.
TrailStep ==
    \/ mixed'
    \/ UNCHANGED <<nav, detail, replaying, opens, mixed>>
    \/ opens = {} /\ nav' = NoTrail /\ UNCHANGED <<detail, replaying, opens, mixed>>
    \/ /\ Asked("analysis") = {} /\ ~mixed /\ UNCHANGED <<detail, mixed>>
       /\ \E va \in Vas, jump \in BOOLEAN :
             /\ opens' = Older(opens) \cup Request(va, "analysis", jump)
             /\ IF jump THEN /\ replaying' = va /\ nav'.trail = nav.trail
                             /\ nav'.index \in DOMAIN nav.trail /\ nav.trail[nav'.index] = va
                ELSE UNCHANGED <<nav, replaying>>
    \/ /\ UNCHANGED <<nav, detail, replaying, mixed>>
       /\ \E va \in Vas : opens' = opens \cup Request(va, "shell", FALSE)
    \/ \E o \in opens : OpenAnswered(o)

LEMMA WorkspaceOnTrail == ASSUME WorkspaceInv, WorkspaceStep PROVE TrailStep
<1>0. WorkspaceType /\ NavOK /\ mixed \in BOOLEAN
  BY DEF WorkspaceInv, WorkspaceType
<1>1. ASSUME NEW id, NEW m, LoadRun(id, m, FALSE), UNCHANGED <<detail, selected, replaying, opens>>
      PROVE  TrailStep
  BY <1>0, <1>1 DEF LoadRun, TrailStep
<1>2. CASE (\E r \in Runs : OpenReport(r)) \/ Reload
  <2>1. CASE \E r \in Runs : OpenReport(r)
    BY <1>1, <2>1 DEF OpenReport
  <2>2. CASE Reload
    BY <1>1, <2>2 DEF Reload
  <2>. QED  BY <1>2, <2>1, <2>2
<1>3. ASSUME NEW m \in Modes, SwitchMode(m) PROVE TrailStep
  BY <1>0, <1>3 DEF SwitchMode, TrailStep
<1>4. ASSUME NEW l \in loads, LoadAnswered(l) PROVE TrailStep
  <2>1. UNCHANGED <<nav, detail, replaying>>
    BY <1>4 DEF LoadAnswered
  <2>2. CASE detail = NoFunction
    <3>1. /\ opens' = Older(opens) \cup Request(First, "analysis", FALSE)
          /\ mixed' = (mixed \/ Asked("analysis") # {} \/ loads' # {})
      BY <1>4, <2>2 DEF LoadAnswered
    <3>2. ASSUME ~mixed' PROVE Asked("analysis") = {} /\ ~mixed /\ mixed' = mixed
      BY <1>0, <3>1, <3>2
    <3>. QED  BY <2>1, <3>1, <3>2 DEF TrailStep
  <2>3. CASE detail # NoFunction
    BY <1>4, <2>1, <2>3 DEF LoadAnswered, TrailStep
  <2>. QED  BY <2>2, <2>3
<1>5. ASSUME NEW va \in Vas, NEW jump \in BOOLEAN, Ask(va, "analysis", jump), UNCHANGED detail,
             IF jump THEN /\ replaying' = va /\ nav'.trail = nav.trail
                          /\ nav'.index \in DOMAIN nav.trail /\ nav.trail[nav'.index] = va
             ELSE UNCHANGED <<nav, replaying>>
      PROVE  TrailStep
  <2>1. /\ opens' = Older(opens) \cup Request(va, "analysis", jump)
        /\ mixed' = (mixed \/ (Asked("analysis") # {} \/ loads # {}))
    BY <1>5 DEF Ask
  <2>2. ASSUME ~mixed' PROVE Asked("analysis") = {} /\ ~mixed /\ mixed' = mixed
    BY <1>0, <2>1, <2>2
  <2>. QED  BY <1>5, <2>1, <2>2 DEF TrailStep
<1>6. ASSUME NEW va \in Vas, OpenFunction(va) PROVE TrailStep
  <2>1. Ask(va, "analysis", FALSE) /\ UNCHANGED <<detail, nav, replaying>>
    BY <1>6 DEF OpenFunction
  <2>. QED  BY <1>5, <2>1
<1>7. ASSUME NEW va \in Vas, SelectFunction(va) PROVE TrailStep
  <2>1. Ask(va, "shell", FALSE) /\ UNCHANGED <<detail, nav, replaying>>
    BY <1>7 DEF SelectFunction
  <2>2. opens' = opens \cup Request(va, "shell", FALSE) /\ mixed' = mixed
    BY <1>0, <2>1 DEF Ask
  <2>. QED  BY <2>1, <2>2 DEF TrailStep
<1>8. ASSUME NEW i \in 1 .. MaxTrail, Jump(i) PROVE TrailStep
  <2>. PICK va : va = nav.trail[i]
    OBVIOUS
  <2>1. /\ i \in DOMAIN nav.trail /\ Ask(va, "analysis", TRUE) /\ UNCHANGED detail
        /\ replaying' = va /\ nav' = [nav EXCEPT !.index = i]
    BY <1>8 DEF Jump
  <2>2. va \in Vas /\ nav'.trail = nav.trail /\ nav'.index = i
    BY <1>0, <2>1 DEF NavOK
  <2>. QED  BY <1>5, <2>1, <2>2
<1>9. ASSUME NEW o \in opens, OpenAnswered(o) PROVE TrailStep
  BY <1>9 DEF TrailStep
<1>10. CASE \/ \E l \in loads : LoadFails(l)
            \/ \E o \in opens : OpenFails(o)
            \/ \E v \in Views : ShowView(v)
            \/ PinRoot
  BY <1>10 DEF LoadFails, OpenFails, ShowView, PinRoot, TrailStep
<1>. QED  BY <1>2, <1>3, <1>4, <1>6, <1>7, <1>8, <1>9, <1>10 DEF WorkspaceStep

LEMMA TrailSteps == ASSUME WorkspaceInv, [Next]_shellVars PROVE TrailStep
<1>1. CASE WorkspaceStep
  BY <1>1, WorkspaceOnTrail
<1>2. CASE UploadOpens
  <2>. PICK u \in Numbers : LoadRun(Uploads[u], upload[u].mode, TRUE)
                            /\ UNCHANGED <<detail, replaying, opens>>
    BY <1>2 DEF UploadOpens, TickDone
  <2>1. mixed \in BOOLEAN
    BY DEF WorkspaceInv, WorkspaceType
  <2>. QED  BY <2>1 DEF LoadRun, TrailStep
<1>3. CASE UploadStep \/ AutoStep \/ TabStep \/ SecurityStep \/ WindowStep \/ TreeStep \/ UNCHANGED shellVars
  <2>1. UNCHANGED appVars
    BY <1>3, UploadFrame, AutoFrame, TabFrame, SecurityFrame, WindowFrame, TreeFrame DEF shellVars
  <2>. QED  BY <2>1 DEF appVars, TrailStep
<1>. QED  BY <1>1, <1>2, <1>3, EveryStep

LEMMA TrailNext ==
    ASSUME WorkspaceInv, OnTrail, [Next]_shellVars PROVE OnTrail'
<1>0. WorkspaceType /\ TrailStep
  BY TrailSteps DEF WorkspaceInv
<1>1. CASE mixed'
  BY <1>1 DEF OnTrail
<1>2. CASE UNCHANGED <<nav, detail, replaying, opens, mixed>>
  BY <1>2 DEF OnTrail, Walked
<1>3. CASE opens = {} /\ nav' = NoTrail /\ UNCHANGED <<detail, replaying, opens, mixed>>
  <2>1. nav'.trail = <<>>
    BY <1>3 DEF NoTrail
  <2>. QED  BY <1>3, <2>1 DEF OnTrail, Walked
<1>4. ASSUME Asked("analysis") = {}, ~mixed, UNCHANGED <<detail, mixed>>,
             NEW va \in Vas, NEW jump \in BOOLEAN,
             opens' = Older(opens) \cup Request(va, "analysis", jump),
             IF jump THEN /\ replaying' = va /\ nav'.trail = nav.trail
                          /\ nav'.index \in DOMAIN nav.trail /\ nav.trail[nav'.index] = va
             ELSE UNCHANGED <<nav, replaying>>
      PROVE  OnTrail'
  BY <1>0, <1>4, AskedOnTrail
<1>5. ASSUME UNCHANGED <<nav, detail, replaying, mixed>>,
             NEW va \in Vas, opens' = opens \cup Request(va, "shell", FALSE)
      PROVE  OnTrail'
  <2>. PICK b : b = ("shell" = "analysis")
    OBVIOUS
  <2>. PICK new : new = [n |-> Fresh(opens), newest |-> b, source |-> Source(client),
                         va |-> va, by |-> "shell", jump |-> FALSE]
    OBVIOUS
  <2>1. opens' = opens \cup {new} /\ new.by = "shell" /\ ~new.jump
    BY <1>5 DEF Request
  <2>. QED  BY <1>5, <2>1 DEF OnTrail
<1>6. ASSUME NEW o \in opens, OpenAnswered(o) PROVE OnTrail'
  BY <1>0, <1>6, OpenAnsweredOnTrail
<1>. QED  BY <1>0, <1>1, <1>2, <1>3, <1>4, <1>5, <1>6 DEF TrailStep

\* Retracing moves the pointer and nothing else.
LEMMA JumpLands ==
    ASSUME WorkspaceInv, OnTrail, [Next]_shellVars, ~mixed', NEW o \in opens, o.jump, Gone(o)'
    PROVE  nav' = nav
<1>0. WorkspaceType /\ TrailStep /\ opens \subseteq Open /\ IsFiniteSet(opens)
  BY TrailSteps DEF WorkspaceInv, WorkspaceType
<1>1. \A k \in opens' : k.n # o.n
  BY DEF Gone
<1>2. ASSUME \A k \in opens : \E j \in opens' : j.n = k.n PROVE FALSE
  BY <1>1, <1>2
<1>3. \A k \in opens : \E j \in Older(opens) : j.n = k.n
  BY <1>0, OlderOpens
<1>4. ASSUME NEW p \in opens, OpenAnswered(p) PROVE nav' = nav
  <2>1. p = o
    BY <1>1, <1>4 DEF OpenAnswered
  <2>. QED  BY <1>0, <1>4, <2>1, OpenAnsweredOnTrail
<1>. QED  BY <1>0, <1>2, <1>3, <1>4 DEF TrailStep

\* However far back and forth: the crumb at the pointer is the function on
\* screen, no crumb stands twice in a row, and a jump adds none.
THEOREM TrailIsOfWay == Spec => TrailTellsWay
<1>1. ASSUME WorkspaceInv, WorkspaceInv', OnTrail, [Next]_shellVars
      PROVE  OnTrail' /\ [~mixed' =>
                /\ Asked("analysis")' = {} /\ answered'.open /\ nav'.trail # <<>> =>
                      /\ nav'.index \in DOMAIN nav'.trail
                      /\ nav'.trail[nav'.index] = detail'.va
                /\ \A i \in 1 .. Len(nav'.trail) - 1 : nav'.trail[i] # nav'.trail[i + 1]
                /\ \A o \in opens : o.jump /\ Gone(o)' => nav' = nav]_appVars
  <2>1. OnTrail'
    BY <1>1, TrailNext
  <2>2. ASSUME ~mixed', NEW o \in opens, o.jump, Gone(o)' PROVE nav' = nav
    BY <1>1, <2>2, JumpLands
  <2>3. ASSUME ~mixed' PROVE \A i \in 1 .. Len(nav'.trail) - 1 : nav'.trail[i] # nav'.trail[i + 1]
    BY <2>1, <2>3 DEF OnTrail, Walked
  <2>4. ASSUME ~mixed', Asked("analysis")' = {}, nav'.trail # <<>>
        PROVE  nav'.index \in DOMAIN nav'.trail /\ nav'.trail[nav'.index] = detail'.va
    <3>1. \A o \in opens' : ~o.jump
      BY <2>1, <2>4 DEF OnTrail, Asked
    <3>2. nav'.trail[nav'.index] = detail'.va /\ nav'.index # 0
      BY <2>1, <2>4, <3>1 DEF OnTrail, Walked
    <3>3. nav'.index \in 0 .. Len(nav'.trail) /\ nav'.trail \in Seq(Vas)
      BY <1>1 DEF WorkspaceInv, WorkspaceType, NavOK
    <3>. QED  BY <3>2, <3>3
  <2>. QED  BY <2>1, <2>2, <2>3, <2>4
<1>. QED  BY <1>1, TrailStart, WorkspaceInvariance, PTL DEF Spec, TrailTellsWay
-----------------------------------------------------------------------------
(* The search of RootPath.tsx.                                             *)

Search(nodes) == [seen : SUBSET nodes, from : [nodes -> nodes], next : Seq(nodes)]

\* What following the calls of the nodes S makes of a search.
Reached(G, found, S, after) ==
    /\ after.seen = found.seen \cup UNION {ToSet(G.calls[f]) : f \in S}
    /\ ToSet(after.next) = ToSet(found.next) \cup (after.seen \ found.seen)
    /\ \A v \in found.seen : after.from[v] = found.from[v]
    /\ \A v \in after.seen \ found.seen :
          after.from[v] \in S /\ v \in ToSet(G.calls[after.from[v]])

LEMMA AppendSet ==
    ASSUME NEW S, NEW s \in Seq(S), NEW x \in S
    PROVE  ToSet(Append(s, x)) = ToSet(s) \cup {x}
<1>1. /\ Append(s, x) \in Seq(S) /\ Len(Append(s, x)) = Len(s) + 1
      /\ Append(s, x)[Len(s) + 1] = x /\ \A i \in 1 .. Len(s) : Append(s, x)[i] = s[i]
  OBVIOUS
<1>. QED  BY <1>1 DEF ToSet

LEMMA VisitShape ==
    ASSUME NEW nodes, NEW found \in Search(nodes), NEW node \in nodes, NEW child \in nodes,
           NEW after, after = Visit(found, node, child)
    PROVE  /\ after \in Search(nodes)
           /\ after.seen = found.seen \cup {child}
           /\ ToSet(after.next) = ToSet(found.next) \cup (after.seen \ found.seen)
           /\ \A v \in found.seen : after.from[v] = found.from[v]
           /\ \A v \in after.seen \ found.seen : after.from[v] = node /\ v = child
<1>1. found.seen \in SUBSET nodes /\ found.from \in [nodes -> nodes] /\ found.next \in Seq(nodes)
  BY DEF Search
<1>2. CASE child \in found.seen
  BY <1>1, <1>2 DEF Visit
<1>3. CASE child \notin found.seen
  <2>1. after = [found EXCEPT !.seen = @ \cup {child}, !.from[child] = node, !.next = Append(@, child)]
    BY <1>3 DEF Visit
  <2>2. /\ after.seen = found.seen \cup {child}
        /\ after.from = [found.from EXCEPT ![child] = node]
        /\ after.next = Append(found.next, child)
    BY <2>1 DEF Search
  <2>3. after = [seen |-> after.seen, from |-> after.from, next |-> after.next]
    BY <2>1 DEF Search
  <2>4. after.seen \in SUBSET nodes /\ after.from \in [nodes -> nodes] /\ after.next \in Seq(nodes)
    BY <1>1, <2>2
  <2>5. after \in Search(nodes)
    BY ONLY <2>3, <2>4 DEF Search
  <2>6. ToSet(after.next) = ToSet(found.next) \cup {child}
    BY <2>2, <1>1, AppendSet
  <2>. QED  BY <1>1, <1>3, <2>2, <2>5, <2>6
<1>. QED  BY <1>2, <1>3

\* The part of a sequence up to a number.
LEMMA OneVisit ==
    ASSUME NEW S, NEW s \in Seq(S), NEW i \in 1 .. Len(s)
    PROVE  /\ {s[j] : j \in 1 .. i} = {s[j] : j \in 1 .. i - 1} \cup {s[i]}
           /\ s[i] \in S
<1>1. 1 .. i = (1 .. i - 1) \cup {i}
  OBVIOUS
<1>. QED  BY <1>1

LEMMA ChildrenShape ==
    ASSUME NEW G, IsGraph(G), NEW node \in DOMAIN G.calls,
           NEW found \in Search(DOMAIN G.calls)
    PROVE  /\ Children(G, found, node) \in Search(DOMAIN G.calls)
           /\ Reached(G, found, {node}, Children(G, found, node))
<1>. PICK nodes : nodes = DOMAIN G.calls
  OBVIOUS
<1>. PICK calls : calls = G.calls[node]
  OBVIOUS
<1>1. calls \in Seq(nodes) /\ Len(calls) \in Nat
  BY DEF IsGraph
<1>. PICK D : D = Search(nodes)
  OBVIOUS
<1>. PICK step : step = [i \in 1 .. Len(calls) |-> [f \in D |-> Visit(f, node, calls[i])]]
  OBVIOUS
<1>2. step \in Steps(Len(calls), D)
  <2>1. ASSUME NEW i \in 1 .. Len(calls), NEW f \in D PROVE Visit(f, node, calls[i]) \in D
    <3>1. calls[i] \in nodes /\ f \in Search(nodes) /\ node \in nodes
      BY <1>1
    <3>. QED  BY <3>1, VisitShape
  <2>. QED  BY <2>1 DEF Steps
<1>3. PICK g : Unrolls(g, Len(calls), D, found, step)
  BY <1>1, <1>2, Recursion
<1>4. /\ g \in [0 .. Len(calls) -> D]
      /\ g[0] = found
      /\ \A i \in 1 .. Len(calls) : g[i] = Visit(g[i - 1], node, calls[i])
  <2>1. /\ g \in [0 .. Len(calls) -> D] /\ g[0] = found
        /\ \A i \in 1 .. Len(calls) : g[i] = step[i][g[i - 1]]
    BY <1>3 DEF Unrolls
  <2>2. \A i \in 1 .. Len(calls) : i - 1 \in 0 .. Len(calls)
    BY <1>1
  <2>. QED  BY <2>1, <2>2
<1>5. Children(G, found, node) = g[Len(calls)]
  <2>. DEFINE Seen == CHOOSE h : h = [i \in 0 .. Len(calls) |->
                          IF i = 0 THEN found ELSE Visit(h[i - 1], node, calls[i])]
  <2>1. g = [i \in 0 .. Len(calls) |-> IF i = 0 THEN found ELSE Visit(g[i - 1], node, calls[i])]
    BY <1>1, <1>4
  <2>2. Seen = [i \in 0 .. Len(calls) |-> IF i = 0 THEN found ELSE Visit(Seen[i - 1], node, calls[i])]
    BY <2>1
  <2>3. Children(G, found, node) = Seen[Len(calls)]
    BY DEF Children
  <2>. PICK T : T = {i \in 0 .. Len(calls) : Seen[i] = g[i]}
    OBVIOUS
  <2>. HIDE DEF Seen
  <2>4. 0 \in T /\ T \in SUBSET (0 .. Len(calls))
    BY <1>1, <1>4, <2>2
  <2>5. \A i \in 1 .. Len(calls) : i - 1 \in T => i \in T
    BY <1>1, <1>4, <2>2
  <2>6. \A i \in 0 .. Len(calls) : i \in T
    BY ONLY <1>1, <2>4, <2>5, UpTo
  <2>. QED  BY <1>1, <2>3, <2>6
<1>. PICK T : T = {i \in 0 .. Len(calls) :
                    /\ g[i].seen = found.seen \cup {calls[j] : j \in 1 .. i}
                    /\ ToSet(g[i].next) = ToSet(found.next) \cup (g[i].seen \ found.seen)
                    /\ \A v \in found.seen : g[i].from[v] = found.from[v]
                    /\ \A v \in g[i].seen \ found.seen : g[i].from[v] = node}
  OBVIOUS
<1>6. 0 \in T /\ T \in SUBSET (0 .. Len(calls))
  BY <1>1, <1>4
<1>7. ASSUME NEW i \in 1 .. Len(calls), i - 1 \in T PROVE i \in T
  <2>. PICK before : before = g[i - 1]
    OBVIOUS
  <2>. PICK after : after = g[i]
    OBVIOUS
  <2>1. /\ before \in Search(nodes) /\ calls[i] \in nodes /\ node \in nodes
        /\ after = Visit(before, node, calls[i])
    <3>1. i - 1 \in 0 .. Len(calls)
      BY <1>1
    <3>. QED  BY <1>1, <1>4, <3>1
  <2>2. /\ after.seen = before.seen \cup {calls[i]}
        /\ ToSet(after.next) = ToSet(before.next) \cup (after.seen \ before.seen)
        /\ \A v \in before.seen : after.from[v] = before.from[v]
        /\ \A v \in after.seen \ before.seen : after.from[v] = node /\ v = calls[i]
    BY ONLY <2>1, VisitShape
  <2>3. {calls[j] : j \in 1 .. i} = {calls[j] : j \in 1 .. i - 1} \cup {calls[i]}
    BY <1>1, OneVisit
  <2>4. /\ before.seen = found.seen \cup {calls[j] : j \in 1 .. i - 1}
        /\ ToSet(before.next) = ToSet(found.next) \cup (before.seen \ found.seen)
        /\ \A v \in found.seen : before.from[v] = found.from[v]
        /\ \A v \in before.seen \ found.seen : before.from[v] = node
    BY <1>7
  <2>5. after.seen = found.seen \cup {calls[j] : j \in 1 .. i}
    BY <2>2, <2>3, <2>4
  <2>6. ToSet(after.next) = ToSet(found.next) \cup (after.seen \ found.seen)
    BY ONLY <2>2, <2>4
  <2>7. \A v \in found.seen : after.from[v] = found.from[v]
    BY ONLY <2>2, <2>4
  <2>8. \A v \in after.seen \ found.seen : after.from[v] = node
    BY ONLY <2>2, <2>4
  <2>. QED  BY <2>5, <2>6, <2>7, <2>8
<1>8. Len(calls) \in T /\ Len(calls) \in 0 .. Len(calls)
  <2>1. \A i \in 0 .. Len(calls) : i \in T
    BY ONLY <1>1, <1>6, <1>7, UpTo
  <2>. QED  BY <1>1, <2>1
<1>9. {calls[j] : j \in 1 .. Len(calls)} = ToSet(calls)
  BY <1>1 DEF ToSet
<1>. PICK after : after = Children(G, found, node)
  OBVIOUS
<1>10. /\ after \in D
       /\ after.seen = found.seen \cup ToSet(calls)
       /\ ToSet(after.next) = ToSet(found.next) \cup (after.seen \ found.seen)
       /\ \A v \in found.seen : after.from[v] = found.from[v]
       /\ \A v \in after.seen \ found.seen : after.from[v] = node
  <2>1. after = g[Len(calls)] /\ g[Len(calls)] \in D
    BY <1>4, <1>5, <1>8
  <2>2. LET last == g[Len(calls)] IN
          /\ last.seen = found.seen \cup {calls[j] : j \in 1 .. Len(calls)}
          /\ ToSet(last.next) = ToSet(found.next) \cup (last.seen \ found.seen)
          /\ \A v \in found.seen : last.from[v] = found.from[v]
          /\ \A v \in last.seen \ found.seen : last.from[v] = node
    BY <1>8
  <2>. QED  BY ONLY <1>9, <2>1, <2>2
<1>11. UNION {ToSet(G.calls[f]) : f \in {node}} = ToSet(calls)
  OBVIOUS
<1>. QED  BY <1>10, <1>11 DEF Reached

\* Following the calls of S, then those of one more.
LEMMA ReachedOn ==
    ASSUME NEW G, NEW found, NEW S, NEW before, NEW node, NEW after,
           Reached(G, found, S, before), Reached(G, before, {node}, after)
    PROVE  Reached(G, found, S \cup {node}, after)
<1>1. /\ before.seen = found.seen \cup UNION {ToSet(G.calls[f]) : f \in S}
      /\ ToSet(before.next) = ToSet(found.next) \cup (before.seen \ found.seen)
      /\ \A v \in found.seen : before.from[v] = found.from[v]
      /\ \A v \in before.seen \ found.seen :
            before.from[v] \in S /\ v \in ToSet(G.calls[before.from[v]])
  BY DEF Reached
<1>2. /\ after.seen = before.seen \cup ToSet(G.calls[node])
      /\ ToSet(after.next) = ToSet(before.next) \cup (after.seen \ before.seen)
      /\ \A v \in before.seen : after.from[v] = before.from[v]
      /\ \A v \in after.seen \ before.seen :
            after.from[v] = node /\ v \in ToSet(G.calls[after.from[v]])
  BY DEF Reached
<1>3. after.seen = found.seen \cup UNION {ToSet(G.calls[f]) : f \in S \cup {node}}
  BY ONLY <1>1, <1>2
<1>4. ToSet(after.next) = ToSet(found.next) \cup (after.seen \ found.seen)
  BY ONLY <1>1, <1>2
<1>5. \A v \in found.seen : after.from[v] = found.from[v]
  BY ONLY <1>1, <1>2
<1>6. \A v \in after.seen \ found.seen :
         after.from[v] \in S \cup {node} /\ v \in ToSet(G.calls[after.from[v]])
  BY ONLY <1>1, <1>2
<1>. QED  BY <1>3, <1>4, <1>5, <1>6 DEF Reached

LEMMA LevelShape ==
    ASSUME NEW G, IsGraph(G), NEW found \in Search(DOMAIN G.calls)
    PROVE  /\ Level(G, found) \in Search(DOMAIN G.calls)
           /\ Reached(G, [found EXCEPT !.next = <<>>], ToSet(found.next), Level(G, found))
<1>. PICK nodes : nodes = DOMAIN G.calls
  OBVIOUS
<1>. PICK frontier : frontier = found.next
  OBVIOUS
<1>. PICK start : start = [found EXCEPT !.next = <<>>]
  OBVIOUS
<1>. PICK D : D = Search(nodes)
  OBVIOUS
<1>1. frontier \in Seq(nodes) /\ Len(frontier) \in Nat
  BY DEF Search
<1>s. start \in D /\ start.next = <<>>
  <2>1. start = [seen |-> found.seen, from |-> found.from, next |-> <<>>]
    BY DEF Search
  <2>2. found.seen \in SUBSET nodes /\ found.from \in [nodes -> nodes] /\ <<>> \in Seq(nodes)
    BY DEF Search
  <2>. QED  BY ONLY D = Search(nodes), <2>1, <2>2 DEF Search
<1>. PICK step : step = [i \in 1 .. Len(frontier) |-> [f \in D |-> Children(G, f, frontier[i])]]
  OBVIOUS
<1>2. step \in Steps(Len(frontier), D)
  <2>1. ASSUME NEW i \in 1 .. Len(frontier), NEW f \in D
        PROVE  Children(G, f, frontier[i]) \in D
    <3>1. frontier[i] \in DOMAIN G.calls /\ f \in Search(DOMAIN G.calls)
      BY <1>1
    <3>. QED  BY <3>1, ChildrenShape
  <2>. QED  BY <2>1 DEF Steps
<1>3. PICK g : Unrolls(g, Len(frontier), D, start, step)
  BY ONLY <1>1, <1>s, <1>2, Recursion
<1>4. /\ g \in [0 .. Len(frontier) -> D]
      /\ g[0] = start
      /\ \A i \in 1 .. Len(frontier) : g[i] = Children(G, g[i - 1], frontier[i])
  <2>1. /\ g \in [0 .. Len(frontier) -> D] /\ g[0] = start
        /\ \A i \in 1 .. Len(frontier) : g[i] = step[i][g[i - 1]]
    BY <1>3 DEF Unrolls
  <2>2. \A i \in 1 .. Len(frontier) : i - 1 \in 0 .. Len(frontier)
    BY <1>1
  <2>. QED  BY <2>1, <2>2
<1>5. Level(G, found) = g[Len(frontier)]
  <2>. DEFINE Seen == CHOOSE h : h = [i \in 0 .. Len(frontier) |->
                          IF i = 0 THEN start ELSE Children(G, h[i - 1], frontier[i])]
  <2>1. g = [i \in 0 .. Len(frontier) |->
                IF i = 0 THEN start ELSE Children(G, g[i - 1], frontier[i])]
    BY <1>1, <1>4
  <2>2. Seen = [i \in 0 .. Len(frontier) |->
                IF i = 0 THEN start ELSE Children(G, Seen[i - 1], frontier[i])]
    BY <2>1
  <2>3. Level(G, found) = Seen[Len(frontier)]
    BY DEF Level
  <2>. HIDE DEF Seen
  <2>t. PICK T : T = {i \in 0 .. Len(frontier) : Seen[i] = g[i]}
    OBVIOUS
  <2>4. 0 \in T /\ T \in SUBSET (0 .. Len(frontier))
    BY ONLY <1>1, <1>4, <2>2, <2>t
  <2>5. \A i \in 1 .. Len(frontier) : i - 1 \in T => i \in T
    BY ONLY <1>1, <1>4, <2>2, <2>t
  <2>6. \A i \in 0 .. Len(frontier) : i \in T
    BY ONLY <1>1, <2>4, <2>5, UpTo
  <2>. QED  BY ONLY <1>1, <2>3, <2>6, <2>t
<1>t. PICK T : T = {i \in 0 .. Len(frontier) :
                      Reached(G, start, {frontier[j] : j \in 1 .. i}, g[i])}
  OBVIOUS
<1>6. 0 \in T /\ T \in SUBSET (0 .. Len(frontier))
  <2>1. {frontier[j] : j \in 1 .. 0} = {}
    OBVIOUS
  <2>2. Reached(G, start, {}, start)
    BY ONLY <1>s DEF Reached
  <2>3. Reached(G, start, {frontier[j] : j \in 1 .. 0}, g[0])
    BY ONLY <1>4, <2>1, <2>2
  <2>4. 0 \in 0 .. Len(frontier)
    BY ONLY <1>1
  <2>. QED  BY ONLY <1>t, <2>3, <2>4
<1>7. ASSUME NEW i \in 1 .. Len(frontier), i - 1 \in T PROVE i \in T
  <2>1. {frontier[j] : j \in 1 .. i} = {frontier[j] : j \in 1 .. i - 1} \cup {frontier[i]}
    BY <1>1, OneVisit
  <2>2. frontier[i] \in nodes /\ g[i - 1] \in D /\ g[i] = Children(G, g[i - 1], frontier[i])
    <3>1. i - 1 \in 0 .. Len(frontier)
      BY <1>1
    <3>. QED  BY <1>1, <1>4, <3>1
  <2>3. Reached(G, g[i - 1], {frontier[i]}, g[i])
    BY <2>2, ChildrenShape
  <2>4. Reached(G, start, {frontier[j] : j \in 1 .. i - 1}, g[i - 1])
    BY <1>7, <1>t
  <2>5. Reached(G, start, {frontier[j] : j \in 1 .. i}, g[i])
    <3>s. PICK S : S = {frontier[j] : j \in 1 .. i - 1}
      OBVIOUS
    <3>1. Reached(G, start, S, g[i - 1])
      BY ONLY <3>s, <2>4
    <3>2. Reached(G, start, S \cup {frontier[i]}, g[i])
      BY ONLY <3>1, <2>3, ReachedOn
    <3>. QED  BY ONLY <3>s, <3>2, <2>1
  <2>. QED  BY ONLY <1>t, <2>5, i \in 1 .. Len(frontier), <1>1
<1>8. Len(frontier) \in T
  <2>1. \A i \in 0 .. Len(frontier) : i \in T
    BY ONLY <1>1, <1>6, <1>7, UpTo
  <2>. QED  BY <1>1, <2>1
<1>9. {frontier[j] : j \in 1 .. Len(frontier)} = ToSet(frontier)
  <2>1. DOMAIN frontier = 1 .. Len(frontier)
    BY ONLY <1>1
  <2>. QED  BY ONLY <2>1 DEF ToSet
<1>10. Reached(G, start, ToSet(frontier), g[Len(frontier)])
  BY ONLY <1>8, <1>9, <1>t
<1>11. g[Len(frontier)] \in D
  BY ONLY <1>1, <1>4
<1>. QED  BY <1>5, <1>10, <1>11

\* Everything one call away, as well.
Near(G, S) == S \cup UNION {ToSet(G.calls[f]) : f \in S}

LEMMA NearShape ==
    ASSUME NEW G, IsGraph(G), NEW S \in SUBSET DOMAIN G.calls
    PROVE  Near(G, S) \in SUBSET DOMAIN G.calls
<1>1. \A f \in S : ToSet(G.calls[f]) \subseteq DOMAIN G.calls
  <2>. SUFFICES ASSUME NEW f \in S PROVE ToSet(G.calls[f]) \subseteq DOMAIN G.calls
    OBVIOUS
  <2>1. G.calls[f] \in Seq(DOMAIN G.calls)
    BY DEF IsGraph
  <2>. QED  BY <2>1 DEF ToSet
<1>. QED  BY <1>1 DEF Near

LEMMA HopsShape ==
    ASSUME NEW G, IsGraph(G), NEW root \in DOMAIN G.calls,
           NEW N \in Nat, N = Cardinality(DOMAIN G.calls)
    PROVE  LET H == Hops(G, root)
           IN  /\ H \in [0 .. N -> SUBSET DOMAIN G.calls]
               /\ H[0] = {root}
               /\ \A n \in 1 .. N : H[n] = Near(G, H[n - 1])
<1>. PICK D : D = SUBSET DOMAIN G.calls
  OBVIOUS
<1>. PICK step : step = [i \in 1 .. N |-> [S \in D |-> Near(G, S)]]
  OBVIOUS
<1>1. step \in Steps(N, D) /\ {root} \in D
  BY NearShape DEF Steps
<1>2. PICK g : Unrolls(g, N, D, {root}, step)
  BY ONLY <1>1, N \in Nat, Recursion
<1>3. /\ g \in [0 .. N -> D] /\ g[0] = {root}
      /\ \A i \in 1 .. N : g[i] = Near(G, g[i - 1])
  <2>1. /\ g \in [0 .. N -> D] /\ g[0] = {root}
        /\ \A i \in 1 .. N : g[i] = step[i][g[i - 1]]
    BY <1>2 DEF Unrolls
  <2>2. \A i \in 1 .. N : i - 1 \in 0 .. N
    OBVIOUS
  <2>. QED  BY <2>1, <2>2
<1>4. g = [n \in 0 .. N |-> IF n = 0 THEN {root}
              ELSE g[n - 1] \cup UNION {ToSet(G.calls[f]) : f \in g[n - 1]}]
  BY <1>3 DEF Near
<1>. PICK H : H = Hops(G, root)
  OBVIOUS
<1>5. H = [n \in 0 .. N |-> IF n = 0 THEN {root}
              ELSE H[n - 1] \cup UNION {ToSet(G.calls[f]) : f \in H[n - 1]}]
  BY <1>4 DEF Hops
<1>6. H[0] = {root} /\ \A n \in 1 .. N : H[n] = Near(G, H[n - 1])
  <2>1. H[0] = {root}
    BY ONLY <1>5, N \in Nat
  <2>2. ASSUME NEW n \in 1 .. N PROVE H[n] = Near(G, H[n - 1])
    <3>1. n \in 0 .. N /\ n # 0
      OBVIOUS
    <3>2. H[n] = H[n - 1] \cup UNION {ToSet(G.calls[f]) : f \in H[n - 1]}
      BY ONLY <1>5, <3>1
    <3>. QED  BY <3>2 DEF Near
  <2>. QED  BY <2>1, <2>2
<1>t. PICK T : T = {n \in 0 .. N : H[n] \in D}
  OBVIOUS
<1>7. 0 \in T /\ T \in SUBSET (0 .. N)
  <2>1. H[0] \in D
    BY ONLY <1>1, <1>6
  <2>2. 0 \in 0 .. N
    OBVIOUS
  <2>. QED  BY ONLY <1>t, <2>1, <2>2
<1>8. ASSUME NEW n \in 1 .. N, n - 1 \in T PROVE n \in T
  <2>1. Near(G, H[n - 1]) \in D
    BY <1>8, <1>t, NearShape
  <2>. QED  BY <2>1, <1>6, <1>t
<1>9. \A n \in 0 .. N : n \in T
  BY ONLY <1>7, <1>8, N \in Nat, UpTo
<1>. QED  BY <1>5, <1>6, <1>9, <1>t

\* Where a search starts, and what it has found after n levels.
Start(G, root) ==
    [seen |-> {root}, from |-> [v \in DOMAIN G.calls |-> v], next |-> <<root>>]

LEMMA SearchedShape ==
    ASSUME NEW G, IsGraph(G), NEW root \in DOMAIN G.calls,
           NEW N \in Nat, N = Cardinality(DOMAIN G.calls)
    PROVE  \E w \in [0 .. N -> Search(DOMAIN G.calls)] :
               /\ w[0] = Start(G, root)
               /\ \A n \in 1 .. N : w[n] = Level(G, w[n - 1])
               /\ Searched(G, root) = w[N]
<1>d. PICK D : D = Search(DOMAIN G.calls)
  OBVIOUS
<1>s. PICK start : start = Start(G, root)
  OBVIOUS
<1>. PICK step : step = [i \in 1 .. N |-> [S \in D |-> Level(G, S)]]
  OBVIOUS
<1>1. step \in Steps(N, D) /\ start \in D
  <2>1. \A S \in D : Level(G, S) \in D
    BY <1>d, LevelShape
  <2>2. [v \in DOMAIN G.calls |-> v] \in [DOMAIN G.calls -> DOMAIN G.calls]
    OBVIOUS
  <2>3. <<root>> \in Seq(DOMAIN G.calls)
    <3>. PICK nodes : nodes = DOMAIN G.calls
      OBVIOUS
    <3>1. root \in nodes
      OBVIOUS
    <3>2. <<root>> \in Seq(nodes)
      BY ONLY <3>1
    <3>. QED  BY <3>2
  <2>4. start \in D
    BY ONLY <1>d, <1>s, <2>2, <2>3, root \in DOMAIN G.calls DEF Start, Search
  <2>. QED  BY <2>1, <2>4 DEF Steps
<1>2. PICK g : Unrolls(g, N, D, start, step)
  BY ONLY <1>1, N \in Nat, Recursion
<1>3. /\ g \in [0 .. N -> D] /\ g[0] = start
      /\ \A i \in 1 .. N : g[i] = Level(G, g[i - 1])
  <2>1. /\ g \in [0 .. N -> D] /\ g[0] = start
        /\ \A i \in 1 .. N : g[i] = step[i][g[i - 1]]
    BY <1>2 DEF Unrolls
  <2>2. \A i \in 1 .. N : i - 1 \in 0 .. N
    OBVIOUS
  <2>. QED  BY <2>1, <2>2
<1>. DEFINE Within == CHOOSE h : h = [n \in 0 .. N |->
                                        IF n = 0 THEN start ELSE Level(G, h[n - 1])]
<1>4. Within = [n \in 0 .. N |-> IF n = 0 THEN start ELSE Level(G, Within[n - 1])]
  <2>1. g = [n \in 0 .. N |-> IF n = 0 THEN start ELSE Level(G, g[n - 1])]
    BY <1>3
  <2>. QED  BY <2>1
<1>5. Searched(G, root) = Within[N]
  BY <1>s DEF Searched, Start
<1>. HIDE DEF Within
<1>t. PICK T : T = {n \in 0 .. N : Within[n] = g[n]}
  OBVIOUS
<1>6. 0 \in T /\ T \in SUBSET (0 .. N)
  BY ONLY <1>t, <1>3, <1>4, N \in Nat
<1>7. \A n \in 1 .. N : n - 1 \in T => n \in T
  BY ONLY <1>t, <1>3, <1>4, N \in Nat
<1>8. N \in T
  <2>1. \A n \in 0 .. N : n \in T
    BY ONLY <1>6, <1>7, N \in Nat, UpTo
  <2>. QED  BY <2>1
<1>. QED  BY <1>3, <1>5, <1>8, <1>t, <1>s, <1>d

\* What is exactly n calls away.
Ring(H, n) == IF n = 0 THEN H[0] ELSE H[n] \ H[n - 1]

\* After n levels.
Breadth(G, H, n, found) ==
    /\ found.seen = H[n] /\ ToSet(found.next) = Ring(H, n)
    /\ \A k \in 0 .. n : H[k] \subseteq H[n]
    /\ \A f \in H[n] \ Ring(H, n) : ToSet(G.calls[f]) \subseteq H[n]
    /\ \A k \in 1 .. n : \A v \in Ring(H, k) :
          found.from[v] \in Ring(H, k - 1) /\ v \in ToSet(G.calls[found.from[v]])

LEMMA BreadthStep ==
    ASSUME NEW G, IsGraph(G), NEW N \in Nat, NEW n \in 1 .. N,
           NEW H \in [0 .. N -> SUBSET DOMAIN G.calls], H[n] = Near(G, H[n - 1]),
           NEW found \in Search(DOMAIN G.calls), Breadth(G, H, n - 1, found),
           NEW after, after = Level(G, found)
    PROVE  Breadth(G, H, n, after)
<1>. PICK start : start = [found EXCEPT !.next = <<>>]
  OBVIOUS
<1>1. start.seen = found.seen /\ start.from = found.from /\ start.next = <<>>
  BY DEF Search
<1>2. Reached(G, start, ToSet(found.next), after)
  BY LevelShape
<1>3. ToSet(<<>>) = {}
  BY DEF ToSet
<1>4. /\ after.seen = H[n - 1] \cup UNION {ToSet(G.calls[f]) : f \in Ring(H, n - 1)}
      /\ ToSet(after.next) = after.seen \ H[n - 1]
      /\ \A v \in H[n - 1] : after.from[v] = found.from[v]
      /\ \A v \in after.seen \ H[n - 1] :
            after.from[v] \in Ring(H, n - 1) /\ v \in ToSet(G.calls[after.from[v]])
  BY <1>1, <1>2, <1>3 DEF Reached, Breadth
<1>5. H[n] = H[n - 1] \cup UNION {ToSet(G.calls[f]) : f \in H[n - 1]}
  BY DEF Near
<1>6. Ring(H, n - 1) \subseteq H[n - 1]
  BY DEF Ring
<1>7. \A f \in H[n - 1] \ Ring(H, n - 1) : ToSet(G.calls[f]) \subseteq H[n - 1]
  BY DEF Breadth
<1>8. after.seen = H[n]
  BY ONLY <1>4, <1>5, <1>6, <1>7
<1>9. Ring(H, n) = H[n] \ H[n - 1]
  BY DEF Ring
<1>10. ToSet(after.next) = Ring(H, n)
  BY ONLY <1>4, <1>8, <1>9
<1>11. \A k \in 0 .. n : H[k] \subseteq H[n]
  <2>1. H[n - 1] \subseteq H[n]
    BY ONLY <1>5
  <2>2. \A k \in 0 .. n - 1 : H[k] \subseteq H[n - 1]
    BY DEF Breadth
  <2>3. \A k \in 0 .. n : k = n \/ k \in 0 .. n - 1
    OBVIOUS
  <2>. QED  BY ONLY <2>1, <2>2, <2>3
<1>12. \A f \in H[n] \ Ring(H, n) : ToSet(G.calls[f]) \subseteq H[n]
  BY ONLY <1>5, <1>9
<1>13. ASSUME NEW k \in 1 .. n, NEW v \in Ring(H, k)
       PROVE  after.from[v] \in Ring(H, k - 1) /\ v \in ToSet(G.calls[after.from[v]])
  <2>1. CASE k = n
    BY ONLY <2>1, <1>4, <1>8, <1>9, v \in Ring(H, k)
  <2>2. CASE k # n
    <3>1. k \in 1 .. n - 1 /\ k \in 0 .. n - 1
      BY <2>2
    <3>2. /\ found.from[v] \in Ring(H, k - 1) /\ v \in ToSet(G.calls[found.from[v]])
          /\ H[k] \subseteq H[n - 1]
      BY <3>1 DEF Breadth
    <3>3. v \in H[k]
      BY DEF Ring
    <3>. QED  BY ONLY <1>4, <3>2, <3>3
  <2>. QED  BY <2>1, <2>2
<1>. QED  BY ONLY <1>8, <1>10, <1>11, <1>12, <1>13 DEF Breadth

\* What is within n calls is exactly some number of calls away.
LEMMA SomeRing ==
    ASSUME NEW N \in Nat, NEW H, NEW n \in 0 .. N, NEW v \in H[n]
    PROVE  \E k \in 0 .. n : v \in Ring(H, k)
<1>. SUFFICES ASSUME \A k \in 0 .. n : v \notin Ring(H, k) PROVE FALSE
  OBVIOUS
<1>t. PICK T : T = {i \in 0 .. n : v \notin H[i]}
  OBVIOUS
<1>1. 0 \in T /\ T \in SUBSET (0 .. n) /\ n \in Nat
  BY <1>t DEF Ring
<1>2. ASSUME NEW i \in 1 .. n, i - 1 \in T PROVE i \in T
  BY <1>2, <1>t DEF Ring
<1>3. \A i \in 0 .. n : i \in T
  BY ONLY <1>1, <1>2, UpTo
<1>. QED  BY <1>3, <1>t

\* The search has found everything there is, each by a shortest way.
LEMMA SearchedIsBreadth ==
    ASSUME NEW G, IsGraph(G), NEW root \in DOMAIN G.calls,
           NEW N \in Nat, N = Cardinality(DOMAIN G.calls),
           NEW H, H = Hops(G, root), NEW found, found = Searched(G, root)
    PROVE  found \in Search(DOMAIN G.calls) /\ Breadth(G, H, N, found)
<1>1. /\ H \in [0 .. N -> SUBSET DOMAIN G.calls]
      /\ H[0] = {root}
      /\ \A n \in 1 .. N : H[n] = Near(G, H[n - 1])
  BY HopsShape
<1>2. PICK w \in [0 .. N -> Search(DOMAIN G.calls)] :
          /\ w[0] = Start(G, root)
          /\ \A n \in 1 .. N : w[n] = Level(G, w[n - 1])
          /\ Searched(G, root) = w[N]
  BY SearchedShape
<1>t. PICK T : T = {n \in 0 .. N : Breadth(G, H, n, w[n])}
  OBVIOUS
<1>3. 0 \in T /\ T \in SUBSET (0 .. N)
  <2>1. w[0].seen = {root} /\ w[0].next = <<root>>
    BY <1>2 DEF Start
  <2>2. ToSet(<<root>>) = {root}
    BY DEF ToSet
  <2>3. Ring(H, 0) = H[0]
    BY DEF Ring
  <2>4. \A k \in 0 .. 0 : H[k] \subseteq H[0]
    OBVIOUS
  <2>5. 1 .. 0 = {}
    OBVIOUS
  <2>6. Breadth(G, H, 0, w[0])
    BY ONLY <1>1, <2>1, <2>2, <2>3, <2>4, <2>5 DEF Breadth
  <2>. QED  BY <2>6, <1>t
<1>4. ASSUME NEW n \in 1 .. N, n - 1 \in T PROVE n \in T
  <2>1. /\ H[n] = Near(G, H[n - 1]) /\ Breadth(G, H, n - 1, w[n - 1])
        /\ w[n - 1] \in Search(DOMAIN G.calls) /\ w[n] = Level(G, w[n - 1])
    <3>1. n - 1 \in 0 .. N
      OBVIOUS
    <3>. QED  BY <1>1, <1>2, <1>4, <1>t, <3>1
  <2>2. Breadth(G, H, n, w[n])
    BY <1>1, <2>1, BreadthStep
  <2>. QED  BY <2>2, <1>t
<1>5. N \in T
  <2>1. \A n \in 0 .. N : n \in T
    BY ONLY <1>3, <1>4, N \in Nat, UpTo
  <2>. QED  BY <2>1
<1>. QED  BY <1>2, <1>5, <1>t

\* The sequence p goes by calls from v to the goal.
Chain(G, p, v, goal) ==
    /\ p \in Seq(DOMAIN G.calls) /\ p # <<>> /\ p[1] = v /\ p[Len(p)] = goal
    /\ \A i \in 1 .. Len(p) - 1 : p[i + 1] \in ToSet(G.calls[p[i]])

LEMMA ChainOn ==
    ASSUME NEW G, NEW p, NEW v, NEW goal, Chain(G, p, v, goal),
           NEW u \in DOMAIN G.calls, v \in ToSet(G.calls[u])
    PROVE  Chain(G, <<u>> \o p, u, goal) /\ Len(<<u>> \o p) = Len(p) + 1
<1>. PICK nodes : nodes = DOMAIN G.calls
  OBVIOUS
<1>1. p \in Seq(nodes) /\ u \in nodes /\ Len(p) \in Nat \ {0}
  BY DEF Chain
<1>. PICK q : q = <<u>> \o p
  OBVIOUS
<1>2. /\ q \in Seq(nodes) /\ Len(q) = Len(p) + 1 /\ q[1] = u
      /\ \A i \in 1 .. Len(p) : q[i + 1] = p[i]
  BY ONLY <1>1, q = <<u>> \o p
<1>3. q # <<>> /\ q[Len(q)] = goal
  BY ONLY <1>1, <1>2, Chain(G, p, v, goal) DEF Chain
<1>4. ASSUME NEW i \in 1 .. Len(q) - 1 PROVE q[i + 1] \in ToSet(G.calls[q[i]])
  <2>1. CASE i = 1
    <3>1. q[2] = p[1] /\ p[1] = v
      BY <1>1, <1>2 DEF Chain
    <3>. QED  BY <2>1, <3>1, <1>2
  <2>2. CASE i # 1
    <3>1. i - 1 \in 1 .. Len(p) - 1 /\ i \in 1 .. Len(p) /\ i - 1 \in 1 .. Len(p) /\ (i - 1) + 1 = i
      BY <1>1, <1>2, <2>2
    <3>2. q[i + 1] = p[i] /\ q[i] = p[i - 1]
      BY ONLY <1>2, <3>1
    <3>3. p[(i - 1) + 1] \in ToSet(G.calls[p[i - 1]])
      BY <3>1 DEF Chain
    <3>. QED  BY <3>1, <3>2, <3>3
  <2>. QED  BY <2>1, <2>2
<1>. QED  BY <1>2, <1>3, <1>4 DEF Chain

\* Walking back from the goal, which is d calls from the root.
Back(root, goal, N, from, B) ==
    /\ B[0] = <<goal>>
    /\ \A n \in 1 .. N : B[n] = IF Head(B[n - 1]) = root THEN B[n - 1]
                                ELSE <<from[Head(B[n - 1])]>> \o B[n - 1]

Hopping(G, H, N, root) ==
    /\ H \in [0 .. N -> SUBSET DOMAIN G.calls]
    /\ H[0] = {root}
    /\ \A n \in 1 .. N : H[n] = Near(G, H[n - 1])
    /\ \A n \in 0 .. N : root \in H[n] /\ H[n] \subseteq H[N]

LEMMA BackShape ==
    ASSUME NEW G, IsGraph(G), NEW root \in DOMAIN G.calls,
           NEW goal \in DOMAIN G.calls, NEW N \in Nat,
           NEW H, Hopping(G, H, N, root),
           NEW found \in Search(DOMAIN G.calls), Breadth(G, H, N, found),
           NEW d \in 1 .. N, goal \in Ring(H, d),
           NEW B, Back(root, goal, N, found.from, B)
    PROVE  Chain(G, B[N], root, goal) /\ Len(B[N]) = d + 1
<1>. PICK nodes : nodes = DOMAIN G.calls
  OBVIOUS
<1>1. found.from \in [nodes -> nodes]
  BY DEF Search
<1>2. B[0] = <<goal>>
  BY DEF Back
<1>3. \A n \in 1 .. N : B[n] = IF Head(B[n - 1]) = root THEN B[n - 1]
                                ELSE <<found.from[Head(B[n - 1])]>> \o B[n - 1]
  BY DEF Back
<1>h. H \in [0 .. N -> SUBSET DOMAIN G.calls] /\ H[0] = {root} /\ \A n \in 0 .. N : root \in H[n]
  BY DEF Hopping
<1>4. \A k \in 1 .. N : \A v \in Ring(H, k) :
         found.from[v] \in Ring(H, k - 1) /\ v \in ToSet(G.calls[found.from[v]])
  BY DEF Breadth
<1>5. \A k \in 1 .. N : root \notin Ring(H, k)
  BY <1>h DEF Ring
<1>6. \A k \in 0 .. N : Ring(H, k) \subseteq nodes
  BY <1>h DEF Ring
\* On the way.
<1>t. PICK T : T = {i \in 0 .. d : /\ Chain(G, B[i], Head(B[i]), goal) /\ Len(B[i]) = i + 1
                                   /\ Head(B[i]) \in Ring(H, d - i)}
  OBVIOUS
<1>7. 0 \in T /\ T \in SUBSET (0 .. d) /\ d \in Nat
  <2>1. goal \in nodes
    OBVIOUS
  <2>2. <<goal>> \in Seq(nodes) /\ Head(<<goal>>) = goal /\ Len(<<goal>>) = 1
    BY ONLY <2>1
  <2>3. Chain(G, <<goal>>, goal, goal)
    BY <2>2 DEF Chain
  <2>4. d - 0 = d /\ 0 \in 0 .. d
    OBVIOUS
  <2>. QED  BY <1>2, <1>t, <2>2, <2>3, <2>4
<1>8. ASSUME NEW i \in 1 .. d, i - 1 \in T PROVE i \in T
  <2>b. PICK b : b = B[i - 1]
    OBVIOUS
  <2>v. PICK v : v = Head(b)
    OBVIOUS
  <2>k. PICK k : k = d - (i - 1)
    OBVIOUS
  <2>1. Chain(G, b, v, goal) /\ Len(b) = i /\ v \in Ring(H, k)
    <3>1. (i - 1) + 1 = i
      OBVIOUS
    <3>. QED  BY ONLY <1>8, <1>t, <2>b, <2>v, <2>k, <3>1
  <2>2. k \in 1 .. N /\ k - 1 = d - i /\ i \in 1 .. N
    BY ONLY <2>k, i \in 1 .. d, d \in 1 .. N, N \in Nat
  <2>. PICK u : u = found.from[v]
    OBVIOUS
  <2>3. u \in Ring(H, k - 1) /\ v \in ToSet(G.calls[u]) /\ v # root
    BY <1>4, <1>5, <2>1, <2>2
  <2>4. u \in nodes
    <3>1. k - 1 \in 0 .. N
      BY <2>2
    <3>. QED  BY ONLY <1>6, <3>1, <2>3
  <2>5. Chain(G, <<u>> \o b, u, goal) /\ Len(<<u>> \o b) = i + 1
    <3>1. u \in DOMAIN G.calls
      BY <2>4
    <3>. QED  BY ONLY <2>1, <2>3, <3>1, ChainOn
  <2>6. B[i] = <<u>> \o b
    BY ONLY <1>3, <2>2, <2>3, <2>b, <2>v, u = found.from[v]
  <2>7. Head(<<u>> \o b) = u
    <3>1. b \in Seq(nodes)
      BY <2>1 DEF Chain
    <3>. QED  BY ONLY <3>1, <2>4
  <2>8. i \in 0 .. d
    OBVIOUS
  <2>. QED  BY ONLY <1>t, <2>2, <2>3, <2>5, <2>6, <2>7, <2>8
<1>9. d \in T
  <2>1. \A i \in 0 .. d : i \in T
    BY ONLY <1>7, <1>8, UpTo
  <2>. QED  BY <2>1, <1>7
<1>10. Chain(G, B[d], root, goal) /\ Len(B[d]) = d + 1 /\ Head(B[d]) = root
  <2>1. Ring(H, d - d) = {root}
    BY <1>h DEF Ring
  <2>2. Head(B[d]) = root
    BY <1>9, <1>t, <2>1
  <2>. QED  BY <1>9, <1>t, <2>2
\* At the root.
<1>u. PICK U : U = {i \in 0 .. N - d : B[d + i] = B[d]}
  OBVIOUS
<1>11. 0 \in U /\ U \in SUBSET (0 .. N - d) /\ N - d \in Nat
  BY <1>u
<1>12. ASSUME NEW i \in 1 .. N - d, i - 1 \in U PROVE i \in U
  <2>1. d + i \in 1 .. N /\ (d + i) - 1 = d + (i - 1)
    OBVIOUS
  <2>2. B[(d + i) - 1] = B[d]
    BY <1>12, <1>u, <2>1
  <2>3. B[d + i] = B[d]
    BY <1>3, <1>10, <2>1, <2>2
  <2>. QED  BY <1>u, <2>3
<1>13. B[N] = B[d]
  <2>1. \A i \in 0 .. N - d : i \in U
    BY ONLY <1>11, <1>12, UpTo
  <2>2. N - d \in U /\ d + (N - d) = N
    BY <1>11, <2>1
  <2>. QED  BY <2>2, <1>u
<1>. QED  BY <1>10, <1>13

\* Where no call through a pointer is within reach, nothing else may run.
LEMMA NothingHidden ==
    ASSUME NEW G, NEW root, NEW N \in Nat, N = Cardinality(DOMAIN G.calls),
           NEW H, Hopping(G, H, N, root), G.indirect \cap H[N] = {}
    PROVE  MayRun(G, root) = H[N]
<1>h. /\ H \in [0 .. N -> SUBSET DOMAIN G.calls] /\ H[0] = {root}
      /\ \A n \in 1 .. N : H[n] = Near(G, H[n - 1])
      /\ \A n \in 0 .. N : H[n] \subseteq H[N]
  BY DEF Hopping
<1>. DEFINE More(near) == near \cup UNION {ToSet(G.calls[f]) : f \in near}
                               \cup UNION {G.hidden[f] : f \in near \cap G.indirect}
            R == CHOOSE g : g = [n \in 0 .. N |-> IF n = 0 THEN {root} ELSE More(g[n - 1])]
<1>1. ASSUME NEW n \in 1 .. N PROVE H[n] = More(H[n - 1])
  <2>1. H[n - 1] \cap G.indirect = {}
    <3>1. n - 1 \in 0 .. N
      OBVIOUS
    <3>. QED  BY <1>h, <3>1
  <2>2. UNION {G.hidden[f] : f \in H[n - 1] \cap G.indirect} = {}
    BY <2>1
  <2>3. H[n] = H[n - 1] \cup UNION {ToSet(G.calls[f]) : f \in H[n - 1]}
    BY <1>h DEF Near
  <2>. QED  BY ONLY <2>2, <2>3
<1>2. MayRun(G, root) = R[N]
  BY DEF MayRun
<1>. HIDE DEF More
<1>3. H = [n \in 0 .. N |-> IF n = 0 THEN {root} ELSE More(H[n - 1])]
  BY <1>h, <1>1
<1>4. R = [n \in 0 .. N |-> IF n = 0 THEN {root} ELSE More(R[n - 1])]
  BY <1>3
<1>. HIDE DEF R
<1>t. PICK T : T = {n \in 0 .. N : R[n] = H[n]}
  OBVIOUS
<1>5. 0 \in T /\ T \in SUBSET (0 .. N)
  BY ONLY <1>t, <1>4, <1>h, N \in Nat
<1>6. ASSUME NEW n \in 1 .. N, n - 1 \in T PROVE n \in T
  <2>1. n \in 0 .. N /\ n # 0 /\ R[n - 1] = H[n - 1]
    BY ONLY <1>6, <1>t, N \in Nat
  <2>2. R[n] = More(R[n - 1])
    BY ONLY <2>1, <1>4
  <2>3. H[n] = More(H[n - 1])
    BY <1>1
  <2>. QED  BY ONLY <1>t, <2>1, <2>2, <2>3
<1>7. N \in T
  <2>1. \A n \in 0 .. N : n \in T
    BY ONLY <1>5, <1>6, N \in Nat, UpTo
  <2>. QED  BY <2>1
<1>. QED  BY <1>2, <1>7, <1>t

(* findPath is right on every graph: what it shows is a chain of calls     *)
(* from the root to the function on screen, none is shorter, and where it  *)
(* shows none with no reservation, the program cannot get there.           *)
THEOREM PathIsShortest ==
    ASSUME NEW G, IsGraph(G), NEW root \in DOMAIN G.calls,
           NEW goal \in DOMAIN G.calls
    PROVE  PathRight(G, root, goal)
<1>n. PICK N : N = Cardinality(DOMAIN G.calls)
  OBVIOUS
<1>1. N \in Nat
  BY <1>n, FS_CardinalityType DEF IsGraph
<1>h. PICK H : H = Hops(G, root)
  OBVIOUS
<1>f. PICK found : found = Searched(G, root)
  OBVIOUS
<1>2. /\ H \in [0 .. N -> SUBSET DOMAIN G.calls]
      /\ H[0] = {root}
      /\ \A n \in 1 .. N : H[n] = Near(G, H[n - 1])
  BY <1>1, <1>n, <1>h, HopsShape
<1>3. found \in Search(DOMAIN G.calls) /\ Breadth(G, H, N, found)
  BY <1>1, <1>n, <1>h, <1>f, SearchedIsBreadth
<1>4. found.seen = H[N] /\ \A k \in 0 .. N : H[k] \subseteq H[N]
  BY <1>3 DEF Breadth
<1>5. \A n \in 0 .. N : root \in H[n]
  <2>t. PICK T : T = {n \in 0 .. N : root \in H[n]}
    OBVIOUS
  <2>1. 0 \in T /\ T \in SUBSET (0 .. N)
    BY ONLY <2>t, <1>1, <1>2
  <2>2. ASSUME NEW n \in 1 .. N, n - 1 \in T PROVE n \in T
    <3>1. root \in H[n - 1] /\ n \in 0 .. N
      BY ONLY <2>2, <2>t, <1>1
    <3>2. H[n] = Near(G, H[n - 1])
      BY <1>2
    <3>. QED  BY ONLY <2>t, <3>1, <3>2 DEF Near
  <2>3. \A n \in 0 .. N : n \in T
    BY ONLY <1>1, <2>1, <2>2, UpTo
  <2>. QED  BY <2>t, <2>3
<1>. DEFINE B == CHOOSE b : b = [n \in 0 .. N |-> IF n = 0 THEN <<goal>>
                                        ELSE IF Head(b[n - 1]) = root THEN b[n - 1]
                                        ELSE <<found.from[Head(b[n - 1])]>> \o b[n - 1]]
<1>p. Hopping(G, H, N, root)
  BY ONLY <1>2, <1>4, <1>5 DEF Hopping
<1>r. PICK result : result = FindPath(G, root, goal)
  OBVIOUS
<1>6. result = IF root = goal THEN [kind |-> "self"]
               ELSE IF goal \in found.seen THEN [kind |-> "path", path |-> B[N]]
               ELSE [kind |-> "none", incomplete |-> G.indirect \cap found.seen # {}]
  BY <1>n, <1>f, <1>r DEF FindPath
<1>7. CASE root = goal
  <2>1. result.kind = "self"
    BY ONLY <1>6, <1>7
  <2>. QED  BY ONLY <2>1, <1>7, <1>r DEF PathRight
<1>8. CASE root # goal /\ goal \in found.seen
  <2>1. B = [n \in 0 .. N |-> IF n = 0 THEN <<goal>>
                              ELSE IF Head(B[n - 1]) = root THEN B[n - 1]
                              ELSE <<found.from[Head(B[n - 1])]>> \o B[n - 1]]
    <3>n. PICK nodes : nodes = DOMAIN G.calls
      OBVIOUS
    <3>m. PICK from : from = found.from
      OBVIOUS
    <3>. DEFINE D == Seq(nodes) \ {<<>>}
                Further(s) == IF Head(s) = root THEN s ELSE <<from[Head(s)]>> \o s
    <3>p. PICK step : step = [i \in 1 .. N |-> [s \in D |-> Further(s)]]
      OBVIOUS
    <3>1. <<goal>> \in D
      <4>1. goal \in nodes
        BY <3>n
      <4>. QED  BY ONLY <4>1
    <3>2. ASSUME NEW s \in D PROVE Further(s) \in D
      <4>1. from \in [nodes -> nodes]
        BY <1>3, <3>n, <3>m DEF Search
      <4>2. Head(s) \in nodes /\ s \in Seq(nodes)
        BY ONLY s \in D
      <4>3. from[Head(s)] \in nodes
        BY ONLY <4>1, <4>2
      <4>. QED  BY ONLY s \in D, <4>2, <4>3
    <3>3. step \in Steps(N, D)
      BY ONLY <3>2, <3>p DEF Steps
    <3>. HIDE DEF D
    <3>4. PICK g : Unrolls(g, N, D, <<goal>>, step)
      BY ONLY <1>1, <3>1, <3>3, Recursion
    <3>5. g \in [0 .. N -> D] /\ g[0] = <<goal>> /\ \A i \in 1 .. N : g[i] = step[i][g[i - 1]]
      BY ONLY <3>4 DEF Unrolls
    <3>6. ASSUME NEW i \in 1 .. N PROVE g[i] = Further(g[i - 1])
      <4>1. i - 1 \in 0 .. N
        BY ONLY i \in 1 .. N, <1>1
      <4>2. g[i - 1] \in D
        BY ONLY <4>1, <3>5
      <4>. QED  BY ONLY <3>5, <3>p, <4>2, i \in 1 .. N
    <3>. HIDE DEF Further
    <3>7. g = [n \in 0 .. N |-> IF n = 0 THEN <<goal>> ELSE Further(g[n - 1])]
      <4>1. ASSUME NEW n \in 0 .. N
            PROVE  g[n] = IF n = 0 THEN <<goal>> ELSE Further(g[n - 1])
        <5>1. n = 0 \/ n \in 1 .. N
          BY ONLY <1>1, n \in 0 .. N
        <5>2. n \in 1 .. N => n # 0
          BY ONLY <1>1
        <5>. QED  BY ONLY <3>5, <3>6, <5>1, <5>2
      <4>2. g = [n \in 0 .. N |-> g[n]]
        BY ONLY <3>5
      <4>. QED  BY ONLY <4>1, <4>2
    <3>8. B = CHOOSE b : b = [n \in 0 .. N |-> IF n = 0 THEN <<goal>> ELSE Further(b[n - 1])]
      <4>1. B = CHOOSE b : b = [n \in 0 .. N |-> IF n = 0 THEN <<goal>>
                                    ELSE IF Head(b[n - 1]) = root THEN b[n - 1]
                                    ELSE <<from[Head(b[n - 1])]>> \o b[n - 1]]
        BY ONLY <3>m
      <4>. QED  BY ONLY Zenon, <4>1 DEF Further
    <3>9. B = [n \in 0 .. N |-> IF n = 0 THEN <<goal>> ELSE Further(B[n - 1])]
      BY ONLY Zenon, <3>7, <3>8
    <3>. HIDE DEF B
    <3>. QED  BY ONLY <3>9, <3>m DEF Further
  <2>b. PICK b : b = B
    OBVIOUS
  <2>. HIDE DEF B
  <2>2. PICK d \in 0 .. N : goal \in Ring(H, d)
    <3>1. N \in 0 .. N /\ goal \in H[N]
      BY <1>1, <1>4, <1>8
    <3>. QED  BY <1>1, <3>1, SomeRing
  <2>3. d \in 1 .. N
    BY <1>2, <1>8, <2>2 DEF Ring
  <2>4. Chain(G, b[N], root, goal) /\ Len(b[N]) = d + 1
    <3>1. b = [n \in 0 .. N |-> IF n = 0 THEN <<goal>>
                               ELSE IF Head(b[n - 1]) = root THEN b[n - 1]
                               ELSE <<found.from[Head(b[n - 1])]>> \o b[n - 1]]
      BY ONLY Zenon, <2>1, <2>b
    <3>2. b[0] = <<goal>> /\ 0 \in 0 .. N
      BY ONLY <3>1, <1>1
    <3>3. ASSUME NEW n \in 1 .. N
          PROVE  b[n] = IF Head(b[n - 1]) = root THEN b[n - 1]
                        ELSE <<found.from[Head(b[n - 1])]>> \o b[n - 1]
      <4>1. n \in 0 .. N /\ n # 0
        BY ONLY <1>1, n \in 1 .. N
      <4>. QED  BY ONLY <3>1, <4>1
    <3>4. Back(root, goal, N, found.from, b)
      BY ONLY <3>2, <3>3 DEF Back
    <3>. QED  BY ONLY <1>1, <1>3, <2>2, <2>3, <1>p, <3>4, BackShape, IsGraph(G),
               root \in DOMAIN G.calls, goal \in DOMAIN G.calls
  <2>p. PICK p : p = b[N]
    OBVIOUS
  <2>5. result.kind = "path" /\ result.path = p
    BY ONLY <1>6, <1>8, <2>b, <2>p
  <2>6. p[1] = root /\ p[Len(p)] = goal /\ Len(p) - 2 = d - 1
    BY <2>4, <2>p, <2>3 DEF Chain
  <2>7. ASSUME NEW i \in 1 .. Len(p) - 1 PROVE Contains(G.calls[p[i]], p[i + 1])
    <3>1. p[i + 1] \in ToSet(G.calls[p[i]]) /\ p \in Seq(DOMAIN G.calls)
      BY <2>4, <2>p DEF Chain
    <3>2. p[i] \in DOMAIN G.calls
      BY <3>1
    <3>3. G.calls[p[i]] \in Seq(DOMAIN G.calls)
      BY <3>2 DEF IsGraph
    <3>. QED  BY <3>1, <3>3 DEF ToSet, Contains
  <2>8. goal \notin H[Len(p) - 2]
    BY <2>2, <2>3, <2>6 DEF Ring
  <2>. QED  BY ONLY <1>h, <1>r, <2>5, <2>6, <2>7, <2>8 DEF PathRight
<1>9. CASE root # goal /\ goal \notin found.seen
  <2>1. /\ result.kind = "none"
        /\ result.incomplete = (G.indirect \cap found.seen # {})
    BY ONLY <1>6, <1>9
  <2>2. goal \notin H[N]
    BY <1>4, <1>9
  <2>3. ASSUME ~ result.incomplete PROVE goal \notin MayRun(G, root)
    <3>1. G.indirect \cap H[N] = {}
      BY <2>1, <2>3, <1>4
    <3>2. MayRun(G, root) = H[N]
      BY ONLY <1>1, <1>n, <1>p, <3>1, NothingHidden
    <3>. QED  BY <2>2, <3>2
  <2>. QED  BY ONLY <1>h, <1>n, <1>r, <2>1, <2>2, <2>3 DEF PathRight
<1>. QED  BY <1>7, <1>8, <1>9
\* The path on screen starts from a function pinned in the open run, in its
\* graph: with the root, or the run, the graph goes.
Rooted ==
    /\ program \in Programs
    /\ app.root # None => Loaded
    /\ graph # "none" => app.root # None /\ graph = Source(client)

LEMMA RootedStart == ASSUME Init PROVE Rooted
BY DEF Init, WorkspaceInit, TabInit, Rooted

\* Who opens a run unpins the root; who only switches the source before any has
\* been opened had none to lose.
LEMMA OpenedUnroots ==
    ASSUME WorkspaceType, Rooted, Opened,
           \/ \E r \in Runs : OpenReport(r)
           \/ Reload
           \/ \E m \in Modes : SwitchMode(m)
           \/ UploadOpens
    PROVE  Rooted'
<1>1. app'.root = None
  <2>1. app \in AppType
    BY DEF WorkspaceType
  <2>2. CASE (\E r \in Runs : OpenReport(r)) \/ Reload \/ UploadOpens
    BY Zenon, <2>1, <2>2 DEF AppType, OpenReport, Reload, UploadOpens, TickDone, LoadRun
  <2>3. ASSUME NEW m \in Modes, SwitchMode(m) PROVE app'.root = None
    <3>1. CASE Loaded
      BY <2>1, <2>3, <3>1 DEF AppType, SwitchMode
    <3>2. CASE ~ Loaded
      BY <2>1, <2>3, <3>2 DEF AppType, SwitchMode, Rooted
    <3>. QED  BY <3>1, <3>2
  <2>. QED  BY <2>2, <2>3
<1>2. graph' = "none" /\ program' = program
  BY <1>1 DEF Opened, Leaves
<1>. QED  BY <1>1, <1>2 DEF Rooted

LEMMA RootedNext ==
    ASSUME WorkspaceInv, Found, Rooted, [Next]_shellVars PROVE Rooted'
<1>0. WorkspaceType /\ app \in AppType /\ (Loaded => Loaded')
  BY LoadedStays DEF WorkspaceInv, WorkspaceType
<1>1. CASE \/ \E r \in Runs : OpenReport(r) /\ UNCHANGED pageVars /\ Opened
           \/ Reload /\ UNCHANGED pageVars /\ Opened
           \/ \E m \in Modes : SwitchMode(m) /\ UNCHANGED pageVars /\ Opened
           \/ UploadOpens
  <2>1. Opened
    BY <1>1 DEF UploadOpens
  <2>. QED  BY <1>0, <1>1, <2>1, OpenedUnroots
<1>2. ASSUME app'.root = app.root, UNCHANGED <<client, program, graph>> PROVE Rooted'
  BY <1>0, <1>2 DEF Rooted
<1>3. CASE \/ \E l \in loads : LoadAnswered(l) /\ Elsewhere
           \/ \E l \in loads : LoadFails(l) /\ Elsewhere
           \/ \E va \in Vas : OpenFunction(va) /\ Elsewhere
           \/ \E va \in Vas : SelectFunction(va) /\ Elsewhere
           \/ \E i \in 1 .. MaxTrail : Jump(i) /\ Elsewhere
           \/ \E o \in opens : OpenAnswered(o) /\ InShell /\ Follows
           \/ \E o \in opens : OpenFails(o) /\ Elsewhere
  <2>1. UNCHANGED <<client, program, graph>>
    BY Zenon, <1>3 DEF Elsewhere, tabVars, Follows, LoadAnswered, LoadFails, OpenFunction, SelectFunction,
       Jump, OpenAnswered, OpenFails
  <2>2. app'.root = app.root
    <3>1. CASE \E l \in loads : LoadAnswered(l)
      BY <1>0, <3>1 DEF LoadAnswered, AppType
    <3>2. CASE \/ \E va \in Vas : OpenFunction(va) \/ SelectFunction(va)
               \/ \E i \in 1 .. MaxTrail : Jump(i)
      BY <1>0, <3>2 DEF OpenFunction, SelectFunction, Jump, AppType
    <3>3. CASE \/ \E l \in loads : LoadFails(l)
               \/ \E o \in opens : OpenAnswered(o) \/ OpenFails(o)
      BY <3>3 DEF LoadFails, OpenAnswered, OpenFails
    <3>. QED  BY <1>3, <3>1, <3>2, <3>3
  <2>. QED  BY <1>2, <2>1, <2>2
<1>4. ASSUME NEW v \in Views, ShowView(v), Leaves PROVE Rooted'
  <2>1. app'.root = app.root /\ UNCHANGED <<client, program>>
    BY <1>0, <1>4 DEF ShowView, Leaves, AppType
  <2>2. graph' = "none" \/ graph' = graph
    BY <1>4 DEF Leaves
  <2>. QED  BY <1>0, <2>1, <2>2 DEF Rooted
<1>5. CASE PinRoot /\ InShell /\ Leaves
  <2>1. Loaded /\ UNCHANGED <<client, program>>
    BY <1>5 DEF PinRoot, Leaves, Found
  <2>2. nav.trail[nav.index] \in Vas
    BY <1>0, <1>5 DEF PinRoot, WorkspaceType, NavOK
  <2>3. app'.root \in Vas /\ app'.root # None
    BY <1>0, <1>5, <2>2 DEF PinRoot, AppType
  <2>4. graph' = "none" \/ graph' = graph
    BY <1>5 DEF Leaves
  <2>. QED  BY <1>0, <2>1, <2>3, <2>4 DEF Rooted
<1>6. CASE TabStep
  <2>1. UNCHANGED <<client, app>> /\ program' = program
    BY Zenon, <1>6, TabFrame DEF appVars, TabStep, ModelAnswers, FetchAnswered, PressLift, LiftQueued,
       LiftOver, LiftFails, PollLands, Expire, Review, ShowCard, DropCard, LookupRead, LookupOver,
       LookupFails, FetchFails, GraphAnswered
  <2>2. graph' = graph \/ (graph' = Source(client) /\ app.root # None)
    BY Zenon, <1>6 DEF TabStep, ModelAnswers, FetchAnswered, PressLift, LiftQueued,
       LiftOver, LiftFails, PollLands, Expire, Review, ShowCard, DropCard, LookupRead, LookupOver,
       LookupFails, FetchFails, GraphAnswered, GetCallGraph
  <2>. QED  BY <1>0, <2>1, <2>2 DEF Rooted
<1>7. CASE UploadStep \/ AutoStep \/ SecurityStep \/ WindowStep \/ TreeStep \/ UNCHANGED shellVars
  <2>1. UNCHANGED <<client, appVars, tabVars>>
    BY <1>7, UploadFrame, AutoFrame, SecurityFrame, WindowFrame, TreeFrame DEF shellVars
  <2>. QED  BY <1>2, <2>1 DEF appVars, tabVars
<1>. QED  BY <1>1, <1>3, <1>4, <1>5, <1>6, <1>7, EveryStep DEF WorkspaceStep

\* Whatever has been opened, pinned and left meanwhile: the path on screen is a
\* shortest chain of calls of the open run, from the pinned function to the one
\* at the pointer, and "no path", said with no reservation, is true.
THEOREM PathIsTruthful == Spec => []PathTruthful
<1>1. ASSUME WorkspaceInv, Rooted PROVE PathTruthful
  <2>. SUFFICES ASSUME app.root # None, graph # "none", nav.index > 0
                PROVE  /\ graph = Source(client)
                       /\ PathRight(program[graph], app.root, nav.trail[nav.index])
    BY DEF PathTruthful
  <2>1. graph = Source(client) /\ graph \in Sources /\ program \in Programs
    <3>1. client.run \in Runs
      BY <1>1 DEF Rooted, WorkspaceInv, OneRun
    <3>. QED  BY <1>1, <3>1 DEF Rooted, Source, Sources
  <2>2. app.root \in Vas
    BY <1>1 DEF WorkspaceInv, WorkspaceType, AppType
  <2>3. nav.trail[nav.index] \in Vas
    BY <1>1 DEF WorkspaceInv, WorkspaceType, NavOK
  <2>4. IsGraph(program[graph]) /\ Vas \subseteq DOMAIN program[graph].calls
    BY <2>1, GraphsAssumption
  <2>. QED  BY <2>1, <2>2, <2>3, <2>4, PathIsShortest
<1>. QED  BY <1>1, RootedStart, RootedNext, WorkspaceInvariance, FoundInvariance, PTL DEF Spec
-----------------------------------------------------------------------------
(* The rows on screen.                                                     *)

LEMMA TouchedStart == ASSUME Init PROVE tree.touched => Loaded
BY DEF Init, TreeInit

LEMMA TouchedNext ==
    ASSUME WorkspaceInv, tree.touched => Loaded, [Next]_shellVars
    PROVE  (tree.touched => Loaded)'
<1>1. CASE TreeStep
  <2>1. Loaded /\ app' = app
    BY <1>1, TreeFrame DEF TreeStep, Toggle, TypeFilter, AtTree, appVars
  <2>. QED  BY <2>1 DEF Loaded
<1>2. ASSUME tree' = tree PROVE (tree.touched => Loaded)'
  BY <1>2, LoadedStays
<1>3. WorkspaceStep => tree' = tree
  BY WorkspaceFrame DEF treeVars
<1>4. UploadOpens => tree' = tree
  BY DEF UploadOpens, Opened, treeVars
<1>5. UploadStep \/ AutoStep \/ TabStep \/ SecurityStep \/ WindowStep \/ UNCHANGED shellVars => tree' = tree
  BY UploadFrame, AutoFrame, TabFrame, SecurityFrame, WindowFrame DEF shellVars, asideVars, treeVars
<1>. QED  BY <1>1, <1>2, <1>3, <1>4, <1>5, EveryStep

\* Whatever was folded, filtered and opened meanwhile, for documents of any size:
\* the rows on screen are a tree, each symbol once, with its count right; a filter
\* shows the symbols that match and no others.
THEOREM TreeIsExact ==
    ASSUME \A s \in DOMAIN Documents : NamedApart(Documents[s])
    PROVE  Spec => []TreeExact
<1>1. ASSUME WorkspaceInv, tree.touched => Loaded PROVE TreeExact
  <2>. SUFFICES ASSUME tree.touched PROVE RowsRight(Symbols(Documents[app.data]), TreeRows, tree)
    BY DEF TreeExact
  <2>1. app.data \in Runs \cup {Sample, "none"} /\ app.data # "none"
    BY <1>1 DEF WorkspaceInv, WorkspaceType, AppType, Loaded
  <2>2. app.data \in DOMAIN Documents
    BY <2>1, TreeAssumption DEF TreeAssumption
  <2>. QED  BY Zenon, <2>2, TreeAssumption, TreeRight
<1>. QED  BY <1>1, TouchedStart, TouchedNext, WorkspaceInvariance, PTL DEF Spec
=============================================================================
