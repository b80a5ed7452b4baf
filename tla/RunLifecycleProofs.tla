-------------------------- MODULE RunLifecycleProofs --------------------------
(***************************************************************************)
(* When the reads of patchMeta answer in the order they were made, the row *)
(* of a run only goes forward and shows how its analysis ended; when, in   *)
(* addition, no two refreshes of the summary overlap, its count is that of *)
(* the lifts on disk.  For any stages, functions and number of events,     *)
(* deletions and restarts.  Each is refuted without its hypothesis.        *)
(*                                                                         *)
(* The argument is about the whole way of a patch - waiting for its read,  *)
(* queued, merged - as one list: a later patch of it never undoes an       *)
(* earlier one (Follows).                                                  *)
(***************************************************************************)
EXTENDS RunLifecycle, FiniteSetTheorems, SequenceTheorems, TLAPS

USE StagesAssumption, BudgetAssumption

Docs == UNION {[K -> Nat \cup Errors] : K \in SUBSET Keys}

\* The documents a reader of the file may have, and the patches under way.
Rows == {meta} \cup ToSet(taken)
Pending == ToSet(queue) \cup ToSet(reads)

IsEnd(d) == Has(d, "stage") /\ d["stage"] >= Done

\* A patch of a list and a later one: the stage does not go back, and after
\* the end of an analysis neither stage nor error is written.
Follows(a, b) ==
    /\ Has(a, "stage") /\ Has(b, "stage") => a["stage"] <= b["stage"]
    /\ IsEnd(a) => ~Has(b, "stage") /\ ~Has(b, "error")

Sorted(s) == \A i, j \in DOMAIN s : i < j => Follows(s[i], s[j])

\* The end of the analysis has been written or is under way.
Ended == noStart \/ (engine = "gone" /\ summary["close"] = "idle")

DocOK(d) ==
    /\ IsDoc(d)
    /\ Has(d, "stage") /\ d["stage"] = Done => Has(d, "lifted_count") /\ (image \/ deleted)
    /\ IsEnd(d) => /\ Has(d, "error")
                   /\ (d["stage"] = Done) = (d["error"] = "none")
                   /\ noStart => d["error"] = "spawn"
    /\ ~Ended /\ Has(d, "stage") => d["stage"] <= reached \/ d["stage"] = 1

Shape ==
    /\ meta \in Docs /\ queue \in Seq(Docs) /\ reads \in Seq(Docs)
    /\ taken \in Seq(Docs) /\ Len(taken) <= 1
    /\ image \in BOOLEAN /\ lifts \in SUBSET Vas
    /\ engine \in {"none", "new", "up", "unborn", "closing", "gone"}
    /\ reached \in 0 .. Stages /\ noStart \in BOOLEAN
    /\ summary \in [Handlers -> {"idle", "count", "patch"}]
    /\ seen \in [Handlers -> Nat]
    /\ left \in [Events -> Nat] /\ \A e \in Events : left[e] <= Budget[e]

EngineInv ==
    /\ engine = "none" => meta = NoDoc /\ ~deleted /\ ~restarted /\ queue = <<>>
    /\ engine \in {"none", "new"} => reached = 0
    /\ noStart => engine \in {"unborn", "gone"} /\ summary["close"] = "idle"
    /\ engine = "unborn" => noStart
    /\ summary["close"] # "idle" => engine = "gone" /\ (image \/ deleted)

\* Every patch under way may follow what is before it.
PipeInv ==
    /\ \A d \in Rows \cup Pending : DocOK(d)
    /\ \A d \in Rows, p \in Pending : Follows(d, p)
    /\ \A a \in ToSet(queue), b \in ToSet(reads) : Follows(a, b)
    /\ Sorted(queue) /\ Sorted(reads)
    /\ taken # <<>> => queue # <<>> /\ (taken[1] = meta \/ meta = NoDoc)

\* The run that is neither deleted nor left by a restart.
EndInv ==
    ~deleted /\ ~restarted =>
        /\ engine # "none" => Has(meta, "stage") /\ Has(meta, "error")
        /\ Ended => \E d \in {meta} \cup Pending : IsEnd(d)

RowInv == Shape /\ EngineInv /\ PipeInv /\ EndInv
-----------------------------------------------------------------------------
\* Among the patches of a list that carry a count, the last carries n.
LastCount(s, n) ==
    \A i \in DOMAIN s :
        Has(s[i], "lifted_count") /\ (\A j \in DOMAIN s : i < j => ~Has(s[j], "lifted_count"))
            => s[i]["lifted_count"] = n

NoCount(s) == \A d \in ToSet(s) : ~Has(d, "lifted_count")

\* The last count that is under way, or else the row's, is n.
CountIs(n) ==
    /\ LastCount(reads, n)
    /\ NoCount(reads) => LastCount(queue, n)
    /\ NoCount(reads) /\ NoCount(queue) /\ Has(meta, "lifted_count") => meta["lifted_count"] = n

\* Nothing can have been lifted before the analysis is over.
Early == engine # "gone" \/ summary["close"] # "idle"
AllZero == \A d \in Rows \cup Pending : Has(d, "lifted_count") => d["lifted_count"] = 0

CountInv ==
    ~deleted /\ ~restarted =>
        /\ Early => lifts = {} /\ AllZero
        /\ \A h \in Handlers : summary[h] = "patch" => seen[h] = Cardinality(lifts)
        /\ Busy = {} => CountIs(Cardinality(lifts))
-----------------------------------------------------------------------------
(* Lists of patches.                                                       *)

LEMMA AppendShape ==
    ASSUME NEW s \in Seq(Docs), NEW x \in Docs
    PROVE  /\ Append(s, x) \in Seq(Docs) /\ Append(s, x) # <<>>
           /\ ToSet(Append(s, x)) = ToSet(s) \cup {x}
           /\ Sorted(s) /\ (\A a \in ToSet(s) : Follows(a, x)) => Sorted(Append(s, x))
<1>. DEFINE t == Append(s, x)
            n == Len(s)
<1>1. n \in Nat /\ DOMAIN s = 1 .. n
  BY LenProperties
<1>2. /\ t \in Seq(Docs) /\ Len(t) = n + 1
      /\ \A i \in 1 .. n : t[i] = s[i]
      /\ t[n + 1] = x
  BY AppendProperties
<1>3. DOMAIN t = 1 .. n + 1
  BY <1>2, LenProperties
<1>. HIDE DEF t, n
<1>4. t # <<>>
  BY <1>1, <1>2, EmptySeq
<1>5. ToSet(t) = ToSet(s) \cup {x}
  <2>1. \A i \in 1 .. n + 1 : i \in 1 .. n \/ i = n + 1
    BY <1>1
  <2>2. n + 1 \in 1 .. n + 1 /\ \A i \in 1 .. n : i \in 1 .. n + 1
    BY <1>1
  <2>. QED  BY <1>1, <1>2, <1>3, <2>1, <2>2 DEF ToSet
<1>6. ASSUME Sorted(s), \A a \in ToSet(s) : Follows(a, x)
      PROVE  Sorted(t)
  <2>. SUFFICES ASSUME NEW i \in 1 .. n + 1, NEW j \in 1 .. n + 1, i < j
                PROVE  Follows(t[i], t[j])
    BY <1>3 DEF Sorted
  <2>1. i \in 1 .. n /\ (j \in 1 .. n \/ j = n + 1)
    BY <1>1
  <2>. QED  BY <2>1, <1>1, <1>2, <1>6 DEF Sorted, ToSet
<1>. QED  BY <1>2, <1>4, <1>5, <1>6 DEF t

LEMMA HeadShape ==
    ASSUME NEW s \in Seq(Docs), s # <<>>
    PROVE  /\ Tail(s) \in Seq(Docs) /\ Head(s) \in Docs /\ RemoveAt(s, 1) = Tail(s)
           /\ s[1] = Head(s) /\ 1 \in DOMAIN s
           /\ ToSet(s) = {Head(s)} \cup ToSet(Tail(s))
           /\ Sorted(s) => Sorted(Tail(s)) /\ \A b \in ToSet(Tail(s)) : Follows(Head(s), b)
<1>. DEFINE t == Tail(s)
            n == Len(s)
<1>1. n \in Nat \ {0} /\ DOMAIN s = 1 .. n /\ Head(s) = s[1]
  BY EmptySeq, LenProperties, HeadTailProperties
<1>2. /\ t \in Seq(Docs) /\ Len(t) = n - 1 /\ Head(s) \in Docs
      /\ \A i \in 1 .. Len(t) : t[i] = s[i + 1]
  BY HeadTailProperties
<1>3. DOMAIN t = 1 .. n - 1
  BY <1>2, LenProperties
<1>4. RemoveAt(s, 1) = t
  <2>1. SubSeq(s, 1, 1 - 1) = <<>> /\ SubSeq(s, 1 + 1, n) = t
    BY SubSeqEmpty, TailIsSubSeq
  <2>2. <<>> \o t = t
    BY <1>2, ConcatEmptySeq
  <2>. QED  BY <2>1, <2>2 DEF RemoveAt
<1>. HIDE DEF t, n
<1>5. \A i \in 1 .. n - 1 : i + 1 \in 1 .. n /\ t[i] = s[i + 1]
  BY <1>1, <1>2
<1>6. ToSet(s) = {s[1]} \cup ToSet(t)
  <2>1. \A i \in 1 .. n : i = 1 \/ (i - 1 \in 1 .. n - 1 /\ (i - 1) + 1 = i)
    BY <1>1
  <2>2. \A i \in 1 .. n : i # 1 => i - 1 \in DOMAIN t /\ s[i] = t[i - 1]
    BY <2>1, <1>3, <1>5
  <2>3. ASSUME NEW i \in 1 .. n PROVE s[i] \in {s[1]} \cup ToSet(t)
    BY <2>2 DEF ToSet
  <2>4. ASSUME NEW i \in 1 .. n - 1 PROVE t[i] \in ToSet(s)
    BY <1>1, <1>5 DEF ToSet
  <2>5. s[1] \in ToSet(s)
    BY <1>1 DEF ToSet
  <2>. QED  BY <2>3, <2>4, <2>5, <1>1, <1>3 DEF ToSet
<1>7. ASSUME Sorted(s)
      PROVE  Sorted(t) /\ \A b \in ToSet(t) : Follows(s[1], b)
  <2>1. Sorted(t)
    <3>. SUFFICES ASSUME NEW i \in 1 .. n - 1, NEW j \in 1 .. n - 1, i < j
                  PROVE  Follows(t[i], t[j])
      BY <1>3 DEF Sorted
    <3>1. i + 1 < j + 1
      BY <1>1
    <3>. QED  BY <3>1, <1>1, <1>5, <1>7 DEF Sorted
  <2>2. ASSUME NEW i \in 1 .. n - 1 PROVE Follows(s[1], t[i])
    <3>1. 1 < i + 1 /\ 1 \in 1 .. n
      BY <1>1
    <3>. QED  BY <3>1, <1>1, <1>5, <1>7 DEF Sorted
  <2>. QED  BY <2>1, <2>2, <1>3 DEF ToSet
<1>. QED  BY <1>1, <1>2, <1>4, <1>6, <1>7 DEF t

LEMMA EmptyShape == <<>> \in Seq(Docs) /\ ToSet(<<>>) = {} /\ Sorted(<<>>)
BY EmptySeq DEF ToSet, Sorted
-----------------------------------------------------------------------------
(* Documents and patches.                                                  *)

LEMMA DocParts ==
    ASSUME NEW d
    PROVE  d \in Docs <=> DOMAIN d \subseteq Keys /\ d \in [DOMAIN d -> Nat \cup Errors]
BY DEF Docs

\* The patches and rows the handlers write.
LEMMA Literals ==
    /\ NoDoc \in Docs
    /\ \A s \in Nat : [stage |-> s] \in Docs
    /\ \A s \in Nat, e \in Errors : [stage |-> s, error |-> e] \in Docs
    /\ \A s \in Nat, e \in Errors : [run_id |-> 1, stage |-> s, error |-> e] \in Docs
    /\ \A n \in Nat : [lifted_count |-> n] \in Docs
    /\ \A n, s \in Nat, e \in Errors : [lifted_count |-> n, stage |-> s, error |-> e] \in Docs
<1>1. NoDoc \in Docs
  <2>1. DOMAIN NoDoc = {} /\ NoDoc \in [{} -> Nat \cup Errors]
    BY DEF NoDoc
  <2>. QED  BY <2>1, DocParts
<1>2. ASSUME NEW s \in Nat PROVE [stage |-> s] \in Docs
  <2>1. [stage |-> s] \in [{"stage"} -> Nat \cup Errors]
    OBVIOUS
  <2>. QED  BY <2>1 DEF Docs, Keys
<1>3. ASSUME NEW s \in Nat, NEW e \in Errors PROVE [stage |-> s, error |-> e] \in Docs
  <2>1. [stage |-> s, error |-> e] \in [{"stage", "error"} -> Nat \cup Errors]
    OBVIOUS
  <2>. QED  BY <2>1 DEF Docs, Keys
<1>4. ASSUME NEW s \in Nat, NEW e \in Errors
      PROVE  [run_id |-> 1, stage |-> s, error |-> e] \in Docs
  <2>1. [run_id |-> 1, stage |-> s, error |-> e]
          \in [{"run_id", "stage", "error"} -> Nat \cup Errors]
    OBVIOUS
  <2>. QED  BY <2>1 DEF Docs, Keys
<1>5. ASSUME NEW n \in Nat PROVE [lifted_count |-> n] \in Docs
  <2>1. [lifted_count |-> n] \in [{"lifted_count"} -> Nat \cup Errors]
    OBVIOUS
  <2>. QED  BY <2>1 DEF Docs, Keys
<1>6. ASSUME NEW n \in Nat, NEW s \in Nat, NEW e \in Errors
      PROVE  [lifted_count |-> n, stage |-> s, error |-> e] \in Docs
  <2>1. [lifted_count |-> n, stage |-> s, error |-> e]
          \in [{"lifted_count", "stage", "error"} -> Nat \cup Errors]
    OBVIOUS
  <2>. QED  BY <2>1 DEF Docs, Keys
<1>. QED  BY <1>1, <1>2, <1>3, <1>4, <1>5, <1>6

LEMMA MergeShape ==
    ASSUME NEW d \in Docs, NEW p \in Docs
    PROVE  /\ Merge(d, p) \in Docs
           /\ \A k : Has(Merge(d, p), k) <=> Has(d, k) \/ Has(p, k)
           /\ \A k : Has(p, k) => Merge(d, p)[k] = p[k]
           /\ \A k : Has(d, k) /\ ~Has(p, k) => Merge(d, p)[k] = d[k]
<1>. DEFINE m == Merge(d, p)
<1>1. DOMAIN m = DOMAIN d \cup DOMAIN p
      /\ \A k \in DOMAIN d \cup DOMAIN p : m[k] = IF k \in DOMAIN p THEN p[k] ELSE d[k]
  BY DEF Merge
<1>2. m \in [DOMAIN d \cup DOMAIN p -> Nat \cup Errors] /\ DOMAIN m \subseteq Keys
  BY <1>1, DocParts DEF Merge
<1>3. m \in Docs
  BY <1>1, <1>2, DocParts
<1>. HIDE DEF m
<1>. QED  BY <1>1, <1>3 DEF Has, m

\* What has been said of a document stays true while the analysis goes on.
LEMMA DocStays ==
    ASSUME NEW d, DocOK(d), image \/ deleted => image' \/ deleted', Ended => Ended',
           reached \in 0 .. Stages, reached' \in 0 .. Stages, reached <= reached',
           noStart' => noStart \/ ~Ended
    PROVE  DocOK(d)'
<1>1. ASSUME Has(d, "stage") PROVE d["stage"] \in 1 .. Failed
  BY <1>1 DEF DocOK, IsDoc
<1>2. ASSUME ~Ended, IsEnd(d) PROVE FALSE
  BY <1>1, <1>2 DEF DocOK, IsEnd, Done, Failed
<1>3. Has(d, "stage") /\ d["stage"] = Done => IsEnd(d)
  BY <1>1 DEF IsEnd, Done
<1>4. ~Ended' /\ Has(d, "stage") => d["stage"] <= reached' \/ d["stage"] = 1
  BY <1>1 DEF DocOK, Failed
<1>. QED  BY <1>2, <1>3, <1>4 DEF DocOK

\* A patch that says nothing of the stage may come at any time.
LEMMA FollowsAlways ==
    ASSUME NEW d, NEW p, ~Has(p, "stage"), ~Has(p, "error")
    PROVE  Follows(d, p)
BY DEF Follows

\* Until the end, a patch with a stage that is not behind may come.
LEMMA FollowsUntilEnd ==
    ASSUME NEW d, DocOK(d), ~Ended, NEW p, reached \in 0 .. Stages,
           Has(p, "stage") => p["stage"] \in 1 .. Failed /\ p["stage"] >= reached
    PROVE  Follows(d, p) /\ ~IsEnd(d)
BY DEF DocOK, IsDoc, Follows, IsEnd, Done, Failed
-----------------------------------------------------------------------------
(* What a step does to the list as a whole.                                *)

LEMMA PatchStep ==
    ASSUME Shape, PipeInv, NEW p \in Docs, Patch(p), UNCHANGED <<meta, queue, taken>>,
           \A d \in Rows \cup Pending : DocOK(d)' /\ Follows(d, p),
           DocOK(p)'
    PROVE  /\ PipeInv' /\ reads' \in Seq(Docs)
           /\ Rows' = Rows /\ Pending' = Pending \cup {p}
<1>1. /\ reads' \in Seq(Docs) /\ ToSet(reads') = ToSet(reads) \cup {p}
      /\ Sorted(reads')
  BY AppendShape DEF Shape, Patch, PipeInv, Pending
<1>2. /\ Rows' = Rows /\ Pending' = Pending \cup {p}
      /\ ToSet(reads)' = ToSet(reads) \cup {p} /\ ToSet(queue)' = ToSet(queue)
  BY <1>1 DEF Rows, Pending
<1>3. \A d \in Rows' \cup Pending' : DocOK(d)'
  BY <1>2
<1>4. \A a \in ToSet(queue), b \in ToSet(reads) \cup {p} : Follows(a, b)
  BY DEF PipeInv, Pending
<1>. QED  BY <1>1, <1>2, <1>3, <1>4 DEF PipeInv, Sorted

LEMMA SameStep ==
    ASSUME Shape, PipeInv, UNCHANGED <<meta, queue, taken, reads>>,
           \A d \in Rows \cup Pending : DocOK(d)'
    PROVE  PipeInv' /\ Rows' = Rows /\ Pending' = Pending
<1>1. Rows' = Rows /\ Pending' = Pending
  BY DEF Rows, Pending
<1>. QED  BY <1>1 DEF PipeInv, Sorted

LEMMA SpendShape ==
    ASSUME Shape, NEW e \in Events, Spend(e)
    PROVE  /\ left' \in [Events -> Nat] /\ \A x \in Events : left'[x] <= Budget[x]
           /\ e # "delete" => (deleted' <=> deleted)
           /\ e # "crash" => (restarted' <=> restarted)
           /\ e = "delete" => deleted'
           /\ e = "crash" => restarted'
BY DEF Shape, Spend, deleted, restarted, Events

LEMMA NothingSpent ==
    ASSUME Shape, left' = left
    PROVE  /\ left' \in [Events -> Nat] /\ \A x \in Events : left'[x] <= Budget[x]
           /\ (deleted' <=> deleted) /\ (restarted' <=> restarted)
BY DEF Shape, deleted, restarted

\* The analysis goes on: nothing that was said of a document becomes false.
Onward ==
    /\ Shape' /\ EngineInv' /\ (deleted' <=> deleted) /\ (restarted' <=> restarted)
    /\ (image => image') /\ (Ended => Ended') /\ reached <= reached'
    /\ (noStart' => noStart \/ ~Ended) /\ engine # "none" /\ engine' # "none"
    /\ UNCHANGED <<meta, queue, taken>>

\* A step of the engine or of its listeners: it sends at most one patch.
LEMMA EngineStep ==
    ASSUME RowInv,
           \/ Spawn \/ SpawnThrows \/ StartError \/ Line \/ WriteImage \/ Close \/ CloseOK
           \/ CheckImage \/ PostFails
    PROVE  RowInv'
<1>s. Shape /\ PipeInv /\ EngineInv /\ EndInv
  BY DEF RowInv
<1>c. "close" \in Handlers
  BY DEF Handlers
<1>d. ASSUME Onward PROVE \A d \in Rows \cup Pending : DocOK(d)'
  BY <1>d, <1>s, DocStays DEF PipeInv, Shape, Onward
\* It sends none.
<1>q. ASSUME Onward, UNCHANGED reads, Ended' => Ended PROVE RowInv'
  <2>1. PipeInv' /\ Pending' = Pending
    BY <1>q, <1>s, <1>d, SameStep DEF Onward
  <2>2. EndInv'
    BY <1>q, <1>s, <2>1 DEF EndInv, Onward
  <2>. QED  BY <1>q, <2>1, <2>2 DEF RowInv, Onward
\* It sends one, and the last one when the analysis ends with it.
<1>p. ASSUME Onward, ~Ended, NEW p \in Docs, Patch(p), DocOK(p)', Ended' => IsEnd(p),
             Has(p, "stage") => p["stage"] \in 1 .. Failed /\ p["stage"] >= reached
      PROVE  RowInv'
  <2>1. \A d \in Rows \cup Pending : Follows(d, p)
    BY <1>p, <1>s, FollowsUntilEnd DEF PipeInv, Shape
  <2>2. PipeInv' /\ Pending' = Pending \cup {p}
    BY <1>p, <1>s, <1>d, <2>1, PatchStep DEF Onward
  <2>3. EndInv'
    BY <1>p, <1>s, <2>2 DEF EndInv, Onward
  <2>. QED  BY <1>p, <2>2, <2>3 DEF RowInv, Onward
<1>2. CASE Spawn
  <2>. PICK p : p = [stage |-> 2, error |-> "none"]
    OBVIOUS
  <2>1. p \in Docs /\ Has(p, "stage") /\ p["stage"] = 2 /\ p["error"] = "none"
        /\ DOMAIN p = {"stage", "error"}
    BY Literals DEF Errors, Has
  <2>2. /\ reached = 0 /\ reached' = 2 /\ ~Ended /\ ~Ended' /\ Patch(p)
        /\ engine = "new" /\ engine' = "up"
    BY <1>2, <1>s DEF Spawn, EngineInv, Ended
  <2>3. ~IsEnd(p) /\ IsDoc(p)
    BY <2>1 DEF IsEnd, Done, IsDoc, Has, Keys, Errors, Failed
  <2>4. DocOK(p)'
    BY <2>1, <2>2, <2>3 DEF DocOK, Has, IsEnd, Done
  <2>5. Shape'
    BY <1>2, <1>s, <2>1, <2>2, AppendShape, NothingSpent DEF Spawn, Shape, Patch
  <2>6. EngineInv'
    BY <1>2, <1>s, <2>2, NothingSpent DEF Spawn, EngineInv
  <2>7. Onward
    BY <1>2, <1>s, <2>2, <2>5, <2>6, NothingSpent DEF Spawn, Onward
  <2>. QED  BY <1>p, <2>1, <2>2, <2>4, <2>7 DEF Failed
<1>f. ASSUME NEW cause \in Errors \ {"none"}, ~Ended, Ended', noStart' => cause = "spawn"
      PROVE  \E p \in Docs : /\ p = Failure(cause) /\ DocOK(p)' /\ IsEnd(p)
                             /\ Has(p, "stage") /\ p["stage"] = Failed
  <2>. PICK p : p = Failure(cause)
    OBVIOUS
  <2>1. p \in Docs /\ Has(p, "stage") /\ p["stage"] = Failed /\ p["error"] = cause
        /\ DOMAIN p = {"stage", "error"}
    BY Literals DEF Failure, Has, Failed
  <2>2. IsDoc(p) /\ IsEnd(p) /\ Failed # Done
    BY <2>1 DEF IsEnd, Done, IsDoc, Has, Keys, Failed
  <2>3. DocOK(p)'
    BY <2>1, <2>2, <1>f DEF DocOK, Has
  <2>. QED  BY <2>1, <2>2, <2>3
<1>3. CASE SpawnThrows
  <2>1. ~Ended /\ engine = "new" /\ engine' = "gone" /\ summary' = summary
        /\ summary["close"] = "idle" /\ noStart' = noStart /\ ~noStart
    BY <1>3, <1>s, <1>c DEF SpawnThrows, EngineInv, Ended, Shape
  <2>2. Ended'
    BY <2>1 DEF Ended
  <2>3. PICK p \in Docs : /\ p = Failure("spawn") /\ DocOK(p)' /\ IsEnd(p)
                          /\ Has(p, "stage") /\ p["stage"] = Failed
    BY <1>f, <2>1, <2>2 DEF Errors
  <2>4. Shape'
    BY <1>3, <1>s, <2>3, AppendShape, NothingSpent DEF SpawnThrows, Shape, Patch
  <2>5. EngineInv'
    BY <1>3, <1>s, <2>1, NothingSpent DEF SpawnThrows, EngineInv
  <2>6. Onward
    BY <1>3, <1>s, <2>1, <2>2, <2>4, <2>5, NothingSpent DEF SpawnThrows, Onward, Shape
  <2>7. Patch(p) /\ p["stage"] \in 1 .. Failed /\ p["stage"] >= reached
    BY <1>3, <1>s, <2>3 DEF SpawnThrows, Failed, Shape
  <2>. QED  BY <1>p, <2>1, <2>3, <2>6, <2>7
<1>4. CASE StartError
  <2>1. /\ ~Ended /\ engine = "up" /\ engine' = "unborn" /\ summary' = summary /\ noStart'
        /\ summary["close"] = "idle"
    BY <1>4, <1>s, <1>c DEF StartError, EngineInv, Ended, Shape
  <2>2. Ended'
    BY <2>1 DEF Ended
  <2>3. PICK p \in Docs : /\ p = Failure("spawn") /\ DocOK(p)' /\ IsEnd(p)
                          /\ Has(p, "stage") /\ p["stage"] = Failed
    BY <1>f, <2>1, <2>2 DEF Errors
  <2>4. Shape'
    BY <1>4, <1>s, <2>3, AppendShape, NothingSpent DEF StartError, Shape, Patch
  <2>5. EngineInv'
    BY <1>4, <1>s, <2>1, NothingSpent DEF StartError, EngineInv
  <2>6. Onward
    BY <1>4, <1>s, <2>1, <2>2, <2>4, <2>5, NothingSpent DEF StartError, Onward, Shape
  <2>7. Patch(p) /\ p["stage"] \in 1 .. Failed /\ p["stage"] >= reached
    BY <1>4, <1>s, <2>3 DEF StartError, Failed, Shape
  <2>. QED  BY <1>p, <2>1, <2>3, <2>6, <2>7
<1>5. CASE Line
  <2>1. ~Ended /\ ~Ended' /\ engine = "up" /\ engine' = "up"
    BY <1>5, <1>s DEF Line, EngineInv, Ended
  <2>2. PICK s \in {0} \cup 2 .. Stages :
          /\ reached' = IF s > reached THEN s ELSE reached
          /\ Patch(IF s > reached THEN [stage |-> s] ELSE NoDoc)
    BY <1>5 DEF Line
  <2>3. PICK p : p = IF s > reached THEN [stage |-> s] ELSE NoDoc
    OBVIOUS
  <2>4. /\ p \in Docs /\ IsDoc(p) /\ DOMAIN p \subseteq {"stage"}
        /\ Has(p, "stage") => s > reached /\ p["stage"] = s
    <3>1. CASE s > reached
      <4>1. p = [stage |-> s] /\ s \in 2 .. Stages
        BY <2>3, <3>1, <1>s DEF Shape
      <4>2. p \in Docs /\ DOMAIN p = {"stage"} /\ p["stage"] = s
        BY <4>1, Literals
      <4>. QED  BY <3>1, <4>1, <4>2 DEF IsDoc, Has, Keys, Failed
    <3>2. CASE ~(s > reached)
      BY <2>3, <3>2, Literals DEF IsDoc, Has, Keys, NoDoc
    <3>. QED  BY <3>1, <3>2
  <2>5. reached' \in 0 .. Stages /\ reached <= reached'
        /\ (Has(p, "stage") => p["stage"] = reached' /\ p["stage"] \in 1 .. Stages)
    BY <2>2, <2>4, <1>s DEF Shape
  <2>6. DocOK(p)'
    BY <2>1, <2>4, <2>5 DEF DocOK, IsEnd, Done, Has
  <2>7. Shape'
    BY <1>5, <1>s, <2>2, <2>3, <2>4, <2>5, AppendShape, SpendShape DEF Line, Shape, Patch, Events
  <2>8. EngineInv'
    BY <1>5, <1>s, <2>1, SpendShape DEF Line, EngineInv, Events
  <2>9. UNCHANGED <<meta, queue, taken, image, noStart>>
        /\ (deleted' <=> deleted) /\ (restarted' <=> restarted)
    BY <1>5, <1>s, SpendShape DEF Line, Events
  <2>10. Has(p, "stage") => p["stage"] \in 1 .. Failed /\ p["stage"] >= reached
    BY <2>5, <1>s DEF Failed, Shape
  <2>11. Onward
    BY <2>1, <2>5, <2>7, <2>8, <2>9 DEF Onward
  <2>. QED  BY <1>p, <2>1, <2>2, <2>3, <2>4, <2>6, <2>10, <2>11
<1>6. CASE WriteImage
  <2>1. Onward
    BY <1>6, <1>s, NothingSpent DEF WriteImage, Shape, EngineInv, Ended, Onward
  <2>. QED  BY <1>6, <1>q, <2>1 DEF WriteImage, Ended
<1>7. CASE Close
  <2>1. /\ engine \in {"up", "unborn"} /\ engine' = "gone" /\ summary' = summary
        /\ summary["close"] = "idle" /\ noStart' = noStart /\ (Ended <=> noStart)
    BY <1>7, <1>s, <1>c DEF Close, EngineInv, Shape, Ended
  <2>2. Ended'
    BY <2>1 DEF Ended
  <2>3. EngineInv'
    BY <1>7, <1>s, <2>1, NothingSpent DEF Close, EngineInv
  <2>4. CASE noStart
    <3>1. Shape'
      BY <1>7, <1>s, <2>4, NothingSpent DEF Close, Shape
    <3>2. Onward
      BY <1>7, <1>s, <2>1, <2>2, <2>3, <2>4, <3>1, NothingSpent DEF Close, Onward, Shape
    <3>. QED  BY <1>7, <1>q, <2>1, <2>4, <3>2 DEF Close
  <2>5. CASE ~noStart
    <3>1. PICK p \in Docs : /\ p = Failure("exit") /\ DocOK(p)' /\ IsEnd(p)
                            /\ Has(p, "stage") /\ p["stage"] = Failed
      BY <1>f, <2>1, <2>2, <2>5 DEF Errors
    <3>2. Shape'
      BY <1>7, <1>s, <2>5, <3>1, AppendShape, NothingSpent DEF Close, Shape, Patch
    <3>3. Onward
      BY <1>7, <1>s, <2>1, <2>2, <2>3, <2>5, <3>2, NothingSpent DEF Close, Onward, Shape
    <3>4. Patch(p) /\ p["stage"] \in 1 .. Failed /\ p["stage"] >= reached
      BY <1>7, <1>s, <2>5, <3>1 DEF Close, Failed, Shape
    <3>. QED  BY <1>p, <2>1, <2>5, <3>1, <3>3, <3>4
  <2>. QED  BY <2>4, <2>5
<1>8. CASE CloseOK
  <2>1. Shape' /\ EngineInv' /\ ~Ended /\ ~Ended' /\ reached' = reached /\ noStart' = noStart
    BY <1>8, <1>s, NothingSpent DEF CloseOK, Shape, EngineInv, Ended
  <2>2. Onward
    BY <1>8, <1>s, <2>1, NothingSpent DEF CloseOK, Onward, Shape
  <2>. QED  BY <1>8, <1>q, <2>1, <2>2 DEF CloseOK
<1>9. CASE CheckImage
  <2>1. ~Ended /\ engine = "closing" /\ engine' = "gone" /\ noStart' = noStart /\ ~noStart
        /\ summary["close"] = "idle"
    BY <1>9, <1>s, <1>c DEF CheckImage, EngineInv, Ended, Shape
  <2>2. CASE image
    <3>1. summary' = [summary EXCEPT !["close"] = "count"] /\ reads' = reads /\ image'
      BY <1>9, <2>2 DEF CheckImage
    <3>2. Shape' /\ summary'["close"] = "count" /\ ~Ended'
      BY <1>9, <1>s, <1>c, <2>1, <3>1, NothingSpent DEF CheckImage, Shape, Ended
    <3>3. EngineInv'
      BY <1>9, <1>s, <2>1, <3>1, NothingSpent DEF CheckImage, EngineInv
    <3>4. Onward
      BY <1>9, <1>s, <2>1, <3>1, <3>2, <3>3, NothingSpent DEF CheckImage, Onward, Shape
    <3>. QED  BY <1>q, <3>1, <3>2, <3>4
  <2>3. CASE ~image
    <3>1. summary' = summary /\ Patch(Failure("image"))
      BY <1>9, <2>3 DEF CheckImage
    <3>2. Ended'
      BY <2>1, <3>1 DEF Ended
    <3>3. PICK p \in Docs : /\ p = Failure("image") /\ DocOK(p)' /\ IsEnd(p)
                            /\ Has(p, "stage") /\ p["stage"] = Failed
      BY <1>f, <2>1, <3>2 DEF Errors
    <3>4. Shape'
      BY <1>9, <1>s, <3>1, <3>3, AppendShape, NothingSpent DEF CheckImage, Shape, Patch
    <3>5. EngineInv'
      BY <1>9, <1>s, <2>1, <3>1, NothingSpent DEF CheckImage, EngineInv
    <3>6. Onward
      BY <1>9, <1>s, <2>1, <3>2, <3>4, <3>5, NothingSpent DEF CheckImage, Onward, Shape
    <3>7. Patch(p) /\ p["stage"] \in 1 .. Failed /\ p["stage"] >= reached
      BY <1>s, <3>1, <3>3 DEF Failed, Shape
    <3>. QED  BY <1>p, <2>1, <3>3, <3>6, <3>7
  <2>. QED  BY <2>2, <2>3
<1>10. CASE PostFails
  <2>1. /\ engine \in {"closing", "gone"} /\ engine' = "gone" /\ ~Ended
        /\ noStart' = noStart /\ ~noStart
        /\ summary' \in [Handlers -> {"idle", "count", "patch"}] /\ summary'["close"] = "idle"
    BY <1>10, <1>s, <1>c DEF PostFails, EngineInv, Ended, Shape
  <2>2. Ended'
    BY <2>1 DEF Ended
  <2>3. PICK p \in Docs : /\ p = Failure("post") /\ DocOK(p)' /\ IsEnd(p)
                          /\ Has(p, "stage") /\ p["stage"] = Failed
    BY <1>f, <2>1, <2>2 DEF Errors
  <2>4. Shape'
    BY <1>10, <1>s, <2>1, <2>3, AppendShape, NothingSpent DEF PostFails, Shape, Patch
  <2>5. EngineInv'
    BY <1>10, <1>s, <2>1, NothingSpent DEF PostFails, EngineInv
  <2>6. Onward
    BY <1>10, <1>s, <2>1, <2>2, <2>4, <2>5, NothingSpent DEF PostFails, Onward, Shape
  <2>7. Patch(p) /\ p["stage"] \in 1 .. Failed /\ p["stage"] >= reached
    BY <1>10, <1>s, <2>3 DEF PostFails, Failed, Shape
  <2>. QED  BY <1>p, <2>1, <2>3, <2>6, <2>7
<1>. QED  BY <1>2, <1>3, <1>4, <1>5, <1>6, <1>7, <1>8, <1>9, <1>10

\* A step of a handler that refreshes the summary.
LEMMA HandlerStep ==
    ASSUME RowInv,
           \/ \E h \in Handlers : Count(h) \/ PatchSummary(h)
           \/ \E f \in Vas : Lift(f)
           \/ ResetLifts
    PROVE  RowInv'
<1>s. Shape /\ PipeInv /\ EngineInv /\ EndInv
  BY DEF RowInv
<1>c. "close" \in Handlers /\ "reset" \in Handlers /\ Vas \subseteq Handlers /\ "close" \notin Vas
  BY VasAssumption DEF Handlers
<1>a. ASSUME Shape', EngineInv', deleted' <=> deleted, restarted' <=> restarted,
             UNCHANGED <<image, noStart, reached, engine, meta, queue, taken>>,
             Ended => Ended'
      PROVE  \A d \in Rows \cup Pending : DocOK(d)'
  BY <1>a, <1>s, DocStays DEF PipeInv, Shape
\* One that sends nothing.
<1>q. ASSUME Shape', EngineInv', deleted' <=> deleted, restarted' <=> restarted,
             UNCHANGED <<image, noStart, reached, engine, meta, queue, taken, reads>>,
             Ended' <=> Ended
      PROVE  RowInv'
  <2>1. PipeInv' /\ Pending' = Pending
    BY <1>q, <1>a, <1>s, SameStep
  <2>2. EndInv'
    BY <1>q, <1>s, <2>1 DEF EndInv
  <2>. QED  BY <1>q, <2>1, <2>2 DEF RowInv
<1>1. ASSUME NEW h \in Handlers, Count(h) PROVE RowInv'
  <2>1. Cardinality(lifts) \in Nat
    BY <1>s, VasAssumption, FS_Subset, FS_CardinalityType DEF Shape
  <2>2. summary[h] = "count" /\ summary' = [summary EXCEPT ![h] = "patch"]
        /\ summary'["close"] = "idle" <=> summary["close"] = "idle"
    BY <1>1, <1>s, <1>c DEF Count, Shape
  <2>3. Shape'
    BY <1>1, <1>s, <2>1, <2>2, NothingSpent DEF Count, Shape
  <2>4. EngineInv' /\ (Ended' <=> Ended)
    BY <1>1, <1>s, <2>2, NothingSpent DEF Count, EngineInv, Ended
  <2>. QED  BY <1>1, <1>q, <1>s, <2>3, <2>4, NothingSpent DEF Count
<1>2. ASSUME NEW h \in Handlers, PatchSummary(h) PROVE RowInv'
  <2>. PICK n : n = seen[h]
    OBVIOUS
  <2>1. n \in Nat /\ summary[h] = "patch" /\ summary' = [summary EXCEPT ![h] = "idle"]
    BY <1>2, <1>s DEF PatchSummary, Shape
  <2>2. CASE h = "close"
    <3>. PICK p : p = [lifted_count |-> n, stage |-> Done, error |-> "none"]
      OBVIOUS
    <3>1. Done \in Nat /\ "none" \in Errors
      BY DEF Done, Errors
    <3>2. /\ p \in Docs /\ DOMAIN p = {"lifted_count", "stage", "error"}
          /\ p["lifted_count"] = n /\ p["stage"] = Done /\ p["error"] = "none"
      BY <2>1, <3>1, Literals
    <3>3. IsDoc(p) /\ IsEnd(p)
      BY <2>1, <3>2 DEF IsDoc, IsEnd, Has, Keys, Errors, Done, Failed
    <3>4. ~Ended /\ Ended' /\ ~noStart /\ engine = "gone" /\ (image \/ deleted)
      BY <1>2, <1>s, <1>c, <2>1, <2>2 DEF PatchSummary, EngineInv, Ended, Shape
    <3>5. DocOK(p)'
      BY <1>2, <1>s, <3>2, <3>3, <3>4, NothingSpent DEF PatchSummary, DocOK, Has
    <3>p. p["stage"] \in 1 .. Failed /\ p["stage"] >= reached /\ reached \in 0 .. Stages
      BY <1>s, <3>2 DEF Shape, Done, Failed
    <3>6. \A d \in Rows \cup Pending : Follows(d, p)
      BY <1>s, <3>p, <3>4, FollowsUntilEnd DEF PipeInv
    <3>7. Patch(p)
      BY <1>2, <2>2 DEF PatchSummary
    <3>8. Shape'
      BY <1>2, <1>s, <2>1, <3>2, <3>7, AppendShape, NothingSpent
      DEF PatchSummary, Shape, Patch
    <3>9. EngineInv'
      BY <1>2, <1>s, <1>c, <2>1, <2>2, <3>4, NothingSpent DEF PatchSummary, EngineInv, Shape
    <3>10. PipeInv' /\ Pending' = Pending \cup {p}
      BY <1>2, <1>a, <1>s, <3>2, <3>4, <3>5, <3>6, <3>7, <3>8, <3>9, PatchStep, NothingSpent
      DEF PatchSummary
    <3>11. EndInv'
      BY <1>2, <1>s, <3>3, <3>10, NothingSpent DEF PatchSummary, EndInv
    <3>. QED  BY <3>8, <3>9, <3>10, <3>11 DEF RowInv
  <2>3. CASE h # "close"
    <3>. PICK p : p = [lifted_count |-> n]
      OBVIOUS
    <3>1. p \in Docs /\ DOMAIN p = {"lifted_count"} /\ p["lifted_count"] = n
      BY <2>1, Literals
    <3>2. IsDoc(p) /\ DocOK(p)'
      BY <2>1, <3>1 DEF IsDoc, DocOK, IsEnd, Has, Keys
    <3>3. \A d \in Rows \cup Pending : Follows(d, p)
      BY <3>1, FollowsAlways DEF Has
    <3>4. Patch(p)
      BY <1>2, <2>3 DEF PatchSummary
    <3>5. Shape'
      BY <1>2, <1>s, <2>1, <3>1, <3>4, AppendShape, NothingSpent
      DEF PatchSummary, Shape, Patch
    <3>6. EngineInv' /\ (Ended' <=> Ended)
      BY <1>2, <1>s, <1>c, <2>1, <2>3, NothingSpent DEF PatchSummary, EngineInv, Ended, Shape
    <3>7. PipeInv' /\ Pending' = Pending \cup {p}
      BY <1>2, <1>a, <1>s, <3>1, <3>2, <3>3, <3>4, <3>5, <3>6, PatchStep, NothingSpent
      DEF PatchSummary
    <3>8. EndInv'
      BY <1>2, <1>s, <3>6, <3>7, NothingSpent DEF PatchSummary, EndInv
    <3>. QED  BY <3>5, <3>6, <3>7, <3>8 DEF RowInv
  <2>. QED  BY <2>2, <2>3
<1>3. ASSUME NEW f \in Vas, Lift(f) PROVE RowInv'
  <2>1. summary'["close"] = summary["close"]
    BY <1>3, <1>s, <1>c DEF Lift, Shape
  <2>2. Shape'
    BY <1>3, <1>s, <1>c, SpendShape DEF Lift, Shape, Events
  <2>3. EngineInv' /\ (Ended' <=> Ended)
    BY <1>3, <1>s, <2>1, SpendShape DEF Lift, EngineInv, Ended, Events
  <2>. QED  BY <1>3, <1>q, <1>s, <2>2, <2>3, SpendShape DEF Lift, Events
<1>4. CASE ResetLifts
  <2>1. summary'["close"] = summary["close"]
    BY <1>4, <1>s, <1>c DEF ResetLifts, Shape
  <2>2. Shape'
    BY <1>4, <1>s, <1>c, SpendShape DEF ResetLifts, Shape, Events
  <2>3. EngineInv' /\ (Ended' <=> Ended)
    BY <1>4, <1>s, <2>1, SpendShape DEF ResetLifts, EngineInv, Ended, Events
  <2>. QED  BY <1>4, <1>q, <1>s, <2>2, <2>3, SpendShape DEF ResetLifts, Events
<1>. QED  BY <1>1, <1>2, <1>3, <1>4

\* The read of the oldest call answers: its patch is queued, or the run is gone.
LEMMA CheckedStep ==
    ASSUME RowInv, InOrder, Checked
    PROVE  RowInv'
<1>s. Shape /\ PipeInv /\ EngineInv /\ EndInv
  BY DEF RowInv
<1>1. /\ reads # <<>> /\ reads' = Tail(reads)
      /\ queue' = IF meta = NoDoc THEN queue ELSE Append(queue, Head(reads))
  <2>1. PICK i \in DOMAIN reads :
           /\ InOrder => i = 1
           /\ reads' = RemoveAt(reads, i)
           /\ queue' = IF meta = NoDoc THEN queue ELSE Append(queue, reads[i])
    BY DEF Checked
  <2>2. reads \in Seq(Docs) /\ reads # <<>>
    BY <1>s, <2>1 DEF Shape
  <2>. QED  BY <2>1, <2>2, HeadShape
<1>u. UNCHANGED <<meta, image, lifts, engine, reached, noStart, taken, summary, seen, left>>
  BY DEF Checked
<1>2. /\ Tail(reads) \in Seq(Docs) /\ Head(reads) \in Docs /\ Head(reads) \in ToSet(reads)
      /\ ToSet(reads) = {Head(reads)} \cup ToSet(Tail(reads))
      /\ Sorted(Tail(reads)) /\ \A b \in ToSet(Tail(reads)) : Follows(Head(reads), b)
  BY <1>s, <1>1, HeadShape DEF Shape, PipeInv
<1>. DEFINE x == Head(reads)
            r == Tail(reads)
<1>3. \A d \in Rows \cup Pending : DocOK(d)'
  BY <1>s, <1>u, DocStays, NothingSpent DEF PipeInv, Shape, Ended
<1>4. CASE meta = NoDoc
  <2>1. queue' = queue /\ reads' = r
    BY <1>1, <1>4
  <2>. HIDE DEF x, r
  <2>2. Rows' = Rows /\ Pending' \subseteq Pending
    BY <1>2, <1>u, <2>1 DEF Rows, Pending, r
  <2>3. PipeInv'
    BY <1>s, <1>u, <1>2, <1>3, <2>1, <2>2 DEF PipeInv, Sorted, r
  <2>4. deleted \/ engine = "none" \/ restarted
    BY <1>s, <1>4 DEF EndInv, NoDoc, Has
  <2>5. EndInv' /\ EngineInv'
    BY <1>s, <1>u, <2>1, <2>4, NothingSpent DEF EndInv, EngineInv, Ended
  <2>6. Shape'
    BY <1>s, <1>u, <1>2, <2>1 DEF Shape, r
  <2>. QED  BY <2>3, <2>5, <2>6 DEF RowInv
<1>5. CASE meta # NoDoc
  <2>1. queue' = Append(queue, x) /\ reads' = r
    BY <1>1, <1>5
  <2>2. x \in ToSet(reads) /\ \A a \in ToSet(queue) : Follows(a, x)
    BY <1>s, <1>2 DEF PipeInv
  <2>. HIDE DEF x, r
  <2>3. /\ queue' \in Seq(Docs) /\ queue' # <<>>
        /\ ToSet(queue') = ToSet(queue) \cup {x} /\ Sorted(queue')
    BY <1>s, <1>2, <2>1, <2>2, AppendShape DEF Shape, PipeInv, x
  <2>4. Rows' = Rows /\ Pending' = Pending
    BY <1>2, <1>u, <2>1, <2>3 DEF Rows, Pending, x, r
  <2>5. \A a \in ToSet(queue'), b \in ToSet(reads') : Follows(a, b)
    BY <1>s, <1>2, <2>1, <2>3 DEF PipeInv, x, r
  <2>6. PipeInv'
    BY <1>s, <1>u, <1>2, <1>3, <2>1, <2>3, <2>4, <2>5 DEF PipeInv, Sorted, r
  <2>7. EndInv' /\ EngineInv'
    BY <1>s, <1>u, <1>5, <2>3, <2>4, NothingSpent DEF EndInv, EngineInv, Ended
  <2>8. Shape'
    BY <1>s, <1>u, <1>2, <2>1, <2>3 DEF Shape, r
  <2>. QED  BY <2>6, <2>7, <2>8 DEF RowInv
<1>. QED  BY <1>4, <1>5

LEMMA MergeReadStep ==
    ASSUME RowInv, MergeRead
    PROVE  RowInv'
<1>s. Shape /\ PipeInv /\ EngineInv /\ EndInv
  BY DEF RowInv
<1>u. UNCHANGED <<meta, image, lifts, engine, reached, noStart, reads, queue, summary, seen, left>>
      /\ taken' = <<meta>> /\ queue # <<>>
  BY DEF MergeRead
<1>1. /\ <<meta>> \in Seq(Docs) /\ Len(<<meta>>) = 1 /\ ToSet(<<meta>>) = {meta}
      /\ <<meta>>[1] = meta
  BY <1>s DEF Shape, ToSet
<1>2. Rows' = {meta} /\ Pending' = Pending
  BY <1>1, <1>u DEF Rows, Pending
<1>3. \A d \in Rows \cup Pending : DocOK(d)'
  BY <1>s, <1>u, DocStays, NothingSpent DEF PipeInv, Shape, Ended
<1>4. PipeInv'
  BY <1>s, <1>u, <1>1, <1>2, <1>3 DEF PipeInv, Sorted, Rows
<1>5. EndInv' /\ EngineInv'
  BY <1>s, <1>u, <1>2, NothingSpent DEF EndInv, EngineInv, Ended
<1>6. Shape'
  BY <1>s, <1>u, <1>1 DEF Shape
<1>. QED  BY <1>4, <1>5, <1>6 DEF RowInv

\* What a merge writes follows what it read and precedes what waits.
LEMMA MergeFollows ==
    ASSUME NEW d \in Docs, NEW p \in Docs, DocOK(d), DocOK(p), Follows(d, p)
    PROVE  /\ DocOK(Merge(d, p))
           /\ Has(d, "stage") => Has(Merge(d, p), "stage")
                                 /\ d["stage"] <= Merge(d, p)["stage"]
           /\ IsEnd(d) \/ IsEnd(p) => IsEnd(Merge(d, p))
           /\ \A b : Follows(d, b) /\ Follows(p, b) => Follows(Merge(d, p), b)
<1>. DEFINE m == Merge(d, p)
<1>1. /\ m \in Docs
      /\ \A k : Has(m, k) <=> Has(d, k) \/ Has(p, k)
      /\ \A k : Has(p, k) => m[k] = p[k]
      /\ \A k : Has(d, k) /\ ~Has(p, k) => m[k] = d[k]
  BY MergeShape
<1>. HIDE DEF m
<1>2. DOMAIN m \subseteq Keys
  BY <1>1, DocParts
<1>3. /\ Has(d, "stage") => d["stage"] \in 1 .. Failed
      /\ Has(p, "stage") => p["stage"] \in 1 .. Failed
  BY DEF DocOK, IsDoc
<1>4. IsDoc(m)
  BY <1>1, <1>2 DEF DocOK, IsDoc
<1>5. IsEnd(d) \/ IsEnd(p) => IsEnd(m)
  BY <1>1 DEF IsEnd, Follows
<1>6. Has(m, "stage") /\ m["stage"] = Done => Has(m, "lifted_count") /\ (image \/ deleted)
  BY <1>1 DEF DocOK
<1>7. ASSUME IsEnd(m) PROVE /\ Has(m, "error")
                            /\ (m["stage"] = Done) = (m["error"] = "none")
                            /\ noStart => m["error"] = "spawn"
  <2>1. CASE Has(p, "stage")
    <3>1. IsEnd(p) /\ m["stage"] = p["stage"]
      BY <1>1, <1>7, <2>1 DEF IsEnd
    <3>. QED  BY <1>1, <3>1 DEF DocOK
  <2>2. CASE ~Has(p, "stage")
    <3>1. IsEnd(d) /\ m["stage"] = d["stage"] /\ ~Has(p, "error")
      BY <1>1, <1>7, <2>2 DEF IsEnd, Follows
    <3>. QED  BY <1>1, <3>1 DEF DocOK
  <2>. QED  BY <2>1, <2>2
<1>8. ~Ended /\ Has(m, "stage") => m["stage"] <= reached \/ m["stage"] = 1
  BY <1>1 DEF DocOK
<1>9. Has(d, "stage") => Has(m, "stage") /\ d["stage"] <= m["stage"]
  BY <1>1, <1>3 DEF Follows
<1>10. \A b : Follows(d, b) /\ Follows(p, b) => Follows(m, b)
  <2>. SUFFICES ASSUME NEW b, Follows(d, b), Follows(p, b) PROVE Follows(m, b)
    OBVIOUS
  <2>1. Has(m, "stage") /\ Has(b, "stage") => m["stage"] <= b["stage"]
    BY <1>1 DEF Follows
  <2>2. IsEnd(m) => IsEnd(d) \/ IsEnd(p)
    BY <1>1 DEF IsEnd
  <2>. QED  BY <2>1, <2>2 DEF Follows
<1>11. DocOK(m)
  BY <1>4, <1>6, <1>7, <1>8 DEF DocOK
<1>. QED  BY <1>5, <1>9, <1>10, <1>11 DEF m

LEMMA MergeWriteStep ==
    ASSUME RowInv, MergeWrite
    PROVE  /\ RowInv'
           /\ Has(meta, "stage") => Has(meta', "stage") /\ meta["stage"] <= meta'["stage"]
<1>s. Shape /\ PipeInv /\ EngineInv /\ EndInv
  BY DEF RowInv
<1>u. /\ UNCHANGED <<image, lifts, engine, reached, noStart, reads, summary, seen, left>>
      /\ taken # <<>> /\ taken' = <<>> /\ queue' = Tail(queue)
      /\ meta' = Merge(taken[1], Head(queue))
  BY DEF MergeWrite
<1>. DEFINE d == taken[1]
            p == Head(queue)
            q == Tail(queue)
<1>1. queue # <<>> /\ (d = meta \/ meta = NoDoc)
  BY <1>s, <1>u DEF PipeInv
<1>2. d \in Docs /\ d \in ToSet(taken) /\ d \in Rows
  BY <1>s, <1>u, HeadShape DEF Shape, Rows
<1>3. /\ q \in Seq(Docs) /\ p \in Docs /\ p \in ToSet(queue)
      /\ ToSet(queue) = {p} \cup ToSet(q)
      /\ Sorted(q) /\ \A b \in ToSet(q) : Follows(p, b)
  BY <1>s, <1>1, HeadShape DEF Shape, PipeInv
<1>4. meta' = Merge(d, p) /\ queue' = q
  BY <1>u
<1>. HIDE DEF d, p, q
<1>5. DocOK(d) /\ DocOK(p) /\ Follows(d, p)
  BY <1>s, <1>2, <1>3 DEF PipeInv, Pending
<1>6. /\ DocOK(meta') /\ meta' \in Docs
      /\ Has(d, "stage") => Has(meta', "stage") /\ d["stage"] <= meta'["stage"]
      /\ IsEnd(d) \/ IsEnd(p) => IsEnd(meta')
      /\ \A b : Follows(d, b) /\ Follows(p, b) => Follows(meta', b)
      /\ \A k : Has(meta', k) <=> Has(d, k) \/ Has(p, k)
  BY <1>2, <1>3, <1>4, <1>5, MergeFollows, MergeShape
<1>7. \A b \in Pending' : b \in Pending /\ Follows(meta', b)
  BY <1>s, <1>u, <1>2, <1>3, <1>4, <1>6 DEF PipeInv, Pending
<1>8. Rows' = {meta'}
  BY <1>u, EmptyShape DEF Rows
<1>9. \A e : DocOK(e) => DocOK(e)'
  BY <1>s, <1>u, DocStays, NothingSpent DEF Shape, Ended
<1>10. PipeInv'
  <2>1. \A e \in Rows' \cup Pending' : DocOK(e)'
    BY <1>s, <1>6, <1>7, <1>8, <1>9 DEF PipeInv
  <2>2. \A a \in ToSet(queue'), b \in ToSet(reads') : Follows(a, b)
    BY <1>s, <1>u, <1>3, <1>4 DEF PipeInv
  <2>. QED  BY <1>s, <1>u, <1>3, <1>4, <1>7, <1>8, <2>1, <2>2 DEF PipeInv, Sorted
<1>11. EngineInv'
  BY <1>s, <1>u, <1>1, NothingSpent DEF EngineInv
<1>12. EndInv'
  <2>. SUFFICES ASSUME ~deleted, ~restarted
                PROVE  /\ engine # "none" => Has(meta', "stage") /\ Has(meta', "error")
                       /\ Ended => \E e \in {meta'} \cup Pending' : IsEnd(e)
    BY <1>s, <1>u, NothingSpent DEF EndInv, Ended
  <2>1. engine # "none"
    BY <1>s, <1>1 DEF EngineInv
  <2>2. Has(meta, "stage") /\ Has(meta, "error") /\ d = meta
    BY <1>s, <1>1, <2>1 DEF EndInv, NoDoc, Has
  <2>3. ASSUME Ended PROVE \E e \in {meta'} \cup Pending' : IsEnd(e)
    <3>1. PICK e \in {meta} \cup Pending : IsEnd(e)
      BY <1>s, <2>3 DEF EndInv
    <3>2. CASE e \in {meta, p}
      BY <1>6, <2>2, <3>1, <3>2
    <3>3. CASE e \notin {meta, p}
      BY <1>3, <1>4, <1>u, <3>1, <3>3 DEF Pending
    <3>. QED  BY <3>2, <3>3
  <2>. QED  BY <1>6, <2>2, <2>3
<1>13. Shape'
  <2>1. <<>> \in Seq(Docs) /\ Len(<<>>) = 0
    BY EmptySeq
  <2>2. meta' \in Docs /\ queue' \in Seq(Docs)
    BY <1>3, <1>4, <1>6
  <2>3. taken' \in Seq(Docs)
    BY <1>u, <2>1
  <2>4. Len(taken') <= 1
    BY <1>u, <2>1
  <2>. QED  BY <1>s, <1>u, <2>2, <2>3, <2>4 DEF Shape
<1>14. Has(meta, "stage") => Has(meta', "stage") /\ meta["stage"] <= meta'["stage"]
  BY <1>1, <1>6 DEF NoDoc, Has
<1>. QED  BY <1>10, <1>11, <1>12, <1>13, <1>14 DEF RowInv

LEMMA OutsideStep ==
    ASSUME RowInv, Upload \/ Delete \/ Restart
    PROVE  /\ RowInv'
           /\ Has(meta, "stage") /\ Has(meta', "stage") => meta["stage"] <= meta'["stage"]
<1>s. Shape /\ PipeInv /\ EngineInv /\ EndInv
  BY DEF RowInv
<1>1. CASE Upload
  <2>. PICK m : m = [run_id |-> 1, stage |-> 1, error |-> "none"]
    OBVIOUS
  <2>1. /\ m \in Docs /\ DOMAIN m = {"run_id", "stage", "error"}
        /\ m["run_id"] = 1 /\ m["stage"] = 1 /\ m["error"] = "none"
    BY Literals DEF Errors
  <2>2. IsDoc(m) /\ ~IsEnd(m) /\ ~(m["stage"] = Done)
    BY <2>1 DEF IsDoc, IsEnd, Has, Keys, Errors, Done, Failed
  <2>3. /\ meta = NoDoc /\ ~deleted /\ ~restarted /\ queue = <<>> /\ reached = 0
        /\ engine = "none" /\ engine' = "new" /\ meta' = m /\ ~Ended /\ ~Ended'
        /\ UNCHANGED <<image, lifts, reached, noStart, reads, queue, taken, summary, seen, left>>
    BY <1>1, <1>s DEF Upload, EngineInv, Ended
  <2>4. taken = <<>> /\ Rows' = {m} /\ Pending' = Pending
    BY <1>s, <2>3, EmptyShape DEF PipeInv, Rows, Pending
  <2>5. DocOK(m)'
    BY <2>1, <2>2 DEF DocOK
  <2>6. \A d \in Pending : DocOK(d)'
    BY <1>s, <2>3, DocStays, NothingSpent DEF PipeInv, Shape
  <2>7. \A p \in Pending : Follows(m, p)
    BY <1>s, <2>1, <2>2 DEF Follows, PipeInv, DocOK, IsDoc, Failed
  <2>8. PipeInv'
    BY <1>s, <2>3, <2>4, <2>5, <2>6, <2>7 DEF PipeInv, Sorted
  <2>9. EngineInv' /\ EndInv'
    BY <1>s, <2>1, <2>3, NothingSpent DEF EngineInv, EndInv, Has
  <2>10. Shape'
    BY <1>s, <2>1, <2>3 DEF Shape
  <2>. QED  BY <2>3, <2>8, <2>9, <2>10 DEF RowInv, NoDoc, Has
<1>2. CASE Delete
  <2>1. /\ meta' = NoDoc /\ deleted' /\ lifts' = {} /\ image' \in BOOLEAN /\ engine # "none"
        /\ UNCHANGED <<engine, reached, noStart, reads, queue, taken, summary, seen>>
    BY <1>2, <1>s, SpendShape DEF Delete, Events, EngineInv
  <2>2. NoDoc \in Docs /\ DocOK(NoDoc)' /\ \A p : Follows(NoDoc, p)
    BY Literals DEF DocOK, IsDoc, IsEnd, Follows, NoDoc, Has
  <2>3. \A d \in Rows \cup Pending : DocOK(d)'
    BY <1>s, <2>1, DocStays DEF PipeInv, Shape, Ended
  <2>4. Rows' \subseteq {NoDoc} \cup Rows /\ Pending' = Pending
    BY <2>1 DEF Rows, Pending
  <2>5. PipeInv'
    BY <1>s, <2>1, <2>2, <2>3, <2>4 DEF PipeInv, Sorted
  <2>6. EngineInv' /\ EndInv'
    BY <1>s, <2>1 DEF EngineInv, EndInv
  <2>7. Shape'
    BY <1>2, <1>s, <2>1, <2>2, SpendShape DEF Delete, Shape, Events
  <2>. QED  BY <2>1, <2>5, <2>6, <2>7 DEF RowInv, NoDoc, Has
<1>3. CASE Restart
  <2>1. /\ engine' = "gone" /\ reads' = <<>> /\ queue' = <<>> /\ taken' = <<>> /\ restarted'
        /\ summary' = [h \in Handlers |-> "idle"] /\ (deleted' <=> deleted) /\ engine # "none"
        /\ UNCHANGED <<meta, image, lifts, reached, noStart, seen>>
    BY <1>3, <1>s, SpendShape DEF Restart, Events
  <2>2. Ended' /\ summary'["close"] = "idle"
    BY <2>1 DEF Ended, Handlers
  <2>3. Rows' = {meta} /\ Pending' = {} /\ Sorted(reads') /\ Sorted(queue')
    BY <2>1, EmptyShape DEF Rows, Pending
  <2>4. DocOK(meta)'
    <3>1. \A d : DocOK(d) => DocOK(d)'
      BY <1>s, <2>1, <2>2, DocStays DEF Shape
    <3>. QED  BY <1>s, <2>1, <3>1 DEF PipeInv, Rows
  <2>5. PipeInv'
    <3>1. ToSet(queue') = {} /\ ToSet(reads') = {}
      BY <2>1, EmptyShape
    <3>. QED  BY <2>1, <2>3, <2>4, <3>1 DEF PipeInv, Sorted
  <2>6. EngineInv' /\ EndInv'
    BY <1>s, <2>1, <2>2 DEF EngineInv, EndInv
  <2>7. Shape'
    <3>1. <<>> \in Seq(Docs) /\ Len(<<>>) = 0
      BY EmptySeq
    <3>2. taken' \in Seq(Docs) /\ queue' \in Seq(Docs) /\ reads' \in Seq(Docs)
      BY <2>1, <3>1
    <3>3. Len(taken') <= 1
      BY <2>1, <3>1
    <3>. QED  BY <1>3, <1>s, <2>1, <3>2, <3>3, SpendShape DEF Restart, Shape, Events
  <2>. QED  BY <1>s, <2>1, <2>5, <2>6, <2>7 DEF RowInv, PipeInv, Rows, DocOK, IsDoc, Failed
<1>. QED  BY <1>1, <1>2, <1>3

LEMMA RowInit == Init => RowInv
<1>. SUFFICES ASSUME Init PROVE RowInv
  OBVIOUS
<1>1. ~deleted /\ ~restarted /\ \A e \in Events : left[e] <= Budget[e]
  BY DEF Init, deleted, restarted, Events
<1>2. NoDoc \in Docs /\ DocOK(NoDoc)
  BY Literals DEF DocOK, IsDoc, IsEnd, NoDoc, Has
<1>3. <<>> \in Seq(Docs) /\ Len(<<>>) = 0
  BY EmptySeq
<1>4. taken \in Seq(Docs) /\ queue \in Seq(Docs) /\ reads \in Seq(Docs)
  BY <1>3 DEF Init
<1>5. Len(taken) <= 1
  BY <1>3 DEF Init
<1>6. Shape
  <2>1. meta \in Docs /\ image \in BOOLEAN /\ lifts \in SUBSET Vas /\ noStart \in BOOLEAN
    BY <1>2 DEF Init
  <2>2. engine \in {"none", "new", "up", "unborn", "closing", "gone"}
    BY DEF Init
  <2>3. reached \in 0 .. Stages
    BY StagesAssumption DEF Init
  <2>4. summary \in [Handlers -> {"idle", "count", "patch"}] /\ seen \in [Handlers -> Nat]
    BY DEF Init
  <2>5. left \in [Events -> Nat]
    BY BudgetAssumption DEF Init
  <2>. QED  BY <1>1, <1>4, <1>5, <2>1, <2>2, <2>3, <2>4, <2>5 DEF Shape
<1>7. ToSet(queue) = {} /\ ToSet(reads) = {} /\ ToSet(taken) = {}
      /\ Sorted(queue) /\ Sorted(reads)
  BY EmptyShape DEF Init
<1>8. PipeInv
  BY <1>2, <1>7 DEF Init, PipeInv, Rows, Pending
<1>9. EngineInv /\ EndInv
  BY <1>1 DEF Init, EngineInv, EndInv, Ended, Handlers
<1>. QED  BY <1>6, <1>8, <1>9 DEF RowInv

LEMMA RowNext ==
    ASSUME RowInv, InOrder, [Next]_vars
    PROVE  RowInv' /\ StageNeverBack
<1>s. Shape /\ PipeInv
  BY DEF RowInv
<1>m. Has(meta, "stage") => meta["stage"] \in 1 .. Failed
  BY <1>s DEF PipeInv, Rows, DocOK, IsDoc
<1>b. meta' = meta => StageNeverBack
  BY <1>m DEF StageNeverBack, Failed
<1>1. CASE Upload \/ Delete \/ Restart
  BY <1>1, OutsideStep DEF StageNeverBack
<1>2. CASE MergeWrite
  BY <1>2, MergeWriteStep DEF StageNeverBack
<1>3. CASE Checked \/ MergeRead
  BY <1>3, <1>b, CheckedStep, MergeReadStep DEF Checked, MergeRead
<1>4. CASE \/ \E h \in Handlers : Count(h) \/ PatchSummary(h)
           \/ \E f \in Vas : Lift(f)
           \/ ResetLifts
  BY <1>4, <1>b, HandlerStep DEF Count, PatchSummary, Lift, ResetLifts
<1>5. CASE \/ Spawn \/ SpawnThrows \/ StartError \/ Line \/ WriteImage \/ Close \/ CloseOK
           \/ CheckImage \/ PostFails
  BY <1>5, <1>b, EngineStep
  DEF Spawn, SpawnThrows, StartError, Line, WriteImage, Close, CloseOK, CheckImage, PostFails
<1>6. CASE UNCHANGED vars
  <2>1. \A d \in Rows \cup Pending : DocOK(d)'
    BY <1>6, <1>s DEF vars, PipeInv, DocOK, Ended, deleted, IsDoc, IsEnd
  <2>2. PipeInv' /\ Pending' = Pending
    BY <1>6, <1>s, <2>1, SameStep DEF vars
  <2>3. Shape' /\ EngineInv' /\ EndInv'
    BY <1>6, <2>2, NothingSpent DEF vars, RowInv, Shape, EngineInv, EndInv, Ended
  <2>. QED  BY <1>6, <1>b, <2>2, <2>3 DEF vars, RowInv
<1>. QED  BY <1>1, <1>2, <1>3, <1>4, <1>5, <1>6 DEF Next, Proceed

LEMMA RowInvariance == ASSUME InOrder PROVE Spec => []RowInv
<1>1. RowInv /\ [Next]_vars => RowInv'
  BY RowNext
<1>. QED  BY <1>1, RowInit, PTL DEF Spec

\* A deleted row that nothing is queued for stays away.
LEMMA GoneStays ==
    ASSUME RowInv, [Next]_vars
    PROVE  StaysGone
<1>. SUFFICES ASSUME deleted, meta = NoDoc, queue = <<>>
              PROVE  meta' = NoDoc /\ queue' = <<>>
  BY DEF StaysGone
<1>1. engine # "none" /\ taken = <<>>
  BY DEF RowInv, EngineInv, PipeInv
<1>. QED
  BY <1>1 DEF Next, Proceed, Upload, Spawn, SpawnThrows, StartError, Line, WriteImage, Close,
              CloseOK, CheckImage, PostFails, Lift, ResetLifts, Count, PatchSummary, Checked,
              MergeRead, MergeWrite, Delete, Restart, vars

\* When the reads of patchMeta answer in the order they were made, the stage a
\* run shows never goes back and no write brings a deleted run's row back,
\* whatever the engine prints, however it ends, and wherever the server
\* restarts (runner.js l.191-194, store.js l.186-191).
THEOREM RowGoesForward == ASSUME InOrder PROVE Spec => RowOnlyForward
<1>1. RowInv /\ [Next]_vars => [StageNeverBack /\ StaysGone]_vars
  BY RowNext, GoneStays
<1>. QED  BY <1>1, RowInvariance, PTL DEF Spec, RowOnlyForward

LEMMA EndIsShown == RowInv => EndShown
<1>. SUFFICES ASSUME RowInv PROVE EndShown
  OBVIOUS
<1>1. DocOK(meta)
  BY DEF RowInv, PipeInv, Rows
<1>2. ASSUME Over
      PROVE  /\ meta["stage"] \in {Done, Failed}
             /\ (meta["stage"] = Done) = (meta["error"] = "none")
             /\ noStart => meta["error"] = "spawn"
  <2>1. engine = "gone" /\ reads = <<>> /\ queue = <<>> /\ Busy = {} /\ ~deleted /\ ~restarted
    BY <1>2 DEF Over, Settled
  <2>2. summary["close"] = "idle"
    BY <2>1 DEF Busy, Handlers
  <2>3. Pending = {}
    BY <2>1, EmptyShape DEF Pending
  <2>4. IsEnd(meta)
    BY <2>1, <2>2, <2>3 DEF RowInv, EndInv, Ended
  <2>5. meta["stage"] \in {Done, Failed}
    BY <1>1, <2>4 DEF DocOK, IsDoc, IsEnd, Done, Failed
  <2>. QED  BY <1>1, <2>4, <2>5 DEF DocOK
<1>. QED  BY <1>1, <1>2 DEF EndShown, DocOK

\* When the reads answer in order, a run whose analysis is over shows it: done,
\* or failed for the cause that came first; and done only with its image on
\* disk (runner.js l.110-112, l.142-148, l.227-229).
THEOREM EndIsTold == ASSUME InOrder PROVE Spec => []EndShown
BY RowInvariance, EndIsShown, PTL
-----------------------------------------------------------------------------
(* The count of the lifts.                                                 *)

LEMMA CountAppend ==
    ASSUME NEW s \in Seq(Docs), NEW x \in Docs, NEW n
    PROVE  /\ NoCount(Append(s, x)) <=> NoCount(s) /\ ~Has(x, "lifted_count")
           /\ Has(x, "lifted_count") /\ x["lifted_count"] = n => LastCount(Append(s, x), n)
           /\ ~Has(x, "lifted_count") /\ LastCount(s, n) => LastCount(Append(s, x), n)
<1>. DEFINE t == Append(s, x)
            m == Len(s)
<1>1. m \in Nat /\ DOMAIN s = 1 .. m
  BY LenProperties
<1>2. /\ t \in Seq(Docs) /\ Len(t) = m + 1
      /\ \A i \in 1 .. m : t[i] = s[i]
      /\ t[m + 1] = x
  BY AppendProperties
<1>3. DOMAIN t = 1 .. m + 1
  BY <1>2, LenProperties
<1>4. ToSet(t) = ToSet(s) \cup {x}
  BY AppendShape
<1>. HIDE DEF t, m
<1>5. \A i \in 1 .. m + 1 : i = m + 1 \/ (i \in 1 .. m /\ i < m + 1)
  BY <1>1
<1>6. m + 1 \in 1 .. m + 1 /\ \A i \in 1 .. m : i \in 1 .. m + 1
  BY <1>1
<1>7. ASSUME Has(x, "lifted_count"), x["lifted_count"] = n PROVE LastCount(t, n)
  BY <1>2, <1>3, <1>5, <1>6, <1>7 DEF LastCount
<1>8. ASSUME ~Has(x, "lifted_count"), LastCount(s, n) PROVE LastCount(t, n)
  <2>. SUFFICES ASSUME NEW i \in 1 .. m + 1, Has(t[i], "lifted_count"),
                       \A j \in 1 .. m + 1 : i < j => ~Has(t[j], "lifted_count")
                PROVE  t[i]["lifted_count"] = n
    BY <1>3 DEF LastCount
  <2>1. i \in 1 .. m
    BY <1>2, <1>5, <1>8
  <2>2. Has(s[i], "lifted_count") /\ \A j \in 1 .. m : i < j => ~Has(s[j], "lifted_count")
    BY <1>2, <1>6, <2>1
  <2>. QED  BY <1>1, <1>2, <1>8, <2>1, <2>2 DEF LastCount
<1>. QED  BY <1>4, <1>7, <1>8 DEF t, NoCount

LEMMA CountTail ==
    ASSUME NEW s \in Seq(Docs), s # <<>>, NEW n, LastCount(s, n)
    PROVE  /\ NoCount(s) <=> NoCount(Tail(s)) /\ ~Has(Head(s), "lifted_count")
           /\ LastCount(Tail(s), n)
           /\ NoCount(Tail(s)) /\ Has(Head(s), "lifted_count") => Head(s)["lifted_count"] = n
<1>. DEFINE t == Tail(s)
            m == Len(s)
<1>1. m \in Nat \ {0} /\ DOMAIN s = 1 .. m /\ Head(s) = s[1]
  BY EmptySeq, LenProperties, HeadTailProperties
<1>2. /\ t \in Seq(Docs) /\ Len(t) = m - 1
      /\ \A i \in 1 .. Len(t) : t[i] = s[i + 1]
  BY HeadTailProperties
<1>3. DOMAIN t = 1 .. m - 1
  BY <1>2, LenProperties
<1>4. ToSet(s) = {Head(s)} \cup ToSet(t)
  BY HeadShape
<1>. HIDE DEF t, m
<1>5. \A i \in 1 .. m - 1 : i + 1 \in 1 .. m /\ t[i] = s[i + 1]
  BY <1>1, <1>2
<1>6. \A j \in 1 .. m : j > 1 => j - 1 \in 1 .. m - 1 /\ s[j] = t[j - 1]
  <2>. SUFFICES ASSUME NEW j \in 1 .. m, j > 1 PROVE j - 1 \in 1 .. m - 1 /\ s[j] = t[j - 1]
    OBVIOUS
  <2>1. j - 1 \in 1 .. m - 1 /\ (j - 1) + 1 = j
    BY <1>1
  <2>. QED  BY <1>5, <2>1
<1>7. LastCount(t, n)
  <2>. SUFFICES ASSUME NEW i \in 1 .. m - 1, Has(t[i], "lifted_count"),
                       \A j \in 1 .. m - 1 : i < j => ~Has(t[j], "lifted_count")
                PROVE  t[i]["lifted_count"] = n
    BY <1>3 DEF LastCount
  <2>1. ASSUME NEW j \in 1 .. m, i + 1 < j PROVE ~Has(s[j], "lifted_count")
    <3>1. j > 1 /\ i < j - 1
      BY <1>1, <2>1
    <3>. QED  BY <1>6, <3>1
  <2>. QED  BY <1>1, <1>5, <2>1 DEF LastCount
<1>8. ASSUME NoCount(t), Has(s[1], "lifted_count") PROVE s[1]["lifted_count"] = n
  <2>1. ASSUME NEW j \in 1 .. m, 1 < j PROVE ~Has(s[j], "lifted_count")
    BY <1>3, <1>6, <1>8, <2>1 DEF NoCount, ToSet
  <2>2. 1 \in 1 .. m
    BY <1>1
  <2>. QED  BY <1>1, <1>8, <2>1, <2>2 DEF LastCount
<1>. QED  BY <1>1, <1>4, <1>7, <1>8 DEF t, NoCount

\* While every count is 0, so is the last one.
LEMMA ZeroCount ==
    ASSUME AllZero
    PROVE  CountIs(0)
BY DEF AllZero, CountIs, LastCount, Rows, Pending, ToSet

\* When one refresh at a time is allowed, one may begin only after the others.
LEMMA OneAtATime == Overlap = 1 /\ Free => Busy = {}
<1>1. IsFiniteSet({"close", "reset"})
  <2>1. IsFiniteSet({} \cup {"close"})
    BY FS_EmptySet, FS_AddElement
  <2>2. IsFiniteSet(({} \cup {"close"}) \cup {"reset"})
    BY <2>1, FS_AddElement
  <2>3. ({} \cup {"close"}) \cup {"reset"} = {"close", "reset"}
    OBVIOUS
  <2>. QED  BY <2>2, <2>3
<1>2. IsFiniteSet(Handlers)
  BY <1>1, VasAssumption, FS_Union DEF Handlers
<1>3. IsFiniteSet(Busy) /\ Cardinality(Busy) \in Nat
  BY <1>2, FS_Subset, FS_CardinalityType DEF Busy
<1>. QED  BY <1>3, FS_EmptySet DEF Free

\* Before the analysis is over nothing is lifted, so every count is 0.
LEMMA EarlyCounts ==
    ASSUME Early, ~deleted, ~restarted, CountInv, lifts' = lifts, AllZero',
           deleted' <=> deleted, restarted' <=> restarted,
           \A h \in Handlers : summary'[h] = "patch" => seen'[h] = 0
    PROVE  CountInv'
<1>1. lifts = {} /\ Cardinality({}) = 0
  BY FS_EmptySet DEF CountInv
<1>2. CountIs(0)'
  BY ZeroCount, PTL
<1>. QED  BY <1>1, <1>2 DEF CountInv

\* A step of the engine or of its listeners: it sends at most one patch, which
\* carries no count.
LEMMA EngineCounts ==
    ASSUME RowInv, CountInv,
           \/ Spawn \/ SpawnThrows \/ StartError \/ Line \/ WriteImage \/ Close \/ CloseOK
           \/ CheckImage \/ PostFails
    PROVE  CountInv'
<1>s. Shape /\ EngineInv
  BY DEF RowInv
<1>. SUFFICES ASSUME ~deleted', ~restarted' PROVE CountInv'
  BY DEF CountInv
<1>1. UNCHANGED <<meta, queue, taken, lifts, seen>> /\ Early
  BY <1>s DEF Spawn, SpawnThrows, StartError, Line, WriteImage, Close, CloseOK, CheckImage,
              PostFails, Early
<1>2. /\ (deleted' <=> deleted) /\ (restarted' <=> restarted)
  <2>1. CASE Line
    BY <2>1, <1>s, SpendShape DEF Line, Events
  <2>2. CASE ~Line
    <3>1. left' = left
      BY <2>2 DEF Spawn, SpawnThrows, StartError, WriteImage, Close, CloseOK, CheckImage, PostFails
    <3>. QED  BY <3>1, <1>s, NothingSpent
  <2>. QED  BY <2>1, <2>2
<1>3. \A h \in Handlers : summary'[h] = "patch" => summary[h] = "patch"
  BY <1>s DEF Spawn, SpawnThrows, StartError, Line, WriteImage, Close, CloseOK, CheckImage,
              PostFails, Shape
<1>4. reads' = reads \/ \E p \in Docs : Patch(p) /\ ~Has(p, "lifted_count")
  <2>1. \A e \in Errors : /\ Failure(e) \in Docs /\ ~Has(Failure(e), "lifted_count")
    <3>. SUFFICES ASSUME NEW e \in Errors
                  PROVE  Failure(e) \in Docs /\ ~Has(Failure(e), "lifted_count")
      OBVIOUS
    <3>. PICK p : p = [stage |-> Failed, error |-> e]
      OBVIOUS
    <3>1. Failed \in Nat
      BY DEF Failed
    <3>2. p \in Docs /\ DOMAIN p = {"stage", "error"}
      BY <3>1, Literals
    <3>. QED  BY <3>2 DEF Failure, Has
  <2>2. {"spawn", "exit", "image", "post", "none"} \subseteq Errors
    BY DEF Errors
  <2>3. CASE Spawn
    <3>. PICK p : p = [stage |-> 2, error |-> "none"]
      OBVIOUS
    <3>1. p \in Docs /\ DOMAIN p = {"stage", "error"}
      BY <2>2, Literals
    <3>. QED  BY <2>3, <3>1 DEF Spawn, Has
  <2>4. CASE Line
    <3>1. PICK s \in {0} \cup 2 .. Stages : Patch(IF s > reached THEN [stage |-> s] ELSE NoDoc)
      BY <2>4 DEF Line
    <3>. PICK p : p = IF s > reached THEN [stage |-> s] ELSE NoDoc
      OBVIOUS
    <3>2. s \in Nat
      OBVIOUS
    <3>3. p \in Docs /\ DOMAIN p \subseteq {"stage"}
      BY <3>2, Literals DEF NoDoc
    <3>. QED  BY <3>1, <3>3 DEF Has
  <2>. QED  BY <2>1, <2>2, <2>3, <2>4
       DEF SpawnThrows, StartError, WriteImage, Close, CloseOK, CheckImage, PostFails
<1>5. AllZero'
  <2>1. AllZero
    BY <1>1, <1>2 DEF CountInv
  <2>2. Rows' = Rows
    BY <1>1 DEF Rows
  <2>3. \A d \in Pending' : d \in Pending \/ ~Has(d, "lifted_count")
    <3>1. Pending' = ToSet(queue) \cup ToSet(reads')
      BY <1>1 DEF Pending
    <3>2. CASE reads' = reads
      BY <3>1, <3>2 DEF Pending
    <3>3. CASE \E x \in Docs : Patch(x) /\ ~Has(x, "lifted_count")
      <4>1. PICK x \in Docs : reads' = Append(reads, x) /\ ~Has(x, "lifted_count")
        BY <3>3 DEF Patch
      <4>2. ToSet(reads') = ToSet(reads) \cup {x}
        BY <1>s, <4>1, AppendShape DEF Shape
      <4>. QED  BY <3>1, <4>1, <4>2 DEF Pending
    <3>. QED  BY <1>4, <3>2, <3>3
  <2>. QED  BY <2>1, <2>2, <2>3 DEF AllZero
<1>6. Cardinality(lifts) = 0
  BY <1>1, <1>2, FS_EmptySet DEF CountInv
<1>. QED  BY <1>1, <1>2, <1>3, <1>5, <1>6, EarlyCounts DEF CountInv

\* A handler that refreshes the summary, the only one to do so.
LEMMA HandlerCounts ==
    ASSUME RowInv, CountInv, Overlap = 1,
           \/ \E h \in Handlers : Count(h) \/ PatchSummary(h)
           \/ \E f \in Vas : Lift(f)
           \/ ResetLifts
    PROVE  CountInv'
<1>s. Shape
  BY DEF RowInv
<1>c. "close" \in Handlers /\ "reset" \in Handlers /\ Vas \subseteq Handlers
      /\ "close" \notin Vas
  BY VasAssumption DEF Handlers
<1>e. Cardinality({}) = 0
  BY FS_EmptySet
<1>. SUFFICES ASSUME ~deleted', ~restarted' PROVE CountInv'
  BY DEF CountInv
<1>1. ASSUME NEW h \in Handlers, Count(h) PROVE CountInv'
  <2>1. /\ UNCHANGED <<meta, queue, taken, reads, lifts, engine, left>>
        /\ summary[h] = "count" /\ summary' = [summary EXCEPT ![h] = "patch"]
        /\ seen' = [seen EXCEPT ![h] = Cardinality(lifts)]
    BY <1>1 DEF Count
  <2>2. ~deleted /\ ~restarted
    BY <1>s, <2>1, NothingSpent
  <2>3. Early' => Early
    BY <1>s, <1>c, <2>1 DEF Early, Shape
  <2>4. AllZero => AllZero'
    BY <2>1 DEF AllZero, Rows, Pending
  <2>5. summary'[h] = "patch"
    BY <1>s, <2>1 DEF Shape
  <2>6. Busy' # {}
    BY <2>5 DEF Busy
  <2>7. \A k \in Handlers : summary'[k] = "patch" => seen'[k] = Cardinality(lifts)
    BY <1>s, <2>1, <2>2 DEF Shape, CountInv
  <2>. QED  BY <2>1, <2>2, <2>3, <2>4, <2>6, <2>7 DEF CountInv
<1>2. ASSUME NEW h \in Handlers, PatchSummary(h) PROVE CountInv'
  <2>1. /\ UNCHANGED <<meta, queue, taken, lifts, engine, left, seen>>
        /\ summary[h] = "patch" /\ summary' = [summary EXCEPT ![h] = "idle"]
    BY <1>2 DEF PatchSummary
  <2>2. ~deleted /\ ~restarted
    BY <1>s, <2>1, NothingSpent
  <2>. PICK n : n = Cardinality(lifts)
    OBVIOUS
  <2>3. seen[h] = n /\ n \in Nat
    BY <1>s, <2>1, <2>2 DEF CountInv, Shape
  <2>4. PICK x \in Docs : Patch(x) /\ Has(x, "lifted_count") /\ x["lifted_count"] = n
    <3>. PICK x : x = IF h = "close" THEN [lifted_count |-> n, stage |-> Done, error |-> "none"]
                                     ELSE [lifted_count |-> n]
      OBVIOUS
    <3>1. Done \in Nat /\ "none" \in Errors
      BY DEF Done, Errors
    <3>2. x \in Docs /\ "lifted_count" \in DOMAIN x /\ x["lifted_count"] = n
      BY <2>3, <3>1, Literals
    <3>3. Patch(x)
      BY <1>2, <2>3 DEF PatchSummary
    <3>. QED  BY <3>2, <3>3 DEF Has
  <2>5. /\ reads \in Seq(Docs) /\ reads' = Append(reads, x)
        /\ ToSet(reads') = ToSet(reads) \cup {x}
        /\ LastCount(reads', n) /\ ~NoCount(reads')
    BY <1>s, <2>4, CountAppend, AppendShape DEF Shape, Patch
  <2>6. CountIs(n)'
    BY <2>5 DEF CountIs, LastCount, NoCount
  <2>7. Early' => Early
    BY <1>s, <1>c, <2>1 DEF Early, Shape
  <2>8. AllZero /\ n = 0 => AllZero'
    BY <2>1, <2>4, <2>5 DEF AllZero, Rows, Pending
  <2>9. \A k \in Handlers : summary'[k] = "patch" => seen'[k] = n
    BY <1>s, <2>1, <2>2 DEF Shape, CountInv
  <2>10. Cardinality(lifts)' = n
    BY <2>1
  <2>. QED  BY <1>e, <2>1, <2>2, <2>6, <2>7, <2>8, <2>9, <2>10 DEF CountInv
<1>3. ASSUME NEW f \in Vas, Lift(f) PROVE CountInv'
  <2>1. /\ summary' = [summary EXCEPT ![f] = "count"]
        /\ Free /\ engine = "gone" /\ engine' = engine
    BY <1>3 DEF Lift
  <2>2. Busy = {}
    BY <2>1, OneAtATime
  <2>3. summary'[f] = "count" /\ \A k \in Handlers \ {f} : summary'[k] = "idle"
    BY <1>s, <1>c, <2>1, <2>2 DEF Busy, Shape
  <2>4. ~Early'
    BY <1>c, <2>1, <2>3 DEF Early
  <2>5. Busy' # {}
    BY <1>c, <2>3 DEF Busy
  <2>. QED  BY <2>3, <2>4, <2>5 DEF CountInv
<1>4. CASE ResetLifts
  <2>1. /\ summary' = [summary EXCEPT !["reset"] = "count"]
        /\ Free /\ engine' = engine /\ lifts' = {} /\ Spend("reset")
        /\ UNCHANGED <<meta, queue, taken, reads>>
    BY <1>4 DEF ResetLifts
  <2>2. Busy = {} /\ ~deleted /\ ~restarted
    BY <1>s, <2>1, OneAtATime, SpendShape DEF Events
  <2>3. summary'["reset"] = "count" /\ \A k \in Handlers \ {"reset"} : summary'[k] = "idle"
    BY <1>s, <1>c, <2>1, <2>2 DEF Busy, Shape
  <2>4. Early' => Early
    BY <1>c, <2>1, <2>3 DEF Early
  <2>5. Busy' # {}
    BY <1>c, <2>3 DEF Busy
  <2>6. AllZero => AllZero'
    BY <2>1 DEF AllZero, Rows, Pending
  <2>. QED  BY <2>1, <2>2, <2>3, <2>4, <2>5, <2>6 DEF CountInv
<1>. QED  BY <1>1, <1>2, <1>3, <1>4

\* The list of patches moves on: no count is lost on the way to the row.
LEMMA ListCounts ==
    ASSUME RowInv, CountInv, InOrder, Checked \/ MergeRead \/ MergeWrite
    PROVE  CountInv'
<1>s. Shape /\ PipeInv /\ EndInv
  BY DEF RowInv
<1>. SUFFICES ASSUME ~deleted', ~restarted' PROVE CountInv'
  BY DEF CountInv
<1>u. UNCHANGED <<lifts, engine, summary, seen, left>>
  BY DEF Checked, MergeRead, MergeWrite
<1>d. ~deleted /\ ~restarted
  BY <1>s, <1>u, NothingSpent
<1>. PICK n : n = Cardinality(lifts)
  OBVIOUS
<1>n. n = Cardinality(lifts)' /\ (Early' <=> Early) /\ Busy' = Busy
  BY <1>u DEF Early, Busy
<1>m. ~Early => meta # NoDoc
  BY <1>s, <1>d DEF EndInv, Early, NoDoc, Has
\* It suffices that no document gets a count it did not have.
<1>q. ASSUME AllZero => AllZero', Busy = {} /\ CountIs(n) /\ ~Early => CountIs(n)'
      PROVE  CountInv'
  <2>1. CASE Early
    <3>1. \A h \in Handlers : summary'[h] = "patch" => seen'[h] = 0
      BY <1>u, <1>d, <2>1, FS_EmptySet DEF CountInv
    <3>. QED  BY <1>u, <1>d, <1>q, <2>1, <3>1, EarlyCounts DEF CountInv
  <2>2. CASE ~Early
    BY <1>u, <1>d, <1>n, <1>q, <2>2 DEF CountInv
  <2>. QED  BY <2>1, <2>2
<1>1. CASE Checked
  <2>1. /\ reads # <<>> /\ reads' = Tail(reads) /\ meta' = meta /\ taken' = taken
        /\ queue' = IF meta = NoDoc THEN queue ELSE Append(queue, Head(reads))
    <3>1. PICK i \in DOMAIN reads :
             /\ InOrder => i = 1
             /\ reads' = RemoveAt(reads, i)
             /\ queue' = IF meta = NoDoc THEN queue ELSE Append(queue, reads[i])
      BY <1>1 DEF Checked
    <3>2. reads \in Seq(Docs) /\ reads # <<>>
      BY <1>s, <3>1 DEF Shape
    <3>. QED  BY <1>1, <3>1, <3>2, HeadShape DEF Checked
  <2>. PICK x : x = Head(reads)
    OBVIOUS
  <2>2. x \in Docs /\ ToSet(reads) = {x} \cup ToSet(reads') /\ queue \in Seq(Docs)
        /\ reads \in Seq(Docs)
    BY <1>s, <2>1, HeadShape DEF Shape
  <2>3. queue' = queue \/ queue' = Append(queue, x)
    BY <2>1
  <2>4. ToSet(queue') \subseteq ToSet(queue) \cup {x}
    BY <2>2, <2>3, AppendShape
  <2>5. AllZero => AllZero'
    BY <2>1, <2>2, <2>4 DEF AllZero, Rows, Pending
  <2>6. ASSUME CountIs(n), ~Early PROVE CountIs(n)'
    <3>1. queue' = Append(queue, x)
      BY <1>m, <2>1, <2>6
    <3>2. LastCount(reads, n) /\ (NoCount(reads) => LastCount(queue, n))
      BY <2>6 DEF CountIs
    <3>3. /\ NoCount(reads) <=> NoCount(reads') /\ ~Has(x, "lifted_count")
          /\ LastCount(reads', n)
          /\ NoCount(reads') /\ Has(x, "lifted_count") => x["lifted_count"] = n
      BY <2>1, <2>2, <3>2, CountTail
    <3>4. /\ NoCount(queue') <=> NoCount(queue) /\ ~Has(x, "lifted_count")
          /\ Has(x, "lifted_count") /\ x["lifted_count"] = n => LastCount(queue', n)
          /\ ~Has(x, "lifted_count") /\ LastCount(queue, n) => LastCount(queue', n)
      BY <2>2, <3>1, CountAppend
    <3>5. NoCount(reads') => LastCount(queue', n)
      BY <3>2, <3>3, <3>4
    <3>6. NoCount(reads') /\ NoCount(queue') /\ Has(meta', "lifted_count")
            => meta'["lifted_count"] = n
      BY <2>1, <2>6, <3>3, <3>4 DEF CountIs
    <3>. QED  BY <3>3, <3>5, <3>6 DEF CountIs, NoCount, LastCount
  <2>. QED  BY <1>q, <2>5, <2>6
<1>2. CASE MergeRead
  <2>1. UNCHANGED <<meta, reads, queue>> /\ taken' = <<meta>>
    BY <1>2 DEF MergeRead
  <2>2. ToSet(<<meta>>) = {meta}
    BY DEF ToSet
  <2>3. AllZero => AllZero'
    BY <2>1, <2>2 DEF AllZero, Rows, Pending
  <2>. QED  BY <1>q, <2>1, <2>3 DEF CountIs, LastCount, NoCount
<1>3. CASE MergeWrite
  <2>1. /\ reads' = reads /\ taken # <<>> /\ taken' = <<>> /\ queue' = Tail(queue)
        /\ meta' = Merge(taken[1], Head(queue)) /\ queue # <<>>
        /\ (taken[1] = meta \/ meta = NoDoc)
    BY <1>3, <1>s DEF MergeWrite, PipeInv
  <2>. PICK x : x = Head(queue)
    OBVIOUS
  <2>. PICK d : d = taken[1]
    OBVIOUS
  <2>2. /\ x \in Docs /\ ToSet(queue) = {x} \cup ToSet(queue') /\ queue \in Seq(Docs)
        /\ d \in Docs /\ d \in ToSet(taken)
    BY <1>s, <2>1, HeadShape DEF Shape
  <2>3. /\ \A k : Has(meta', k) <=> Has(d, k) \/ Has(x, k)
        /\ \A k : Has(x, k) => meta'[k] = x[k]
        /\ \A k : Has(d, k) /\ ~Has(x, k) => meta'[k] = d[k]
    BY <2>1, <2>2, MergeShape
  <2>4. Rows' = {meta'}
    BY <2>1, EmptyShape DEF Rows
  <2>5. AllZero => AllZero'
    BY <2>1, <2>2, <2>3, <2>4 DEF AllZero, Rows, Pending
  <2>6. ASSUME CountIs(n), ~Early PROVE CountIs(n)'
    <3>1. d = meta
      BY <1>m, <2>1, <2>6
    <3>2. LastCount(reads, n) /\ (NoCount(reads) => LastCount(queue, n))
      BY <2>6 DEF CountIs
    <3>3. ASSUME NoCount(reads)
          PROVE  /\ NoCount(queue) <=> NoCount(queue') /\ ~Has(x, "lifted_count")
                 /\ LastCount(queue', n)
                 /\ NoCount(queue') /\ Has(x, "lifted_count") => x["lifted_count"] = n
      BY <2>1, <2>2, <3>2, <3>3, CountTail
    <3>4. NoCount(reads) /\ NoCount(queue') /\ Has(meta', "lifted_count")
            => meta'["lifted_count"] = n
      BY <2>3, <2>6, <3>1, <3>3 DEF CountIs
    <3>. QED  BY <2>1, <3>2, <3>3, <3>4 DEF CountIs, NoCount, LastCount
  <2>. QED  BY <1>q, <2>5, <2>6
<1>. QED  BY <1>1, <1>2, <1>3

LEMMA CountNext ==
    ASSUME RowInv, CountInv, InOrder, Overlap = 1, [Next]_vars
    PROVE  CountInv'
<1>s. Shape /\ EngineInv /\ PipeInv
  BY DEF RowInv
<1>1. CASE Upload
  <2>. PICK m : m = [run_id |-> 1, stage |-> 1, error |-> "none"]
    OBVIOUS
  <2>1. DOMAIN m = {"run_id", "stage", "error"} /\ meta' = m
    BY <1>1 DEF Upload
  <2>2. UNCHANGED <<lifts, reads, queue, taken, summary, seen, left>> /\ Early /\ Early'
    BY <1>1 DEF Upload, Early
  <2>3. ~Has(meta', "lifted_count")
    BY <2>1 DEF Has
  <2>4. (deleted' <=> deleted) /\ (restarted' <=> restarted)
    BY <1>s, <2>2, NothingSpent
  <2>5. AllZero => AllZero'
    BY <2>2, <2>3 DEF AllZero, Rows, Pending
  <2>6. CountIs(Cardinality(lifts)) => CountIs(Cardinality(lifts))'
    BY <2>2, <2>3 DEF CountIs, NoCount, LastCount
  <2>. QED  BY <2>2, <2>4, <2>5, <2>6 DEF CountInv, Busy
<1>2. CASE Delete \/ Restart
  BY <1>2, <1>s, SpendShape DEF Delete, Restart, CountInv, Events
<1>3. CASE Checked \/ MergeRead \/ MergeWrite
  BY <1>3, ListCounts
<1>4. CASE \/ \E h \in Handlers : Count(h) \/ PatchSummary(h)
           \/ \E f \in Vas : Lift(f)
           \/ ResetLifts
  BY <1>4, HandlerCounts
<1>5. CASE \/ Spawn \/ SpawnThrows \/ StartError \/ Line \/ WriteImage \/ Close \/ CloseOK
           \/ CheckImage \/ PostFails
  BY <1>5, EngineCounts
<1>6. CASE UNCHANGED vars
  BY <1>6, <1>s, NothingSpent
  DEF vars, CountInv, CountIs, LastCount, NoCount, Busy, Early, AllZero, Rows, Pending
<1>. QED  BY <1>1, <1>2, <1>3, <1>4, <1>5, <1>6 DEF Next, Proceed

LEMMA CountInit == Init => CountInv
<1>. SUFFICES ASSUME Init PROVE CountInv
  OBVIOUS
<1>1. ToSet(queue) = {} /\ ToSet(reads) = {} /\ ToSet(taken) = {}
  BY EmptyShape DEF Init
<1>2. ~Has(meta, "lifted_count") /\ lifts = {} /\ Cardinality({}) = 0
  BY FS_EmptySet DEF Init, NoDoc, Has
<1>3. AllZero
  BY <1>1, <1>2 DEF AllZero, Rows, Pending
<1>4. \A h \in Handlers : summary[h] = "idle"
  BY DEF Init
<1>. QED  BY <1>2, <1>3, <1>4, ZeroCount DEF CountInv

LEMMA CountShown == RowInv /\ CountInv => LiftedTruthful
<1>. SUFFICES ASSUME RowInv, CountInv, Over, meta["stage"] = Done
              PROVE  meta["lifted_count"] = Cardinality(lifts)
  BY DEF LiftedTruthful
<1>1. engine = "gone" /\ reads = <<>> /\ queue = <<>> /\ Busy = {} /\ ~deleted /\ ~restarted
  BY DEF Over, Settled
<1>2. Has(meta, "stage") /\ DocOK(meta)
  BY <1>1 DEF RowInv, EndInv, PipeInv, Rows
<1>3. Has(meta, "lifted_count")
  BY <1>2 DEF DocOK
<1>4. NoCount(reads) /\ NoCount(queue)
  BY <1>1, EmptyShape DEF NoCount
<1>. QED  BY <1>1, <1>3, <1>4 DEF CountInv, CountIs

\* When the reads answer in order and one refresh at a time is under way, the
\* Reports table counts the lifts on disk of every run that is done and at
\* rest, however lifts, resets and polls of the file interleaved (server.js
\* l.532, l.1170-1173).
THEOREM CountIsTrue == ASSUME InOrder, Overlap = 1 PROVE Spec => []LiftedTruthful
<1>1. RowInv /\ CountInv /\ [Next]_vars => CountInv'
  BY CountNext
<1>. QED  BY <1>1, RowInvariance, CountInit, CountShown, PTL DEF Spec
=============================================================================
