---------------------------- MODULE AiJobsProofs ----------------------------
(***************************************************************************)
(* The job file of backend/aijobs.js stays consistent with itself for any  *)
(* functions, window, number of overlapping handlers and number of events. *)
(*                                                                         *)
(* A handler may write a file computed from an arbitrarily old snapshot,   *)
(* so the argument is not about the order of handlers at all: every        *)
(* operator that computes a new job maps consistent jobs to consistent     *)
(* jobs (the lemmas), and every snapshot was once the file (IInv).         *)
(***************************************************************************)
EXTENDS AiJobs, FiniteSetTheorems, SequenceTheorems, TLAPS

USE FnsAssumption, WindowAssumption, BudgetAssumption

\* Any set of functions has a number of elements.
LEMMA SubsetCard ==
    ASSUME NEW S \in SUBSET Fns
    PROVE  IsFiniteSet(S) /\ Cardinality(S) \in Nat
BY FS_Subset, FS_CardinalityType

\* What Mark leaves alone and what it sets.
LEMMA MarkFields ==
    ASSUME NEW j \in Jobs, NEW S, NEW s \in ItemStates
    PROVE  /\ Mark(j, S, s) \in Jobs
           /\ Mark(j, S, s).state = j.state
           /\ Mark(j, S, s).pending = j.pending
           /\ Mark(j, S, s).total = j.total
           /\ \A f \in Fns : Mark(j, S, s).items[f] =
                               IF f \in S THEN s ELSE j.items[f]
BY DEF Mark, Jobs

\* Recounting touches the counters only.
LEMMA CountFields ==
    ASSUME NEW j \in Jobs
    PROVE  /\ CountFailed(j) \in Jobs /\ CountDone(j) \in Jobs
           /\ CountFailed(j).state = j.state
           /\ CountFailed(j).items = j.items
           /\ CountFailed(j).pending = j.pending
           /\ CountDone(j).state = j.state
           /\ CountDone(j).items = j.items
           /\ CountDone(j).pending = j.pending
<1>1. Cardinality(InState(j, "failed")) \in Nat /\ Cardinality(InState(j, "done")) \in Nat
  BY SubsetCard DEF InState
<1>. QED  BY <1>1 DEF CountFailed, CountDone, Jobs

LEMMA WithTotalFields ==
    ASSUME NEW j \in Jobs, NEW m \in Jobs
    PROVE  /\ WithTotal(j, m) \in Jobs
           /\ WithTotal(j, m).state = m.state
           /\ WithTotal(j, m).items = m.items
           /\ WithTotal(j, m).pending = m.pending
<1>1. Cardinality(Tracked(m)) \in Nat
  BY SubsetCard DEF Tracked
<1>. QED  BY <1>1 DEF WithTotal, Jobs

LEMMA SettleFields ==
    ASSUME NEW j \in Jobs
    PROVE  /\ SettleIfIdle(j) \in Jobs
           /\ SettleIfIdle(j).items = j.items
           /\ SettleIfIdle(j).pending = j.pending
           /\ SettleIfIdle(j).state =
                IF j.pending = <<>> /\ InState(j, "sent") = {}
                THEN "done" ELSE j.state
BY DEF SettleIfIdle, Jobs, JobStates

\* Finishing items - marking some of them done or failed, then testing whether
\* anything is left - keeps a job consistent, whichever items they are.
LEMMA FinishOK ==
    ASSUME NEW j \in Jobs, JobOK(j), NEW n \in Jobs, NEW S \in SUBSET Fns,
           NEW s \in {"done", "failed"},
           n.pending = j.pending,
           \A f \in Fns : n.items[f] = IF f \in S THEN s ELSE j.items[f],
           n.state = IF j.pending = <<>> /\ InState(n, "sent") = {}
                     THEN "done" ELSE j.state
    PROVE  JobOK(n)
<1>1. InState(n, "sent") \subseteq InState(j, "sent")
  BY DEF InState
<1>2. WaitsForSomething(n)
  BY <1>1 DEF JobOK, WaitsForSomething, Jobs, JobStates
<1>3. QueueMatchesItems(n)
  BY DEF JobOK, QueueMatchesItems, InState
<1>4. WindowOnPaper(n)
  <2>1. InState(j, "sent") \in SUBSET Fns
    BY DEF InState
  <2>2. Cardinality(InState(n, "sent")) <= Cardinality(InState(j, "sent"))
    BY <1>1, <2>1, SubsetCard, FS_Subset
  <2>. QED
    BY <2>1, <2>2, <1>1, SubsetCard DEF JobOK, WindowOnPaper
<1>. QED  BY <1>2, <1>3, <1>4 DEF JobOK

\* recordResult computes a consistent job, whether or not the items it marks
\* were out, queued or unknown.
LEMMA AfterResultOK ==
    ASSUME NEW j \in Jobs, JobOK(j), NEW S \in SUBSET Fns
    PROVE  AfterResult(j, S) \in Jobs /\ JobOK(AfterResult(j, S))
<1>. DEFINE m == Mark(j, S, "done")
            n == CountDone(CountFailed(WithTotal(j, m)))
<1>1. m \in Jobs /\ m.state = j.state /\ m.pending = j.pending
      /\ \A f \in Fns : m.items[f] = IF f \in S THEN "done" ELSE j.items[f]
  BY MarkFields DEF ItemStates
<1>2. n \in Jobs /\ n.state = j.state /\ n.pending = j.pending /\ n.items = m.items
  <2>1. WithTotal(j, m) \in Jobs /\ WithTotal(j, m).state = m.state
        /\ WithTotal(j, m).pending = m.pending /\ WithTotal(j, m).items = m.items
    BY <1>1, WithTotalFields
  <2>. DEFINE k == WithTotal(j, m)
  <2>2. CountFailed(k) \in Jobs /\ CountFailed(k).state = k.state
        /\ CountFailed(k).pending = k.pending /\ CountFailed(k).items = k.items
    BY <2>1, CountFields
  <2>. HIDE DEF m, k
  <2>3. CountDone(CountFailed(k)) \in Jobs
        /\ CountDone(CountFailed(k)).state = CountFailed(k).state
        /\ CountDone(CountFailed(k)).pending = CountFailed(k).pending
        /\ CountDone(CountFailed(k)).items = CountFailed(k).items
    BY <2>2, CountFields
  <2>. QED  BY <2>1, <2>2, <2>3, <1>1 DEF k
<1>. HIDE DEF n, m
<1>. DEFINE r == SettleIfIdle(n)
<1>3. r \in Jobs /\ r.items = n.items /\ r.pending = n.pending
      /\ r.state = IF n.pending = <<>> /\ InState(n, "sent") = {}
                   THEN "done" ELSE n.state
  BY <1>2, SettleFields
<1>. HIDE DEF r
<1>4. InState(r, "sent") = InState(n, "sent")
  BY <1>3 DEF InState
<1>5. /\ r \in Jobs /\ r.pending = j.pending
      /\ \A f \in Fns : r.items[f] = IF f \in S THEN "done" ELSE j.items[f]
      /\ r.state = IF j.pending = <<>> /\ InState(r, "sent") = {}
                   THEN "done" ELSE j.state
  BY <1>1, <1>2, <1>3, <1>4
<1>6. JobOK(r)
  BY <1>5, FinishOK
<1>. QED  BY <1>5, <1>6 DEF AfterResult, r, n, m

\* recordFailure and reapStalled share their shape: some items become failed.
LEMMA FailedOK ==
    ASSUME NEW j \in Jobs, JobOK(j), NEW S \in SUBSET Fns
    PROVE  LET k == SettleIfIdle(CountFailed(Mark(j, S, "failed")))
           IN  k \in Jobs /\ JobOK(k)
<1>. DEFINE m == Mark(j, S, "failed")
            n == CountFailed(m)
<1>1. m \in Jobs /\ m.state = j.state /\ m.pending = j.pending
      /\ \A f \in Fns : m.items[f] = IF f \in S THEN "failed" ELSE j.items[f]
  BY MarkFields DEF ItemStates
<1>. HIDE DEF m
<1>2. n \in Jobs /\ n.state = m.state /\ n.pending = m.pending /\ n.items = m.items
  BY <1>1, CountFields
<1>. HIDE DEF n
<1>. DEFINE r == SettleIfIdle(n)
<1>3. r \in Jobs /\ r.items = n.items /\ r.pending = n.pending
      /\ r.state = IF n.pending = <<>> /\ InState(n, "sent") = {}
                   THEN "done" ELSE n.state
  BY <1>2, SettleFields
<1>. HIDE DEF r
<1>4. InState(r, "sent") = InState(n, "sent")
  BY <1>3 DEF InState
<1>5. /\ r \in Jobs /\ r.pending = j.pending
      /\ \A f \in Fns : r.items[f] = IF f \in S THEN "failed" ELSE j.items[f]
      /\ r.state = IF j.pending = <<>> /\ InState(r, "sent") = {}
                   THEN "done" ELSE j.state
  BY <1>1, <1>2, <1>3, <1>4
<1>6. JobOK(r)
  BY <1>5, FinishOK
<1>. QED  BY <1>5, <1>6 DEF r, n, m

LEMMA AfterFailureOK ==
    ASSUME NEW j \in Jobs, JobOK(j), NEW f \in Fns
    PROVE  AfterFailure(j, f) \in Jobs /\ JobOK(AfterFailure(j, f))
BY FailedOK DEF AfterFailure, Tracked

LEMMA AfterReapOK ==
    ASSUME NEW j \in Jobs, JobOK(j), NEW late \in SUBSET Fns
    PROVE  AfterReap(j, late) \in Jobs /\ JobOK(AfterReap(j, late))
BY FailedOK DEF AfterReap

\* stopBatch leaves no item queued, because queued items are pending ones.
LEMMA AfterStopOK ==
    ASSUME NEW j \in Jobs, JobOK(j)
    PROVE  AfterStop(j) \in Jobs /\ JobOK(AfterStop(j))
<1>. DEFINE m == Mark(j, Range(j.pending), "stopped")
            n == AfterStop(j)
<1>1. m \in Jobs
      /\ \A f \in Fns : m.items[f] = IF f \in Range(j.pending) THEN "stopped"
                                     ELSE j.items[f]
  BY MarkFields DEF ItemStates
<1>2. n = [m EXCEPT !.pending = <<>>, !.state = "stopped"]
  BY DEF AfterStop
<1>. HIDE DEF m, n
<1>3. n \in Jobs /\ n.items = m.items /\ n.pending = <<>> /\ n.state = "stopped"
  <2>1. <<>> \in Seq(Fns) /\ "stopped" \in JobStates
    BY EmptySeq DEF JobStates
  <2>. QED  BY <1>1, <1>2, <2>1 DEF Jobs
<1>4. InState(n, "sent") \subseteq InState(j, "sent") /\ InState(n, "queued") = {}
  BY <1>1, <1>3 DEF InState, JobOK, QueueMatchesItems
<1>5. Range(n.pending) = {} /\ IsInjective(n.pending)
  BY <1>3 DEF Range, IsInjective
<1>6. Cardinality(InState(n, "sent")) <= Window
  <2>1. InState(j, "sent") \in SUBSET Fns /\ InState(n, "sent") \in SUBSET Fns
    BY DEF InState
  <2>. QED  BY <2>1, <1>4, SubsetCard, FS_Subset DEF JobOK, WindowOnPaper
<1>. QED
  BY <1>3, <1>4, <1>5, <1>6
  DEF n, JobOK, WaitsForSomething, QueueMatchesItems, WindowOnPaper

\* A sequence ranges over no more elements than it is long, and over some
\* unless it is empty.
LEMMA QueueRange ==
    ASSUME NEW q \in Seq(Fns)
    PROVE  /\ Range(q) \in SUBSET Fns
           /\ Cardinality(Range(q)) <= Len(q)
<1>1. Len(q) \in Nat /\ q \in [1 .. Len(q) -> Fns] /\ DOMAIN q = 1 .. Len(q)
  BY LenProperties
<1>2. Range(q) \in SUBSET Fns
  BY <1>1 DEF Range
<1>3. Cardinality(Range(q)) <= Len(q)
  <2>1. q \in Surjection(1 .. Len(q), Range(q))
    BY <1>1, <1>2 DEF Surjection, Range
  <2>2. ExistsSurjection(1 .. Len(q), Range(q))
    BY <2>1 DEF ExistsSurjection
  <2>. QED  BY <1>1, <2>2, FS_SurjCardinalityBound
<1>. QED  BY <1>2, <1>3

LEMMA QueueRangeNonEmpty ==
    ASSUME NEW q \in Seq(Fns), q # <<>>
    PROVE  Range(q) # {}
<1>1. Len(q) \in Nat \ {0} /\ DOMAIN q = 1 .. Len(q)
  BY LenProperties, EmptySeq
<1>2. 1 \in DOMAIN q
  BY <1>1
<1>. QED  BY <1>2 DEF Range

\* What pump dispatches and what it leaves are the two halves of the list.
LEMMA PumpHalves ==
    ASSUME NEW j \in Jobs, CanPump(j), IsInjective(j.pending),
           WindowOnPaper(j),
           NEW rest, rest = SubSeq(j.pending, Len(Going(j)) + 1, Len(j.pending))
    PROVE  /\ Going(j) \in Seq(Fns) /\ Going(j) # <<>>
           /\ Len(Going(j)) <= Room(j)
           /\ rest \in Seq(Fns) /\ IsInjective(rest)
           /\ Range(Going(j)) \cup Range(rest) = Range(j.pending)
           /\ Range(Going(j)) \cap Range(rest) = {}
<1>. DEFINE p == j.pending
            k == IF Room(j) < Len(p) THEN Room(j) ELSE Len(p)
            g == Going(j)
<1>1. p \in Seq(Fns) /\ p # <<>> /\ Len(p) \in Nat \ {0} /\ DOMAIN p = 1 .. Len(p)
      /\ \A i \in 1 .. Len(p) : p[i] \in Fns
  BY EmptySeq, LenProperties, ElementOfSeq DEF Jobs, CanPump
<1>2. Room(j) \in Nat \ {0}
  BY SubsetCard DEF CanPump, Room, InState
<1>3. k \in 1 .. Len(p) /\ k <= Room(j)
  BY <1>1, <1>2
<1>4. g = SubSeq(p, 1, k)
  BY DEF Going
<1>. HIDE DEF k, g
<1>5. g \in Seq(Fns) /\ Len(g) = k /\ \A i \in 1 .. k : g[i] = p[i]
  <2>1. \A i \in 1 .. k : p[i] \in Fns
    BY <1>1, <1>3
  <2>2. /\ SubSeq(p, 1, k) \in Seq(Fns)
        /\ Len(SubSeq(p, 1, k)) = IF 1 <= k THEN k - 1 + 1 ELSE 0
        /\ \A i \in 1 .. k - 1 + 1 : SubSeq(p, 1, k)[i] = p[1 + i - 1]
    BY <2>1, <1>3, SubSeqProperties
  <2>. QED  BY <2>2, <1>1, <1>3, <1>4
<1>6. rest \in Seq(Fns) /\ Len(rest) = Len(p) - k
      /\ \A i \in 1 .. Len(p) - k : rest[i] = p[k + i]
  <2>1. rest = SubSeq(p, k + 1, Len(p))
    BY <1>5 DEF g
  <2>2. \A i \in k + 1 .. Len(p) : p[i] \in Fns
    BY <1>1, <1>3
  <2>3. /\ SubSeq(p, k + 1, Len(p)) \in Seq(Fns)
        /\ Len(SubSeq(p, k + 1, Len(p))) =
             IF k + 1 <= Len(p) THEN Len(p) - (k + 1) + 1 ELSE 0
        /\ \A i \in 1 .. Len(p) - (k + 1) + 1 :
             SubSeq(p, k + 1, Len(p))[i] = p[(k + 1) + i - 1]
    BY <2>2, <1>1, <1>3, SubSeqProperties
  <2>4. SubSeq(p, k + 1, Len(p)) \in Seq(Fns)
        /\ Len(SubSeq(p, k + 1, Len(p))) = Len(p) - k
    BY <2>3, <1>1, <1>3
  <2>5. ASSUME NEW i \in 1 .. Len(p) - k
        PROVE  SubSeq(p, k + 1, Len(p))[i] = p[k + i]
    <3>1. i \in 1 .. Len(p) - (k + 1) + 1 /\ (k + 1) + i - 1 = k + i
      BY <1>1, <1>3
    <3>. QED  BY <3>1, <2>3
  <2>. QED  BY <2>1, <2>4, <2>5
<1>7. g # <<>>
  BY <1>3, <1>5, EmptySeq
<1>8. \A x, y \in 1 .. Len(p) : p[x] = p[y] => x = y
  BY <1>1 DEF IsInjective
<1>9. DOMAIN g = 1 .. k /\ DOMAIN rest = 1 .. Len(p) - k
  BY <1>5, <1>6, LenProperties
<1>10. IsInjective(rest)
  <2>. SUFFICES ASSUME NEW x \in 1 .. Len(p) - k, NEW y \in 1 .. Len(p) - k,
                       rest[x] = rest[y]
                PROVE  x = y
    BY <1>9 DEF IsInjective
  <2>1. p[k + x] = p[k + y] /\ k + x \in 1 .. Len(p) /\ k + y \in 1 .. Len(p)
    BY <1>1, <1>3, <1>6
  <2>. QED  BY <2>1, <1>3, <1>8
<1>11. Range(g) \cup Range(rest) = Range(p)
  <2>1. \A i \in 1 .. k : i \in 1 .. Len(p)
    BY <1>1, <1>3
  <2>2. Range(g) \subseteq Range(p)
    BY <2>1, <1>1, <1>5, <1>9 DEF Range
  <2>3. \A i \in 1 .. Len(p) - k : k + i \in 1 .. Len(p)
    BY <1>1, <1>3
  <2>4. Range(rest) \subseteq Range(p)
    BY <2>3, <1>1, <1>6, <1>9 DEF Range
  <2>5. ASSUME NEW i \in 1 .. Len(p)
        PROVE  p[i] \in Range(g) \cup Range(rest)
    <3>1. CASE i <= k
      <4>1. i \in 1 .. k /\ g[i] = p[i]
        BY <3>1, <1>3, <1>5
      <4>. QED  BY <4>1, <1>9 DEF Range
    <3>2. CASE ~(i <= k)
      <4>1. i - k \in 1 .. Len(p) - k /\ k + (i - k) = i
        BY <3>2, <1>1, <1>3
      <4>2. rest[i - k] = p[i]
        BY <4>1, <1>6
      <4>. QED  BY <4>1, <4>2, <1>9 DEF Range
    <3>. QED  BY <3>1, <3>2
  <2>. QED  BY <2>2, <2>4, <2>5, <1>1 DEF Range
<1>12. Range(g) \cap Range(rest) = {}
  <2>. SUFFICES ASSUME NEW x \in 1 .. k, NEW y \in 1 .. Len(p) - k, g[x] = rest[y]
                PROVE  FALSE
    BY <1>9 DEF Range
  <2>1. p[x] = p[k + y] /\ x \in 1 .. Len(p) /\ k + y \in 1 .. Len(p) /\ x # k + y
    BY <1>1, <1>3, <1>5, <1>6
  <2>. QED  BY <2>1, <1>8
<1>. QED
  BY <1>3, <1>5, <1>6, <1>7, <1>10, <1>11, <1>12 DEF g

\* pump computes a consistent job: it sends no more than there is room for,
\* and what it sends leaves the list.
LEMMA AfterPumpOK ==
    ASSUME NEW j \in Jobs, JobOK(j), CanPump(j)
    PROVE  AfterPump(j) \in Jobs /\ JobOK(AfterPump(j))
<1>. DEFINE g == Going(j)
            m == Mark(j, Range(g), "sent")
            rest == SubSeq(j.pending, Len(g) + 1, Len(j.pending))
            n == AfterPump(j)
<1>1. m \in Jobs /\ m.state = j.state
      /\ \A f \in Fns : m.items[f] = IF f \in Range(g) THEN "sent" ELSE j.items[f]
  BY MarkFields DEF ItemStates
<1>2. /\ g \in Seq(Fns) /\ g # <<>> /\ Len(g) <= Room(j)
      /\ rest \in Seq(Fns) /\ IsInjective(rest)
      /\ Range(g) \cup Range(rest) = Range(j.pending)
      /\ Range(g) \cap Range(rest) = {}
  BY PumpHalves DEF JobOK, QueueMatchesItems
<1>3. n = [m EXCEPT !.pending = rest]
  BY DEF AfterPump
<1>4. Range(g) \in SUBSET Fns /\ Cardinality(Range(g)) <= Len(g) /\ Range(g) # {}
  BY <1>2, QueueRange, QueueRangeNonEmpty
<1>. HIDE DEF g, m, n, rest
<1>5. n \in Jobs /\ n.items = m.items /\ n.pending = rest /\ n.state = "running"
  BY <1>1, <1>2, <1>3 DEF Jobs, CanPump
<1>6. InState(n, "sent") = InState(j, "sent") \cup Range(g)
  BY <1>1, <1>4, <1>5 DEF InState
<1>7. WindowOnPaper(n)
  <2>1. InState(j, "sent") \in SUBSET Fns /\ InState(j, "sent") \cap Range(g) \in SUBSET Fns
    BY DEF InState
  <2>2. /\ Cardinality(InState(j, "sent")) \in Nat /\ IsFiniteSet(InState(j, "sent"))
        /\ Cardinality(Range(g)) \in Nat /\ IsFiniteSet(Range(g))
        /\ Cardinality(InState(j, "sent") \cap Range(g)) \in Nat
    BY <2>1, <1>4, SubsetCard
  <2>3. Cardinality(InState(n, "sent")) =
          Cardinality(InState(j, "sent")) + Cardinality(Range(g))
            - Cardinality(InState(j, "sent") \cap Range(g))
    BY <2>2, <1>6, FS_Union
  <2>4. Len(g) \in Nat /\ Len(g) <= Window - Cardinality(InState(j, "sent"))
    BY <1>2, LenProperties DEF Room
  <2>. QED  BY <2>2, <2>3, <2>4, <1>4 DEF WindowOnPaper
<1>8. WaitsForSomething(n)
  BY <1>4, <1>5, <1>6 DEF WaitsForSomething
<1>9. QueueMatchesItems(n)
  <2>1. InState(j, "queued") \subseteq Range(j.pending)
        /\ Range(j.pending) \cap (InState(j, "absent") \cup InState(j, "sent")
                                  \cup InState(j, "stopped")) = {}
    BY DEF JobOK, QueueMatchesItems
  <2>2. InState(n, "queued") = InState(j, "queued") \ Range(g)
        /\ InState(n, "absent") \subseteq InState(j, "absent")
        /\ InState(n, "stopped") \subseteq InState(j, "stopped")
    BY <1>1, <1>5 DEF InState
  <2>. QED  BY <2>1, <2>2, <1>2, <1>5, <1>6 DEF QueueMatchesItems
<1>. QED  BY <1>5, <1>7, <1>8, <1>9 DEF JobOK, n

\* A file that does not exist reads as a consistent job.
LEMMA EmptyJobOK == EmptyJob \in Jobs /\ JobOK(EmptyJob)
<1>. DEFINE e == EmptyJob
<1>1. e \in Jobs
  BY EmptySeq DEF EmptyJob, Jobs, JobStates, ItemStates
<1>2. InState(e, "sent") = {} /\ InState(e, "queued") = {}
  BY DEF EmptyJob, InState
<1>3. Cardinality(InState(e, "sent")) <= Window
  BY <1>2, FS_EmptySet
<1>4. Range(e.pending) = {} /\ IsInjective(e.pending)
  BY DEF EmptyJob, Range, IsInjective
<1>5. e.state = "not-started" /\ e.pending = <<>>
  BY DEF EmptyJob
<1>. HIDE DEF e
<1>6. JobOK(e)
  BY <1>2, <1>3, <1>4, <1>5
  DEF JobOK, WaitsForSomething, QueueMatchesItems, WindowOnPaper
<1>. QED  BY <1>1, <1>6 DEF e

\* A dispatch order over some functions is a pending list.
LEMMA QueueIsSeq ==
    ASSUME NEW q \in Queues
    PROVE  q \in Seq(Fns) /\ IsInjective(q)
BY SubsetCard DEF Queues

\* A set-wide start computes a consistent job.
LEMMA FreshOK ==
    ASSUME NEW sel \in SUBSET Fns, NEW have \in SUBSET Fns, NEW q \in Queues,
           Lists(q, sel \ have)
    PROVE  Fresh(sel, have, q) \in Jobs /\ JobOK(Fresh(sel, have, q))
<1>. DEFINE n == Fresh(sel, have, q)
<1>1. q \in Seq(Fns) /\ IsInjective(q) /\ Range(q) = sel \ have
  BY QueueIsSeq DEF Lists
<1>2. Cardinality(sel) \in Nat /\ Cardinality(have) \in Nat
  BY SubsetCard
<1>3. n \in Jobs
  BY <1>1, <1>2 DEF Fresh, Jobs, JobStates, ItemStates
<1>4. /\ n.pending = q
      /\ n.state = IF q = <<>> THEN "done" ELSE "running"
      /\ \A f \in Fns : n.items[f] = IF f \notin sel THEN "absent"
                                     ELSE IF f \in have THEN "done" ELSE "queued"
  BY DEF Fresh
<1>. HIDE DEF n
<1>5. InState(n, "sent") = {}
  BY <1>4 DEF InState
<1>6. WindowOnPaper(n)
  BY <1>5, FS_EmptySet DEF WindowOnPaper
<1>7. QueueMatchesItems(n)
  BY <1>1, <1>4 DEF QueueMatchesItems, InState
<1>8. WaitsForSomething(n)
  BY <1>4, <1>5 DEF WaitsForSomething
<1>. QED  BY <1>3, <1>6, <1>7, <1>8 DEF JobOK, n

\* Appending what is not pending yet keeps the list free of duplicates.
LEMMA AppendedQueue ==
    ASSUME NEW p \in Seq(Fns), IsInjective(p), NEW q \in Seq(Fns), IsInjective(q),
           Range(p) \cap Range(q) = {}
    PROVE  /\ p \o q \in Seq(Fns)
           /\ IsInjective(p \o q)
           /\ Range(p \o q) = Range(p) \cup Range(q)
<1>. DEFINE r == p \o q
<1>1. /\ Len(p) \in Nat /\ DOMAIN p = 1 .. Len(p)
      /\ Len(q) \in Nat /\ DOMAIN q = 1 .. Len(q)
  BY LenProperties
<1>2. /\ r \in Seq(Fns) /\ Len(r) = Len(p) + Len(q)
      /\ \A i \in 1 .. Len(p) + Len(q) :
           r[i] = IF i <= Len(p) THEN p[i] ELSE q[i - Len(p)]
  BY ConcatProperties
<1>. HIDE DEF r
<1>3. DOMAIN r = 1 .. Len(p) + Len(q)
  BY <1>2, LenProperties
<1>4. \A i \in 1 .. Len(p) : r[i] = p[i] /\ p[i] \in Range(p)
  BY <1>1, <1>2 DEF Range
<1>5. \A i \in 1 .. Len(p) + Len(q) :
        ~(i <= Len(p)) => /\ i - Len(p) \in 1 .. Len(q)
                          /\ r[i] = q[i - Len(p)]
                          /\ q[i - Len(p)] \in Range(q)
  BY <1>1, <1>2 DEF Range
<1>6. IsInjective(r)
  <2>. SUFFICES ASSUME NEW x \in 1 .. Len(p) + Len(q), NEW y \in 1 .. Len(p) + Len(q),
                       r[x] = r[y]
                PROVE  x = y
    BY <1>3 DEF IsInjective
  <2>1. CASE x <= Len(p) /\ y <= Len(p)
    BY <2>1, <1>1, <1>4 DEF IsInjective
  <2>2. CASE ~(x <= Len(p)) /\ ~(y <= Len(p))
    <3>1. x - Len(p) = y - Len(p)
      BY <2>2, <1>1, <1>5 DEF IsInjective
    <3>. QED  BY <3>1, <1>1
  <2>3. CASE x <= Len(p) /\ ~(y <= Len(p))
    BY <2>3, <1>1, <1>4, <1>5
  <2>4. CASE ~(x <= Len(p)) /\ y <= Len(p)
    BY <2>4, <1>1, <1>4, <1>5
  <2>. QED  BY <2>1, <2>2, <2>3, <2>4
<1>7. Range(r) = Range(p) \cup Range(q)
  <2>1. ASSUME NEW i \in 1 .. Len(p) + Len(q)
        PROVE  r[i] \in Range(p) \cup Range(q)
    BY <1>1, <1>4, <1>5
  <2>2. \A i \in 1 .. Len(p) : i \in DOMAIN r /\ r[i] = p[i]
    BY <1>1, <1>3, <1>4
  <2>3. \A i \in 1 .. Len(q) : Len(p) + i \in DOMAIN r /\ r[Len(p) + i] = q[i]
    <3>. SUFFICES ASSUME NEW i \in 1 .. Len(q)
                  PROVE  Len(p) + i \in DOMAIN r /\ r[Len(p) + i] = q[i]
      OBVIOUS
    <3>1. Len(p) + i \in 1 .. Len(p) + Len(q) /\ ~(Len(p) + i <= Len(p))
          /\ (Len(p) + i) - Len(p) = i
      BY <1>1
    <3>. QED  BY <3>1, <1>3, <1>5
  <2>4. Range(r) \subseteq Range(p) \cup Range(q)
    <3>. SUFFICES ASSUME NEW x \in DOMAIN r  PROVE r[x] \in Range(p) \cup Range(q)
      BY DEF Range
    <3>. QED  BY <2>1, <1>3
  <2>5. Range(p) \subseteq Range(r)
    BY <2>2, <1>1 DEF Range
  <2>6. Range(q) \subseteq Range(r)
    BY <2>3, <1>1 DEF Range
  <2>. QED  BY <2>4, <2>5, <2>6
<1>. QED  BY <1>2, <1>6, <1>7 DEF r

\* A start that joins the job keeps it consistent: what it queues is pending,
\* and it sends nothing itself.
LEMMA MergedOK ==
    ASSUME NEW j \in Jobs, JobOK(j), NEW sel \in SUBSET Fns, NEW have \in SUBSET Fns,
           NEW q \in Queues, Lists(q, (sel \ have) \ Range(j.pending))
    PROVE  Merged(j, sel, have, q) \in Jobs /\ JobOK(Merged(j, sel, have, q))
<1>. DEFINE k == Mark(j, sel, "queued")
            m == Mark(k, have, "done")
            p == j.pending \o q
            n == Merged(j, sel, have, q)
<1>1. k \in Jobs /\ \A f \in Fns : k.items[f] = IF f \in sel THEN "queued" ELSE j.items[f]
  BY MarkFields DEF ItemStates
<1>. HIDE DEF k
<1>2. m \in Jobs
      /\ \A f \in Fns : m.items[f] = IF f \in have THEN "done"
                                     ELSE IF f \in sel THEN "queued" ELSE j.items[f]
  BY <1>1, MarkFields DEF ItemStates
<1>3. /\ p \in Seq(Fns) /\ IsInjective(p)
      /\ Range(p) = Range(j.pending) \cup ((sel \ have) \ Range(j.pending))
  <2>1. q \in Seq(Fns) /\ IsInjective(q) /\ Range(q) = (sel \ have) \ Range(j.pending)
    BY QueueIsSeq DEF Lists
  <2>2. j.pending \in Seq(Fns) /\ IsInjective(j.pending)
    BY DEF Jobs, JobOK, QueueMatchesItems
  <2>3. Range(j.pending) \cap Range(q) = {}
    BY <2>1
  <2>. QED  BY <2>1, <2>2, <2>3, AppendedQueue
<1>4. /\ n.pending = p /\ n.items = m.items
      /\ n.state = IF p # <<>> \/ InState(m, "sent") # {} THEN "running" ELSE "done"
  BY DEF Merged, k
<1>5. n \in Jobs
  <2>1. /\ Cardinality(Tracked(m)) \in Nat
        /\ Cardinality(InState(m, "done")) \in Nat
        /\ Cardinality(InState(m, "failed")) \in Nat
    BY SubsetCard DEF Tracked, InState
  <2>2. n = [state |-> IF p # <<>> \/ InState(m, "sent") # {} THEN "running" ELSE "done",
             items |-> m.items, pending |-> p, total |-> Cardinality(Tracked(m)),
             done |-> Cardinality(InState(m, "done")),
             failed |-> Cardinality(InState(m, "failed"))]
    BY DEF Merged, k
  <2>. HIDE DEF n, m, p
  <2>. QED  BY <2>1, <2>2, <1>2, <1>3 DEF Jobs, JobStates
<1>. HIDE DEF n, m, p
<1>6. InState(n, "sent") = InState(m, "sent") /\ InState(n, "sent") \subseteq InState(j, "sent")
  BY <1>2, <1>4 DEF InState
<1>7. WindowOnPaper(n)
  <2>1. InState(j, "sent") \in SUBSET Fns /\ InState(n, "sent") \in SUBSET Fns
    BY DEF InState
  <2>. QED  BY <2>1, <1>6, SubsetCard, FS_Subset DEF JobOK, WindowOnPaper
<1>8. WaitsForSomething(n)
  BY <1>4, <1>6 DEF WaitsForSomething
<1>9. QueueMatchesItems(n)
  <2>1. InState(j, "queued") \subseteq Range(j.pending)
        /\ Range(j.pending) \cap (InState(j, "absent") \cup InState(j, "sent")
                                  \cup InState(j, "stopped")) = {}
    BY DEF JobOK, QueueMatchesItems
  <2>2. InState(n, "queued") \subseteq (sel \ have) \cup InState(j, "queued")
    BY <1>2, <1>4 DEF InState
  <2>3. \A s \in {"absent", "sent", "stopped"} :
          InState(n, s) \subseteq InState(j, s) \ (sel \ have)
    BY <1>2, <1>4 DEF InState
  <2>. QED  BY <2>1, <2>2, <2>3, <1>3, <1>4 DEF QueueMatchesItems
<1>. QED  BY <1>5, <1>7, <1>8, <1>9 DEF JobOK, n
-----------------------------------------------------------------------------
(* The invariant, by what a step can disturb: the file, what the suspended *)
(* handlers remember, and the rest.                                        *)

JobFileOK == job \in Jobs /\ JobOK(job)

TaskOK(t) ==
    /\ t \in Tasks
    /\ JobOK(t.snap)
    /\ t.at = "pumpWrite" => CanPump(t.snap)
    /\ t.at \in {"dispatch", "failRead", "failWrite"} => t.going # <<>>

TasksOK == task \in [Workers -> Tasks] /\ \A w \in Workers : TaskOK(task[w])

RestOK ==
    /\ result \in [Fns -> {"none", "good", "bad"}]
    /\ open \in [Fns -> Nat]
    /\ kicks \in Nat
    /\ left \in [Events -> Nat]

LEMMA IInvParts == IInv <=> JobFileOK /\ TasksOK /\ RestOK
BY DEF IInv, TypeOK, JobConsistent, HandlersOK, JobFileOK, TasksOK, TaskOK, RestOK, At

LEMMA IdleOK == TaskOK(Idle)
<1>1. Idle \in Tasks
  BY EmptyJobOK, EmptySeq DEF Idle, Tasks, Steps
<1>. QED  BY <1>1, EmptyJobOK DEF TaskOK, Idle

\* A handler that remembers something sound instead is all a step changes.
LEMMA BecomeOK ==
    ASSUME TasksOK, NEW w \in Workers, NEW t, TaskOK(t), Become(w, t)
    PROVE  TasksOK'
BY DEF TasksOK, Become, TaskOK

LEMMA FinishTaskOK ==
    ASSUME TasksOK, NEW w \in Workers, Finish(w)
    PROVE  TasksOK'
BY BecomeOK, IdleOK DEF Finish

LEMMA SpendOK ==
    ASSUME left \in [Events -> Nat], NEW e \in Events, Spend(e)
    PROVE  left' \in [Events -> Nat]
BY DEF Spend

LEMMA KickOK ==
    ASSUME kicks \in Nat, NEW c, KickIf(c)
    PROVE  kicks' \in Nat
BY DEF KickIf

\* A handler that has just read the file holds a sound snapshot.
LEMMA ReadOK ==
    ASSUME JobFileOK, NEW at \in {"failWrite", "resultWrite", "reapWrite", "stopWrite",
                                  "resetStop", "startMerge", "pumpWrite"},
           at = "pumpWrite" => CanPump(job),
           NEW t, TaskOK(t),
           at = "failWrite" => t.going # <<>>
    PROVE  TaskOK([t EXCEPT !.at = at, !.snap = job])
<1>1. [t EXCEPT !.at = at, !.snap = job] \in Tasks
  BY DEF TaskOK, Tasks, Steps, JobFileOK
<1>. QED  BY <1>1 DEF TaskOK, JobFileOK, Tasks

LEMMA InitInv == Init => IInv
<1>. SUFFICES ASSUME Init PROVE JobFileOK /\ TasksOK /\ RestOK
  BY IInvParts
<1>1. JobFileOK
  BY EmptyJobOK DEF Init, JobFileOK
<1>2. TasksOK
  BY IdleOK DEF Init, TasksOK, TaskOK
<1>3. RestOK
  BY DEF Init, RestOK
<1>. QED  BY <1>1, <1>2, <1>3

\* The selecting step of a start, of any of the three kinds.
LEMMA SelectOK ==
    ASSUME JobFileOK, TasksOK, NEW w \in Workers, NEW sel \in SUBSET Fns,
           NEW next \in {"startRead", "startReplace"}, NEW force \in BOOLEAN,
           StartSelect(w, sel, next, force)
    PROVE  JobFileOK' /\ TasksOK'
<1>. DEFINE have == IF force THEN {} ELSE {f \in sel : result[f] = "good"}
            t == [Idle EXCEPT !.at = next, !.sel = sel, !.have = have]
<1>1. have \in SUBSET Fns
  OBVIOUS
<1>. HIDE DEF have
<1>2. t \in Tasks /\ t.at = next /\ t.snap = Idle.snap
  BY <1>1, IdleOK DEF TaskOK, Tasks, Steps
<1>3. TaskOK(t)
  BY <1>2, IdleOK DEF TaskOK
<1>4. Become(w, t)
  BY DEF StartSelect, have
<1>5. TasksOK'
  BY <1>3, <1>4, BecomeOK
<1>6. JobFileOK'
  BY DEF StartSelect, JobFileOK
<1>. QED  BY <1>5, <1>6

\* The pump's loop goes on only with something left to dispatch.
LEMMA NextDispatchOK ==
    ASSUME TasksOK, NEW w \in Workers, task[w].going # <<>>, NextDispatch(w)
    PROVE  TasksOK'
<1>. DEFINE g == task[w].going
            t == [Idle EXCEPT !.at = "dispatch", !.going = Tail(g)]
<1>1. g \in Seq(Fns) /\ g # <<>>
  BY DEF TasksOK, Tasks
<1>2. CASE Len(g) <= 1
  BY <1>2, FinishTaskOK DEF NextDispatch
<1>3. CASE ~(Len(g) <= 1)
  <2>1. Tail(g) \in Seq(Fns) /\ Len(Tail(g)) = Len(g) - 1 /\ Len(g) \in Nat
    BY <1>1, HeadTailProperties, LenProperties
  <2>2. Become(w, t)
    BY <1>3 DEF NextDispatch
  <2>. HIDE DEF g
  <2>3. Tail(g) # <<>>
    <3>. SUFFICES ASSUME Tail(g) = <<>>  PROVE FALSE
      OBVIOUS
    <3>1. Len(g) - 1 = 0
      BY <2>1, EmptySeq
    <3>. QED  BY <3>1, <2>1, <1>3
  <2>4. t \in Tasks /\ t.at = "dispatch" /\ t.snap = Idle.snap /\ t.going = Tail(g)
    BY <2>1, IdleOK DEF TaskOK, Tasks, Steps
  <2>5. TaskOK(t)
    BY <2>3, <2>4, IdleOK DEF TaskOK
  <2>. QED  BY <2>2, <2>5, BecomeOK
<1>. QED  BY <1>2, <1>3

LEMMA StepInv ==
    ASSUME IInv, NEW w \in Workers, Start(w) \/ StoreResult(w) \/ ReapRead(w)
                                   \/ StopRead(w) \/ ResetRead(w) \/ Proceed(w)
    PROVE  IInv'
<1>. SUFFICES JobFileOK' /\ TasksOK' /\ RestOK'
  BY DEF IInv, TypeOK, JobConsistent, HandlersOK, JobFileOK, TasksOK, TaskOK, RestOK, At
<1>. USE IInvParts
<1>0. JobFileOK /\ TasksOK /\ RestOK
  OBVIOUS
<1>t. TaskOK(task[w]) /\ task[w] \in Tasks
  BY <1>0 DEF TasksOK, TaskOK
<1>s. task[w].snap \in Jobs /\ JobOK(task[w].snap)
  BY <1>t DEF TaskOK, Tasks
<1>a. CASE StartAutomatic(w)
  <2>1. JobFileOK' /\ TasksOK'
    BY <1>a, <1>0, SelectOK, AutoSelAssumption DEF StartAutomatic
  <2>2. RestOK'
    BY <1>a, <1>0, SpendOK DEF StartAutomatic, StartSelect, RestOK, Events
  <2>. QED  BY <2>1, <2>2
<1>b. CASE StartNamed(w)
  <2>. PICK sel \in SUBSET Fns \ {{}} : StartSelect(w, sel, "startRead", FALSE)
    BY <1>b DEF StartNamed
  <2>1. JobFileOK' /\ TasksOK'
    BY <1>0, SelectOK
  <2>2. RestOK'
    BY <1>b, <1>0, SpendOK DEF StartNamed, StartSelect, RestOK, Events
  <2>. QED  BY <2>1, <2>2
<1>c. CASE Relift(w)
  <2>. PICK f \in Fns : StartSelect(w, {f}, "startRead", TRUE)
    BY <1>c DEF Relift
  <2>1. JobFileOK' /\ TasksOK'
    BY <1>0, SelectOK
  <2>2. RestOK'
    BY <1>c, <1>0, SpendOK DEF Relift, StartSelect, RestOK, Events
  <2>. QED  BY <2>1, <2>2
<1>d. CASE StartRead(w)
  <2>1. JobFileOK' /\ RestOK'
    BY <1>d, <1>0 DEF StartRead, JobFileOK, RestOK
  <2>. DEFINE t == [task[w] EXCEPT
                      !.at = IF Tracked(job) = {} THEN "startReplace" ELSE "startMerge",
                      !.snap = IF Tracked(job) = {} THEN EmptyJob ELSE job]
  <2>2. Become(w, t)
    BY <1>d DEF StartRead
  <2>3. t \in Tasks /\ t.at \in {"startReplace", "startMerge"} /\ t.snap \in {EmptyJob, job}
    BY <1>0, <1>t, EmptyJobOK DEF JobFileOK, Tasks, Steps
  <2>4. TaskOK(t)
    BY <2>3, <1>0, EmptyJobOK DEF TaskOK, JobFileOK
  <2>5. TasksOK'
    BY <2>2, <2>4, <1>0, BecomeOK
  <2>. QED  BY <2>1, <2>5
<1>e. CASE StartReplace(w)
  <2>1. TasksOK'
    BY <1>e, <1>0, FinishTaskOK DEF StartReplace
  <2>2. JobFileOK'
    <3>1. PICK q \in Queues : /\ Lists(q, task[w].sel \ task[w].have)
                              /\ job' = Fresh(task[w].sel, task[w].have, q)
      BY <1>e DEF StartReplace
    <3>2. task[w].sel \in SUBSET Fns /\ task[w].have \in SUBSET Fns
      BY <1>t DEF Tasks
    <3>. QED  BY <3>1, <3>2, FreshOK DEF JobFileOK
  <2>3. RestOK'
    BY <1>e, <1>0, KickOK DEF StartReplace, RestOK
  <2>. QED  BY <2>1, <2>2, <2>3
<1>f. CASE StartMerge(w)
  <2>1. TasksOK'
    BY <1>f, <1>0, FinishTaskOK DEF StartMerge
  <2>2. JobFileOK'
    <3>1. PICK q \in Queues :
            /\ Lists(q, (task[w].sel \ task[w].have) \ Range(task[w].snap.pending))
            /\ job' = Merged(task[w].snap, task[w].sel, task[w].have, q)
      BY <1>f DEF StartMerge
    <3>2. task[w].sel \in SUBSET Fns /\ task[w].have \in SUBSET Fns
      BY <1>t DEF Tasks
    <3>. QED  BY <3>1, <3>2, <1>s, MergedOK DEF JobFileOK
  <2>3. RestOK'
    BY <1>f, <1>0, KickOK DEF StartMerge, RestOK
  <2>. QED  BY <2>1, <2>2, <2>3
<1>g. CASE PumpRead(w)
  <2>1. JobFileOK' /\ RestOK'
    BY <1>g, <1>0 DEF PumpRead, JobFileOK, RestOK
  <2>2. CASE CanPump(job)
    <3>1. Become(w, [Idle EXCEPT !.at = "pumpWrite", !.snap = job])
      BY <1>g, <2>2 DEF PumpRead
    <3>2. TaskOK([Idle EXCEPT !.at = "pumpWrite", !.snap = job])
      BY <1>0, <2>2, ReadOK, IdleOK
    <3>. QED  BY <2>1, <3>1, <3>2, <1>0, BecomeOK
  <2>3. CASE ~CanPump(job)
    BY <1>g, <2>1, <2>3, <1>0 DEF PumpRead, TasksOK, TaskOK
  <2>. QED  BY <2>2, <2>3
<1>h. CASE PumpWrite(w)
  <2>1. CanPump(task[w].snap)
    BY <1>h, <1>t DEF PumpWrite, At, TaskOK
  <2>2. JobFileOK'
    BY <1>h, <1>s, <2>1, AfterPumpOK DEF PumpWrite, JobFileOK
  <2>3. Going(task[w].snap) \in Seq(Fns) /\ Going(task[w].snap) # <<>>
    BY <1>s, <2>1, PumpHalves DEF JobOK, QueueMatchesItems
  <2>. DEFINE g == Going(task[w].snap)
              t == [Idle EXCEPT !.at = "dispatch", !.going = g]
  <2>4. Become(w, t)
    BY <1>h DEF PumpWrite
  <2>. HIDE DEF g
  <2>5. t \in Tasks /\ t.at = "dispatch" /\ t.snap = Idle.snap /\ t.going = g
    BY <2>3, IdleOK DEF TaskOK, Tasks, Steps, g
  <2>6. TaskOK(t)
    BY <2>3, <2>5, IdleOK DEF TaskOK, g
  <2>7. TasksOK'
    BY <2>4, <2>6, <1>0, BecomeOK
  <2>8. RestOK'
    BY <1>h, <1>0 DEF PumpWrite, RestOK
  <2>. QED  BY <2>2, <2>7, <2>8
<1>i. CASE Dispatch(w)
  <2>1. task[w].going # <<>> /\ task[w].going \in Seq(Fns)
    BY <1>i, <1>t DEF Dispatch, At, TaskOK, Tasks
  <2>2. Head(task[w].going) \in Fns
    BY <2>1, HeadTailProperties
  <2>3. TasksOK'
    BY <1>i, <1>0, <2>1, NextDispatchOK DEF Dispatch
  <2>4. JobFileOK' /\ RestOK'
    BY <1>i, <1>0, <2>2 DEF Dispatch, JobFileOK, RestOK
  <2>. QED  BY <2>3, <2>4
<1>j. CASE DispatchThrows(w)
  <2>. DEFINE t == [task[w] EXCEPT !.at = "failRead"]
  <2>1. t \in Tasks /\ t.at = "failRead" /\ t.snap = task[w].snap /\ t.going = task[w].going
    BY <1>t DEF Tasks, Steps
  <2>2. TaskOK(t)
    BY <1>j, <1>t, <2>1 DEF DispatchThrows, At, TaskOK
  <2>3. TasksOK'
    BY <1>j, <1>0, <2>2, BecomeOK DEF DispatchThrows
  <2>4. JobFileOK' /\ RestOK'
    BY <1>j, <1>0 DEF DispatchThrows, JobFileOK, RestOK
  <2>. QED  BY <2>3, <2>4
<1>k. CASE FailRead(w)
  <2>1. TaskOK([task[w] EXCEPT !.at = "failWrite", !.snap = job])
    BY <1>k, <1>0, <1>t, ReadOK DEF FailRead, At, TaskOK
  <2>2. TasksOK'
    BY <1>k, <1>0, <2>1, BecomeOK DEF FailRead
  <2>3. JobFileOK' /\ RestOK'
    BY <1>k, <1>0 DEF FailRead, JobFileOK, RestOK
  <2>. QED  BY <2>2, <2>3
<1>l. CASE FailWrite(w)
  <2>1. task[w].going # <<>> /\ task[w].going \in Seq(Fns)
    BY <1>l, <1>t DEF FailWrite, At, TaskOK, Tasks
  <2>2. Head(task[w].going) \in Fns
    BY <2>1, HeadTailProperties
  <2>3. JobFileOK'
    BY <1>l, <1>s, <2>2, AfterFailureOK DEF FailWrite, JobFileOK
  <2>4. TasksOK'
    BY <1>l, <1>0, <2>1, NextDispatchOK DEF FailWrite
  <2>5. RestOK'
    BY <1>l, <1>0, KickOK DEF FailWrite, RestOK
  <2>. QED  BY <2>3, <2>4, <2>5
<1>m. CASE StoreResult(w)
  <2>. PICK f \in Fns, r \in {"good", "bad"} :
              /\ open[f] > 0
              /\ result' = [result EXCEPT ![f] = r]
              /\ \/ open' = [open EXCEPT ![f] = @ - 1]
                 \/ UNCHANGED open
              /\ Become(w, [Idle EXCEPT !.at = "resultRead", !.sel = {f}])
    BY <1>m DEF StoreResult
  <2>. DEFINE t == [Idle EXCEPT !.at = "resultRead", !.sel = {f}]
  <2>1. t \in Tasks /\ t.at = "resultRead" /\ t.snap = Idle.snap
    BY IdleOK DEF TaskOK, Tasks, Steps
  <2>2. TaskOK(t)
    BY <2>1, IdleOK DEF TaskOK
  <2>3. TasksOK'
    BY <2>2, <1>0, BecomeOK
  <2>4. RestOK'
    <3>1. result' \in [Fns -> {"none", "good", "bad"}]
      BY <1>0 DEF RestOK
    <3>2. open' \in [Fns -> Nat]
      BY <1>0 DEF RestOK
    <3>3. left' \in [Events -> Nat] /\ kicks' \in Nat
      BY <1>m, <1>0, SpendOK DEF StoreResult, RestOK, Events
    <3>. QED  BY <3>1, <3>2, <3>3 DEF RestOK
  <2>5. JobFileOK'
    BY <1>m, <1>0 DEF StoreResult, JobFileOK
  <2>. QED  BY <2>3, <2>4, <2>5
<1>n. CASE ResultRead(w)
  <2>1. TaskOK([task[w] EXCEPT !.at = "resultWrite", !.snap = job])
    BY <1>0, <1>t, ReadOK
  <2>2. TasksOK'
    BY <1>n, <1>0, <2>1, BecomeOK DEF ResultRead
  <2>3. JobFileOK' /\ RestOK'
    BY <1>n, <1>0 DEF ResultRead, JobFileOK, RestOK
  <2>. QED  BY <2>2, <2>3
<1>o. CASE ResultWrite(w)
  <2>1. task[w].sel \in SUBSET Fns
    BY <1>t DEF Tasks
  <2>2. JobFileOK'
    BY <1>o, <1>s, <2>1, AfterResultOK DEF ResultWrite, JobFileOK
  <2>3. TasksOK'
    BY <1>o, <1>0, FinishTaskOK DEF ResultWrite
  <2>4. RestOK'
    BY <1>o, <1>0, KickOK DEF ResultWrite, RestOK
  <2>. QED  BY <2>2, <2>3, <2>4
<1>p. CASE ReapRead(w)
  <2>. PICK late \in SUBSET InState(job, "sent") \ {{}} :
         Become(w, [Idle EXCEPT !.at = "reapWrite", !.snap = job, !.sel = late])
    BY <1>p DEF ReapRead
  <2>. DEFINE t == [Idle EXCEPT !.at = "reapWrite", !.snap = job, !.sel = late]
  <2>1. late \in SUBSET Fns
    BY DEF InState
  <2>2. t \in Tasks /\ t.at = "reapWrite" /\ t.snap = job
    BY <2>1, <1>0, IdleOK DEF TaskOK, Tasks, Steps, JobFileOK
  <2>3. TaskOK(t)
    BY <2>2, <1>0 DEF TaskOK, JobFileOK
  <2>4. TasksOK'
    BY <2>3, <1>0, BecomeOK
  <2>5. JobFileOK' /\ RestOK'
    BY <1>p, <1>0 DEF ReapRead, JobFileOK, RestOK
  <2>. QED  BY <2>4, <2>5
<1>q. CASE ReapWrite(w)
  <2>1. task[w].sel \in SUBSET Fns
    BY <1>t DEF Tasks
  <2>2. JobFileOK'
    BY <1>q, <1>s, <2>1, AfterReapOK DEF ReapWrite, JobFileOK
  <2>3. TasksOK'
    BY <1>q, <1>0, FinishTaskOK DEF ReapWrite
  <2>4. RestOK'
    BY <1>q, <1>0, KickOK DEF ReapWrite, RestOK
  <2>. QED  BY <2>2, <2>3, <2>4
<1>r. CASE StopRead(w)
  <2>1. TasksOK'
    BY <1>r, <1>0, ReadOK, IdleOK, BecomeOK DEF StopRead
  <2>2. JobFileOK' /\ RestOK'
    BY <1>r, <1>0, SpendOK DEF StopRead, JobFileOK, RestOK, Events
  <2>. QED  BY <2>1, <2>2
<1>u. CASE StopWrite(w)
  <2>1. JobFileOK'
    BY <1>u, <1>s, AfterStopOK DEF StopWrite, JobFileOK
  <2>2. TasksOK' /\ RestOK'
    BY <1>u, <1>0, FinishTaskOK DEF StopWrite, RestOK
  <2>. QED  BY <2>1, <2>2
<1>5. TaskOK([Idle EXCEPT !.at = "resetResults"])
  <2>1. [Idle EXCEPT !.at = "resetResults"] \in Tasks
    BY IdleOK DEF TaskOK, Tasks, Steps
  <2>. QED  BY <2>1, IdleOK DEF TaskOK, Tasks
<1>v. CASE ResetRead(w)
  <2>1. JobFileOK' /\ RestOK'
    BY <1>v, <1>0, SpendOK DEF ResetRead, JobFileOK, RestOK, Events
  <2>2. CASE job.state = "running"
    BY <1>v, <2>1, <2>2, <1>0, ReadOK, IdleOK, BecomeOK DEF ResetRead
  <2>3. CASE job.state # "running"
    BY <1>v, <2>1, <2>3, <1>0, <1>5, BecomeOK DEF ResetRead
  <2>. QED  BY <2>2, <2>3
<1>w. CASE ResetStop(w)
  <2>1. JobFileOK'
    BY <1>w, <1>s, AfterStopOK DEF ResetStop, JobFileOK
  <2>2. TasksOK'
    BY <1>w, <1>0, <1>5, BecomeOK DEF ResetStop
  <2>3. RestOK'
    BY <1>w, <1>0 DEF ResetStop, RestOK
  <2>. QED  BY <2>1, <2>2, <2>3
<1>x. CASE ResetResults(w)
  <2>. DEFINE t == [Idle EXCEPT !.at = "resetJob"]
  <2>1. t \in Tasks /\ t.at = "resetJob" /\ t.snap = Idle.snap
    BY IdleOK DEF TaskOK, Tasks, Steps
  <2>2. TasksOK'
    BY <1>x, <1>0, <2>1, IdleOK, BecomeOK DEF ResetResults, TaskOK
  <2>3. JobFileOK' /\ RestOK'
    BY <1>x, <1>0 DEF ResetResults, JobFileOK, RestOK
  <2>. QED  BY <2>2, <2>3
<1>y. CASE ResetJob(w)
  BY <1>y, <1>0, EmptyJobOK, FinishTaskOK DEF ResetJob, JobFileOK, RestOK
<1>. QED
  BY <1>a, <1>b, <1>c, <1>d, <1>e, <1>f, <1>g, <1>h, <1>i, <1>j, <1>k, <1>l, <1>m,
     <1>n, <1>o, <1>p, <1>q, <1>r, <1>u, <1>v, <1>w, <1>x, <1>y
  DEF Start, StartWrite, Proceed

LEMMA NextInv ==
    ASSUME IInv, [Next]_vars
    PROVE  IInv'
<1>0. JobFileOK /\ TasksOK /\ RestOK
  BY IInvParts
<1>. SUFFICES (JobFileOK' /\ TasksOK' /\ RestOK') \/ IInv'
  BY DEF IInv, TypeOK, JobConsistent, HandlersOK, JobFileOK, TasksOK, TaskOK, RestOK, At
<1>1. CASE \E w \in Workers : \/ Start(w) \/ StoreResult(w) \/ ReapRead(w)
                              \/ StopRead(w) \/ ResetRead(w) \/ Proceed(w)
  BY <1>1, StepInv
<1>2. CASE Lose
  <2>1. RestOK'
    BY <1>2, <1>0 DEF Lose, RestOK
  <2>. QED  BY <1>2, <1>0, <2>1 DEF Lose, JobFileOK, TasksOK, TaskOK
<1>3. CASE Restart
  <2>1. RestOK'
    BY <1>3, <1>0, SpendOK DEF Restart, RestOK, Events
  <2>2. TasksOK'
    BY <1>3, IdleOK DEF Restart, TasksOK, TaskOK
  <2>. QED  BY <1>3, <1>0, <2>1, <2>2 DEF Restart, JobFileOK
<1>4. CASE UNCHANGED vars
  BY <1>4, <1>0 DEF vars, JobFileOK, TasksOK, TaskOK, RestOK
<1>. QED  BY <1>1, <1>2, <1>3, <1>4 DEF Next

LEMMA Invariance == Spec => []IInv
BY InitInv, NextInv, PTL DEF Spec

\* The state of the queue, its files and every suspended handler keep their
\* types (backend/aijobs.js as a whole).
THEOREM TypeCorrect == Spec => []TypeOK
<1>1. IInv => TypeOK
  BY DEF IInv
<1>. QED  BY Invariance, <1>1, PTL

\* Whatever handlers overlap, however stale the snapshot one writes back and
\* wherever the server restarts, the job file says it is running exactly while
\* it has something to wait for, no item is queued where pump cannot find it,
\* and by its own book it never exceeds the window.
THEOREM JobFileConsistent == Spec => []JobConsistent
<1>1. IInv => JobConsistent
  BY DEF IInv
<1>. QED  BY Invariance, <1>1, PTL
-----------------------------------------------------------------------------
(* Handlers that do not overlap.                                           *)
(*                                                                         *)
(* A stop is final, each function is sent once, the counters are those of  *)
(* the items, and every result is accounted for.  Each of them is lost     *)
(* when two handlers overlap (runs and configurations of AiJobs), so       *)
(* Serial is what separates the design from the race.  The argument rests  *)
(* on one fact that two handlers would break: what a handler is about to   *)
(* write was computed from the file as it is now (Current).                *)

\* Handlers do not overlap.
Serial == \E w : Workers = {w}

\* One batch: a second start of a function whose request is out sends it again.
OneStart == Budget["auto"] + Budget["named"] <= 1 /\ Budget["relift"] = 0

\* The server is not restarted under a callback.
NoCrash == Budget["crash"] = 0

Writing == {"startMerge", "pumpWrite", "failWrite", "resultWrite", "reapWrite",
            "stopWrite", "resetStop"}
Sending == {"dispatch", "failRead", "failWrite"}

\* The snapshot a handler computes from is the file.
Current == \A w \in Workers : task[w].at \in Writing => task[w].snap = job

Credit == left["auto"] + left["named"]
Unasked(f) == open[f] = 0 /\ result[f] = "none"
Untouched == Tracked(job) = {} /\ job.pending = <<>> /\ \A f \in Fns : Unasked(f)

\* Until the batch is started nothing is asked of the model; what waits has
\* not been asked, and what has been asked is out once.
BatchFileInv ==
    /\ left["relift"] = 0 /\ Credit <= 1
    /\ Credit = 1 => Untouched
    /\ \A f \in Range(job.pending) : job.items[f] = "queued" /\ Unasked(f)
    /\ NotPaidTwice
    /\ CountersMatch

\* What a pump has in hand has not been asked; what is about to be given up
\* is out; a callback's result is on disk, and a reset's results are gone.
BatchTaskInv(t) ==
    /\ Credit = 1 => t.at \in {"idle", "resetResults", "resetJob"}
    /\ t.at \in {"startRead", "startReplace"} => Untouched /\ t.have = {}
    /\ t.at # "startMerge"
    /\ t.at \in Sending =>
         /\ IsInjective(t.going)
         /\ \A f \in Range(t.going) : job.items[f] = "sent" /\ Unasked(f)
    /\ t.at = "reapWrite" => t.sel \subseteq InState(job, "sent")
    /\ t.at \in {"resultRead", "resultWrite"} => \A f \in t.sel : result[f] # "none"
    /\ t.at = "resetJob" => \A f \in Fns : result[f] = "none"

BatchInv == BatchFileInv /\ \A w \in Workers : BatchTaskInv(task[w])

\* A function with a result is done, or its callback is still at work.
Accounted ==
    \A f \in Fns : result[f] # "none" =>
        \/ job.items[f] = "done"
        \/ \E w \in Workers : task[w].at \in {"resultRead", "resultWrite"} /\ f \in task[w].sel
-----------------------------------------------------------------------------
(* What each operator makes of the items, the list and the counters.       *)

CountsMatch(j) ==
    /\ j.total = Cardinality(Tracked(j))
    /\ j.done = Cardinality(InState(j, "done"))
    /\ j.failed = Cardinality(InState(j, "failed"))

LEMMA SameItems ==
    ASSUME NEW j, NEW k, j.items = k.items
    PROVE  Tracked(j) = Tracked(k) /\ \A s \in ItemStates : InState(j, s) = InState(k, s)
BY DEF Tracked, InState

LEMMA SettleShape ==
    ASSUME NEW j \in Jobs
    PROVE  LET k == SettleIfIdle(j)
           IN  /\ k.items = j.items /\ k.pending = j.pending
               /\ k.total = j.total /\ k.done = j.done /\ k.failed = j.failed
               /\ k.state \in {"done", j.state}
BY DEF SettleIfIdle, Jobs

LEMMA CountShape ==
    ASSUME NEW j \in Jobs
    PROVE  /\ CountFailed(j).total = j.total /\ CountFailed(j).done = j.done
           /\ CountFailed(j).failed = Cardinality(InState(j, "failed"))
           /\ CountDone(j).total = j.total /\ CountDone(j).failed = j.failed
           /\ CountDone(j).done = Cardinality(InState(j, "done"))
BY DEF CountFailed, CountDone, Jobs

\* A result makes its items done, and the books follow.
LEMMA ResultShape ==
    ASSUME NEW j \in Jobs, NEW S \in SUBSET Fns
    PROVE  LET k == AfterResult(j, S)
           IN  /\ \A f \in Fns : k.items[f] = IF f \in S THEN "done" ELSE j.items[f]
               /\ k.pending = j.pending /\ k.state \in {"done", j.state}
               /\ CountsMatch(j) => CountsMatch(k)
<1>. DEFINE m == Mark(j, S, "done")
            t == WithTotal(j, m)
            c == CountFailed(t)
            d == CountDone(c)
            k == SettleIfIdle(d)
<1>1. /\ m \in Jobs /\ m.state = j.state /\ m.pending = j.pending /\ m.total = j.total
      /\ \A f \in Fns : m.items[f] = IF f \in S THEN "done" ELSE j.items[f]
  BY MarkFields DEF ItemStates
<1>. HIDE DEF m
<1>2. t \in Jobs /\ t.state = m.state /\ t.items = m.items /\ t.pending = m.pending
  BY <1>1, WithTotalFields
<1>3. CountsMatch(j) => t.total = Cardinality(Tracked(m))
  <2>. SUFFICES ASSUME CountsMatch(j)  PROVE t.total = Cardinality(Tracked(m))
    OBVIOUS
  <2>1. Tracked(j) \subseteq Tracked(m) /\ Tracked(m) \in SUBSET Fns
    BY <1>1 DEF Tracked, InState
  <2>2. Cardinality(Tracked(j)) <= Cardinality(Tracked(m))
        /\ Cardinality(Tracked(j)) \in Nat /\ Cardinality(Tracked(m)) \in Nat
    BY <2>1, SubsetCard, FS_Subset
  <2>3. CASE Tracked(m) = Tracked(j)
    BY <2>3, <1>1 DEF WithTotal, CountsMatch
  <2>4. CASE Tracked(m) # Tracked(j)
    <3>1. t.total = IF j.total > Cardinality(Tracked(m)) THEN j.total
                    ELSE Cardinality(Tracked(m))
      BY <2>4, <1>1 DEF WithTotal, Jobs
    <3>. QED  BY <3>1, <2>2 DEF CountsMatch
  <2>. QED  BY <2>3, <2>4
<1>. HIDE DEF t
<1>4. c \in Jobs /\ c.state = t.state /\ c.items = t.items /\ c.pending = t.pending
      /\ c.total = t.total /\ c.failed = Cardinality(InState(t, "failed"))
  BY <1>2, CountFields, CountShape
<1>. HIDE DEF c
<1>5. d \in Jobs /\ d.state = c.state /\ d.items = c.items /\ d.pending = c.pending
      /\ d.total = c.total /\ d.failed = c.failed
      /\ d.done = Cardinality(InState(c, "done"))
  BY <1>4, CountFields, CountShape
<1>. HIDE DEF d
<1>6. k.items = d.items /\ k.pending = d.pending /\ k.state \in {"done", d.state}
      /\ k.total = d.total /\ k.done = d.done /\ k.failed = d.failed
  BY <1>5, SettleShape
<1>. HIDE DEF k
<1>7. /\ Tracked(k) = Tracked(m)
      /\ InState(k, "failed") = InState(t, "failed") /\ InState(k, "done") = InState(c, "done")
  BY <1>2, <1>4, <1>5, <1>6 DEF Tracked, InState
<1>8. CountsMatch(j) => CountsMatch(k)
  BY <1>3, <1>4, <1>5, <1>6, <1>7 DEF CountsMatch
<1>. QED  BY <1>1, <1>2, <1>4, <1>5, <1>6, <1>8 DEF AfterResult, k, d, c, t, m

\* Giving up items that are out leaves the done ones and the total alone.
LEMMA FailedShape ==
    ASSUME NEW j \in Jobs, NEW S \in SUBSET Fns
    PROVE  LET k == SettleIfIdle(CountFailed(Mark(j, S, "failed")))
           IN  /\ \A f \in Fns : k.items[f] = IF f \in S THEN "failed" ELSE j.items[f]
               /\ k.pending = j.pending /\ k.state \in {"done", j.state}
               /\ CountsMatch(j) /\ S \subseteq InState(j, "sent") => CountsMatch(k)
<1>. DEFINE m == Mark(j, S, "failed")
            c == CountFailed(m)
            k == SettleIfIdle(c)
<1>1. /\ m \in Jobs /\ m.state = j.state /\ m.pending = j.pending /\ m.total = j.total
      /\ m.done = j.done
      /\ \A f \in Fns : m.items[f] = IF f \in S THEN "failed" ELSE j.items[f]
  <2>1. m.done = j.done
    BY DEF Mark, Jobs
  <2>. QED  BY <2>1, MarkFields DEF ItemStates
<1>. HIDE DEF m
<1>2. c \in Jobs /\ c.state = m.state /\ c.items = m.items /\ c.pending = m.pending
      /\ c.total = m.total /\ c.done = m.done
      /\ c.failed = Cardinality(InState(m, "failed"))
  BY <1>1, CountFields, CountShape
<1>. HIDE DEF c
<1>3. k.items = c.items /\ k.pending = c.pending /\ k.state \in {"done", c.state}
      /\ k.total = c.total /\ k.done = c.done /\ k.failed = c.failed
  BY <1>2, SettleShape
<1>. HIDE DEF k
<1>4. ASSUME CountsMatch(j), S \subseteq InState(j, "sent")
      PROVE  CountsMatch(k)
  <2>1. /\ Tracked(k) = Tracked(j) /\ InState(k, "done") = InState(j, "done")
        /\ InState(k, "failed") = InState(m, "failed")
    BY <1>1, <1>2, <1>3, <1>4 DEF Tracked, InState
  <2>. QED  BY <2>1, <1>1, <1>2, <1>3, <1>4 DEF CountsMatch
<1>. QED  BY <1>1, <1>2, <1>3, <1>4 DEF k, c, m

\* A stop moves what waits, and only that.
LEMMA StopShape ==
    ASSUME NEW j \in Jobs
    PROVE  LET k == AfterStop(j)
           IN  /\ \A f \in Fns : k.items[f] = IF f \in Range(j.pending) THEN "stopped"
                                               ELSE j.items[f]
               /\ k.pending = <<>> /\ k.state = "stopped"
               /\ CountsMatch(j) /\ (\A f \in Range(j.pending) : j.items[f] = "queued")
                    => CountsMatch(k)
<1>. DEFINE k == AfterStop(j)
<1>1. /\ \A f \in Fns : k.items[f] = IF f \in Range(j.pending) THEN "stopped" ELSE j.items[f]
      /\ k.pending = <<>> /\ k.state = "stopped"
      /\ k.total = j.total /\ k.done = j.done /\ k.failed = j.failed
  BY DEF AfterStop, Mark, Jobs
<1>. HIDE DEF k
<1>2. ASSUME CountsMatch(j), \A f \in Range(j.pending) : j.items[f] = "queued"
      PROVE  CountsMatch(k)
  <2>1. /\ Tracked(k) = Tracked(j) /\ InState(k, "done") = InState(j, "done")
        /\ InState(k, "failed") = InState(j, "failed")
    BY <1>1, <1>2 DEF Tracked, InState
  <2>. QED  BY <2>1, <1>1, <1>2 DEF CountsMatch
<1>. QED  BY <1>1, <1>2 DEF k

\* A pump moves the head of the list out, and only that.
LEMMA PumpShape ==
    ASSUME NEW j \in Jobs, JobOK(j), CanPump(j)
    PROVE  LET k == AfterPump(j)
           IN  /\ \A f \in Fns : k.items[f] = IF f \in Range(Going(j)) THEN "sent"
                                               ELSE j.items[f]
               /\ Range(k.pending) \subseteq Range(j.pending)
               /\ Range(k.pending) \cap Range(Going(j)) = {}
               /\ Range(Going(j)) \subseteq Range(j.pending)
               /\ k.state = "running"
               /\ CountsMatch(j) /\ (\A f \in Range(j.pending) : j.items[f] = "queued")
                    => CountsMatch(k)
<1>. DEFINE k == AfterPump(j)
            rest == SubSeq(j.pending, Len(Going(j)) + 1, Len(j.pending))
<1>1. /\ Range(Going(j)) \cup Range(rest) = Range(j.pending)
      /\ Range(Going(j)) \cap Range(rest) = {}
  BY PumpHalves DEF JobOK, QueueMatchesItems
<1>2. /\ \A f \in Fns : k.items[f] = IF f \in Range(Going(j)) THEN "sent" ELSE j.items[f]
      /\ k.pending = rest /\ k.state = "running"
      /\ k.total = j.total /\ k.done = j.done /\ k.failed = j.failed
  BY DEF AfterPump, Mark, Jobs, CanPump
<1>. HIDE DEF k, rest
<1>3. ASSUME CountsMatch(j), \A f \in Range(j.pending) : j.items[f] = "queued"
      PROVE  CountsMatch(k)
  <2>1. /\ Tracked(k) = Tracked(j) /\ InState(k, "done") = InState(j, "done")
        /\ InState(k, "failed") = InState(j, "failed")
    BY <1>1, <1>2, <1>3 DEF Tracked, InState
  <2>. QED  BY <2>1, <1>2, <1>3 DEF CountsMatch
<1>. QED  BY <1>1, <1>2, <1>3 DEF k

\* The functions a pump has in hand are distinct, as those of the list are.
LEMMA GoingInjective ==
    ASSUME NEW j \in Jobs, JobOK(j), CanPump(j)
    PROVE  Going(j) \in Seq(Fns) /\ Going(j) # <<>> /\ IsInjective(Going(j))
<1>. DEFINE p == j.pending
            n == IF Room(j) < Len(p) THEN Room(j) ELSE Len(p)
<1>1. Going(j) \in Seq(Fns) /\ Going(j) # <<>>
  BY PumpHalves DEF JobOK, QueueMatchesItems
<1>2. p \in Seq(Fns) /\ Len(p) \in Nat \ {0} /\ DOMAIN p = 1 .. Len(p)
      /\ \A i \in 1 .. Len(p) : p[i] \in Fns
  BY EmptySeq, LenProperties, ElementOfSeq DEF Jobs, CanPump
<1>3. Room(j) \in Nat \ {0}
  BY SubsetCard DEF CanPump, Room, InState
<1>4. n \in 1 .. Len(p)
  BY <1>2, <1>3
<1>5. Going(j) = SubSeq(p, 1, n)
  BY DEF Going
<1>. HIDE DEF n
<1>6. \A i \in 1 .. n : p[i] \in Fns
  BY <1>2, <1>4
<1>7. Len(SubSeq(p, 1, n)) = n /\ \A i \in 1 .. n : SubSeq(p, 1, n)[i] = p[i]
  <2>1. /\ Len(SubSeq(p, 1, n)) = IF 1 <= n THEN n - 1 + 1 ELSE 0
        /\ \A i \in 1 .. n - 1 + 1 : SubSeq(p, 1, n)[i] = p[1 + i - 1]
    BY <1>4, <1>6, SubSeqProperties
  <2>. QED  BY <2>1, <1>2, <1>4
<1>8. DOMAIN Going(j) = 1 .. n
  BY <1>1, <1>5, <1>7, LenProperties
<1>9. IsInjective(p)
  BY DEF JobOK, QueueMatchesItems
<1>10. IsInjective(Going(j))
  <2>. SUFFICES ASSUME NEW x \in 1 .. n, NEW y \in 1 .. n, Going(j)[x] = Going(j)[y]
                PROVE  x = y
    BY <1>8 DEF IsInjective
  <2>1. x \in DOMAIN p /\ y \in DOMAIN p /\ p[x] = p[y]
    BY <1>2, <1>4, <1>5, <1>7
  <2>. QED  BY <2>1, <1>9 DEF IsInjective
<1>. QED  BY <1>1, <1>10

\* Behind the head of a list without repetitions the head does not occur again.
LEMMA TailWithoutHead ==
    ASSUME NEW g \in Seq(Fns), g # <<>>, IsInjective(g)
    PROVE  /\ Tail(g) \in Seq(Fns) /\ IsInjective(Tail(g))
           /\ Head(g) \in Range(g) /\ Range(Tail(g)) \subseteq Range(g) \ {Head(g)}
<1>1. Len(g) \in Nat \ {0} /\ DOMAIN g = 1 .. Len(g) /\ Head(g) = g[1]
  BY EmptySeq, LenProperties, HeadTailProperties
<1>2. Tail(g) \in Seq(Fns) /\ Len(Tail(g)) = Len(g) - 1
      /\ \A i \in 1 .. Len(Tail(g)) : Tail(g)[i] = g[i + 1]
  BY HeadTailProperties
<1>3. DOMAIN Tail(g) = 1 .. Len(g) - 1
  BY <1>2, LenProperties
<1>4. \A i \in 1 .. Len(g) - 1 : i + 1 \in 1 .. Len(g) /\ i + 1 # 1 /\ Tail(g)[i] = g[i + 1]
  BY <1>1, <1>2
<1>5. \A x, y \in 1 .. Len(g) : g[x] = g[y] => x = y
  BY <1>1 DEF IsInjective
<1>6. IsInjective(Tail(g))
  <2>. SUFFICES ASSUME NEW x \in 1 .. Len(g) - 1, NEW y \in 1 .. Len(g) - 1,
                       Tail(g)[x] = Tail(g)[y]
                PROVE  x = y
    BY <1>3 DEF IsInjective
  <2>1. x + 1 = y + 1
    BY <1>4, <1>5
  <2>. QED  BY <2>1, <1>1
<1>7. Range(Tail(g)) \subseteq Range(g) \ {Head(g)}
  <2>. SUFFICES ASSUME NEW i \in 1 .. Len(g) - 1
                PROVE  Tail(g)[i] \in Range(g) /\ Tail(g)[i] # Head(g)
    BY <1>3 DEF Range
  <2>. QED  BY <1>1, <1>4, <1>5 DEF Range
<1>8. Head(g) \in Range(g)
  BY <1>1 DEF Range
<1>. QED  BY <1>2, <1>6, <1>7, <1>8

\* A start of functions none of which has a result queues all of them.
LEMMA FreshShape ==
    ASSUME NEW sel \in SUBSET Fns, NEW q \in Queues, Lists(q, sel)
    PROVE  LET k == Fresh(sel, {}, q)
           IN  /\ \A f \in Fns : k.items[f] = IF f \in sel THEN "queued" ELSE "absent"
               /\ k.pending = q /\ Range(k.pending) = sel
               /\ CountsMatch(k)
<1>. DEFINE k == Fresh(sel, {}, q)
<1>1. /\ \A f \in Fns : k.items[f] = IF f \in sel THEN "queued" ELSE "absent"
      /\ k.pending = q /\ Range(k.pending) = sel
      /\ k.total = Cardinality(sel) /\ k.done = Cardinality({}) /\ k.failed = 0
  BY DEF Fresh, Lists
<1>. HIDE DEF k
<1>2. Tracked(k) = sel /\ InState(k, "done") = {} /\ InState(k, "failed") = {}
  BY <1>1 DEF Tracked, InState
<1>3. CountsMatch(k)
  BY <1>1, <1>2, FS_EmptySet DEF CountsMatch
<1>. QED  BY <1>1, <1>3 DEF k
-----------------------------------------------------------------------------
(* One handler at a time: what it computes from is the file.               *)

LEMMA NowAt ==
    ASSUME IInv, NEW w \in Workers, NEW t
    PROVE  /\ Become(w, t) => task'[w] = t
           /\ Finish(w) => task'[w] = Idle
           /\ task[w] \in Tasks /\ task[w].snap \in Jobs /\ JobOK(task[w].snap)
           /\ job \in Jobs /\ JobOK(job)
<1>1. task \in [Workers -> Tasks] /\ job \in Jobs /\ JobOK(job) /\ JobOK(task[w].snap)
  BY DEF IInv, TypeOK, JobConsistent, HandlersOK
<1>. QED  BY <1>1 DEF Become, Finish, Tasks

\* A pump's loop goes on with the rest of what it has in hand, or is over.
LEMMA NextDispatchShape ==
    ASSUME IInv, NEW w \in Workers, NextDispatch(w)
    PROVE  \/ task'[w] = Idle
           \/ task'[w] = [Idle EXCEPT !.at = "dispatch", !.going = Tail(task[w].going)]
BY NowAt DEF NextDispatch

LEMMA CurrentNext ==
    ASSUME IInv, Current, Serial, [Next]_vars
    PROVE  Current'
<1>. PICK w : Workers = {w}
  BY DEF Serial
<1>. SUFFICES ASSUME task'[w].at \in Writing  PROVE task'[w].snap = job'
  BY DEF Current
<1>. USE NowAt
<1>i. Idle.at \notin Writing
  BY DEF Idle, Writing
<1>w. \A u : u \in Workers <=> u = w
  OBVIOUS
<1>t. task[w] \in Tasks /\ Idle \in Tasks
  BY IdleOK DEF TaskOK
<1>1. CASE Start(w)
  <2>1. task'[w].at \in {"startRead", "startReplace"}
    BY <1>1, <1>t DEF Start, StartAutomatic, StartNamed, Relift, StartSelect, Tasks
  <2>. QED  BY <2>1 DEF Writing
<1>2. CASE StoreResult(w)
  <2>1. task'[w].at = "resultRead"
    BY <1>2, <1>t DEF StoreResult, Tasks
  <2>. QED  BY <2>1 DEF Writing
<1>3. CASE ReapRead(w) \/ StopRead(w) \/ PumpRead(w)
  <2>1. CASE task' = task /\ job' = job
    BY <2>1 DEF Current
  <2>2. CASE ~(task' = task /\ job' = job)
    <3>1. task'[w].snap = job /\ job' = job
      BY <1>3, <2>2, <1>t DEF ReapRead, StopRead, PumpRead, Tasks
    <3>. QED  BY <3>1
  <2>. QED  BY <2>1, <2>2
<1>4. CASE ResetRead(w)
  BY <1>4, <1>t DEF ResetRead, Tasks, Writing
<1>5. CASE StartRead(w)
  BY <1>5, <1>t DEF StartRead, Tasks, Writing
<1>6. CASE FailRead(w) \/ ResultRead(w)
  BY <1>6, <1>t DEF FailRead, ResultRead, Tasks
<1>7. CASE StartWrite(w) \/ ResultWrite(w) \/ ReapWrite(w) \/ StopWrite(w) \/ ResetJob(w)
  BY <1>7, <1>i DEF StartWrite, StartReplace, StartMerge, ResultWrite, ReapWrite, StopWrite,
                    ResetJob
<1>8. CASE PumpWrite(w) \/ DispatchThrows(w) \/ ResetStop(w) \/ ResetResults(w)
  <2>1. task'[w].at \in {"dispatch", "failRead", "resetResults", "resetJob"}
    BY <1>8, <1>t DEF PumpWrite, DispatchThrows, ResetStop, ResetResults, Tasks
  <2>. QED  BY <2>1 DEF Writing
<1>9. CASE Dispatch(w) \/ FailWrite(w)
  <2>1. NextDispatch(w) /\ w \in Workers /\ Idle.at = "idle"
    BY <1>9 DEF Dispatch, FailWrite, Idle
  <2>2. task'[w].at \in {"idle", "dispatch"}
    BY <2>1, <1>t, NextDispatchShape DEF Tasks
  <2>. QED  BY <2>2 DEF Writing
<1>10. CASE Lose
  BY <1>10 DEF Lose, Current
<1>11. CASE Restart
  BY <1>11, <1>i DEF Restart
<1>12. CASE UNCHANGED vars
  BY <1>12 DEF vars, Current
<1>. QED
  BY <1>w, <1>1, <1>2, <1>3, <1>4, <1>5, <1>6, <1>7, <1>8, <1>9, <1>10, <1>11, <1>12
  DEF Next, Proceed

LEMMA SerialInvariance == ASSUME Serial PROVE Spec => [](IInv /\ Current)
<1>1. Init => Current
  BY DEF Init, Current, Idle, Writing
<1>2. IInv /\ Current /\ [Next]_vars => Current'
  BY CurrentNext
<1>. QED  BY <1>1, <1>2, Invariance, PTL DEF Spec

LEMMA OnlyAStartRuns ==
    ASSUME IInv, Current, Serial, [Next]_vars, job.state # "running", job'.state = "running"
    PROVE  \E w \in Workers : StartWrite(w)
<1>. SUFFICES ASSUME ~ \E w \in Workers : StartWrite(w)  PROVE FALSE
  OBVIOUS
<1>. PICK w : Workers = {w}
  BY DEF Serial
<1>w. \A u : u \in Workers <=> u = w
  OBVIOUS
<1>. USE NowAt
<1>0. task[w].at \in Writing => task[w].snap = job
  BY DEF Current
<1>1. CASE job' = job
  BY <1>1
<1>2. CASE PumpWrite(w)
  <2>1. CanPump(task[w].snap) /\ task[w].snap = job
    BY <1>2, <1>0 DEF PumpWrite, At, IInv, HandlersOK, Writing
  <2>. QED  BY <2>1 DEF CanPump
<1>3. CASE FailWrite(w)
  BY <1>3, <1>0, FailedShape DEF FailWrite, At, Writing, AfterFailure, Tracked
<1>4. CASE ResultWrite(w)
  <2>1. task[w].sel \in SUBSET Fns /\ task[w].snap = job
    BY <1>4, <1>0 DEF ResultWrite, At, Writing, Tasks
  <2>2. AfterResult(job, task[w].sel).state \in {"done", job.state}
    BY <2>1, ResultShape
  <2>. QED  BY <1>4, <2>1, <2>2 DEF ResultWrite
<1>5. CASE ReapWrite(w)
  BY <1>5, <1>0, FailedShape DEF ReapWrite, At, Writing, AfterReap, Tasks
<1>6. CASE StopWrite(w) \/ ResetStop(w)
  BY <1>6, StopShape DEF StopWrite, ResetStop
<1>7. CASE ResetJob(w)
  BY <1>7 DEF ResetJob, EmptyJob
<1>. QED
  BY <1>w, <1>1, <1>2, <1>3, <1>4, <1>5, <1>6, <1>7
  DEF Next, Proceed, Start, StartAutomatic, StartNamed, Relift, StartSelect, StoreResult,
      ReapRead, StopRead, ResetRead, StartRead, PumpRead, Dispatch, DispatchThrows, FailRead,
      ResultRead, ResetResults, Lose, Restart, vars

\* While handlers do not overlap a stopped batch stays stopped until somebody
\* starts one: no pump, result, timeout or failure revives it (l.771-779).
THEOREM StopIsFinal == ASSUME Serial PROVE Spec => StopHolds
<1>1. IInv /\ Current /\ [Next]_vars
        => [job.state = "stopped" /\ job'.state = "running"
              => \E w \in Workers : StartWrite(w)]_vars
  BY OnlyAStartRuns
<1>. QED  BY <1>1, SerialInvariance, PTL DEF Spec, StopHolds

\* Nor does any of them bring a reset job back to life (l.799-806).
THEOREM ResetIsFinal == ASSUME Serial PROVE Spec => ResetHolds
<1>1. IInv /\ Current /\ [Next]_vars
        => [job.state = "not-started" /\ job'.state = "running"
              => \E w \in Workers : StartWrite(w)]_vars
  BY OnlyAStartRuns
<1>. QED  BY <1>1, SerialInvariance, PTL DEF Spec, ResetHolds
-----------------------------------------------------------------------------
(* One batch, one handler at a time.                                       *)

LEMMA BatchInit == ASSUME OneStart, Init PROVE BatchInv
<1>1. Credit <= 1 /\ left["relift"] = 0
  BY DEF Init, OneStart, Credit, Events
<1>2. Tracked(job) = {} /\ InState(job, "done") = {} /\ InState(job, "failed") = {}
      /\ job.pending = <<>> /\ job.total = 0 /\ job.done = 0 /\ job.failed = 0
  BY DEF Init, EmptyJob, Tracked, InState
<1>3. Untouched /\ NotPaidTwice
  BY <1>2 DEF Init, Untouched, Unasked, NotPaidTwice
<1>4. CountersMatch
  BY <1>2, FS_EmptySet DEF CountersMatch
<1>5. BatchFileInv
  BY <1>1, <1>2, <1>3, <1>4 DEF BatchFileInv, Range
<1>6. ASSUME NEW w \in Workers PROVE BatchTaskInv(task[w])
  BY DEF Init, Idle, BatchTaskInv, Sending
<1>. QED  BY <1>5, <1>6 DEF BatchInv

\* With no job there is nothing to keep.
LEMMA EmptyBooks ==
    ASSUME job' = EmptyJob
    PROVE  CountersMatch' /\ job'.pending = <<>> /\ Tracked(job)' = {}
<1>1. Tracked(job') = {} /\ InState(job', "done") = {} /\ InState(job', "failed") = {}
      /\ job'.pending = <<>> /\ job'.total = 0 /\ job'.done = 0 /\ job'.failed = 0
  BY DEF EmptyJob, Tracked, InState
<1>. QED  BY <1>1, FS_EmptySet DEF CountersMatch

LEMMA BatchStep ==
    ASSUME IInv, Current, BatchInv, Serial, [Next]_vars
    PROVE  BatchInv'
<1>. PICK w : Workers = {w}
  BY DEF Serial
<1>w. w \in Workers /\ \A u : u \in Workers <=> u = w
  OBVIOUS
<1>. SUFFICES BatchFileInv' /\ BatchTaskInv(task[w])'
  BY <1>w DEF BatchInv
<1>b. BatchFileInv /\ BatchTaskInv(task[w])
  BY <1>w DEF BatchInv
<1>c. task[w].at \in Writing => task[w].snap = job
  BY <1>w DEF Current
<1>t. /\ task[w] \in Tasks /\ Idle \in Tasks /\ Idle.at = "idle"
      /\ job \in Jobs /\ JobOK(job)
  BY <1>w, NowAt, IdleOK DEF TaskOK, Idle
<1>r. /\ result \in [Fns -> {"none", "good", "bad"}] /\ open \in [Fns -> Nat]
      /\ left \in [Events -> Nat]
  BY DEF IInv, TypeOK
<1>l. /\ left["auto"] \in Nat /\ left["named"] \in Nat /\ left["relift"] = 0
      /\ Credit \in {0, 1}
  BY <1>r, <1>b DEF Events, Credit, BatchFileInv
<1>p. Range(job.pending) \subseteq Fns /\ \A f \in Fns : job.items[f] \in ItemStates
  BY <1>t, QueueRange DEF Jobs
<1>e. Range(<<>>) = {}
  BY DEF Range
<1>s. /\ Untouched => job.state # "running"
      /\ Untouched => ~CanPump(job)
  BY <1>t DEF Untouched, JobOK, WaitsForSomething, CanPump, Tracked, InState
\* A step that leaves the file, the answers and the requests alone.
<1>k. ASSUME job' = job, result' = result, open' = open,
             left'["auto"] = left["auto"], left'["named"] = left["named"],
             left'["relift"] = left["relift"]
      PROVE  BatchFileInv' /\ Credit' = Credit /\ (Untouched <=> Untouched')
  BY <1>k, <1>b DEF BatchFileInv, Credit, Untouched, Unasked, NotPaidTwice, CountersMatch,
                    Tracked, InState
\* A step after which the handler is between two callbacks.
<1>f. ASSUME task'[w].at \in {"idle", "resetResults"}
      PROVE  BatchTaskInv(task[w])'
  BY <1>f DEF BatchTaskInv, Sending
<1>1. CASE StartAutomatic(w) \/ StartNamed(w)
  <2>1. /\ Credit = 1 /\ Credit' = 0 /\ left'["relift"] = 0
    <3>1. PICK e \in {"auto", "named"} : Spend(e)
      BY <1>1 DEF StartAutomatic, StartNamed
    <3>2. left[e] > 0 /\ left'[e] = left[e] - 1 /\ \A d \in Events \ {e} : left'[d] = left[d]
      BY <3>1, <1>r DEF Spend, Events
    <3>. QED  BY <3>2, <1>l DEF Credit, Events
  <2>2. Untouched /\ job' = job /\ result' = result /\ open' = open
    BY <1>1, <2>1, <1>b DEF StartAutomatic, StartNamed, StartSelect, BatchFileInv
  <2>3. BatchFileInv' /\ Untouched'
    BY <2>1, <2>2, <1>b
    DEF BatchFileInv, Credit, Untouched, Unasked, NotPaidTwice, CountersMatch, Tracked, InState
  <2>4. task'[w].at \in {"startRead", "startReplace"} /\ task'[w].have = {}
    <3>1. PICK sel \in SUBSET Fns, next \in {"startRead", "startReplace"} :
            Become(w, [Idle EXCEPT !.at = next, !.sel = sel,
                                   !.have = {f \in sel : result[f] = "good"}])
      BY <1>1, AutoSelAssumption DEF StartAutomatic, StartNamed, StartSelect
    <3>2. {f \in sel : result[f] = "good"} = {}
      BY <2>2 DEF Untouched, Unasked
    <3>. DEFINE h == {f \in sel : result[f] = "good"}
    <3>3. task'[w] = [Idle EXCEPT !.at = next, !.sel = sel, !.have = h]
      BY <3>1, <1>w, NowAt
    <3>. HIDE DEF h
    <3>. QED  BY <3>2, <3>3, <1>t DEF Tasks, h
  <2>5. BatchTaskInv(task[w])'
    BY <2>1, <2>3, <2>4 DEF BatchTaskInv, Sending
  <2>. QED  BY <2>3, <2>5
<1>2. CASE Relift(w)
  BY <1>2, <1>l DEF Relift, Spend
<1>3. CASE StartRead(w)
  <2>1. Untouched /\ task[w].have = {} /\ Credit = 0
    BY <1>3, <1>b, <1>l DEF StartRead, At, BatchTaskInv
  <2>2. task'[w].at = "startReplace" /\ task'[w].have = {}
    <3>1. task'[w] = [task[w] EXCEPT !.at = "startReplace", !.snap = EmptyJob]
      BY <1>3, <2>1, <1>w, NowAt DEF StartRead, Untouched
    <3>. QED  BY <3>1, <2>1, <1>t DEF Tasks
  <2>3. BatchFileInv' /\ Credit' = 0 /\ Untouched'
    BY <1>3, <1>k, <2>1 DEF StartRead
  <2>. QED  BY <2>2, <2>3 DEF BatchTaskInv, Sending
<1>4. CASE StartReplace(w)
  <2>1. Untouched /\ task[w].have = {} /\ Credit = 0
    BY <1>4, <1>b, <1>l DEF StartReplace, At, BatchTaskInv
  <2>2. PICK q \in Queues : /\ Lists(q, task[w].sel \ task[w].have)
                            /\ job' = Fresh(task[w].sel, task[w].have, q)
    BY <1>4 DEF StartReplace
  <2>. DEFINE sel == task[w].sel
  <2>3. /\ sel \in SUBSET Fns
        /\ \A f \in Fns : job'.items[f] = IF f \in sel THEN "queued" ELSE "absent"
        /\ Range(job'.pending) = sel /\ CountsMatch(job')
    <3>1. sel \in SUBSET Fns /\ sel \ {} = sel
      BY <1>t DEF Tasks
    <3>. HIDE DEF sel
    <3>2. Lists(q, sel) /\ job' = Fresh(sel, {}, q)
      BY <2>1, <2>2, <3>1 DEF sel
    <3>. QED  BY <3>1, <3>2, FreshShape
  <2>4. Credit' = 0 /\ left'["relift"] = 0
    BY <1>4, <2>1, <1>l DEF StartReplace, Credit
  <2>5. \A f \in Fns : Unasked(f)'
    BY <1>4, <2>1 DEF StartReplace, Untouched, Unasked
  <2>6. BatchFileInv'
    BY <2>3, <2>4, <2>5 DEF BatchFileInv, Unasked, NotPaidTwice, CountersMatch, CountsMatch
  <2>. QED  BY <1>4, <2>6, <1>f, <1>w, <1>t, NowAt DEF StartReplace
<1>5. CASE StartMerge(w)
  BY <1>5, <1>b DEF StartMerge, At, BatchTaskInv
<1>6. CASE PumpRead(w)
  <2>1. BatchFileInv' /\ Credit' = Credit
    BY <1>6, <1>k DEF PumpRead
  <2>2. CASE CanPump(job)
    <3>1. task'[w].at = "pumpWrite"
      BY <1>6, <2>2, <1>w, <1>t, NowAt DEF PumpRead, Tasks
    <3>2. Credit' = 0
      BY <2>1, <2>2, <1>l, <1>b, <1>s DEF BatchFileInv
    <3>. QED  BY <2>1, <3>1, <3>2 DEF BatchTaskInv, Sending
  <2>3. CASE ~CanPump(job)
    <3>1. task' = task /\ At(w, "idle")
      BY <1>6, <2>3 DEF PumpRead
    <3>. QED  BY <2>1, <3>1, <1>f DEF At
  <2>. QED  BY <2>2, <2>3
<1>7. CASE PumpWrite(w)
  <2>1. At(w, "pumpWrite") /\ task[w].snap = job /\ CanPump(job) /\ Credit = 0
    BY <1>7, <1>c, <1>b, <1>l, <1>w DEF PumpWrite, At, IInv, HandlersOK, Writing, BatchTaskInv
  <2>2. job' = AfterPump(job)
        /\ task'[w] = [Idle EXCEPT !.at = "dispatch", !.going = Going(job)]
    BY <1>7, <2>1, <1>w, NowAt DEF PumpWrite
  <2>. DEFINE g == Going(job)
  <2>3. Going(job) \in Seq(Fns) /\ IsInjective(Going(job))
    BY <2>1, <1>t, GoingInjective
  <2>4. task'[w].at = "dispatch" /\ task'[w].going = g
    <3>. HIDE DEF g
    <3>1. task'[w] = [Idle EXCEPT !.at = "dispatch", !.going = g]
      BY <2>2 DEF g
    <3>. QED  BY <3>1, <1>t DEF Tasks
  <2>5. \A f \in Range(job.pending) : job.items[f] = "queued" /\ Unasked(f)
    BY <1>b DEF BatchFileInv
  <2>6. /\ \A f \in Fns : job'.items[f] = IF f \in Range(g) THEN "sent" ELSE job.items[f]
        /\ Range(job'.pending) \subseteq Range(job.pending)
        /\ Range(job'.pending) \cap Range(g) = {}
        /\ Range(g) \subseteq Range(job.pending)
        /\ CountsMatch(job')
    BY <2>1, <2>2, <2>5, <1>t, <1>b, PumpShape DEF BatchFileInv, CountersMatch, CountsMatch
  <2>7. /\ open' = open /\ result' = result /\ left' = left
    BY <1>7 DEF PumpWrite
  <2>. HIDE DEF g
  <2>8. BatchFileInv'
    BY <2>1, <2>5, <2>6, <2>7, <1>l, <1>b, <1>p
    DEF BatchFileInv, Credit, Unasked, NotPaidTwice, CountersMatch, CountsMatch
  <2>9. BatchTaskInv(task[w])'
    BY <2>1, <2>3, <2>4, <2>5, <2>6, <2>7, <1>p DEF BatchTaskInv, Credit, Unasked, g
  <2>. QED  BY <2>8, <2>9
<1>g. ASSUME task[w].at \in Sending
      PROVE  LET g == task[w].going
             IN  /\ g \in Seq(Fns) /\ g # <<>> /\ Credit = 0
                 /\ Head(g) \in Fns /\ Tail(g) \in Seq(Fns) /\ IsInjective(Tail(g))
                 /\ job.items[Head(g)] = "sent" /\ Unasked(Head(g))
                 /\ Head(g) \notin Range(job.pending)
                 /\ \A f \in Range(Tail(g)) : /\ f \in Fns /\ f # Head(g)
                                              /\ job.items[f] = "sent" /\ Unasked(f)
  <2>. DEFINE g == task[w].going
  <2>1. g \in Seq(Fns) /\ g # <<>>
    BY <1>g, <1>w, <1>t DEF IInv, HandlersOK, Sending, Tasks
  <2>2. IsInjective(g) /\ \A f \in Range(g) : job.items[f] = "sent" /\ Unasked(f)
    BY <1>g, <1>b DEF BatchTaskInv
  <2>3. Credit = 0
    BY <1>g, <1>b, <1>l DEF BatchTaskInv, Sending
  <2>4. /\ Tail(g) \in Seq(Fns) /\ IsInjective(Tail(g))
        /\ Head(g) \in Range(g) /\ Range(Tail(g)) \subseteq Range(g) \ {Head(g)}
        /\ Range(g) \subseteq Fns
    BY <2>1, <2>2, TailWithoutHead, QueueRange
  <2>5. Head(g) \notin Range(job.pending)
    BY <2>2, <2>4, <1>b DEF BatchFileInv
  <2>. QED  BY <2>1, <2>2, <2>3, <2>4, <2>5
\* The handler of the loop is done or has the tail in hand.
<1>n. ASSUME task[w].at \in Sending, NextDispatch(w), Credit' = 0,
             \A f \in Range(Tail(task[w].going)) : job'.items[f] = "sent" /\ Unasked(f)'
      PROVE  BatchTaskInv(task[w])'
  <2>. DEFINE g == Tail(task[w].going)
  <2>1. g \in Seq(Fns) /\ IsInjective(g)
    BY <1>n, <1>g
  <2>2. CASE task'[w] = Idle
    BY <2>2, <1>f, <1>t
  <2>3. CASE task'[w] = [Idle EXCEPT !.at = "dispatch", !.going = g]
    <3>1. task'[w].at = "dispatch" /\ task'[w].going = g
      <4>. HIDE DEF g
      <4>. QED  BY <2>3, <1>t DEF Tasks
    <3>. QED  BY <3>1, <2>1, <1>n DEF BatchTaskInv
  <2>. QED  BY <1>n, <2>2, <2>3, <1>w, NextDispatchShape
<1>8. CASE Dispatch(w)
  <2>. DEFINE g == task[w].going
  <2>1. task[w].at \in Sending
    BY <1>8 DEF Dispatch, At, Sending
  <2>2. /\ Credit = 0 /\ Head(g) \in Fns /\ Unasked(Head(g))
        /\ Head(g) \notin Range(job.pending)
        /\ \A f \in Range(Tail(g)) : f \in Fns /\ f # Head(g) /\ job.items[f] = "sent" /\ Unasked(f)
    BY <2>1, <1>g
  <2>3. /\ \A f \in Fns : open'[f] = IF f = Head(g) THEN open[f] + 1 ELSE open[f]
        /\ job' = job /\ result' = result /\ left' = left
    BY <1>8, <1>r, <2>2 DEF Dispatch
  <2>. HIDE DEF g
  <2>4. BatchFileInv'
    BY <2>2, <2>3, <1>b, <1>l, <1>p
    DEF BatchFileInv, Credit, Unasked, NotPaidTwice, CountersMatch, Tracked, InState
  <2>5. Credit' = 0 /\ \A f \in Range(Tail(g)) : job'.items[f] = "sent" /\ Unasked(f)'
    BY <2>2, <2>3 DEF Credit, Unasked
  <2>. QED  BY <1>8, <1>n, <2>1, <2>4, <2>5 DEF Dispatch, g
<1>9. CASE DispatchThrows(w) \/ FailRead(w)
  <2>1. /\ task[w].at \in Sending /\ task'[w].at \in Sending \ {"dispatch"}
        /\ task'[w].going = task[w].going
    BY <1>9, <1>w, <1>t, NowAt DEF DispatchThrows, FailRead, At, Sending, Tasks
  <2>2. BatchFileInv' /\ Credit' = 0 /\ job' = job /\ open' = open /\ result' = result
    BY <1>9, <1>k, <1>g, <2>1 DEF DispatchThrows, FailRead
  <2>. QED  BY <2>1, <2>2, <1>b DEF BatchTaskInv, Sending, Unasked
<1>10. CASE FailWrite(w)
  <2>. DEFINE g == task[w].going
              S == {Head(g)} \cap Tracked(job)
  <2>1. task[w].at \in Sending /\ task[w].snap = job
    BY <1>10, <1>c DEF FailWrite, At, Sending, Writing
  <2>2. /\ Credit = 0 /\ Head(g) \in Fns /\ job.items[Head(g)] = "sent"
        /\ Head(g) \notin Range(job.pending)
        /\ \A f \in Range(Tail(g)) : f \in Fns /\ f # Head(g) /\ job.items[f] = "sent" /\ Unasked(f)
    BY <2>1, <1>g
  <2>3. S = {Head(g)} /\ S \in SUBSET Fns /\ S \subseteq InState(job, "sent")
    BY <2>2 DEF Tracked, InState
  <2>4. job' = SettleIfIdle(CountFailed(Mark(job, S, "failed")))
    BY <1>10, <2>1 DEF FailWrite, AfterFailure
  <2>. HIDE DEF g, S
  <2>5. /\ \A f \in Fns : job'.items[f] = IF f = Head(g) THEN "failed" ELSE job.items[f]
        /\ job'.pending = job.pending /\ CountsMatch(job')
    BY <2>3, <2>4, <1>t, <1>b, FailedShape DEF BatchFileInv, CountersMatch, CountsMatch
  <2>6. open' = open /\ result' = result /\ left' = left
    BY <1>10 DEF FailWrite
  <2>7. BatchFileInv'
    BY <2>2, <2>5, <2>6, <1>b, <1>l, <1>p
    DEF BatchFileInv, Credit, Unasked, NotPaidTwice, CountersMatch, CountsMatch
  <2>8. Credit' = 0 /\ \A f \in Range(Tail(g)) : job'.items[f] = "sent" /\ Unasked(f)'
    BY <2>2, <2>5, <2>6 DEF Credit, Unasked
  <2>. QED  BY <1>10, <1>n, <2>1, <2>7, <2>8 DEF FailWrite, g
<1>11. CASE StoreResult(w)
  <2>1. PICK f \in Fns, r \in {"good", "bad"} :
              /\ open[f] > 0
              /\ result' = [result EXCEPT ![f] = r]
              /\ open' = [open EXCEPT ![f] = @ - 1] \/ UNCHANGED open
              /\ Become(w, [Idle EXCEPT !.at = "resultRead", !.sel = {f}])
    BY <1>11 DEF StoreResult
  <2>2. f \notin Range(job.pending) /\ Credit = 0
    BY <2>1, <1>b, <1>l, <1>r DEF BatchFileInv, Untouched, Unasked
  <2>3. /\ job' = job /\ Credit' = Credit /\ left'["relift"] = 0
    BY <1>11, <1>r, <1>l DEF StoreResult, Spend, Events, Credit
  <2>4. \A x \in Fns : open'[x] <= open[x] /\ open'[x] \in Nat
                       /\ (x # f => result'[x] = result[x])
    BY <2>1, <1>r
  <2>5. result'[f] # "none"
    BY <2>1, <1>r
  <2>6. BatchFileInv'
    BY <2>2, <2>3, <2>4, <1>b, <1>p, <1>r
    DEF BatchFileInv, Unasked, NotPaidTwice, CountersMatch, Tracked, InState
  <2>7. task'[w].at = "resultRead" /\ task'[w].sel = {f}
    BY <2>1, <1>w, <1>t, NowAt DEF Tasks
  <2>. QED  BY <2>2, <2>3, <2>5, <2>6, <2>7 DEF BatchTaskInv, Sending
<1>12. CASE ResultRead(w)
  <2>1. At(w, "resultRead") /\ task'[w].at = "resultWrite" /\ task'[w].sel = task[w].sel
    BY <1>12, <1>w, <1>t, NowAt DEF ResultRead, Tasks
  <2>2. BatchFileInv' /\ Credit' = Credit /\ result' = result
    BY <1>12, <1>k DEF ResultRead
  <2>. QED  BY <2>1, <2>2, <1>b DEF At, BatchTaskInv, Sending
<1>13. CASE ResultWrite(w)
  <2>. DEFINE S == task[w].sel
  <2>1. S \in SUBSET Fns /\ task[w].snap = job /\ Credit = 0
        /\ \A f \in S : result[f] # "none"
    BY <1>13, <1>c, <1>t, <1>b, <1>l DEF ResultWrite, At, Writing, Tasks, BatchTaskInv
  <2>2. \A f \in S : f \notin Range(job.pending)
    BY <2>1, <1>b DEF BatchFileInv, Unasked
  <2>3. job' = AfterResult(job, S) /\ open' = open /\ result' = result /\ left' = left
    BY <1>13, <2>1 DEF ResultWrite
  <2>. HIDE DEF S
  <2>4. /\ \A f \in Fns : job'.items[f] = IF f \in S THEN "done" ELSE job.items[f]
        /\ job'.pending = job.pending /\ CountsMatch(job')
    BY <2>1, <2>3, <1>t, <1>b, ResultShape DEF BatchFileInv, CountersMatch, CountsMatch
  <2>5. BatchFileInv'
    BY <2>1, <2>2, <2>3, <2>4, <1>b, <1>l, <1>p
    DEF BatchFileInv, Credit, Unasked, NotPaidTwice, CountersMatch, CountsMatch
  <2>. QED  BY <1>13, <2>5, <1>f, <1>w, <1>t, NowAt DEF ResultWrite
<1>14. CASE ReapRead(w)
  <2>1. PICK late \in SUBSET InState(job, "sent") \ {{}} :
         Become(w, [Idle EXCEPT !.at = "reapWrite", !.snap = job, !.sel = late])
    BY <1>14 DEF ReapRead
  <2>2. task'[w].at = "reapWrite" /\ task'[w].sel = late
    BY <2>1, <1>w, <1>t, NowAt DEF Tasks
  <2>3. BatchFileInv' /\ Credit' = Credit /\ job' = job
    BY <1>14, <1>k DEF ReapRead
  <2>4. Credit = 0
    BY <1>14, <1>b, <1>l, <1>s DEF ReapRead, BatchFileInv
  <2>. QED  BY <2>2, <2>3, <2>4 DEF BatchTaskInv, Sending, InState
<1>15. CASE ReapWrite(w)
  <2>. DEFINE S == task[w].sel
  <2>1. S \in SUBSET Fns /\ task[w].snap = job /\ Credit = 0 /\ S \subseteq InState(job, "sent")
    BY <1>15, <1>c, <1>t, <1>b, <1>l DEF ReapWrite, At, Writing, Tasks, BatchTaskInv
  <2>2. \A f \in S : f \notin Range(job.pending)
    BY <2>1, <1>b DEF BatchFileInv, InState
  <2>3. job' = SettleIfIdle(CountFailed(Mark(job, S, "failed")))
        /\ open' = open /\ result' = result /\ left' = left
    BY <1>15, <2>1 DEF ReapWrite, AfterReap
  <2>. HIDE DEF S
  <2>4. /\ \A f \in Fns : job'.items[f] = IF f \in S THEN "failed" ELSE job.items[f]
        /\ job'.pending = job.pending /\ CountsMatch(job')
    BY <2>1, <2>3, <1>t, <1>b, FailedShape DEF BatchFileInv, CountersMatch, CountsMatch
  <2>5. BatchFileInv'
    BY <2>1, <2>2, <2>3, <2>4, <1>b, <1>l, <1>p
    DEF BatchFileInv, Credit, Unasked, NotPaidTwice, CountersMatch, CountsMatch
  <2>. QED  BY <1>15, <2>5, <1>f, <1>w, <1>t, NowAt DEF ReapWrite
<1>16. CASE StopRead(w)
  <2>1. task'[w].at = "stopWrite"
    BY <1>16, <1>w, <1>t, NowAt DEF StopRead, Tasks
  <2>2. BatchFileInv' /\ Credit' = Credit
    BY <1>16, <1>k, <1>r DEF StopRead, Spend, Events
  <2>3. Credit = 0
    BY <1>16, <1>b, <1>l, <1>s DEF StopRead, BatchFileInv
  <2>. QED  BY <2>1, <2>2, <2>3 DEF BatchTaskInv, Sending
<1>17. CASE ResetRead(w)
  <2>1. BatchFileInv' /\ Credit' = Credit
    BY <1>17, <1>k, <1>r DEF ResetRead, Spend, Events
  <2>2. CASE job.state = "running"
    <3>1. task'[w].at = "resetStop"
      BY <1>17, <2>2, <1>w, <1>t, NowAt DEF ResetRead, Tasks
    <3>2. Credit = 0
      BY <2>2, <1>b, <1>l, <1>s DEF BatchFileInv
    <3>. QED  BY <2>1, <3>1, <3>2 DEF BatchTaskInv, Sending
  <2>3. CASE job.state # "running"
    <3>1. task'[w].at = "resetResults"
      BY <1>17, <2>3, <1>w, <1>t, NowAt DEF ResetRead, Tasks
    <3>. QED  BY <2>1, <3>1, <1>f
  <2>. QED  BY <2>2, <2>3
<1>18. CASE StopWrite(w) \/ ResetStop(w)
  <2>1. task[w].snap = job /\ Credit = 0
    BY <1>18, <1>c, <1>b, <1>l DEF StopWrite, ResetStop, At, Writing, BatchTaskInv
  <2>2. job' = AfterStop(job) /\ open' = open /\ result' = result /\ left' = left
    BY <1>18, <2>1 DEF StopWrite, ResetStop
  <2>3. job'.pending = <<>> /\ CountsMatch(job')
    BY <2>2, <1>t, <1>b, StopShape DEF BatchFileInv, CountersMatch, CountsMatch
  <2>4. BatchFileInv'
    BY <2>1, <2>2, <2>3, <1>b, <1>l, <1>e
    DEF BatchFileInv, Credit, NotPaidTwice, CountersMatch, CountsMatch
  <2>5. task'[w].at \in {"idle", "resetResults"}
    BY <1>18, <1>w, <1>t, NowAt DEF StopWrite, ResetStop, Tasks
  <2>. QED  BY <2>4, <2>5, <1>f
<1>19. CASE ResetResults(w)
  <2>1. task'[w].at = "resetJob" /\ \A f \in Fns : result'[f] = "none"
    BY <1>19, <1>w, <1>t, NowAt DEF ResetResults, Tasks
  <2>2. job' = job /\ open' = open /\ left' = left
    BY <1>19 DEF ResetResults
  <2>3. BatchFileInv'
    BY <2>1, <2>2, <1>b, <1>p
    DEF BatchFileInv, Credit, Untouched, Unasked, NotPaidTwice, CountersMatch, Tracked, InState
  <2>. QED  BY <2>1, <2>3 DEF BatchTaskInv, Sending
<1>20. CASE ResetJob(w)
  <2>1. /\ job' = EmptyJob /\ open' = open /\ result' = result /\ left' = left
        /\ task'[w] = Idle
    BY <1>20, <1>w, NowAt DEF ResetJob
  <2>2. CountersMatch' /\ job'.pending = <<>> /\ Tracked(job)' = {}
    BY <2>1, EmptyBooks
  <2>3. BatchFileInv'
    BY <2>1, <2>2, <1>b, <1>e DEF BatchFileInv, Credit, Untouched, Unasked, NotPaidTwice
  <2>. QED  BY <2>1, <2>3, <1>f, <1>t
<1>21. CASE Lose
  <2>1. PICK f \in Fns : open[f] > 0 /\ open' = [open EXCEPT ![f] = @ - 1]
    BY <1>21 DEF Lose
  <2>2. /\ job' = job /\ result' = result /\ left' = left /\ task' = task
        /\ \A x \in Fns : open'[x] \in Nat /\ open'[x] <= open[x] /\ (open[x] = 0 => open'[x] = 0)
    BY <1>21, <2>1, <1>r DEF Lose
  <2>3. BatchFileInv'
    BY <2>2, <1>b, <1>p, <1>r
    DEF BatchFileInv, Credit, Untouched, Unasked, NotPaidTwice, CountersMatch, Tracked, InState
  <2>4. ASSUME task[w].at \in Sending PROVE Range(task[w].going) \subseteq Fns
    BY <1>t, QueueRange DEF Tasks
  <2>. QED  BY <2>2, <2>3, <2>4, <1>b
            DEF BatchTaskInv, Credit, Untouched, Unasked, Tracked, InState
<1>22. CASE Restart
  <2>1. task'[w] = Idle
    BY <1>22, <1>w DEF Restart
  <2>2. BatchFileInv'
    BY <1>22, <1>k, <1>r DEF Restart, Spend, Events
  <2>. QED  BY <2>1, <2>2, <1>f, <1>t
<1>23. CASE UNCHANGED vars
  <2>1. job' = job /\ result' = result /\ open' = open /\ left' = left /\ task' = task
    BY <1>23 DEF vars
  <2>. QED  BY <2>1, <1>k, <1>b DEF BatchTaskInv, Credit, Untouched, Unasked, Tracked, InState
<1>. QED
  BY <1>w, <1>1, <1>2, <1>3, <1>4, <1>5, <1>6, <1>7, <1>8, <1>9, <1>10, <1>11, <1>12, <1>13,
     <1>14, <1>15, <1>16, <1>17, <1>18, <1>19, <1>20, <1>21, <1>22, <1>23
  DEF Next, Proceed, Start, StartWrite

LEMMA BatchInvariance == ASSUME Serial, OneStart PROVE Spec => []BatchInv
<1>1. Init => BatchInv
  BY BatchInit
<1>2. IInv /\ Current /\ BatchInv /\ [Next]_vars => BatchInv'
  BY BatchStep
<1>. QED  BY <1>1, <1>2, SerialInvariance, PTL DEF Spec

\* One batch, one handler at a time: no function has two requests with the
\* model, whatever is lost, answered twice, reaped, stopped or reset, and
\* wherever the server restarts (l.493-496).
THEOREM SentOnce == ASSUME Serial, OneStart PROVE Spec => []NotPaidTwice
<1>1. BatchInv => NotPaidTwice
  BY DEF BatchInv, BatchFileInv
<1>. QED  BY <1>1, BatchInvariance, PTL

LEMMA WindowKept == IInv /\ BatchInv => OpenWithinWindow
<1>. SUFFICES ASSUME IInv, BatchInv  PROVE OpenWithinWindow
  OBVIOUS
<1>. DEFINE S == {f \in Fns : open[f] > 0 /\ job.items[f] \in {"queued", "sent"}}
<1>1. JobOK(job) /\ \A f \in Range(job.pending) : open[f] = 0
  BY DEF IInv, JobConsistent, BatchInv, BatchFileInv, Unasked
<1>2. S \subseteq InState(job, "sent") /\ InState(job, "sent") \in SUBSET Fns
  BY <1>1 DEF JobOK, QueueMatchesItems, InState
<1>3. /\ Cardinality(S) <= Cardinality(InState(job, "sent"))
      /\ Cardinality(S) \in Nat /\ Cardinality(InState(job, "sent")) \in Nat
  BY <1>2, SubsetCard, FS_Subset
<1>4. Cardinality(InState(job, "sent")) <= Window
  BY <1>1 DEF JobOK, WindowOnPaper
<1>. QED  BY <1>3, <1>4 DEF OpenWithinWindow

\* One batch, one handler at a time: the counters of the progress bar are
\* those of the items, and no more items than the window holds wait for an
\* answer of the model (l.33-42, l.620-624).
THEOREM BooksKept == ASSUME Serial, OneStart PROVE Spec => []BooksMatch
<1>1. IInv /\ BatchInv => BooksMatch
  BY WindowKept DEF BatchInv, BatchFileInv, BooksMatch
<1>. QED  BY <1>1, BatchInvariance, Invariance, PTL
-----------------------------------------------------------------------------
(* Without a restart between a result file and the job file, no result is  *)
(* forgotten.                                                              *)

LEMMA AccountedStep ==
    ASSUME IInv, Current, BatchInv, Accounted, left["crash"] = 0, Serial, [Next]_vars
    PROVE  Accounted'
<1>. PICK w : Workers = {w}
  BY DEF Serial
<1>w. w \in Workers /\ \A u : u \in Workers <=> u = w
  OBVIOUS
<1>b. BatchFileInv /\ BatchTaskInv(task[w])
  BY <1>w DEF BatchInv
<1>c. task[w].at \in Writing => task[w].snap = job
  BY <1>w DEF Current
<1>t. /\ task[w] \in Tasks /\ Idle \in Tasks /\ Idle.at = "idle"
      /\ job \in Jobs /\ JobOK(job)
  BY <1>w, NowAt, IdleOK DEF TaskOK, Idle
<1>r. /\ result \in [Fns -> {"none", "good", "bad"}] /\ left \in [Events -> Nat]
  BY DEF IInv, TypeOK
<1>. DEFINE Busy == {"resultRead", "resultWrite"}
<1>. SUFFICES ASSUME NEW f \in Fns, result'[f] # "none"
              PROVE  \/ job'.items[f] = "done"
                     \/ task'[w].at \in Busy /\ f \in task'[w].sel
  BY <1>w DEF Accounted
<1>a. result[f] # "none" =>
        job.items[f] = "done" \/ (task[w].at \in Busy /\ f \in task[w].sel)
  BY <1>w DEF Accounted
<1>q. result[f] # "none" => f \notin Range(job.pending)
  BY <1>b DEF BatchFileInv, Unasked
<1>1. CASE job' = job /\ result' = result /\ (task[w].at \notin Busy \/ task' = task)
  BY <1>1, <1>a
<1>2. CASE StartRead(w) \/ StartReplace(w) \/ StartMerge(w)
  BY <1>2, <1>b DEF StartRead, StartReplace, StartMerge, At, BatchTaskInv, Untouched, Unasked
<1>3. CASE PumpWrite(w)
  <2>1. task[w].snap = job /\ CanPump(job) /\ At(w, "pumpWrite")
    BY <1>3, <1>c, <1>w DEF PumpWrite, At, IInv, HandlersOK, Writing
  <2>2. job.items[f] = "done" /\ f \notin Range(job.pending)
    BY <1>3, <1>a, <1>q, <2>1 DEF PumpWrite, At
  <2>3. /\ \A x \in Fns : job'.items[x] = IF x \in Range(Going(job)) THEN "sent"
                                           ELSE job.items[x]
        /\ Range(Going(job)) \subseteq Range(job.pending)
    BY <1>3, <2>1, <1>t, PumpShape DEF PumpWrite
  <2>. QED  BY <2>2, <2>3
<1>4. CASE FailWrite(w)
  <2>. DEFINE h == Head(task[w].going)
              S == {h} \cap Tracked(job)
  <2>1. task[w].snap = job /\ task[w].at \in Sending /\ task[w].at \notin Busy
    BY <1>4, <1>c DEF FailWrite, At, Sending, Writing
  <2>2. task[w].going \in Seq(Fns) /\ task[w].going # <<>>
    BY <2>1, <1>w, <1>t DEF IInv, HandlersOK, Sending, Tasks
  <2>3. job.items[h] = "sent"
    BY <2>1, <2>2, <1>b, TailWithoutHead DEF BatchTaskInv
  <2>4. job' = SettleIfIdle(CountFailed(Mark(job, S, "failed"))) /\ S \in SUBSET Fns
    BY <1>4, <2>1 DEF FailWrite, AfterFailure, Tracked
  <2>. HIDE DEF h, S
  <2>5. \A x \in Fns : job'.items[x] = IF x \in S THEN "failed" ELSE job.items[x]
    BY <2>4, <1>t, FailedShape
  <2>6. job.items[f] = "done"
    BY <1>4, <1>a, <2>1 DEF FailWrite
  <2>. QED  BY <2>3, <2>5, <2>6 DEF S
<1>5. CASE StoreResult(w)
  <2>1. PICK g \in Fns, r \in {"good", "bad"} :
              /\ result' = [result EXCEPT ![g] = r]
              /\ Become(w, [Idle EXCEPT !.at = "resultRead", !.sel = {g}])
    BY <1>5 DEF StoreResult
  <2>2. task'[w].at = "resultRead" /\ task'[w].sel = {g}
    BY <2>1, <1>w, <1>t, NowAt DEF Tasks
  <2>3. job' = job /\ (f # g => result'[f] = result[f]) /\ task[w].at \notin Busy
    BY <1>5, <2>1, <1>r DEF StoreResult, At
  <2>. QED  BY <2>2, <2>3, <1>a
<1>6. CASE ResultRead(w)
  <2>1. task'[w].at = "resultWrite" /\ task'[w].sel = task[w].sel
        /\ job' = job /\ result' = result
    BY <1>6, <1>w, <1>t, NowAt DEF ResultRead, Tasks
  <2>. QED  BY <2>1, <1>a
<1>7. CASE ResultWrite(w)
  <2>. DEFINE S == task[w].sel
  <2>1. S \in SUBSET Fns /\ job' = AfterResult(job, S) /\ result' = result
    BY <1>7, <1>c, <1>t DEF ResultWrite, At, Writing, Tasks
  <2>. HIDE DEF S
  <2>2. \A x \in Fns : job'.items[x] = IF x \in S THEN "done" ELSE job.items[x]
    BY <2>1, <1>t, ResultShape
  <2>. QED  BY <2>1, <2>2, <1>a DEF S
<1>8. CASE ReapWrite(w)
  <2>. DEFINE S == task[w].sel
  <2>1. /\ S \in SUBSET Fns /\ S \subseteq InState(job, "sent") /\ result' = result
        /\ job' = SettleIfIdle(CountFailed(Mark(job, S, "failed")))
    BY <1>8, <1>c, <1>t, <1>b DEF ReapWrite, At, Writing, Tasks, BatchTaskInv, AfterReap
  <2>. HIDE DEF S
  <2>2. \A x \in Fns : job'.items[x] = IF x \in S THEN "failed" ELSE job.items[x]
    BY <2>1, <1>t, FailedShape
  <2>3. job.items[f] = "done"
    BY <1>8, <1>a, <2>1 DEF ReapWrite, At
  <2>. QED  BY <2>1, <2>2, <2>3 DEF InState
<1>9. CASE StopWrite(w) \/ ResetStop(w)
  <2>1. job' = AfterStop(job) /\ result' = result /\ task[w].at \notin Busy
    BY <1>9, <1>c DEF StopWrite, ResetStop, At, Writing
  <2>2. \A x \in Fns : job'.items[x] = IF x \in Range(job.pending) THEN "stopped"
                                       ELSE job.items[x]
    BY <2>1, <1>t, StopShape
  <2>. QED  BY <2>1, <2>2, <1>a, <1>q
<1>10. CASE ResetResults(w)
  BY <1>10 DEF ResetResults
<1>11. CASE ResetJob(w)
  BY <1>11, <1>b DEF ResetJob, At, BatchTaskInv
<1>12. CASE Restart
  BY <1>12 DEF Restart, Spend
<1>. QED
  BY <1>w, <1>1, <1>2, <1>3, <1>4, <1>5, <1>6, <1>7, <1>8, <1>9, <1>10, <1>11, <1>12
  DEF Next, Proceed, Start, StartWrite, StartAutomatic, StartNamed, Relift, StartSelect,
      ReapRead, StopRead, ResetRead, PumpRead, Dispatch, DispatchThrows, FailRead,
      Lose, At, vars

LEMMA NoMoreCrashes ==
    ASSUME IInv, left["crash"] = 0, [Next]_vars
    PROVE  left'["crash"] = 0
<1>1. left \in [Events -> Nat]
  BY DEF IInv, TypeOK
<1>2. CASE \E e \in Events \ {"crash"} : Spend(e)
  BY <1>1, <1>2 DEF Spend, Events
<1>3. CASE left' = left
  BY <1>3
<1>4. CASE Restart
  BY <1>4 DEF Restart, Spend
<1>. QED
  BY <1>2, <1>3, <1>4
  DEF Next, Proceed, Start, StartAutomatic, StartNamed, Relift, StoreResult, ReapRead,
      StopRead, ResetRead, StartRead, StartWrite, StartReplace, StartMerge, PumpRead,
      PumpWrite, Dispatch, DispatchThrows, FailRead, FailWrite, ResultRead, ResultWrite,
      ReapWrite, StopWrite, ResetStop, ResetResults, ResetJob, Lose, vars, Events

\* One batch, one handler at a time and no restart: when every handler has
\* finished, each function whose result is on disk is done in the job, even
\* one that was given up, stopped or answered twice (l.577-584).
THEOREM NoResultForgotten ==
    ASSUME Serial, OneStart, NoCrash
    PROVE  Spec => []ResultAccounted
<1>1. Init => Accounted /\ left["crash"] = 0
  BY DEF Init, Accounted, NoCrash
<1>2. IInv /\ Current /\ BatchInv /\ Accounted /\ left["crash"] = 0 /\ [Next]_vars
        => (Accounted /\ left["crash"] = 0)'
  BY AccountedStep, NoMoreCrashes
<1>3. Accounted => ResultAccounted
  BY DEF Accounted, ResultAccounted, Quiet, At
<1>. QED  BY <1>1, <1>2, <1>3, SerialInvariance, BatchInvariance, PTL DEF Spec
=============================================================================
