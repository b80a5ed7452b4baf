--------------------------- MODULE AiResultsProofs ---------------------------
(***************************************************************************)
(* The versions of the results are what the reports refer to: a report's   *)
(* lift can still be read, and a report is marked stale exactly when its   *)
(* text has been replaced.  For any functions, call graph, selections,     *)
(* window, number of versions kept and number of events, and any number of *)
(* overlapping handlers.                                                   *)
(*                                                                         *)
(* The queue does not matter to these, so the argument is about four       *)
(* steps: a version is made (an answer or a review), it is written, a      *)
(* reset clears a task, and anything else.  The queue matters to what the  *)
(* views say of a function and to what a prompt is told, further down; the *)
(* files the results are kept in are at the end.                           *)
(***************************************************************************)
EXTENDS ResultViews, JsonStore, Induction, FiniteSetTheorems, SequenceTheorems, TLAPS

USE ResultsAssumption

Version == [id : Nat, text : Nat, bad : BOOLEAN, issues : Reports, derived : Nat, read : Nat]
Recording == [task : Tasks, fn : Fns, previous : Seq(Version), version : Version]
States == {"absent", "queued", "sent", "done", "failed"}
Job == [pending : Seq(Fns), items : [Fns -> [state : States, batch : Nat]]]
Orders ==
    {<<>>, <<"decompile", "bugs">>, <<"bugs">>}
        \cup IF "behaviour" \in Tasks
             THEN { <<"decompile", "bugs", "behaviour">>, <<"bugs", "behaviour">>, <<"behaviour">> }
             ELSE {}

TypeInv ==
    /\ stored \in [Tasks -> [Fns -> Seq(Version)]]
    /\ job \in [Tasks -> Job]
    /\ \A p \in asked : p.task \in Tasks /\ p.fn \in Fns
    /\ recording \subseteq Recording
    /\ reset \in Orders
    /\ now \in Nat \ {0}
    /\ left \in [versions : Nat, handlers : Nat, starts : Nat, extras : Nat]
    /\ torn \subseteq Tasks \X Fns
-----------------------------------------------------------------------------
(* Ids grow along the versions of a function, newest first.                *)

ListOK(s, n) ==
    /\ Len(s) <= Kept + 1
    /\ \A i \in DOMAIN s : s[i].id \in 1 .. n - 1
    /\ \A i, j \in DOMAIN s : i < j => s[i].id > s[j].id

ListInv ==
    /\ \A t \in Tasks, f \in Fns : ListOK(stored[t][f], now)
    /\ \A r \in recording :
         /\ r.version.id \in 1 .. now - 1
         /\ ListOK(r.previous, r.version.id)

(* A report that is stored or on its way names a lift that can be read, or *)
(* that as many later ones as are kept have pushed out.                    *)

Supported(s, d) ==
    \/ d = 0
    \/ \E i \in DOMAIN s : s[i].id = d
    \/ Len(s) = Kept + 1 /\ \A i \in DOMAIN s : d < s[i].id

\* The lifts are cleared and the reports are not.
HalfReset == reset # <<>> /\ Head(reset) = "bugs"

AllSupported(reports, lifts) ==
    \A i \in DOMAIN reports : Supported(lifts, reports[i].derived)

EvidenceInv ==
    \A f \in Fns : <<"decompile", f>> \notin torn =>
        /\ ~HalfReset => AllSupported(stored["bugs"][f], stored["decompile"][f])
        /\ \A r \in recording : r.task = "bugs" /\ r.fn = f =>
             /\ Supported(stored["decompile"][f], r.version.derived)
             /\ ~HalfReset => AllSupported(r.previous, stored["decompile"][f])

(* An id tells the text of a lift, and what is on its way is new.          *)

Out(f) == {r \in recording : r.task = "decompile" /\ r.fn = f}

\* The lifts that are stored, or held by a handler as the previous ones.
Lifts(f) == ToSet(stored["decompile"][f]) \cup UNION {ToSet(r.previous) : r \in Out(f)}

TextOK(lifts, out, n) ==
    /\ \A v, w \in lifts : v.id = w.id => v.text = w.text
    /\ \A v \in lifts : v.id \in 1 .. n - 1 /\ v.text \in 1 .. n - 1
    /\ \A r \in out :
         /\ r.version.id \in 1 .. n - 1 /\ r.version.text \in 1 .. n - 1
         /\ \A v \in lifts : v.text # r.version.id /\ v.id # r.version.id
         /\ \A q \in out \ {r} : q.version.id # r.version.id /\ q.version.text # r.version.id

TextInv == \A f \in Fns : TextOK(Lifts(f), Out(f), now)

(* A report that was reasoned from a text is stamped with a lift of it; if *)
(* that lift was a review, the one reviewed is not to be current again.    *)
Backed(w, current, lifts, out, n) ==
    w.read # 0 =>
        /\ w.derived \in 1 .. n - 1 /\ w.read \in 1 .. n - 1
        /\ \A v \in lifts \cup {q.version : q \in out} : v.id = w.derived => v.text = w.read
        /\ w.read # w.derived => /\ current.id # w.read
                                 /\ \A q \in out : q.version.id # w.read

BackedInv ==
    \A f \in Fns :
        /\ Backed(Current("bugs", f), Current("decompile", f), Lifts(f), Out(f), now)
        /\ \A r \in recording :
             r.task = "bugs" /\ r.fn = f
               => Backed(r.version, Current("decompile", f), Lifts(f), Out(f), now)
(* What is queued is on the pending list; a bad answer reports no issue.   *)
Waits(j) == \A f \in Fns : j.items[f].state = "queued" => f \in ToSet(j.pending)
QueueInv == \A t \in Tasks : Waits(job[t])

Honest(v) == v.bad => v.issues = <<>>
HonestInv ==
    /\ \A f \in Fns : \A i \in DOMAIN stored["bugs"][f] : Honest(stored["bugs"][f][i])
    /\ \A r \in recording : r.task = "bugs" =>
          Honest(r.version) /\ \A i \in DOMAIN r.previous : Honest(r.previous[i])
-----------------------------------------------------------------------------
(* The operators.                                                          *)

LEMMA OrderShape == TaskOrder \in Orders /\ TaskOrder # <<>> /\ Head(TaskOrder) = "decompile"
BY DEF TaskOrder, Orders

LEMMA OrderTail ==
    ASSUME NEW s \in Orders, s # <<>>
    PROVE  /\ Tail(s) \in Orders /\ Head(s) \in Tasks
           /\ Head(s) = "decompile" => Tail(s) # <<>> /\ Head(Tail(s)) = "bugs"
           /\ Head(s) # "decompile" => (Tail(s) = <<>> \/ Head(Tail(s)) = "behaviour")
<1>1. ASSUME NEW x, s = <<x>>
      PROVE  Tail(s) = <<>> /\ Head(s) = x
  <2>1. s \in Seq({x}) /\ Len(s) = 1 /\ s # <<>>
    BY <1>1
  <2>2. Tail(s) \in Seq({x}) /\ Len(Tail(s)) = 0
    BY <2>1, HeadTailProperties
  <2>. QED  BY <1>1, <2>2, EmptySeq
<1>2. CASE s = <<"decompile", "bugs">>
  <2>1. Tail(s) = <<"bugs">>
    BY <1>2
  <2>. QED  BY <1>2, <2>1 DEF Orders
<1>3. CASE s = <<"bugs", "behaviour">>
  <2>1. Tail(s) = <<"behaviour">>
    BY <1>3
  <2>. QED  BY <1>3, <2>1 DEF Orders
<1>4. CASE s = <<"decompile", "bugs", "behaviour">>
  <2>1. Tail(s) = <<"bugs", "behaviour">>
    BY <1>4
  <2>. QED  BY <1>4, <2>1 DEF Orders
<1>. QED  BY <1>1, <1>2, <1>3, <1>4 DEF Orders

\* One comes before another among the first n.
Sooner(c, n, x, y) == \E a, b \in 1 .. n : a < b /\ c[a] = x /\ c[b] = y

\* The loop of startBatch over the first n of a selection: q has what is
\* not done yet, in order.
LeftOver(t, chosen, n, q) ==
    /\ \A k \in DOMAIN q : \E a \in 1 .. n : chosen[a] = q[k]
    /\ \A i, k \in DOMAIN q : i < k => Sooner(chosen, n, q[i], q[k])
    /\ \A a \in 1 .. n : Good(Current(t, chosen[a])) \/ \E k \in DOMAIN q : q[k] = chosen[a]

LEMMA LeftOverGrows ==
    ASSUME NEW t, NEW chosen, NEW n \in Nat \ {0}, NEW q \in Seq(Fns), NEW f \in Fns,
           f = chosen[n], LeftOver(t, chosen, n - 1, q)
    PROVE  /\ Good(Current(t, f)) => LeftOver(t, chosen, n, q)
           /\ LeftOver(t, chosen, n, Append(q, f))
<1>. PICK r : r = Append(q, f)
  OBVIOUS
<1>. PICK m \in Nat : m = Len(q)
  OBVIOUS
<1>1. /\ DOMAIN q = 1 .. m /\ DOMAIN r = 1 .. m + 1 /\ r[m + 1] = f
      /\ \A i \in 1 .. m : r[i] = q[i]
  BY AppendProperties, LenProperties
<1>2. \A a \in 1 .. n : a = n \/ a \in 1 .. n - 1
  OBVIOUS
<1>3. \A a \in 1 .. n - 1 : a \in 1 .. n /\ a < n
  OBVIOUS
<1>4. \A k \in 1 .. m + 1 : k = m + 1 \/ k \in 1 .. m
  OBVIOUS
<1>5. \A k \in 1 .. m : k \in 1 .. m + 1 /\ ~ (m + 1 < k)
  OBVIOUS
<1>6. n \in 1 .. n /\ m + 1 \in 1 .. m + 1 /\ ~ (m + 1 < m + 1)
  OBVIOUS
<1>7. /\ \A k \in 1 .. m : \E a \in 1 .. n - 1 : chosen[a] = q[k]
      /\ \A i, k \in 1 .. m : i < k => Sooner(chosen, n - 1, q[i], q[k])
      /\ \A a \in 1 .. n - 1 : Good(Current(t, chosen[a])) \/ \E k \in 1 .. m : q[k] = chosen[a]
  BY ONLY <1>1, LeftOver(t, chosen, n - 1, q) DEF LeftOver
<1>b. \A x, y : Sooner(chosen, n - 1, x, y) => Sooner(chosen, n, x, y)
  BY ONLY <1>3 DEF Sooner
<1>8. Good(Current(t, f)) => LeftOver(t, chosen, n, q)
  BY ONLY <1>1, <1>2, <1>3, <1>7, <1>b, f = chosen[n] DEF LeftOver
<1>9. \A k \in 1 .. m + 1 : \E a \in 1 .. n : chosen[a] = r[k]
  BY ONLY <1>1, <1>3, <1>4, <1>6, <1>7, f = chosen[n]
<1>10. ASSUME NEW i \in 1 .. m + 1, NEW k \in 1 .. m + 1, i < k
       PROVE  Sooner(chosen, n, r[i], r[k])
  <2>1. i \in 1 .. m
    BY <1>4, <1>5, <1>6, <1>10
  <2>2. CASE k = m + 1
    <3>1. PICK a \in 1 .. n - 1 : chosen[a] = q[i]
      BY <1>7, <2>1
    <3>. QED  BY ONLY <1>1, <1>3, <1>6, <2>1, <2>2, <3>1, f = chosen[n] DEF Sooner
  <2>3. CASE k \in 1 .. m
    BY ONLY <1>1, <1>7, <1>b, <1>10, <2>1, <2>3
  <2>. QED  BY <1>4, <2>2, <2>3
<1>11. ASSUME NEW a \in 1 .. n
       PROVE  Good(Current(t, chosen[a])) \/ \E k \in 1 .. m + 1 : r[k] = chosen[a]
  BY ONLY <1>1, <1>2, <1>5, <1>6, <1>7, f = chosen[n], a \in 1 .. n
<1>12. LeftOver(t, chosen, n, r)
  BY ONLY <1>1, <1>9, <1>10, <1>11 DEF LeftOver
<1>. QED  BY <1>8, <1>12

LEMMA UnfinishedShape ==
    ASSUME NEW t \in Tasks, NEW chosen \in Seq(Fns)
    PROVE  /\ Unfinished(t, chosen) \in Seq(Fns)
           /\ LeftOver(t, chosen, Len(chosen), Unfinished(t, chosen))
<1>. DEFINE Go(i, q) == IF Good(Current(t, chosen[i])) THEN q ELSE Append(q, chosen[i])
            queue[i \in 0 .. Len(chosen)] ==
                IF i = 0 THEN <<>>
                ELSE IF Good(Current(t, chosen[i])) THEN queue[i - 1]
                ELSE Append(queue[i - 1], chosen[i])
<1>. PICK N : N = Len(chosen)
  OBVIOUS
<1>. PICK D : D = Seq(Fns)
  OBVIOUS
<1>1. N \in Nat /\ <<>> \in D /\ N \in 0 .. N
  OBVIOUS
<1>2. \A i \in 1 .. N, q \in D : Go(i, q) \in D
  OBVIOUS
\* The recursion defines a function.
<1>3. PICK g : g = [i \in 0 .. N |-> IF i = 0 THEN <<>> ELSE Go(i, g[i - 1])]
  <2>. HIDE DEF Go
  <2>1. PICK step : step = [i \in 1 .. N |-> [q \in D |-> Go(i, q)]]
    OBVIOUS
  <2>2. \A i \in 1 .. N, q \in D : step[i][q] = Go(i, q)
    BY <2>1
  <2>3. PICK e \in D : e = <<>>
    BY <1>1
  <2>4. N \in Nat /\ step \in Steps(N, D)
    BY <1>1, <1>2, <2>1 DEF Steps
  <2>5. \E g : Unrolls(g, N, D, e, step)
    BY ONLY <2>4, e \in D, Recursion
  <2>6. PICK g : Unrolls(g, N, D, e, step)
    BY <2>5
  <2>7. ASSUME NEW i \in 1 .. N PROVE g[i] = Go(i, g[i - 1])
    <3>1. i - 1 \in 0 .. N
      BY <1>1
    <3>2. g[i - 1] \in D /\ g[i] = step[i][g[i - 1]]
      BY <2>6, <3>1 DEF Unrolls
    <3>. QED  BY <2>2, <3>2
  <2>8. \A i \in 0 .. N : g[i] = IF i = 0 THEN <<>> ELSE Go(i, g[i - 1])
    BY <1>1, <2>3, <2>6, <2>7 DEF Unrolls
  <2>9. g \in [0 .. N -> D]
    BY <2>6 DEF Unrolls
  <2>. QED  BY ONLY <2>8, <2>9
<1>4. queue = [i \in 0 .. N |-> IF i = 0 THEN <<>> ELSE Go(i, queue[i - 1])]
  BY <1>3
<1>. HIDE DEF queue, Go
<1>5. PICK T : T = {i \in 0 .. N : queue[i] \in D /\ LeftOver(t, chosen, i, queue[i])}
  OBVIOUS
<1>6. 0 \in T /\ T \in SUBSET (0 .. N)
  <2>1. queue[0] = <<>> /\ 0 \in 0 .. N
    BY <1>1, <1>4
  <2>2. LeftOver(t, chosen, 0, <<>>)
    BY DEF LeftOver
  <2>. QED  BY <1>1, <1>5, <2>1, <2>2
<1>7. ASSUME NEW i \in 1 .. N, i - 1 \in T PROVE i \in T
  <2>1. queue[i] = Go(i, queue[i - 1])
    BY <1>1, <1>4
  <2>. PICK q \in Seq(Fns) : q = queue[i - 1]
    BY <1>5, <1>7
  <2>. PICK n \in Nat \ {0} : n = i
    BY <1>1
  <2>. PICK f \in Fns : f = chosen[i]
    BY <1>1, ElementOfSeq
  <2>2. LeftOver(t, chosen, n - 1, q)
    BY <1>5, <1>7
  <2>3. /\ Good(Current(t, f)) => LeftOver(t, chosen, n, q)
        /\ LeftOver(t, chosen, n, Append(q, f))
    BY <2>2, LeftOverGrows
  <2>4. queue[i] = IF Good(Current(t, f)) THEN q ELSE Append(q, f)
    BY <2>1 DEF Go
  <2>5. queue[i] \in D
    BY <1>2, <2>1
  <2>6. LeftOver(t, chosen, i, queue[i])
    BY ONLY <2>3, <2>4, n = i
  <2>. QED  BY <1>1, <1>5, <2>5, <2>6
<1>8. N \in T
  BY <1>1, <1>6, <1>7, UpTo
<1>. QED  BY <1>5, <1>8 DEF Unfinished, queue, Go

LEMMA MarkShape ==
    ASSUME NEW j \in Job, NEW S, NEW s \in States, NEW b \in Nat
    PROVE  Mark(j, S, s, b) \in Job /\ Mark(j, S, s, b).pending = j.pending
BY DEF Mark, Job

\* What recordResult writes: the new version and the first of the others.
LEMMA VersionsShape ==
    ASSUME NEW r \in Recording
    PROVE  /\ Versions(r) \in Seq(Version) /\ Versions(r) # <<>> /\ Head(Versions(r)) = r.version
           /\ 1 \in DOMAIN Versions(r) /\ Versions(r)[1] = r.version
           /\ \A i \in DOMAIN Versions(r) :
                 i = 1 \/ (i - 1 \in DOMAIN r.previous /\ Versions(r)[i] = r.previous[i - 1])
           /\ Len(Versions(r)) <= Kept + 1
           /\ \A i \in DOMAIN r.previous :
                 \/ i + 1 \in DOMAIN Versions(r) /\ Versions(r)[i + 1] = r.previous[i]
                 \/ Len(Versions(r)) = Kept + 1
           /\ Len(r.previous) = Kept + 1 => Len(Versions(r)) = Kept + 1
<1>1. r.version \in Version /\ r.previous \in Seq(Version) /\ Kept \in Nat
  BY DEF Recording
<1>. PICK s : s = r.previous
  OBVIOUS
<1>. PICK n : n = IF Len(s) < Kept THEN Len(s) ELSE Kept
  OBVIOUS
<1>2. s \in Seq(Version) /\ Len(s) \in Nat /\ DOMAIN s = 1 .. Len(s)
  BY <1>1, LenProperties
<1>3. n \in 0 .. Len(s) /\ n <= Kept /\ (n = Kept \/ n = Len(s))
  BY <1>1, <1>2
<1>. PICK q : q = SubSeq(s, 1, n)
  OBVIOUS
<1>4. q \in Seq(Version) /\ Len(q) = n /\ \A i \in 1 .. n : q[i] = s[i]
  <2>1. SubSeq(s, 1, n) \in Seq(Version) /\ Len(SubSeq(s, 1, n)) = n
        /\ \A i \in 1 .. n : SubSeq(s, 1, n)[i] = s[i]
    BY <1>2, <1>3, SubSeqProperties
  <2>. QED  BY <2>1
<1>. PICK h : h = <<r.version>>
  OBVIOUS
<1>5. h \in Seq(Version) /\ Len(h) = 1 /\ h[1] = r.version
  BY <1>1
<1>. PICK v : v = h \o q
  OBVIOUS
<1>6. v \in Seq(Version) /\ Len(v) = 1 + n /\ v[1] = r.version
      /\ \A i \in 2 .. 1 + n : v[i] = s[i - 1]
  <2>1. h \o q \in Seq(Version) /\ Len(h \o q) = 1 + n
        /\ \A i \in 1 .. 1 + n : (h \o q)[i] = IF i <= 1 THEN h[i] ELSE q[i - 1]
    BY <1>3, <1>4, <1>5, ConcatProperties
  <2>2. \A i \in 2 .. 1 + n : i - 1 \in 1 .. n /\ ~ (i <= 1) /\ i \in 1 .. 1 + n
    BY <1>3
  <2>. QED  BY <1>3, <1>4, <1>5, <2>1, <2>2
<1>7. Versions(r) = v
  BY DEF Versions
<1>8. DOMAIN v = 1 .. 1 + n /\ v # <<>>
  BY <1>3, <1>6, LenProperties, EmptySeq
<1>9. Head(v) = r.version
  BY <1>6, <1>8, HeadTailProperties
<1>10. \A i \in 1 .. 1 + n : i = 1 \/ (i - 1 \in 1 .. Len(s) /\ i \in 2 .. 1 + n)
  BY <1>3
<1>11. \A i \in 1 .. Len(s) : i + 1 \in 2 .. 1 + n \/ n = Kept
  BY <1>3
<1>12. \A i \in 1 .. Len(s) :
         \/ i + 1 \in 1 .. 1 + n /\ v[i + 1] = s[i]
         \/ 1 + n = Kept + 1
  <2>. SUFFICES ASSUME NEW i \in 1 .. Len(s), n # Kept
                PROVE  i + 1 \in 1 .. 1 + n /\ v[i + 1] = s[i]
    OBVIOUS
  <2>1. i + 1 \in 2 .. 1 + n /\ (i + 1) - 1 = i
    BY <1>11
  <2>. QED  BY <1>6, <2>1
<1>13. Len(s) = Kept + 1 => 1 + n = Kept + 1
  BY <1>1, <1>2, <1>3
<1>. QED  BY <1>1, <1>2, <1>3, <1>6, <1>7, <1>8, <1>9, <1>10, <1>12, <1>13

LEMMA CurrentShape ==
    ASSUME TypeInv, NEW t \in Tasks, NEW f \in Fns
    PROVE  /\ stored[t][f] \in Seq(Version) /\ Current(t, f) \in Version
           /\ stored[t][f] = <<>> => Current(t, f) = Nothing
           /\ stored[t][f] # <<>> => /\ 1 \in DOMAIN stored[t][f]
                                     /\ Current(t, f) = stored[t][f][1]
                                     /\ Current(t, f) \in ToSet(stored[t][f])
<1>. PICK s : s = stored[t][f]
  OBVIOUS
<1>1. s \in Seq(Version)
  BY DEF TypeInv
<1>2. Nothing \in Version
  BY DEF Nothing, Version
<1>3. CASE s = <<>>
  BY <1>1, <1>2, <1>3 DEF Current
<1>4. CASE s # <<>>
  <2>1. Head(s) \in Version /\ Head(s) = s[1]
    BY <1>1, <1>4, HeadTailProperties
  <2>2. 1 \in DOMAIN s
    BY <1>1, <1>4, EmptySeq, LenProperties
  <2>. QED  BY <1>1, <1>4, <2>1, <2>2 DEF Current, ToSet
<1>. QED  BY <1>3, <1>4
-----------------------------------------------------------------------------
(* The four kinds of step.                                                 *)

\* An answer or a review: version n.version is made, with n.previous read.
Makes(n) ==
    /\ recording' = recording \cup {n} /\ now' = now + 1
    /\ UNCHANGED <<stored, job, reset, torn>>
    /\ n.previous = stored[n.task][n.fn]
    /\ n.version.id = now
    /\ n.task = "decompile" =>
          \/ n.version.text = now
          \/ stored["decompile"][n.fn] # <<>> /\ n.version.text = Current("decompile", n.fn).text
    /\ n.task = "bugs" =>
          /\ n.version.derived = CurrentVersionId(n.fn)
          /\ n.version.read \in {0, Current("decompile", n.fn).text}
          /\ Honest(n.version)

\* A step of the queue, or the request of a reset.
Elsewhere ==
    /\ UNCHANGED <<stored, recording, now, torn>>
    /\ reset' = reset \/ (reset = <<>> /\ reset' = TaskOrder)

LEMMA AnswerMakes ==
    ASSUME TypeInv, NEW p \in asked, NEW bad \in BOOLEAN, NEW again \in BOOLEAN,
           NEW issues \in IF p.task = "bugs" /\ ~bad THEN Reports ELSE {<<>>},
           Answer(p, bad, again, issues)
    PROVE  \E n \in Recording : Makes(n)
<1>1. p.task \in Tasks /\ p.fn \in Fns /\ issues \in Reports /\ now \in Nat
  BY DEF TypeInv
<1>2. \A t \in Tasks : Current(t, p.fn) \in Version
  BY <1>1, CurrentShape
<1>3. /\ DerivedFrom(p.task, p.fn) \in Nat
      /\ p.task = "bugs" => DerivedFrom(p.task, p.fn) = CurrentVersionId(p.fn)
  BY <1>1, <1>2 DEF DerivedFrom, CurrentVersionId, Version
<1>4. ReadAt(p) \in {0, Current("decompile", p.fn).text} /\ ReadAt(p) \in Nat
  BY <1>1, <1>2 DEF ReadAt, Version
<1>. PICK v : v = [id |-> now, text |-> now, bad |-> bad, issues |-> issues,
                   derived |-> DerivedFrom(p.task, p.fn), read |-> ReadAt(p)]
  OBVIOUS
<1>5. v \in Version /\ v.id = now /\ v.text = now
      /\ v.derived = DerivedFrom(p.task, p.fn) /\ v.read = ReadAt(p)
  <2>. PICK d \in Nat : d = DerivedFrom(p.task, p.fn)
    BY <1>3
  <2>. PICK x \in Nat : x = ReadAt(p)
    BY <1>4
  <2>1. v = [id |-> now, text |-> now, bad |-> bad, issues |-> issues, derived |-> d, read |-> x]
    OBVIOUS
  <2>2. v \in Version
    BY <1>1, <2>1 DEF Version
  <2>. QED  BY <2>1, <2>2
<1>. PICK n : n = [task |-> p.task, fn |-> p.fn, previous |-> stored[p.task][p.fn], version |-> v]
  OBVIOUS
<1>6. n \in Recording /\ n.task = p.task /\ n.fn = p.fn /\ n.version = v
      /\ n.previous = stored[p.task][p.fn]
  <2>0. stored[p.task][p.fn] \in Seq(Version)
    BY <1>1, CurrentShape
  <2>. PICK s \in Seq(Version) : s = stored[p.task][p.fn]
    BY <2>0
  <2>1. n = [task |-> p.task, fn |-> p.fn, previous |-> s, version |-> v]
    OBVIOUS
  <2>2. n \in Recording
    BY <1>1, <1>5, <2>1 DEF Recording
  <2>. QED  BY <2>1, <2>2
<1>7. recording' = recording \cup {n} /\ now' = now + 1
      /\ UNCHANGED <<stored, job, reset, torn>>
  BY DEF Answer
<1>8. p.task = "bugs" => Honest(v)
  <2>1. v.bad = bad /\ v.issues = issues
    OBVIOUS
  <2>. QED  BY <2>1 DEF Honest
<1>. QED  BY <1>3, <1>4, <1>5, <1>6, <1>7, <1>8 DEF Makes

LEMMA ReviewMakes ==
    ASSUME TypeInv, NEW f \in Fns, Review(f)
    PROVE  \E n \in Recording : Makes(n)
<1>1. Current("decompile", f) \in Version /\ stored["decompile"][f] \in Seq(Version)
      /\ now \in Nat
  BY CurrentShape DEF TypeInv
<1>. PICK v : v = [Current("decompile", f) EXCEPT !.id = now]
  OBVIOUS
<1>2. v \in Version /\ v.id = now /\ v.text = Current("decompile", f).text
  BY <1>1 DEF Version
<1>. PICK n : n = [task |-> "decompile", fn |-> f, previous |-> stored["decompile"][f],
                   version |-> v]
  OBVIOUS
<1>3. n \in Recording /\ n.task = "decompile" /\ n.fn = f /\ n.version = v
      /\ n.previous = stored["decompile"][f]
  BY <1>1, <1>2 DEF Recording
<1>4. recording' = recording \cup {n} /\ now' = now + 1
      /\ UNCHANGED <<stored, job, reset, torn>> /\ stored["decompile"][f] # <<>>
  BY DEF Review
<1>. QED  BY <1>2, <1>3, <1>4 DEF Makes

LEMMA StepKinds ==
    ASSUME TypeInv, [Next]_vars
    PROVE  \/ \E n \in Recording : Makes(n)
           \/ \E r \in recording : Record(r)
           \/ ResetTask
           \/ Elsewhere
<1>1. CASE \E p \in asked, bad, again \in BOOLEAN :
              \E issues \in IF p.task = "bugs" /\ ~bad THEN Reports ELSE {<<>>} :
                 Answer(p, bad, again, issues)
  BY <1>1, AnswerMakes
<1>2. CASE \E f \in Fns : Review(f)
  BY <1>2, ReviewMakes
<1>3. CASE \E t \in Tasks : StartAutomatic(t) \/ Dispatch(t)
  BY <1>3 DEF StartAutomatic, Dispatch, Elsewhere
<1>4. CASE \E t \in Tasks, f \in Fns : (f \in Named[t] /\ Relift(t, f)) \/ Reap(t, f)
  BY <1>4 DEF Relift, Reap, Elsewhere
<1>5. CASE Reset \/ UNCHANGED vars
  BY <1>5 DEF Reset, vars, Elsewhere
<1>. QED  BY <1>1, <1>2, <1>3, <1>4, <1>5 DEF Next
-----------------------------------------------------------------------------
(* Types.                                                                  *)

LEMMA JobStep ==
    ASSUME TypeInv, NEW t \in Tasks,
           \/ StartAutomatic(t) \/ Dispatch(t)
           \/ \E f \in Fns : Relift(t, f) \/ Reap(t, f)
    PROVE  job' \in [Tasks -> Job] /\ \A p \in asked' : p.task \in Tasks /\ p.fn \in Fns
<1>1. job \in [Tasks -> Job] /\ \A p \in asked : p.task \in Tasks /\ p.fn \in Fns
  BY DEF TypeInv
<1>2. job[t] \in Job /\ job[t].pending \in Seq(Fns) /\ job[t].items \in [Fns -> [state : States, batch : Nat]]
  BY <1>1 DEF Job
<1>3. left.starts \in Nat
  BY DEF TypeInv
<1>4. \A j \in Job, q \in Seq(Fns) : [j EXCEPT !.pending = q] \in Job
  BY DEF Job
<1>5. CASE StartAutomatic(t)
  <2>1. PICK chosen \in Picks[t] :
          LET queue == Unfinished(t, chosen)
              fresh == Mark(EmptyJob, ToSet(chosen), "done", NewBatch)
          IN  job' = [job EXCEPT ![t] =
                        [Mark(fresh, ToSet(queue), "queued", NewBatch) EXCEPT !.pending = queue]]
    BY <1>5 DEF StartAutomatic
  <2>2. chosen \in Seq(Fns)
    OBVIOUS
  <2>3. Unfinished(t, chosen) \in Seq(Fns)
    BY <2>2, UnfinishedShape
  <2>4. EmptyJob \in Job
    BY DEF EmptyJob, Job, NoItem, States
  <2>. PICK fresh : fresh = Mark(EmptyJob, ToSet(chosen), "done", NewBatch)
    OBVIOUS
  <2>5. fresh \in Job
    BY <1>3, <2>4, MarkShape DEF NewBatch, States
  <2>. PICK m : m = Mark(fresh, ToSet(Unfinished(t, chosen)), "queued", NewBatch)
    OBVIOUS
  <2>6. m \in Job
    BY <1>3, <2>5, MarkShape DEF NewBatch, States
  <2>7. [m EXCEPT !.pending = Unfinished(t, chosen)] \in Job
    BY <1>4, <2>3, <2>6
  <2>8. job' = [job EXCEPT ![t] = [m EXCEPT !.pending = Unfinished(t, chosen)]]
    BY <2>1
  <2>9. job' \in [Tasks -> Job]
    BY <1>1, <2>7, <2>8
  <2>. QED  BY <1>1, <1>5, <2>9 DEF StartAutomatic
<1>6. CASE Dispatch(t)
  <2>. PICK f : f = job[t].pending[Going(t)]
    OBVIOUS
  <2>1. job[t].pending # <<>>
    BY <1>6 DEF Dispatch
  <2>2. f \in Fns
    <3>1. 1 \in DOMAIN job[t].pending
      BY <1>2, <2>1, EmptySeq, LenProperties
    <3>. QED  BY <1>2, <3>1, ElementOfSeq, LenProperties DEF Going
  <2>3. RemoveAt(job[t].pending, Going(t)) \in Seq(Fns)
    <3>. PICK s : s = job[t].pending
      OBVIOUS
    <3>1. SubSeq(s, 1, 0) = <<>> /\ SubSeq(s, 2, Len(s)) \in Seq(Fns)
      BY <1>2, <2>1, SubSeqEmpty, TailIsSubSeq, HeadTailProperties
    <3>2. <<>> \o SubSeq(s, 2, Len(s)) \in Seq(Fns)
      BY <3>1, ConcatEmptySeq
    <3>. QED  BY <3>1, <3>2 DEF RemoveAt, Going
  <2>. PICK b \in Nat : b = job[t].items[f].batch
    BY <1>2, <2>2
  <2>. PICK m : m = Mark(job[t], {f}, "sent", b)
    OBVIOUS
  <2>4. m \in Job
    BY <1>2, MarkShape DEF States
  <2>5. job' = [job EXCEPT ![t] = [m EXCEPT !.pending = RemoveAt(job[t].pending, Going(t))]]
        /\ asked' = asked \cup {Prompt(t, f)}
    BY <1>6 DEF Dispatch
  <2>6. job' \in [Tasks -> Job]
    BY <1>1, <1>4, <2>3, <2>4, <2>5
  <2>7. Prompt(t, f).task = t /\ Prompt(t, f).fn = f
    BY DEF Prompt
  <2>. QED  BY <1>1, <2>2, <2>5, <2>6, <2>7
<1>7. ASSUME NEW f \in Fns, Relift(t, f)
      PROVE  job' \in [Tasks -> Job] /\ asked' = asked
  <2>. PICK m : m = Mark(job[t], {f}, "queued", NewBatch)
    OBVIOUS
  <2>1. m \in Job
    BY <1>2, <1>3, MarkShape DEF States, NewBatch
  <2>. PICK q : q = IF Contains(job[t].pending, f) THEN job[t].pending ELSE Append(job[t].pending, f)
    OBVIOUS
  <2>2. q \in Seq(Fns)
    BY <1>2, <2>1, AppendProperties
  <2>3. job' = [job EXCEPT ![t] = [m EXCEPT !.pending = q]]
    BY <1>7 DEF Relift
  <2>4. job' \in [Tasks -> Job]
    BY <1>1, <1>4, <2>1, <2>2, <2>3
  <2>. QED  BY <1>7, <2>4 DEF Relift
<1>8. ASSUME NEW f \in Fns, Reap(t, f)
      PROVE  job' \in [Tasks -> Job] /\ asked' = asked
  <2>1. Mark(job[t], {f}, "failed", job[t].items[f].batch) \in Job
    BY <1>2, MarkShape DEF States
  <2>. QED  BY <1>1, <1>8, <2>1 DEF Reap
<1>. QED  BY <1>1, <1>5, <1>6, <1>7, <1>8

LEMMA TypeStep ==
    ASSUME TypeInv, [Next]_vars
    PROVE  TypeInv'
<1>t. /\ stored \in [Tasks -> [Fns -> Seq(Version)]]
      /\ job \in [Tasks -> Job]
      /\ recording \subseteq Recording
      /\ reset \in Orders /\ now \in Nat \ {0} /\ torn \subseteq Tasks \X Fns
      /\ \A p \in asked : p.task \in Tasks /\ p.fn \in Fns
      /\ left \in [versions : Nat, handlers : Nat, starts : Nat, extras : Nat]
  BY DEF TypeInv
<1>e. EmptyJob \in Job
  BY DEF EmptyJob, Job, NoItem, States
<1>l. Started \/ Extra => left' \in [versions : Nat, handlers : Nat, starts : Nat, extras : Nat]
  <2>1. CASE Started
    <3>1. left.starts - 1 \in Nat
      BY <1>t, <2>1 DEF Started
    <3>. QED  BY <1>t, <2>1, <3>1 DEF Started
  <2>2. CASE Extra
    <3>1. left.extras - 1 \in Nat
      BY <1>t, <2>2 DEF Extra
    <3>. QED  BY <1>t, <2>2, <3>1 DEF Extra
  <2>. QED  BY <2>1, <2>2
<1>1. ASSUME NEW t \in Tasks,
             \/ StartAutomatic(t) \/ Dispatch(t)
             \/ \E f \in Fns : Relift(t, f) \/ Reap(t, f)
      PROVE  TypeInv'
  <2>1. job' \in [Tasks -> Job] /\ \A p \in asked' : p.task \in Tasks /\ p.fn \in Fns
    BY <1>1, JobStep
  <2>2. UNCHANGED <<stored, recording, reset, now, torn>> /\ (left' = left \/ Started \/ Extra)
    BY <1>1 DEF StartAutomatic, Dispatch, Relift, Reap
  <2>. QED  BY <1>t, <1>l, <2>1, <2>2 DEF TypeInv
<1>2. CASE Reset
  BY <1>2, <1>t, <1>l, OrderShape DEF Reset, TypeInv
<1>3. CASE ResetTask
  <2>1. reset # <<>> /\ reset' = Tail(reset) /\ Head(reset) \in Tasks /\ reset' \in Orders
    BY <1>3, <1>t, OrderTail DEF ResetTask
  <2>2. [f \in Fns |-> <<>>] \in [Fns -> Seq(Version)]
    BY EmptySeq
  <2>3. stored' \in [Tasks -> [Fns -> Seq(Version)]]
    BY <1>3, <1>t, <2>1, <2>2 DEF ResetTask
  <2>4. job' \in [Tasks -> Job]
    BY <1>3, <1>t, <1>e, <2>1 DEF ResetTask
  <2>5. torn' \subseteq Tasks \X Fns
    BY <1>3, <1>t DEF ResetTask, Recording
  <2>. QED  BY <1>3, <1>t, <2>1, <2>3, <2>4, <2>5 DEF ResetTask, TypeInv
<1>4. ASSUME NEW n \in Recording, Makes(n),
             asked' \subseteq asked, left' = left \/ Extra
      PROVE  TypeInv'
  BY <1>4, <1>t, <1>l DEF Makes, TypeInv
<1>5. CASE \E p \in asked, bad, again \in BOOLEAN :
              \E issues \in IF p.task = "bugs" /\ ~bad THEN Reports ELSE {<<>>} :
                 Answer(p, bad, again, issues)
  <2>1. \E n \in Recording : Makes(n)
    BY <1>5, AnswerMakes
  <2>2. asked' \subseteq asked /\ (left' = left \/ Extra)
    BY <1>5 DEF Answer
  <2>. QED  BY <1>4, <2>1, <2>2
<1>6. CASE \E f \in Fns : Review(f)
  <2>1. \E n \in Recording : Makes(n)
    BY <1>6, ReviewMakes
  <2>2. asked' \subseteq asked /\ (left' = left \/ Extra)
    BY <1>6 DEF Review
  <2>. QED  BY <1>4, <2>1, <2>2
<1>7. ASSUME NEW r \in recording, Record(r)
      PROVE  TypeInv'
  <2>1. r \in Recording /\ r.task \in Tasks /\ r.fn \in Fns
    BY <1>t DEF Recording
  <2>2. Versions(r) \in Seq(Version)
    BY <2>1, VersionsShape
  <2>3. stored' \in [Tasks -> [Fns -> Seq(Version)]]
    BY <1>7, <1>t, <2>1, <2>2 DEF Record
  <2>b. job[r.task] \in Job
    BY <1>t, <2>1
  <2>c. job[r.task].items[r.fn].batch \in Nat
    BY <2>1, <2>b DEF Job
  <2>. PICK b \in Nat : b = job[r.task].items[r.fn].batch
    BY <2>c
  <2>4. Mark(job[r.task], {r.fn}, "done", b) \in Job
    BY <1>t, <2>1, MarkShape DEF States
  <2>5. job' = [job EXCEPT ![r.task] = Mark(job[r.task], {r.fn}, "done", b)]
    BY <1>7 DEF Record
  <2>6. job' \in [Tasks -> Job]
    BY <1>t, <2>4, <2>5
  <2>7. recording' \subseteq Recording /\ torn' \subseteq Tasks \X Fns
    BY <1>7, <1>t, <2>1 DEF Record
  <2>. QED  BY <1>7, <1>t, <2>3, <2>6, <2>7 DEF Record, TypeInv
<1>8. CASE UNCHANGED vars
  BY <1>8, <1>t DEF vars, TypeInv
<1>. QED  BY <1>1, <1>2, <1>3, <1>5, <1>6, <1>7, <1>8 DEF Next

LEMMA TypeInit == Init => TypeInv
<1>. SUFFICES ASSUME Init PROVE TypeInv
  OBVIOUS
<1>1. EmptyJob \in Job
  BY DEF EmptyJob, Job, NoItem, States
<1>2. <<>> \in Orders /\ <<>> \in Seq(Version)
  BY EmptySeq DEF Orders
<1>. QED  BY <1>1, <1>2 DEF Init, TypeInv

LEMMA Typed == Spec => []TypeInv
BY TypeInit, TypeStep, PTL DEF Spec
-----------------------------------------------------------------------------
(* The versions are in order.                                              *)

LEMMA ListGrows ==
    ASSUME NEW s \in Seq(Version), NEW n \in Nat, NEW m \in Nat, n <= m, ListOK(s, n)
    PROVE  ListOK(s, m)
BY DEF ListOK

LEMMA VersionsOrdered ==
    ASSUME NEW r \in Recording, NEW n \in Nat, r.version.id \in 1 .. n - 1,
           ListOK(r.previous, r.version.id)
    PROVE  ListOK(Versions(r), n)
<1>. PICK v : v = Versions(r)
  OBVIOUS
<1>. PICK s : s = r.previous
  OBVIOUS
<1>. PICK d \in Nat : d = r.version.id
  OBVIOUS
<1>1. /\ v \in Seq(Version) /\ Len(v) <= Kept + 1 /\ DOMAIN v = 1 .. Len(v) /\ Len(v) \in Nat
      /\ v[1].id = d
      /\ \A i \in DOMAIN v : i = 1 \/ (i - 1 \in DOMAIN s /\ v[i] = s[i - 1])
  BY VersionsShape, LenProperties
<1>2. /\ \A i \in DOMAIN s : s[i].id \in 1 .. d - 1
      /\ \A i, j \in DOMAIN s : i < j => s[i].id > s[j].id
  BY DEF ListOK
<1>3. \A i \in DOMAIN v : v[i].id \in 1 .. n - 1 /\ (i = 1 \/ v[i].id < d)
  <2>. SUFFICES ASSUME NEW i \in DOMAIN v, i # 1
                PROVE  v[i].id \in 1 .. n - 1 /\ v[i].id < d
    BY <1>1
  <2>1. v[i].id \in 1 .. d - 1
    BY <1>1, <1>2
  <2>. QED  BY <2>1
<1>4. \A i, j \in DOMAIN v : i < j => v[i].id > v[j].id
  <2>. SUFFICES ASSUME NEW i \in DOMAIN v, NEW j \in DOMAIN v, i < j
                PROVE  v[i].id > v[j].id
    OBVIOUS
  <2>1. j # 1 /\ i \in Nat /\ j \in Nat
    BY <1>1
  <2>2. CASE i = 1
    BY <1>1, <1>3, <2>1, <2>2
  <2>3. CASE i # 1
    <3>1. /\ i - 1 \in DOMAIN s /\ v[i] = s[i - 1]
          /\ j - 1 \in DOMAIN s /\ v[j] = s[j - 1]
          /\ i - 1 < j - 1
      BY <1>1, <2>1, <2>3
    <3>. QED  BY <1>2, <3>1
  <2>. QED  BY <2>2, <2>3
<1>. QED  BY <1>1, <1>3, <1>4 DEF ListOK

LEMMA ListStep ==
    ASSUME TypeInv, ListInv, [Next]_vars
    PROVE  ListInv'
<1>t. /\ now \in Nat /\ recording \subseteq Recording
      /\ \A t \in Tasks, f \in Fns : stored[t][f] \in Seq(Version)
      /\ stored \in [Tasks -> [Fns -> Seq(Version)]]
  BY DEF TypeInv
<1>1. ASSUME NEW n \in Recording, Makes(n) PROVE ListInv'
  <2>1. now' = now + 1 /\ stored' = stored /\ recording' = recording \cup {n}
        /\ n.previous = stored[n.task][n.fn] /\ n.version.id = now /\ now > 0
    BY <1>1 DEF Makes, TypeInv
  <2>g. now + 1 \in Nat /\ now <= now + 1 /\ \A t \in Tasks, f \in Fns : ListOK(stored[t][f], now)
    BY <1>t DEF ListInv
  <2>2. ASSUME NEW t \in Tasks, NEW f \in Fns PROVE ListOK(stored[t][f], now + 1)
    BY ONLY <1>t, <2>g, ListGrows
  <2>3. n.task \in Tasks /\ n.fn \in Fns
    BY DEF Recording
  <2>4. n.version.id \in 1 .. (now + 1) - 1 /\ ListOK(n.previous, n.version.id)
    <3>1. ListOK(stored[n.task][n.fn], now)
      BY <2>3 DEF ListInv
    <3>2. now \in 1 .. (now + 1) - 1
      BY <1>t, <2>1
    <3>. QED  BY <2>1, <3>1, <3>2
  <2>5. \A r \in recording : r.version.id \in 1 .. (now + 1) - 1 /\ ListOK(r.previous, r.version.id)
    BY <1>t DEF ListInv
  <2>6. \A t \in Tasks, f \in Fns : ListOK(stored'[t][f], now')
    BY <2>1, <2>2
  <2>7. \A r \in recording' : r.version.id \in 1 .. now' - 1 /\ ListOK(r.previous, r.version.id)
    BY <2>1, <2>4, <2>5
  <2>. QED  BY <2>6, <2>7 DEF ListInv, ListOK
<1>2. ASSUME NEW r \in recording, Record(r) PROVE ListInv'
  <2>1. stored' = [stored EXCEPT ![r.task][r.fn] = Versions(r)] /\ now' = now
        /\ recording' = recording \ {r}
    BY <1>2 DEF Record
  <2>2. ListOK(Versions(r), now)
    BY <1>t, VersionsOrdered DEF ListInv
  <2>3. \A t \in Tasks, f \in Fns : stored'[t][f] = stored[t][f] \/ stored'[t][f] = Versions(r)
    BY <1>t, <2>1
  <2>4. \A t \in Tasks, f \in Fns : ListOK(stored'[t][f], now')
    BY <2>1, <2>2, <2>3 DEF ListInv
  <2>. QED  BY <2>1, <2>4 DEF ListInv, ListOK
<1>3. CASE ResetTask
  <2>1. stored' = [stored EXCEPT ![Head(reset)] = [f \in Fns |-> <<>>]] /\ now' = now
        /\ recording' = recording
    BY <1>3 DEF ResetTask
  <2>2. ListOK(<<>>, now)
    BY EmptySeq DEF ListOK
  <2>3. \A t \in Tasks, f \in Fns : stored'[t][f] = stored[t][f] \/ stored'[t][f] = <<>>
    BY <1>t, <2>1
  <2>4. \A t \in Tasks, f \in Fns : ListOK(stored'[t][f], now')
    BY <2>1, <2>2, <2>3 DEF ListInv
  <2>. QED  BY <2>1, <2>4 DEF ListInv, ListOK
<1>4. CASE Elsewhere
  BY <1>4 DEF Elsewhere, ListInv, ListOK
<1>. QED  BY <1>1, <1>2, <1>3, <1>4, StepKinds

LEMMA ListInit == Init => ListInv
<1>. SUFFICES ASSUME Init PROVE ListInv
  OBVIOUS
<1>1. ListOK(<<>>, now)
  BY EmptySeq DEF ListOK
<1>. QED  BY <1>1 DEF Init, ListInv
-----------------------------------------------------------------------------
(* The evidence of a report.                                               *)

\* A lift that can be read after another was recorded on top of it can be read
\* still, or it is older than all that are kept.
LEMMA SupportGrows ==
    ASSUME NEW r \in Recording, ListOK(r.previous, r.version.id), NEW d \in Nat,
           Supported(r.previous, d)
    PROVE  Supported(Versions(r), d)
<1>. PICK s : s = r.previous
  OBVIOUS
<1>. PICK v : v = Versions(r)
  OBVIOUS
<1>. PICK n : n = r.version.id
  OBVIOUS
<1>1. /\ v \in Seq(Version) /\ 1 \in DOMAIN v /\ v[1] = r.version
      /\ \A k \in DOMAIN v : k = 1 \/ (k - 1 \in DOMAIN s /\ v[k] = s[k - 1])
      /\ \A i \in DOMAIN s : i + 1 \in DOMAIN v \/ Len(v) = Kept + 1
      /\ Len(s) = Kept + 1 => Len(v) = Kept + 1
  BY VersionsShape
<1>2. s \in Seq(Version) /\ n \in Nat /\ v[1].id = n /\ DOMAIN s = 1 .. Len(s) /\ DOMAIN v = 1 .. Len(v)
      /\ Len(s) \in Nat /\ Len(v) \in Nat /\ Kept \in Nat
  BY <1>1, LenProperties DEF Recording, Version
<1>3. /\ \A i \in DOMAIN s : s[i].id \in 1 .. n - 1
      /\ \A i, k \in DOMAIN s : i < k => s[i].id > s[k].id
  BY DEF ListOK
<1>4. CASE d = 0
  BY <1>4 DEF Supported
<1>5. ASSUME NEW i \in DOMAIN s, s[i].id = d
      PROVE  Supported(v, d)
  <2>1. CASE i + 1 \in DOMAIN v
    <3>1. i + 1 # 1 /\ (i + 1) - 1 = i
      BY <1>2
    <3>2. v[i + 1] = s[i]
      BY <1>1, <2>1, <3>1
    <3>. QED  BY <1>5, <2>1, <3>2 DEF Supported
  <2>2. CASE i + 1 \notin DOMAIN v
    <3>1. Len(v) = Kept + 1 /\ Len(v) < i + 1
      BY <1>1, <1>2, <2>2
    <3>2. ASSUME NEW k \in DOMAIN v PROVE d < v[k].id
      <4>1. CASE k = 1
        BY <1>2, <1>3, <1>5, <4>1
      <4>2. CASE k # 1
        <5>1. k - 1 \in DOMAIN s /\ v[k] = s[k - 1] /\ k - 1 < i
          BY <1>1, <1>2, <3>1, <4>2
        <5>2. s[k - 1].id > s[i].id /\ s[k - 1].id \in Nat
          BY <1>3, <5>1
        <5>. QED  BY <1>5, <5>1, <5>2
      <4>. QED  BY <4>1, <4>2
    <3>. QED  BY <3>1, <3>2 DEF Supported
  <2>. QED  BY <2>1, <2>2
<1>6. ASSUME Len(s) = Kept + 1, \A i \in DOMAIN s : d < s[i].id
      PROVE  Supported(v, d)
  <2>1. 1 \in DOMAIN s
    BY <1>2, <1>6
  <2>2. s[1].id \in 1 .. n - 1 /\ d < s[1].id
    BY <1>3, <1>6, <2>1
  <2>3. d < n
    BY <1>2, <2>2
  <2>4. \A k \in DOMAIN v : d < v[k].id
    BY <1>1, <1>2, <1>6, <2>3
  <2>. QED  BY <1>1, <1>6, <2>4 DEF Supported
<1>. QED  BY <1>4, <1>5, <1>6 DEF Supported

LEMMA EvidenceStep ==
    ASSUME TypeInv, ListInv, EvidenceInv, [Next]_vars
    PROVE  EvidenceInv'
<1>t. /\ recording \subseteq Recording /\ reset \in Orders
      /\ stored \in [Tasks -> [Fns -> Seq(Version)]] /\ torn \subseteq Tasks \X Fns
      /\ "decompile" \in Tasks /\ "bugs" \in Tasks
  BY DEF TypeInv
<1>1. ASSUME NEW n \in Recording, Makes(n) PROVE EvidenceInv'
  <2>1. stored' = stored /\ recording' = recording \cup {n} /\ reset' = reset /\ torn' = torn
        /\ (n.task = "bugs" => n.version.derived = CurrentVersionId(n.fn))
        /\ (n.task = "bugs" => n.previous = stored["bugs"][n.fn])
    BY <1>1 DEF Makes
  <2>2. ASSUME n.task = "bugs" PROVE Supported(stored["decompile"][n.fn], n.version.derived)
    <3>1. n.fn \in Fns
      BY DEF Recording
    <3>2. CASE stored["decompile"][n.fn] = <<>>
      BY <1>t, <2>1, <2>2, <3>1, <3>2, CurrentShape DEF CurrentVersionId, Nothing, Supported
    <3>3. CASE stored["decompile"][n.fn] # <<>>
      BY <1>t, <2>1, <2>2, <3>1, <3>3, CurrentShape DEF CurrentVersionId, Supported
    <3>. QED  BY <3>2, <3>3
  <2>. QED  BY <2>1, <2>2 DEF EvidenceInv, HalfReset
<1>2. ASSUME NEW r \in recording, Record(r) PROVE EvidenceInv'
  <2>1. /\ stored' = [stored EXCEPT ![r.task][r.fn] = Versions(r)] /\ reset' = reset
        /\ recording' = recording \ {r}
        /\ torn' = IF stored[r.task][r.fn] = r.previous THEN torn ELSE torn \cup {<<r.task, r.fn>>}
    BY <1>2 DEF Record
  <2>2. r \in Recording /\ r.task \in Tasks /\ r.fn \in Fns
    BY <1>t DEF Recording
  <2>3. \A t \in Tasks, f \in Fns :
           stored'[t][f] = IF t = r.task /\ f = r.fn THEN Versions(r) ELSE stored[t][f]
    BY <1>t, <2>1, <2>2
  <2>. SUFFICES ASSUME NEW f \in Fns, <<"decompile", f>> \notin torn'
                PROVE  /\ ~HalfReset => AllSupported(stored'["bugs"][f], stored'["decompile"][f])
                       /\ \A q \in recording' : q.task = "bugs" /\ q.fn = f =>
                            /\ Supported(stored'["decompile"][f], q.version.derived)
                            /\ ~HalfReset => AllSupported(q.previous, stored'["decompile"][f])
    BY <2>1 DEF EvidenceInv, HalfReset
  <2>4. <<"decompile", f>> \notin torn
        /\ (r.task = "decompile" /\ f = r.fn => stored["decompile"][f] = r.previous)
    BY <2>1
  <2>5. ASSUME NEW d \in Nat, Supported(stored["decompile"][f], d)
        PROVE  Supported(stored'["decompile"][f], d)
    <3>1. CASE r.task = "decompile" /\ r.fn = f
      <4>1. r.previous = stored["decompile"][f] /\ stored'["decompile"][f] = Versions(r)
        BY <1>t, <2>3, <2>4, <3>1
      <4>2. ListOK(r.previous, r.version.id)
        BY DEF ListInv
      <4>. QED  BY <2>2, <2>5, <4>1, <4>2, SupportGrows
    <3>2. CASE ~(r.task = "decompile" /\ r.fn = f)
      <4>1. stored'["decompile"][f] = stored["decompile"][f]
        BY <1>t, <2>3, <3>2
      <4>. QED  BY <2>5, <4>1
    <3>. QED  BY <3>1, <3>2
  <2>6. ASSUME NEW list \in Seq(Version), AllSupported(list, stored["decompile"][f])
        PROVE  AllSupported(list, stored'["decompile"][f])
    <3>1. \A i \in DOMAIN list : list[i] \in Version
      BY <2>6
    <3>2. \A i \in DOMAIN list : list[i].derived \in Nat
      BY <3>1 DEF Version
    <3>. QED  BY <2>5, <2>6, <3>2 DEF AllSupported
  <2>7. \A q \in recording : q.task = "bugs" /\ q.fn = f =>
            /\ Supported(stored'["decompile"][f], q.version.derived)
            /\ ~HalfReset => AllSupported(q.previous, stored'["decompile"][f])
    <3>. SUFFICES ASSUME NEW q \in recording, q.task = "bugs", q.fn = f
                  PROVE  /\ Supported(stored'["decompile"][f], q.version.derived)
                         /\ ~HalfReset => AllSupported(q.previous, stored'["decompile"][f])
      OBVIOUS
    <3>1. q.version.derived \in Nat /\ q.previous \in Seq(Version)
      BY <1>t DEF Recording, Version
    <3>2. /\ Supported(stored["decompile"][f], q.version.derived)
          /\ ~HalfReset => AllSupported(q.previous, stored["decompile"][f])
      BY <2>4 DEF EvidenceInv
    <3>. QED  BY <2>5, <2>6, <3>1, <3>2
  <2>8. ASSUME ~HalfReset
        PROVE  AllSupported(stored'["bugs"][f], stored'["decompile"][f])
    <3>1. CASE r.task = "bugs" /\ r.fn = f
      <4>1. stored'["bugs"][f] = Versions(r)
        BY <1>t, <2>3, <3>1
      <4>2. /\ Supported(stored'["decompile"][f], r.version.derived)
            /\ AllSupported(r.previous, stored'["decompile"][f])
        BY <2>7, <2>8, <3>1
      <4>3. Versions(r)[1] = r.version
            /\ \A i \in DOMAIN Versions(r) :
                 i = 1 \/ (i - 1 \in DOMAIN r.previous /\ Versions(r)[i] = r.previous[i - 1])
        BY <2>2, VersionsShape
      <4>. QED  BY <4>1, <4>2, <4>3 DEF AllSupported
    <3>2. CASE ~(r.task = "bugs" /\ r.fn = f)
      <4>1. stored'["bugs"][f] = stored["bugs"][f] /\ stored["bugs"][f] \in Seq(Version)
        BY <1>t, <2>3, <3>2
      <4>2. AllSupported(stored["bugs"][f], stored["decompile"][f])
        BY <2>4, <2>8 DEF EvidenceInv
      <4>. QED  BY <2>6, <4>1, <4>2
    <3>. QED  BY <3>1, <3>2
  <2>. QED  BY <2>1, <2>7, <2>8
<1>3. CASE ResetTask
  <2>1. /\ stored' = [stored EXCEPT ![Head(reset)] = [f \in Fns |-> <<>>]]
        /\ reset # <<>> /\ reset' = Tail(reset) /\ recording' = recording
        /\ torn' = torn \cup {<<t, r.fn>> : t \in Tasks, r \in recording}
    BY <1>3 DEF ResetTask
  <2>2. /\ Head(reset) \in Tasks
        /\ Head(reset) = "decompile" => HalfReset'
        /\ Head(reset) # "decompile" => ~HalfReset'
    BY <1>t, <2>1, OrderTail DEF HalfReset
  <2>3. \A t \in Tasks, f \in Fns :
           stored'[t][f] = IF t = Head(reset) THEN <<>> ELSE stored[t][f]
    BY <1>t, <2>1, <2>2
  <2>. SUFFICES ASSUME NEW f \in Fns, <<"decompile", f>> \notin torn', ~HalfReset',
                       NEW i \in DOMAIN stored'["bugs"][f]
                PROVE  Supported(stored'["decompile"][f], stored'["bugs"][f][i].derived)
    <3>1. \A r \in recording : <<"decompile", r.fn>> \in torn'
      BY <1>t, <2>1
    <3>. QED  BY <2>1, <3>1 DEF EvidenceInv, AllSupported
  <2>4. Head(reset) # "decompile" /\ Head(reset) # "bugs"
    BY <1>t, <2>2, <2>3, EmptySeq
  <2>5. stored'["bugs"][f] = stored["bugs"][f] /\ stored'["decompile"][f] = stored["decompile"][f]
    BY <1>t, <2>3, <2>4
  <2>6. <<"decompile", f>> \notin torn /\ ~HalfReset
    BY <2>1, <2>4 DEF HalfReset
  <2>. QED  BY <2>5, <2>6 DEF EvidenceInv, AllSupported
<1>4. CASE Elsewhere
  <2>1. UNCHANGED <<stored, recording, torn>> /\ (HalfReset <=> HalfReset')
    BY <1>4, OrderShape DEF Elsewhere, HalfReset
  <2>. QED  BY <2>1 DEF EvidenceInv, AllSupported, Supported
<1>. QED  BY <1>1, <1>2, <1>3, <1>4, StepKinds

LEMMA EvidenceInit == Init => EvidenceInv
<1>. SUFFICES ASSUME Init PROVE EvidenceInv
  OBVIOUS
<1>1. recording = {} /\ \A f \in Fns : stored["bugs"][f] = <<>>
  BY DEF Init
<1>2. DOMAIN << >> = {}
  OBVIOUS
<1>. QED  BY <1>1, <1>2 DEF EvidenceInv, AllSupported

\* No two of the versions behind the current one have the same id.
LEMMA SupersededCount ==
    ASSUME NEW s \in Seq(Version), NEW n \in Nat, ListOK(s, n), Len(s) = Kept + 1
    PROVE  Cardinality({s[i].id : i \in 2 .. Len(s)}) = Kept
<1>. PICK I : I = 2 .. Len(s)
  OBVIOUS
<1>. PICK T : T = {s[i].id : i \in I}
  OBVIOUS
<1>. PICK f : f = [i \in I |-> s[i].id]
  OBVIOUS
<1>1. IsFiniteSet(I) /\ Cardinality(I) = Kept
  <2>1. 2 \in Int /\ Kept + 1 \in Int /\ (IF 2 > Kept + 1 THEN 0 ELSE Kept + 1 - 2 + 1) = Kept
    OBVIOUS
  <2>. QED  BY <2>1, FS_Interval
<1>2. \A i, j \in I : s[i].id = s[j].id => i = j
  <2>. SUFFICES ASSUME NEW i \in I, NEW j \in I, i < j
                PROVE  s[i].id # s[j].id
    OBVIOUS
  <2>1. i \in DOMAIN s /\ j \in DOMAIN s
    OBVIOUS
  <2>2. s[i].id > s[j].id /\ s[i].id \in Nat /\ s[j].id \in Nat
    BY <2>1 DEF ListOK
  <2>. QED  BY <2>2
<1>3. f \in Surjection(I, T) /\ f \in Injection(I, T)
  BY <1>2 DEF Surjection, Injection, IsInjective
<1>4. Cardinality(T) = Cardinality(I)
  BY ONLY <1>1, <1>3, FS_Surjection
<1>. QED  BY <1>1, <1>4

(* A bug report points to a lift that can still be read (EvidenceKept),    *)
(* for any number of overlapping handlers, unless two of them overlapped   *)
(* on the function's lifts, a reset is half way, or as many later lifts as *)
(* are kept have pushed it out.                                            *)
THEOREM EvidenceIsKept == Spec => []EvidenceKept
<1>1. ASSUME TypeInv, ListInv, EvidenceInv PROVE EvidenceKept
  <2>. SUFFICES ASSUME NEW f \in Fns, NEW i \in DOMAIN stored["bugs"][f],
                       stored["bugs"][f][i].derived # 0, reset = <<>>,
                       <<"decompile", f>> \notin torn
                PROVE  \/ stored["bugs"][f][i].derived = Lifted(f).version
                       \/ stored["bugs"][f][i].derived \in Lifted(f).superseded
                       \/ /\ Cardinality(Lifted(f).superseded) = Kept
                          /\ \A e \in Lifted(f).superseded : stored["bugs"][f][i].derived < e
    BY DEF EvidenceKept
  <2>. PICK d : d = stored["bugs"][f][i].derived
    OBVIOUS
  <2>. PICK s : s = stored["decompile"][f]
    OBVIOUS
  <2>1. s \in Seq(Version) /\ ListOK(s, now) /\ now \in Nat /\ Kept \in Nat
    BY <1>1 DEF TypeInv, ListInv
  <2>2. Supported(s, d)
    BY <1>1 DEF EvidenceInv, AllSupported, HalfReset
  <2>3. Lifted(f).version = CurrentVersionId(f)
        /\ Lifted(f).superseded = {s[k].id : k \in 2 .. Len(s)}
    BY DEF Lifted
  <2>4. ASSUME Len(s) = Kept + 1, \A k \in DOMAIN s : d < s[k].id
        PROVE  /\ Cardinality(Lifted(f).superseded) = Kept
               /\ \A e \in Lifted(f).superseded : d < e
    <3>1. \A k \in 2 .. Len(s) : k \in DOMAIN s
      BY <2>1
    <3>. QED  BY <2>1, <2>3, <2>4, <3>1, SupersededCount
  <2>5. ASSUME NEW k \in DOMAIN s, s[k].id = d
        PROVE  d = Lifted(f).version \/ d \in Lifted(f).superseded
    <3>1. k = 1 \/ k \in 2 .. Len(s)
      BY <2>1
    <3>2. s # <<>> /\ Head(s) = s[1]
      BY <2>1, HeadTailProperties
    <3>3. CurrentVersionId(f) = s[1].id
      BY <3>2 DEF CurrentVersionId, Current
    <3>. QED  BY <2>3, <2>5, <3>1, <3>3
  <2>. QED  BY <2>2, <2>4, <2>5 DEF Supported
<1>. QED  BY <1>1, TypeInit, TypeStep, ListInit, ListStep, EvidenceInit, EvidenceStep, PTL DEF Spec
-----------------------------------------------------------------------------
(* What a step does to the lifts of a function: some are forgotten, one is *)
(* on its way, or one that was on its way becomes the current one.         *)

Forgets(f) ==
    /\ Lifts(f)' \subseteq Lifts(f) /\ Out(f)' = Out(f) /\ now <= now'
    /\ Current("decompile", f)' \in {Current("decompile", f), Nothing}

Sends(f, n) ==
    /\ Lifts(f)' = Lifts(f) /\ Out(f)' = Out(f) \cup {n} /\ now' = now + 1
    /\ Current("decompile", f)' = Current("decompile", f)
    /\ n.version.id = now
    /\ n.version.text = now \/ \E v \in Lifts(f) : n.version.text = v.text

Lands(f, r) ==
    /\ Lifts(f)' \subseteq Lifts(f) \cup {r.version} /\ r \in Out(f) /\ Out(f)' = Out(f) \ {r}
    /\ Current("decompile", f)' = r.version /\ now' = now

LEMMA MakesLifts ==
    ASSUME TypeInv, NEW n \in Recording, Makes(n), NEW f \in Fns
    PROVE  Forgets(f) \/ Sends(f, n)
<1>1. /\ recording' = recording \cup {n} /\ now' = now + 1 /\ stored' = stored
      /\ n.previous = stored[n.task][n.fn] /\ n.version.id = now /\ now \in Nat
  BY DEF Makes, TypeInv
<1>2. Current("decompile", f)' = Current("decompile", f)
  BY <1>1 DEF Current
<1>3. CASE n.task = "decompile" /\ n.fn = f
  <2>1. Out(f)' = Out(f) \cup {n}
    BY <1>1, <1>3 DEF Out
  <2>2. Lifts(f)' = Lifts(f)
    BY <1>1, <1>3, <2>1 DEF Lifts
  <2>3. n.version.text = now \/ \E v \in Lifts(f) : n.version.text = v.text
    BY <1>3, CurrentShape DEF Makes, Lifts
  <2>. QED  BY <1>1, <1>2, <2>1, <2>2, <2>3 DEF Sends
<1>4. CASE ~(n.task = "decompile" /\ n.fn = f)
  <2>1. Out(f)' = Out(f)
    BY <1>1, <1>4 DEF Out
  <2>2. Lifts(f)' = Lifts(f)
    BY <1>1, <2>1 DEF Lifts
  <2>. QED  BY <1>1, <1>2, <2>1, <2>2 DEF Forgets
<1>. QED  BY <1>3, <1>4

LEMMA RecordLifts ==
    ASSUME TypeInv, NEW r \in recording, Record(r), NEW f \in Fns
    PROVE  IF r.task = "decompile" /\ r.fn = f THEN Lands(f, r) ELSE Forgets(f)
<1>1. /\ stored' = [stored EXCEPT ![r.task][r.fn] = Versions(r)] /\ now' = now
      /\ recording' = recording \ {r} /\ now \in Nat
      /\ stored \in [Tasks -> [Fns -> Seq(Version)]] /\ "decompile" \in Tasks
      /\ r \in Recording
  BY DEF Record, TypeInv
<1>2. CASE r.task = "decompile" /\ r.fn = f
  <2>1. stored'["decompile"][f] = Versions(r)
    BY <1>1, <1>2
  <2>2. r \in Out(f) /\ Out(f)' = Out(f) \ {r}
    BY <1>1, <1>2 DEF Out
  <2>3. Current("decompile", f)' = r.version
    BY <1>1, <2>1, VersionsShape DEF Current
  <2>4. ToSet(Versions(r)) \subseteq {r.version} \cup ToSet(r.previous)
    <3>. PICK v : v = Versions(r)
      OBVIOUS
    <3>. PICK s : s = r.previous
      OBVIOUS
    <3>1. \A i \in DOMAIN v : v[i] = r.version \/ (i - 1 \in DOMAIN s /\ v[i] = s[i - 1])
      BY <1>1, VersionsShape
    <3>. QED  BY <3>1 DEF ToSet
  <2>5. ToSet(r.previous) \subseteq Lifts(f)
    BY <2>2 DEF Lifts
  <2>6. Lifts(f)' = ToSet(stored'["decompile"][f]) \cup UNION {ToSet(q.previous) : q \in Out(f)'}
    BY DEF Lifts
  <2>7. Lifts(f)' \subseteq Lifts(f) \cup {r.version}
    BY <2>1, <2>2, <2>4, <2>5, <2>6 DEF Lifts
  <2>. QED  BY <1>1, <1>2, <2>2, <2>3, <2>7 DEF Lands
<1>3. CASE ~(r.task = "decompile" /\ r.fn = f)
  <2>1. stored'["decompile"][f] = stored["decompile"][f]
    BY <1>1, <1>3
  <2>2. Out(f)' = Out(f)
    BY <1>1, <1>3 DEF Out
  <2>3. Lifts(f)' = Lifts(f) /\ Current("decompile", f)' = Current("decompile", f)
    BY <2>1, <2>2 DEF Lifts, Current
  <2>. QED  BY <1>1, <1>3, <2>2, <2>3 DEF Forgets
<1>. QED  BY <1>2, <1>3

LEMMA ResetLifts ==
    ASSUME TypeInv, ResetTask, NEW f \in Fns
    PROVE  Forgets(f)
<1>1. /\ stored' = [stored EXCEPT ![Head(reset)] = [g \in Fns |-> <<>>]] /\ now' = now
      /\ recording' = recording /\ now \in Nat
      /\ stored \in [Tasks -> [Fns -> Seq(Version)]] /\ "decompile" \in Tasks
  BY DEF ResetTask, TypeInv
<1>2. stored'["decompile"][f] \in {stored["decompile"][f], <<>>}
  BY <1>1
<1>3. Out(f)' = Out(f)
  BY <1>1 DEF Out
<1>4. ToSet(<<>>) = {}
  BY DEF ToSet
<1>5. Lifts(f)' \subseteq Lifts(f)
  BY <1>2, <1>3, <1>4 DEF Lifts
<1>6. Current("decompile", f)' \in {Current("decompile", f), Nothing}
  BY <1>2 DEF Current
<1>. QED  BY <1>1, <1>3, <1>5, <1>6 DEF Forgets

LEMMA ElsewhereLifts ==
    ASSUME TypeInv, Elsewhere, NEW f \in Fns
    PROVE  Forgets(f)
<1>1. stored' = stored /\ recording' = recording /\ now' = now /\ now \in Nat
  BY DEF Elsewhere, TypeInv
<1>. QED  BY <1>1 DEF Forgets, Lifts, Out, Current

LEMMA LiftKinds ==
    ASSUME TypeInv, [Next]_vars, NEW f \in Fns
    PROVE  Forgets(f) \/ (\E n \in Recording : Sends(f, n)) \/ (\E r \in Out(f) : Lands(f, r))
BY StepKinds, MakesLifts, RecordLifts, ResetLifts, ElsewhereLifts DEF Lands
-----------------------------------------------------------------------------
(* An id tells the text.                                                   *)

LEMMA TextInit == Init => TextInv
<1>. SUFFICES ASSUME Init, NEW f \in Fns PROVE TextOK(Lifts(f), Out(f), now)
  BY DEF TextInv
<1>1. recording = {} /\ stored["decompile"][f] = <<>>
  BY DEF Init
<1>2. ToSet(<<>>) = {}
  BY DEF ToSet
<1>3. Out(f) = {} /\ Lifts(f) = {}
  BY <1>1, <1>2 DEF Out, Lifts
<1>. QED  BY <1>3 DEF TextOK

LEMMA TextForgets ==
    ASSUME NEW lifts, NEW out, NEW n \in Nat, TextOK(lifts, out, n),
           NEW less \in SUBSET lifts, NEW m \in Nat, n <= m
    PROVE  TextOK(less, out, m)
<1>1. \A x \in 1 .. n - 1 : x \in 1 .. m - 1
  OBVIOUS
<1>. QED  BY <1>1 DEF TextOK

LEMMA TextSends ==
    ASSUME NEW lifts, NEW out, NEW n \in Nat, TextOK(lifts, out, n), n > 0,
           NEW r, r.version.id = n,
           r.version.text = n \/ \E v \in lifts : r.version.text = v.text
    PROVE  TextOK(lifts, out \cup {r}, n + 1)
<1>1. \A x \in 1 .. n - 1 : x \in 1 .. (n + 1) - 1 /\ x # n
  OBVIOUS
<1>2. n \in 1 .. (n + 1) - 1
  OBVIOUS
<1>. PICK N : N = (n + 1) - 1
  OBVIOUS
<1>. PICK M : M = n - 1
  OBVIOUS
<1>3. r.version.id \in 1 .. N /\ r.version.text \in 1 .. N
  BY <1>1, <1>2 DEF TextOK
<1>4. \A v \in lifts : v.text # r.version.id /\ v.id # r.version.id
  BY <1>1 DEF TextOK
<1>5. \A q \in out :
        /\ q.version.id # r.version.id /\ q.version.text # r.version.id
        /\ r.version.text # q.version.id
  BY <1>1 DEF TextOK
<1>6. \A q \in out : q.version.id \in 1 .. N /\ q.version.text \in 1 .. N
  BY <1>1 DEF TextOK
<1>7. \A v \in lifts : v.id \in 1 .. N /\ v.text \in 1 .. N
  BY <1>1 DEF TextOK
<1>. QED  BY <1>3, <1>4, <1>5, <1>6, <1>7 DEF TextOK

LEMMA TextLands ==
    ASSUME NEW lifts, NEW out, NEW n \in Nat, TextOK(lifts, out, n), NEW r \in out
    PROVE  TextOK(lifts \cup {r.version}, out \ {r}, n)
BY DEF TextOK

LEMMA TextStep ==
    ASSUME TypeInv, TextInv, [Next]_vars
    PROVE  TextInv'
<1>. SUFFICES ASSUME NEW f \in Fns PROVE TextOK(Lifts(f)', Out(f)', now')
  BY DEF TextInv
<1>1. TextOK(Lifts(f), Out(f), now) /\ now \in Nat /\ now > 0 /\ now' \in Nat
  BY TypeStep DEF TextInv, TypeInv
<1>2. CASE Forgets(f)
  BY <1>1, <1>2, TextForgets DEF Forgets
<1>3. ASSUME NEW n \in Recording, Sends(f, n) PROVE TextOK(Lifts(f)', Out(f)', now')
  <2>1. /\ n.version.id = now
        /\ n.version.text = now \/ \E v \in Lifts(f) : n.version.text = v.text
    BY <1>3 DEF Sends
  <2>2. TextOK(Lifts(f), Out(f) \cup {n}, now + 1)
    BY ONLY <1>1, <2>1, TextSends
  <2>. QED  BY <1>3, <2>2 DEF Sends
<1>4. ASSUME NEW r \in Out(f), Lands(f, r) PROVE TextOK(Lifts(f)', Out(f)', now')
  <2>1. TextOK(Lifts(f) \cup {r.version}, Out(f) \ {r}, now)
    BY <1>1, TextLands
  <2>2. TextOK(Lifts(f)', Out(f) \ {r}, now)
    BY <1>1, <1>4, <2>1, TextForgets DEF Lands
  <2>. QED  BY <1>4, <2>2 DEF Lands
<1>. QED  BY <1>2, <1>3, <1>4, LiftKinds
-----------------------------------------------------------------------------
(* A report and the text it was reasoned from.                             *)

LEMMA BackedStays ==
    ASSUME TypeInv, [Next]_vars, NEW f \in Fns, NEW w,
           Backed(w, Current("decompile", f), Lifts(f), Out(f), now)
    PROVE  Backed(w, Current("decompile", f)', Lifts(f)', Out(f)', now')
<1>1. now \in Nat /\ now > 0 /\ now' \in Nat
  BY TypeStep DEF TypeInv
<1>. SUFFICES ASSUME w.read # 0
              PROVE  /\ w.derived \in 1 .. now' - 1 /\ w.read \in 1 .. now' - 1
                     /\ \A v \in Lifts(f)' \cup {q.version : q \in Out(f)'} :
                           v.id = w.derived => v.text = w.read
                     /\ w.read # w.derived =>
                           /\ Current("decompile", f)'.id # w.read
                           /\ \A q \in Out(f)' : q.version.id # w.read
  BY DEF Backed
<1>. PICK c : c = Current("decompile", f)
  OBVIOUS
<1>2. /\ w.derived \in 1 .. now - 1 /\ w.read \in 1 .. now - 1
      /\ \A v \in Lifts(f) : v.id = w.derived => v.text = w.read
      /\ \A q \in Out(f) : q.version.id = w.derived => q.version.text = w.read
      /\ w.read # w.derived => c.id # w.read /\ \A q \in Out(f) : q.version.id # w.read
  BY DEF Backed
<1>3. now <= now' => w.derived \in 1 .. now' - 1 /\ w.read \in 1 .. now' - 1
  BY <1>1, <1>2
<1>4. CASE Forgets(f)
  <2>1. Lifts(f)' \subseteq Lifts(f) /\ Out(f)' = Out(f) /\ now <= now'
        /\ Current("decompile", f)' \in {c, Nothing}
    BY <1>4 DEF Forgets
  <2>2. Nothing.id # w.read
    BY <1>2 DEF Nothing
  <2>. QED  BY <1>2, <1>3, <2>1, <2>2
<1>5. ASSUME NEW n \in Recording, Sends(f, n)
      PROVE  /\ now <= now' /\ Lifts(f)' = Lifts(f) /\ Current("decompile", f)' = c
             /\ Out(f)' = Out(f) \cup {n}
             /\ n.version.id # w.derived /\ n.version.id # w.read
  BY <1>1, <1>2, <1>5 DEF Sends
<1>6. CASE \E n \in Recording : Sends(f, n)
  BY <1>2, <1>3, <1>5, <1>6
<1>7. CASE \E r \in Out(f) : Lands(f, r)
  <2>1. PICK r \in Out(f) : Lands(f, r)
    BY <1>7
  <2>2. Lifts(f)' \subseteq Lifts(f) \cup {r.version} /\ Out(f)' = Out(f) \ {r} /\ now <= now'
        /\ Current("decompile", f)' = r.version
    BY <1>1, <2>1 DEF Lands
  <2>. QED  BY <1>2, <1>3, <2>2
<1>. QED  BY <1>4, <1>6, <1>7, LiftKinds

\* The report that is being made.
LEMMA BackedMade ==
    ASSUME TypeInv, TextInv, NEW n \in Recording, Makes(n), n.task = "bugs"
    PROVE  Backed(n.version, Current("decompile", n.fn), Lifts(n.fn), Out(n.fn), now)
<1>. PICK f \in Fns : f = n.fn
  BY DEF Recording
<1>. PICK c : c = Current("decompile", f)
  OBVIOUS
<1>. PICK w : w = n.version
  OBVIOUS
<1>1. w.derived = c.id /\ w.read \in {0, c.text}
  BY DEF Makes, CurrentVersionId
<1>2. CASE stored["decompile"][f] = <<>>
  <2>1. c = Nothing
    BY <1>2, CurrentShape
  <2>2. w.read = 0
    BY <1>1, <2>1 DEF Nothing
  <2>. QED  BY <2>2 DEF Backed
<1>3. CASE stored["decompile"][f] # <<>>
  <2>1. c \in Lifts(f)
    BY <1>3, CurrentShape DEF Lifts
  <2>. SUFFICES ASSUME w.read # 0
                PROVE  Backed(w, c, Lifts(f), Out(f), now)
    BY DEF Backed
  <2>2. w.read = c.text
    BY <1>1
  <2>3. TextOK(Lifts(f), Out(f), now)
    BY DEF TextInv
  <2>4. /\ c.id \in 1 .. now - 1 /\ c.text \in 1 .. now - 1
        /\ \A v \in Lifts(f) : v.id = c.id => v.text = c.text
        /\ \A q \in Out(f) : c.text # q.version.id /\ c.id # q.version.id
    BY <2>1, <2>3 DEF TextOK
  <2>. QED  BY <1>1, <2>2, <2>4 DEF Backed
<1>. QED  BY <1>2, <1>3

LEMMA BackedStep ==
    ASSUME TypeInv, TextInv, BackedInv, [Next]_vars
    PROVE  BackedInv'
<1>t. /\ stored \in [Tasks -> [Fns -> Seq(Version)]] /\ recording \subseteq Recording
      /\ "bugs" \in Tasks
  BY DEF TypeInv
<1>. SUFFICES ASSUME NEW f \in Fns
              PROVE  /\ Backed(Current("bugs", f)', Current("decompile", f)', Lifts(f)', Out(f)', now')
                     /\ \A r \in recording' :
                          r.task = "bugs" /\ r.fn = f
                            => Backed(r.version, Current("decompile", f)', Lifts(f)', Out(f)', now')
  BY DEF BackedInv
\* What one step does to the reports.
<1>1. ASSUME NEW w, Backed(w, Current("decompile", f), Lifts(f), Out(f), now)
      PROVE  Backed(w, Current("decompile", f)', Lifts(f)', Out(f)', now')
  BY <1>1, BackedStays
<1>2. Backed(Nothing, Current("decompile", f)', Lifts(f)', Out(f)', now')
  BY DEF Backed, Nothing
<1>3. /\ Backed(Current("bugs", f), Current("decompile", f)', Lifts(f)', Out(f)', now')
      /\ \A r \in recording :
           r.task = "bugs" /\ r.fn = f
             => Backed(r.version, Current("decompile", f)', Lifts(f)', Out(f)', now')
  BY <1>1 DEF BackedInv
<1>4. CASE \E n \in Recording : Makes(n)
  <2>1. PICK n \in Recording : Makes(n)
    BY <1>4
  <2>2. Current("bugs", f)' = Current("bugs", f) /\ recording' = recording \cup {n}
    BY <2>1 DEF Makes, Current
  <2>3. n.task = "bugs" /\ n.fn = f
          => Backed(n.version, Current("decompile", f)', Lifts(f)', Out(f)', now')
    BY <1>1, <2>1, BackedMade
  <2>. QED  BY <1>3, <2>2, <2>3
<1>5. CASE \E r \in recording : Record(r)
  <2>1. PICK r \in recording : Record(r)
    BY <1>5
  <2>2. stored' = [stored EXCEPT ![r.task][r.fn] = Versions(r)] /\ recording' = recording \ {r}
    BY <2>1 DEF Record
  <2>3. CASE r.task = "bugs" /\ r.fn = f
    <3>1. stored'["bugs"][f] = Versions(r)
      BY <1>t, <2>2, <2>3
    <3>2. Current("bugs", f)' = r.version
      BY <1>t, <3>1, VersionsShape DEF Current
    <3>. QED  BY <1>3, <2>2, <2>3, <3>2
  <2>4. CASE ~(r.task = "bugs" /\ r.fn = f)
    <3>1. stored'["bugs"][f] = stored["bugs"][f]
      BY <1>t, <2>2, <2>4
    <3>2. Current("bugs", f)' = Current("bugs", f)
      BY <3>1 DEF Current
    <3>. QED  BY <1>3, <2>2, <3>2
  <2>. QED  BY <2>3, <2>4
<1>6. CASE ResetTask
  <2>1. stored' = [stored EXCEPT ![Head(reset)] = [g \in Fns |-> <<>>]] /\ recording' = recording
    BY <1>6 DEF ResetTask
  <2>2. stored'["bugs"][f] \in {stored["bugs"][f], <<>>}
    BY <1>t, <2>1
  <2>3. Current("bugs", f)' \in {Current("bugs", f), Nothing}
    BY <2>2 DEF Current
  <2>. QED  BY <1>2, <1>3, <2>1, <2>3
<1>7. CASE Elsewhere
  <2>1. Current("bugs", f)' = Current("bugs", f) /\ recording' = recording
    BY <1>7 DEF Elsewhere, Current
  <2>. QED  BY <1>3, <2>1
<1>. QED  BY <1>4, <1>5, <1>6, <1>7, StepKinds

LEMMA BackedInit == Init => BackedInv
<1>. SUFFICES ASSUME Init, NEW f \in Fns
              PROVE  Backed(Current("bugs", f), Current("decompile", f), Lifts(f), Out(f), now)
  BY DEF Init, BackedInv
<1>1. Current("bugs", f) = Nothing
  BY DEF Init, Current
<1>. QED  BY <1>1 DEF Backed, Nothing

(* A report that is not marked stale was reasoned from the text the pane   *)
(* shows, and one that is marked from another, or that text has been       *)
(* reviewed since (StaleTellsTruth): with handlers that overlap, answers   *)
(* that repeat, items given up, reviews and resets in any order.           *)
THEOREM StaleIsTrue == Spec => []StaleTellsTruth
<1>1. ASSUME TypeInv, TextInv, BackedInv PROVE StaleTellsTruth
  <2>. SUFFICES ASSUME NEW f \in Fns, Current("bugs", f).read # 0,
                       Current("decompile", f).id # 0
                PROVE  /\ ~Stale(f) => Current("decompile", f).text = Current("bugs", f).read
                       /\ Stale(f) => \/ Current("decompile", f).text # Current("bugs", f).read
                                      \/ Reviewed(Current("decompile", f))
    BY DEF StaleTellsTruth
  <2>. PICK b : b = Current("bugs", f)
    OBVIOUS
  <2>. PICK lift : lift = Current("decompile", f)
    OBVIOUS
  <2>1. lift \in Lifts(f)
    <3>1. stored["decompile"][f] # <<>>
      BY <1>1, CurrentShape DEF Nothing
    <3>. QED  BY <1>1, <3>1, CurrentShape DEF Lifts
  <2>2. Backed(b, lift, Lifts(f), Out(f), now) /\ now \in Nat
    BY <1>1 DEF BackedInv, TypeInv
  <2>3. /\ b.derived # 0
        /\ lift.id = b.derived => lift.text = b.read
        /\ b.read # b.derived => lift.id # b.read
    BY <2>1, <2>2 DEF Backed
  <2>4. Stale(f) <=> lift.id # b.derived
    BY <2>3 DEF Stale, CurrentVersionId
  <2>. QED  BY <2>3, <2>4 DEF Reviewed
<1>. QED  BY <1>1, TypeInit, TypeStep, TextInit, TextStep, BackedInit, BackedStep, PTL DEF Spec
-----------------------------------------------------------------------------
(* What the pages make of them.                                            *)

LEMMA MarkItems ==
    ASSUME NEW j \in Job, NEW S, NEW s, NEW b, NEW f \in Fns
    PROVE  /\ Mark(j, S, s, b).items[f] = IF f \in S THEN [state |-> s, batch |-> b] ELSE j.items[f]
           /\ Mark(j, S, s, b).pending = j.pending
<1>1. j.items \in [Fns -> [state : States, batch : Nat]]
  BY DEF Job
<1>. QED  BY <1>1 DEF Mark, Job

\* The head of a list goes, the rest stays.
LEMMA HeadGoes ==
    ASSUME NEW s \in Seq(Fns), s # <<>>
    PROVE  ToSet(s) \subseteq {s[1]} \cup ToSet(RemoveAt(s, 1))
<1>1. SubSeq(s, 1, 0) = <<>> /\ SubSeq(s, 2, Len(s)) = Tail(s) /\ Tail(s) \in Seq(Fns)
  BY SubSeqEmpty, TailIsSubSeq, HeadTailProperties
<1>2. RemoveAt(s, 1) = Tail(s)
  <2>1. <<>> \o Tail(s) = Tail(s)
    BY <1>1, ConcatEmptySeq
  <2>. QED  BY <1>1, <2>1 DEF RemoveAt
<1>3. Len(Tail(s)) = Len(s) - 1 /\ \A i \in 1 .. Len(Tail(s)) : Tail(s)[i] = s[i + 1]
  BY HeadTailProperties
<1>4. ASSUME NEW i \in 1 .. Len(s), i # 1 PROVE s[i] \in ToSet(Tail(s))
  <2>1. i - 1 \in 1 .. Len(Tail(s)) /\ (i - 1) + 1 = i
    BY <1>3, <1>4
  <2>2. Tail(s)[i - 1] = s[i] /\ i - 1 \in DOMAIN Tail(s)
    BY <1>1, <1>3, <2>1
  <2>. QED  BY <2>2 DEF ToSet
<1>5. ASSUME NEW x \in ToSet(s) PROVE x \in {s[1]} \cup ToSet(Tail(s))
  <2>1. PICK i \in 1 .. Len(s) : x = s[i]
    BY <1>5, LenProperties DEF ToSet
  <2>. QED  BY <1>4, <2>1
<1>. QED  BY <1>2, <1>5

LEMMA QueueStep ==
    ASSUME TypeInv, QueueInv, [Next]_vars
    PROVE  QueueInv'
<1>t. /\ job \in [Tasks -> Job] /\ recording \subseteq Recording /\ reset \in Orders
      /\ \A t \in Tasks : job[t] \in Job /\ job[t].pending \in Seq(Fns) /\ Waits(job[t])
  BY DEF TypeInv, Job, QueueInv
<1>e. EmptyJob \in Job /\ Waits(EmptyJob)
  BY DEF EmptyJob, Job, NoItem, States, Waits
<1>1. ASSUME NEW t \in Tasks, NEW j, Waits(j), job' = [job EXCEPT ![t] = j] PROVE QueueInv'
  BY <1>t, <1>1 DEF QueueInv
<1>2. ASSUME NEW j \in Job, Waits(j), NEW S, NEW s, s # "queued", NEW b PROVE Waits(Mark(j, S, s, b))
  <2>. PICK m : m = Mark(j, S, s, b)
    OBVIOUS
  <2>1. \A f \in Fns : /\ m.items[f] = IF f \in S THEN [state |-> s, batch |-> b] ELSE j.items[f]
                       /\ m.pending = j.pending
    BY MarkItems
  <2>. QED  BY <1>2, <2>1 DEF Waits
<1>3. ASSUME NEW t \in Tasks, StartAutomatic(t) PROVE QueueInv'
  <2>1. PICK chosen \in Picks[t] :
          LET queue == Unfinished(t, chosen)
              fresh == Mark(EmptyJob, ToSet(chosen), "done", NewBatch)
          IN  job' = [job EXCEPT ![t] =
                        [Mark(fresh, ToSet(queue), "queued", NewBatch) EXCEPT !.pending = queue]]
    BY <1>3 DEF StartAutomatic
  <2>q. PICK q : q = Unfinished(t, chosen)
    OBVIOUS
  <2>. PICK fresh : fresh = Mark(EmptyJob, ToSet(chosen), "done", NewBatch)
    OBVIOUS
  <2>2. fresh \in Job /\ Waits(fresh) /\ NewBatch \in Nat
    BY <1>2, <1>e, MarkShape DEF NewBatch, States, TypeInv
  <2>m. PICK m : m = Mark(fresh, ToSet(q), "queued", NewBatch)
    OBVIOUS
  <2>3. /\ m \in Job
        /\ \A f \in Fns : m.items[f].state = "queued" => f \in ToSet(q) \/ fresh.items[f].state = "queued"
    <3>1. ASSUME NEW f \in Fns
          PROVE  m.items[f] = IF f \in ToSet(q) THEN [state |-> "queued", batch |-> NewBatch]
                              ELSE fresh.items[f]
      BY ONLY <2>2, <2>m, <3>1, MarkItems
    <3>2. m \in Job
      BY ONLY <2>2, <2>m, MarkShape DEF States
    <3>. QED  BY ONLY <3>1, <3>2
  <2>4. ASSUME NEW f \in Fns PROVE fresh.items[f].state # "queued"
    <3>. PICK e : e = EmptyJob
      OBVIOUS
    <3>1. e \in Job /\ e.items[f].state = "absent"
      BY <1>e DEF EmptyJob, NoItem
    <3>2. fresh.items[f] = IF f \in ToSet(chosen) THEN [state |-> "done", batch |-> NewBatch]
                           ELSE e.items[f]
      BY ONLY fresh = Mark(EmptyJob, ToSet(chosen), "done", NewBatch), e = EmptyJob, <3>1,
              f \in Fns, MarkItems
    <3>. QED  BY ONLY <3>1, <3>2
  <2>5. Waits([m EXCEPT !.pending = q])
    <3>1. [m EXCEPT !.pending = q].items = m.items /\ [m EXCEPT !.pending = q].pending = q
      BY ONLY <2>3 DEF Job
    <3>. QED  BY <2>3, <2>4, <3>1 DEF Waits
  <2>6. job' = [job EXCEPT ![t] = [m EXCEPT !.pending = q]]
    BY <2>1, <2>q, <2>m
  <2>. QED  BY <1>1, <2>5, <2>6
<1>4. ASSUME NEW t \in Tasks, Dispatch(t) PROVE QueueInv'
  <2>. PICK p : p = job[t].pending
    OBVIOUS
  <2>1. p # <<>> /\ p \in Seq(Fns)
    BY <1>4, <1>t DEF Dispatch
  <2>. PICK b : b = job[t].items[p[1]].batch
    OBVIOUS
  <2>m. PICK m : m = Mark(job[t], {p[1]}, "sent", b)
    OBVIOUS
  <2>2. job' = [job EXCEPT ![t] = [m EXCEPT !.pending = RemoveAt(p, 1)]]
    BY <1>4, <2>m DEF Dispatch, Going
  <2>3. Waits(m) /\ m.pending = p /\ \A f \in Fns : m.items[f].state = "queued" => f # p[1]
    <3>1. Waits(m)
      BY <1>2, <1>t, <2>m
    <3>. QED  BY <3>1, <1>t, <2>m, MarkItems DEF Mark, Job
  <2>r. PICK q : q = RemoveAt(p, 1)
    OBVIOUS
  <2>4. ToSet(p) \subseteq {p[1]} \cup ToSet(q)
    BY <2>1, <2>r, HeadGoes
  <2>5. [m EXCEPT !.pending = q].items = m.items /\ [m EXCEPT !.pending = q].pending = q
    BY <1>t, <2>m DEF Mark, Job
  <2>6. Waits([m EXCEPT !.pending = q])
    BY <2>3, <2>4, <2>5 DEF Waits
  <2>. QED  BY <1>1, <2>2, <2>6, <2>r
<1>5. ASSUME NEW t \in Tasks, NEW f \in Fns, Relift(t, f) PROVE QueueInv'
  <2>. PICK p : p = job[t].pending
    OBVIOUS
  <2>1. p \in Seq(Fns) /\ Waits(job[t]) /\ job[t] \in Job
    BY <1>t
  <2>q. PICK q : q = IF Contains(p, f) THEN p ELSE Append(p, f)
    OBVIOUS
  <2>2. ToSet(p) \cup {f} \subseteq ToSet(q)
    <3>1. CASE Contains(p, f)
      BY <2>q, <3>1 DEF Contains, ToSet
    <3>2. CASE ~Contains(p, f)
      <4>1. /\ DOMAIN q = 1 .. Len(p) + 1 /\ q[Len(p) + 1] = f /\ DOMAIN p = 1 .. Len(p)
            /\ \A i \in 1 .. Len(p) : q[i] = p[i]
        BY <2>1, <2>q, <3>2, AppendProperties
      <4>. QED  BY <2>1, <4>1 DEF ToSet
    <3>. QED  BY <3>1, <3>2
  <2>m. PICK m : m = Mark(job[t], {f}, "queued", NewBatch)
    OBVIOUS
  <2>3. ASSUME NEW g \in Fns, m.items[g].state = "queued"
        PROVE  g = f \/ job[t].items[g].state = "queued"
    <3>1. m.items[g] = IF g \in {f} THEN [state |-> "queued", batch |-> NewBatch]
                       ELSE job[t].items[g]
      BY ONLY <2>1, <2>m, <2>3, MarkItems
    <3>. QED  BY ONLY <2>3, <3>1
  <2>4. [m EXCEPT !.pending = q].items = m.items /\ [m EXCEPT !.pending = q].pending = q
    BY <2>1, <2>m DEF Mark, Job
  <2>5. Waits([m EXCEPT !.pending = q])
    BY <2>1, <2>2, <2>3, <2>4 DEF Waits
  <2>6. job' = [job EXCEPT ![t] = [m EXCEPT !.pending = q]]
    BY <1>5, <2>q, <2>m DEF Relift
  <2>. QED  BY <1>1, <2>5, <2>6
<1>6. ASSUME NEW t \in Tasks, NEW f \in Fns, Reap(t, f) PROVE QueueInv'
  <2>1. Waits(Mark(job[t], {f}, "failed", job[t].items[f].batch))
    BY <1>2, <1>t
  <2>. QED  BY <1>1, <1>6, <2>1 DEF Reap
<1>7. ASSUME NEW r \in recording, Record(r) PROVE QueueInv'
  <2>1. r.task \in Tasks
    BY <1>t DEF Recording
  <2>2. Waits(Mark(job[r.task], {r.fn}, "done", job[r.task].items[r.fn].batch))
    BY <1>2, <1>t, <2>1
  <2>. QED  BY <1>1, <1>7, <2>1, <2>2 DEF Record
<1>8. CASE ResetTask
  <2>1. Head(reset) \in Tasks
    BY <1>t, <1>8, OrderTail DEF ResetTask
  <2>. QED  BY <1>1, <1>e, <1>8, <2>1 DEF ResetTask
<1>9. ASSUME UNCHANGED job PROVE QueueInv'
  BY <1>t, <1>9 DEF QueueInv, Waits
<1>10. CASE UNCHANGED vars \/ Reset \/ (\E f \in Fns : Review(f))
  BY <1>9, <1>10 DEF vars, Reset, Review
<1>11. CASE \E p \in asked, bad, again \in BOOLEAN :
              \E issues \in IF p.task = "bugs" /\ ~bad THEN Reports ELSE {<<>>} :
                 Answer(p, bad, again, issues)
  BY <1>9, <1>11 DEF Answer
<1>. QED  BY <1>3, <1>4, <1>5, <1>6, <1>7, <1>8, <1>10, <1>11 DEF Next

LEMMA HonestStep ==
    ASSUME TypeInv, HonestInv, [Next]_vars
    PROVE  HonestInv'
<1>t. "bugs" \in Tasks /\ stored \in [Tasks -> [Fns -> Seq(Version)]] /\ recording \subseteq Recording
  BY DEF TypeInv
<1>1. ASSUME NEW n \in Recording, Makes(n) PROVE HonestInv'
  <2>1. n.task = "bugs" => Honest(n.version) /\ \A i \in DOMAIN n.previous : Honest(n.previous[i])
    <3>1. n.fn \in Fns
      BY DEF Recording
    <3>. QED  BY <1>1, <3>1 DEF Makes, HonestInv
  <2>. QED  BY <1>1, <2>1 DEF Makes, HonestInv
<1>2. ASSUME NEW r \in recording, Record(r) PROVE HonestInv'
  <2>1. r \in Recording /\ r.task \in Tasks /\ r.fn \in Fns
    BY <1>t DEF Recording
  <2>2. r.task = "bugs" => \A i \in DOMAIN Versions(r) : Honest(Versions(r)[i])
    <3>. SUFFICES ASSUME r.task = "bugs", NEW i \in DOMAIN Versions(r) PROVE Honest(Versions(r)[i])
      OBVIOUS
    <3>1. Honest(r.version) /\ \A j \in DOMAIN r.previous : Honest(r.previous[j])
      BY DEF HonestInv
    <3>2. i = 1 \/ (i - 1 \in DOMAIN r.previous /\ Versions(r)[i] = r.previous[i - 1])
      BY <2>1, VersionsShape
    <3>3. Versions(r)[1] = r.version
      BY <2>1, VersionsShape
    <3>. QED  BY <3>1, <3>2, <3>3
  <2>3. stored' = [stored EXCEPT ![r.task][r.fn] = Versions(r)] /\ recording' \subseteq recording
    BY <1>2 DEF Record
  <2>4. \A f \in Fns : stored'["bugs"][f] = IF r.task = "bugs" /\ r.fn = f THEN Versions(r)
                                            ELSE stored["bugs"][f]
    BY <1>t, <2>1, <2>3
  <2>. QED  BY <2>2, <2>3, <2>4 DEF HonestInv
<1>3. CASE ResetTask
  <2>1. stored' = [stored EXCEPT ![Head(reset)] = [g \in Fns |-> <<>>]] /\ recording' = recording
    BY <1>3 DEF ResetTask
  <2>2. \A f \in Fns : stored'["bugs"][f] \in {stored["bugs"][f], <<>>}
    BY <1>t, <2>1
  <2>. QED  BY <2>1, <2>2 DEF HonestInv
<1>4. CASE Elsewhere
  BY <1>4 DEF Elsewhere, HonestInv
<1>. QED  BY <1>1, <1>2, <1>3, <1>4, StepKinds

LEMMA QueueInit == Init => QueueInv /\ HonestInv
BY DEF Init, QueueInv, HonestInv, Waits, EmptyJob, NoItem

\* What the row of a pass says, in terms of what is stored and of the item.
LEMMA RowSays ==
    ASSUME TypeInv, ListInv, QueueInv, HonestInv, NEW t \in Tasks, NEW f \in Fns
    PROVE  /\ Outcome(t, f) \in Usable <=> f \in Analysed(t)
           /\ f \in Broken(t) => Outcome(t, f) = "failed"
           /\ f \in Analysed(t) \cup Broken(t) => f \in Outcomes(t)
           /\ Outcome(t, f) \in {"waiting", "queued"} => t \in Strip
           /\ t # "bugs" => (f \in Analysed(t) <=> Outcome(t, f) = "done")
           /\ Good(Current(t, f)) <=> f \in Analysed(t)
           /\ t = "bugs" => (Outcome(t, f) = "issues" <=> Current(t, f).issues # <<>>)
<1>. PICK s : s = stored[t][f]
  OBVIOUS
<1>. PICK v : v = Current(t, f)
  OBVIOUS
<1>. PICK j : j = job[t]
  OBVIOUS
<1>1. /\ s \in Seq(Version)
      /\ v \in Version
      /\ s = <<>> => v.id = 0 /\ v.issues = <<>>
      /\ s # <<>> => 1 \in DOMAIN s /\ v = s[1]
  <2>1. /\ stored[t][f] \in Seq(Version) /\ Current(t, f) \in Version
        /\ stored[t][f] = <<>> => Current(t, f) = Nothing
        /\ stored[t][f] # <<>> => 1 \in DOMAIN stored[t][f] /\ Current(t, f) = stored[t][f][1]
    BY ONLY TypeInv, t \in Tasks, f \in Fns, CurrentShape
  <2>2. /\ s \in Seq(Version) /\ v \in Version
        /\ s = <<>> => v = Nothing
        /\ s # <<>> => 1 \in DOMAIN s /\ v = s[1]
    BY ONLY <2>1, s = stored[t][f], v = Current(t, f)
  <2>3. Nothing.id = 0 /\ Nothing.issues = <<>>
    BY ONLY DEF Nothing
  <2>. QED  BY ONLY <2>2, <2>3
<1>2. s # <<>> <=> v.id # 0
  <2>1. s # <<>> => v.id \in 1 .. now - 1
    BY <1>1 DEF ListInv, ListOK
  <2>. QED  BY <1>1, <2>1
<1>3. t = "bugs" => (v.bad => v.issues = <<>>)
  <2>. SUFFICES ASSUME t = "bugs" PROVE v.bad => v.issues = <<>>
    OBVIOUS
  <2>1. s # <<>> => Honest(v)
    BY <1>1 DEF HonestInv
  <2>. QED  BY <1>1, <2>1 DEF Honest
<1>4. v.bad \in BOOLEAN
  BY <1>1 DEF Version
<1>5. /\ f \in Analysed(t) <=> s # <<>> /\ ~v.bad
      /\ f \in Broken(t) <=> s # <<>> /\ v.bad
      /\ s # <<>> => f \in Outcomes(t)
      /\ Good(v) <=> v.id # 0 /\ ~v.bad
  BY DEF Analysed, Broken, Outcomes, Good
<1>6. /\ Outcome(t, f) = IF v.id # 0
                         THEN IF v.bad THEN "failed"
                              ELSE IF t # "bugs" THEN "done"
                              ELSE IF v.issues # <<>> THEN "issues" ELSE "clean"
                         ELSE IF j.items[f].state = "sent" THEN "waiting"
                         ELSE IF j.items[f].state \in {"queued", "failed"} THEN j.items[f].state
                         ELSE "skipped"
  BY DEF Outcome
<1>7. j.items[f].state \in {"queued", "sent"} => t \in Strip
  <2>1. CASE j.items[f].state = "sent"
    BY <2>1 DEF Strip, Active, ItemsIn
  <2>2. CASE j.items[f].state = "queued"
    <3>1. j.pending \in Seq(Fns) /\ f \in ToSet(j.pending)
      BY <2>2 DEF QueueInv, Waits, TypeInv, Job
    <3>2. j.pending # <<>>
      BY <3>1 DEF ToSet
    <3>. QED  BY <3>2 DEF Strip, Active
  <2>. QED  BY <2>1, <2>2
<1>8. Outcome(t, f) \in {"waiting", "queued"} => j.items[f].state \in {"queued", "sent"}
  BY <1>6
<1>9. Outcome(t, f) \in Usable <=> v.id # 0 /\ ~v.bad
  BY <1>6 DEF Usable
<1>10. t # "bugs" => (Outcome(t, f) = "done" <=> v.id # 0 /\ ~v.bad)
  BY <1>6
<1>11. t = "bugs" => (Outcome(t, f) = "issues" <=> v.issues # <<>>)
  BY <1>1, <1>2, <1>3, <1>6
<1>. QED  BY <1>2, <1>4, <1>5, <1>6, <1>7, <1>8, <1>9, <1>10, <1>11

LEMMA TablesDo ==
    ASSUME TypeInv, ListInv, QueueInv, HonestInv
    PROVE  TablesAgree
<1>. SUFFICES ASSUME NEW t \in Tasks, NEW f \in Fns
              PROVE  LET row == Outcome(t, f)
                     IN  /\ f \in Analysed(t) <=> row \in Usable
                         /\ f \in Broken(t) => row = "failed"
                         /\ f \in Analysed(t) \cup Broken(t) =>
                               f \in DOMAIN Rows /\ Rows[f].tasks[t] = row
                         /\ row \in {"waiting", "queued"} => t \in Strip
                         /\ f \in AiFindings => Outcome("bugs", f) = "issues"
                         /\ t = "bugs" /\ row = "issues" /\ job[t].items[f] # NoItem =>
                               f \in AiFindings
                         /\ t = "behaviour" => (f \in Explained <=> row = "done")
  BY DEF TablesAgree
<1>. "bugs" \in Tasks
  OBVIOUS
<1>1. f \in Outcomes(t) => f \in DOMAIN Rows /\ Rows[f].tasks[t] = Outcome(t, f)
  <2>1. f \in Outcomes(t) => f \in Listed
    BY DEF Listed, Touched
  <2>. QED  BY <2>1 DEF Rows
<1>2. f \in AiFindings => Outcome("bugs", f) = "issues"
  BY RowSays DEF AiFindings
<1>3. t = "bugs" /\ Outcome(t, f) = "issues" /\ job[t].items[f] # NoItem => f \in AiFindings
  BY RowSays DEF AiFindings
<1>4. t = "behaviour" => (f \in Explained <=> Outcome(t, f) = "done")
  BY RowSays DEF Explained
<1>. QED  BY <1>1, <1>2, <1>3, <1>4, RowSays

LEMMA TreesDo ==
    ASSUME TypeInv, ListInv, QueueInv, HonestInv
    PROVE  TreesAgree
<1>. SUFFICES ASSUME NEW f \in Fns
              PROVE  LET states == {Outcome(t, f) : t \in Tasks \ {"decompile"}}
                         tree == StateOf(f)
                     IN  /\ tree = "ai" <=> states \cap Usable # {}
                         /\ tree = "decompiled" <=>
                               Outcome("decompile", f) = "done" /\ states \cap Usable = {}
                         /\ f \in AnyResult <=> tree \in {"ai", "decompiled"}
                         /\ tree = "failed" => \E t \in Tasks : <<f, t>> \in Problems
                         /\ HasRun(f) /\ Cardinality(Listed) > MaxRows => f \in Shown(FALSE)
  BY DEF TreesAgree
<1>. PICK states : states = {Outcome(t, f) : t \in Tasks \ {"decompile"}}
  OBVIOUS
<1>1. states \cap Usable # {} <=> f \in Marks.analysed
  <2>1. f \in Marks.analysed <=> \E t \in Tasks \ {"decompile"} : f \in Analysed(t)
    BY DEF Marks
  <2>2. \A t \in Tasks : f \in Analysed(t) <=> Outcome(t, f) \in Usable
    BY RowSays
  <2>. QED  BY <2>1, <2>2
<1>2. f \in Marks.decompiled <=> Outcome("decompile", f) = "done"
  <2>1. "decompile" \in Tasks /\ "decompile" # "bugs"
    OBVIOUS
  <2>. QED  BY <2>1, RowSays DEF Marks
<1>3. f \in Marks.failed => \E t \in Tasks : <<f, t>> \in Problems
  <2>. SUFFICES ASSUME f \in Marks.failed PROVE \E t \in Tasks : <<f, t>> \in Problems
    OBVIOUS
  <2>1. PICK t \in Tasks : f \in Broken(t)
    BY DEF Marks
  <2>2. f \in Outcomes(t) /\ Outcome(t, f) = "failed"
    BY <2>1, RowSays
  <2>3. f \in Listed
    BY <2>2 DEF Listed, Touched
  <2>. QED  BY <2>2, <2>3 DEF Problems, Cells
<1>4. /\ StateOf(f) = IF f \in Marks.analysed THEN "ai"
                      ELSE IF f \in Marks.decompiled THEN "decompiled"
                      ELSE IF f \in Marks.failed THEN "failed"
                      ELSE IF f \in Limited THEN "limited" ELSE "pending"
      /\ f \in AnyResult <=> f \in Marks.analysed \/ f \in Marks.decompiled
  BY DEF StateOf, AnyResult
<1>5. HasRun(f) /\ Cardinality(Listed) > MaxRows => f \in Shown(FALSE)
  <2>. SUFFICES ASSUME HasRun(f), Cardinality(Listed) > MaxRows PROVE f \in Shown(FALSE)
    OBVIOUS
  <2>1. Matching(FALSE) = Listed /\ f \in Listed
    BY DEF Matching, Listed, HasRun, Touched, Outcomes
  <2>2. f \in {g \in Matching(FALSE) : HasRun(g)}
    BY <2>1
  <2>. QED  BY <2>1, <2>2 DEF Shown
<1>. QED  BY <1>1, <1>2, <1>3, <1>4, <1>5

LEMMA ListOfSet ==
    ASSUME NEW S, IsFiniteSet(S)
    PROVE  SetToSeq(S) \in Seq(S)
<1>1. Cardinality(S) \in Nat /\ ExistsBijection(1 .. Cardinality(S), S)
  BY FS_CardinalityType
<1>2. \E h \in [1 .. Cardinality(S) -> S] : IsInjective(h)
  BY <1>1 DEF ExistsBijection, Bijection, Injection, IsInjective
<1>3. SetToSeq(S) \in [1 .. Cardinality(S) -> S]
  BY <1>2 DEF SetToSeq
<1>. QED  BY <1>1, <1>3

LEMMA FlatShape ==
    ASSUME NEW S, NEW ss \in Seq(Seq(S))
    PROVE  FlattenSeq(ss) \in Seq(S)
<1>. PICK N : N = Len(ss)
  OBVIOUS
<1>. PICK D : D = Seq(S)
  OBVIOUS
<1>1. N \in Nat /\ \A i \in 1 .. N : ss[i] \in D
  OBVIOUS
<1>2. CASE N = 0
  <2>1. ss = <<>>
    BY <1>2, EmptySeq
  <2>2. FlattenSeq(ss) = ss
    BY <1>2 DEF FlattenSeq
  <2>. QED  BY ONLY <2>1, <2>2, EmptySeq
<1>3. CASE N # 0
  <2>. DEFINE flatten[i \in 1 .. Len(ss)] == IF i = 1 THEN ss[i] ELSE flatten[i - 1] \o ss[i]
  <2>1. PICK g : g = [i \in 1 .. N |-> IF i = 1 THEN ss[i] ELSE g[i - 1] \o ss[i]]
    <3>1. PICK step : step = [i \in 1 .. N |-> [q \in D |-> q \o ss[i]]]
      OBVIOUS
    <3>2. \A i \in 1 .. N, q \in D : q \o ss[i] \in D
      BY <1>1, ConcatProperties
    <3>3. step \in Steps(N, D)
      BY <3>1, <3>2 DEF Steps
    <3>4. PICK e \in D : e = <<>>
      BY ONLY D = Seq(S), EmptySeq
    <3>5. PICK h : Unrolls(h, N, D, e, step)
      <4>1. \E h : Unrolls(h, N, D, e, step)
        BY ONLY <1>1, <3>3, e \in D, Recursion
      <4>. QED  BY <4>1
    <3>6. h \in [0 .. N -> D] /\ h[0] = <<>>
      BY <3>4, <3>5 DEF Unrolls
    <3>7. ASSUME NEW i \in 1 .. N PROVE h[i] = h[i - 1] \o ss[i]
      <4>1. i - 1 \in 0 .. N
        BY <1>1
      <4>2. h[i - 1] \in D /\ h[i] = step[i][h[i - 1]]
        BY <3>5, <4>1 DEF Unrolls
      <4>. QED  BY <3>1, <4>2
    <3>8. PICK k : k = [i \in 1 .. N |-> h[i]]
      OBVIOUS
    <3>9. ASSUME NEW i \in 1 .. N PROVE k[i] = IF i = 1 THEN ss[i] ELSE k[i - 1] \o ss[i]
      <4>1. CASE i = 1
        <5>1. h[i] = <<>> \o ss[i] /\ ss[i] \in Seq(S)
          <6>1. h[i - 1] = <<>> /\ ss[i] \in D
            BY <1>1, <3>6, <4>1
          <6>. QED  BY <3>7, <6>1
        <5>2. <<>> \o ss[i] = ss[i]
          BY <5>1, ConcatEmptySeq
        <5>. QED  BY <3>8, <4>1, <5>1, <5>2
      <4>2. CASE i # 1
        <5>1. i - 1 \in 1 .. N
          BY <1>1, <4>2
        <5>. QED  BY <3>7, <3>8, <4>2, <5>1
      <4>. QED  BY <4>1, <4>2
    <3>10. k = [i \in 1 .. N |-> IF i = 1 THEN ss[i] ELSE k[i - 1] \o ss[i]]
      BY ONLY <3>8, <3>9
    <3>. QED  BY ONLY <3>10
  <2>2. flatten = [i \in 1 .. N |-> IF i = 1 THEN ss[i] ELSE flatten[i - 1] \o ss[i]]
    BY <2>1
  <2>3. FlattenSeq(ss) = flatten[N]
    BY <1>3 DEF FlattenSeq
  <2>. HIDE DEF flatten
  <2>4. PICK T : T = {i \in 0 .. N : i = 0 \/ flatten[i] \in D}
    OBVIOUS
  <2>5. 0 \in T /\ T \in SUBSET (0 .. N)
    BY <1>1, <2>4
  <2>6. ASSUME NEW i \in 1 .. N, i - 1 \in T PROVE i \in T
    <3>1. CASE i = 1
      <4>1. flatten[i] = ss[i]
        BY <2>2, <3>1
      <4>. QED  BY <1>1, <2>4, <4>1
    <3>2. CASE i # 1
      <4>1. i - 1 \in 1 .. N /\ i - 1 # 0
        BY <1>1, <3>2
      <4>2. flatten[i - 1] \in D
        BY ONLY <2>4, <2>6, <4>1
      <4>3. flatten[i] = flatten[i - 1] \o ss[i]
        BY ONLY <2>2, <3>2, i \in 1 .. N
      <4>4. flatten[i - 1] \o ss[i] \in D
        BY <1>1, <4>2, ConcatProperties
      <4>5. flatten[i] \in D
        BY ONLY <4>3, <4>4
      <4>. QED  BY ONLY <2>4, <4>5, <1>1, i \in 1 .. N
    <3>. QED  BY <3>1, <3>2
  <2>7. N \in T
    <3>1. N \in 0 .. N
      BY <1>1
    <3>2. \A i \in 0 .. N : i \in T
      BY <1>1, <2>5, <2>6, UpTo
    <3>. QED  BY <3>1, <3>2
  <2>. QED  BY <1>3, <2>3, <2>4, <2>7
<1>. QED  BY <1>2, <1>3

\* The engine's finding that an issue names is in the list of findings.
LEMMA FirstIsEngines ==
    ASSUME ViewsAssumption, NEW f, NEW api
    PROVE  \/ FirstFinding(f, api) = NoFinding
           \/ \E k \in DOMAIN Engine : FirstFinding(f, api) = Engine[k]
<1>. PICK found : found = {i \in DOMAIN Engine : Engine[i].function = f /\ Engine[i].api = api}
  OBVIOUS
<1>1. DOMAIN Engine = 1 .. Len(Engine) /\ Len(Engine) \in Nat
  BY LenProperties DEF ViewsAssumption
<1>2. CASE found = {}
  BY <1>2 DEF FirstFinding
<1>3. CASE found # {}
  <2>1. found \in SUBSET Nat
    BY <1>1
  <2>2. \E i \in found : \A j \in found : i <= j
    BY <1>3, <2>1, Least
  <2>3. PICK k : k = CHOOSE i \in found : \A j \in found : i <= j
    OBVIOUS
  <2>4. k \in found
    BY <2>2, <2>3
  <2>5. FirstFinding(f, api) = Engine[k]
    BY <1>3, <2>3 DEF FirstFinding
  <2>. QED  BY <2>4, <2>5
<1>. QED  BY <1>2, <1>3

\* The row of an issue.
AiRow(f, issue) ==
    LET match == FirstFinding(f, issue)
    IN  [source |-> "ai", function |-> f, api |-> issue, stale |-> Stale(f),
         severity |-> match.severity, reachable |-> match.reachable,
         corroborated |-> match # NoFinding]
AiRowSet == {AiRow(f, issue) : f \in Fns, issue \in STRING}

LEMMA AiRowsShape ==
    ASSUME ViewsAssumption, TypeInv
    PROVE  AiRows \in Seq(AiRowSet)
<1>. PICK listed : listed = SetToSeq(AiFindings)
  OBVIOUS
<1>1. listed \in Seq(Fns)
  <2>1. IsFiniteSet(AiFindings) /\ AiFindings \subseteq Fns
    BY FS_Subset DEF AiFindings, ViewsAssumption
  <2>. QED  BY <2>1, ListOfSet, SeqMonotonic
<1>2. "bugs" \in Tasks
  OBVIOUS
<1>. DEFINE RowsOf(f) == [i \in DOMAIN Current("bugs", f).issues |->
                             AiRow(f, Current("bugs", f).issues[i])]
<1>3. ASSUME NEW f \in Fns PROVE RowsOf(f) \in Seq(AiRowSet)
  <2>. PICK issues : issues = Current("bugs", f).issues
    OBVIOUS
  <2>1. issues \in Seq(STRING)
    <3>1. Current("bugs", f) \in Version
      BY <1>2, CurrentShape
    <3>. QED  BY <3>1 DEF Version, ViewsAssumption
  <2>2. DOMAIN issues = 1 .. Len(issues) /\ Len(issues) \in Nat
        /\ \A i \in 1 .. Len(issues) : issues[i] \in STRING
    BY <2>1
  <2>3. \A i \in 1 .. Len(issues) : AiRow(f, issues[i]) \in AiRowSet
    BY <2>2 DEF AiRowSet
  <2>4. [i \in 1 .. Len(issues) |-> AiRow(f, issues[i])] \in Seq(AiRowSet)
    BY <2>2, <2>3
  <2>. QED  BY <2>2, <2>4
<1>4. AiRows = FlattenSeq([i \in DOMAIN listed |-> RowsOf(listed[i])])
  BY DEF AiRows, AiRow
<1>. HIDE DEF RowsOf
<1>5. DOMAIN listed = 1 .. Len(listed) /\ Len(listed) \in Nat
      /\ \A i \in 1 .. Len(listed) : RowsOf(listed[i]) \in Seq(AiRowSet)
  BY <1>1, <1>3
<1>6. [i \in 1 .. Len(listed) |-> RowsOf(listed[i])] \in Seq(Seq(AiRowSet))
  BY <1>5
<1>. QED  BY <1>4, <1>5, <1>6, FlatShape

LEMMA RatingsDo ==
    ASSUME ViewsAssumption, TypeInv
    PROVE  RatingsAreEngines
<1>. PICK rows : rows = BoxRows
  OBVIOUS
<1>. PICK ai : ai = AiRows
  OBVIOUS
<1>. DEFINE FromEngine(e) == [source |-> "engine", function |-> e.function, api |-> e.api,
                              stale |-> FALSE, severity |-> e.severity,
                              reachable |-> e.reachable, uncorroborated |-> FALSE, finding |-> e]
            FromAi(r) == [source |-> "ai", function |-> r.function, api |-> r.api,
                          stale |-> r.stale, severity |-> r.severity, reachable |-> r.reachable,
                          uncorroborated |-> ~r.corroborated,
                          finding |-> FirstFinding(r.function, r.api)]
<1>e. \A e : /\ FromEngine(e).source = "engine" /\ FromEngine(e).finding = e
             /\ FromEngine(e).severity = e.severity /\ FromEngine(e).reachable = e.reachable
  OBVIOUS
<1>f. ASSUME NEW f, NEW issue
      PROVE  LET row == FromAi(AiRow(f, issue))
                 match == FirstFinding(f, issue)
             IN  /\ row.source = "ai" /\ row.finding = match /\ row.severity = match.severity
                 /\ row.reachable = match.reachable /\ row.uncorroborated = ~(match # NoFinding)
  <2>. PICK r : r = AiRow(f, issue)
    OBVIOUS
  <2>. PICK match : match = FirstFinding(f, issue)
    OBVIOUS
  <2>1. /\ r.function = f /\ r.api = issue /\ r.severity = match.severity
        /\ r.reachable = match.reachable /\ r.corroborated = (match # NoFinding)
    BY DEF AiRow
  <2>2. /\ FromAi(r).source = "ai" /\ FromAi(r).finding = FirstFinding(r.function, r.api)
        /\ FromAi(r).severity = r.severity /\ FromAi(r).reachable = r.reachable
        /\ FromAi(r).uncorroborated = ~r.corroborated
    OBVIOUS
  <2>. HIDE DEF FromAi
  <2>. QED  BY <2>1, <2>2
<1>1. PICK a : a = [i \in DOMAIN Engine |-> FromEngine(Engine[i])]
  OBVIOUS
<1>2. PICK b : b = [i \in DOMAIN ai |-> FromAi(ai[i])]
  OBVIOUS
<1>3. rows = a \o b
  BY <1>1, <1>2 DEF BoxRows
<1>. HIDE DEF FromEngine, FromAi
<1>4. /\ DOMAIN Engine = 1 .. Len(Engine) /\ Len(Engine) \in Nat
      /\ DOMAIN ai = 1 .. Len(ai) /\ Len(ai) \in Nat
      /\ \A i \in 1 .. Len(ai) : ai[i] \in AiRowSet
  BY AiRowsShape, LenProperties, ElementOfSeq DEF ViewsAssumption
<1>5. PICK S : S = {a[i] : i \in DOMAIN a} \cup {b[i] : i \in DOMAIN b}
  OBVIOUS
<1>6. a \in Seq(S) /\ b \in Seq(S) /\ Len(a) = Len(Engine) /\ Len(b) = Len(ai)
      /\ DOMAIN a = 1 .. Len(a) /\ DOMAIN b = 1 .. Len(b)
  <2>1. a = [i \in 1 .. Len(Engine) |-> a[i]] /\ \A i \in 1 .. Len(Engine) : a[i] \in S
    BY <1>1, <1>4, <1>5
  <2>2. b = [i \in 1 .. Len(ai) |-> b[i]] /\ \A i \in 1 .. Len(ai) : b[i] \in S
    BY <1>2, <1>4, <1>5
  <2>3. a \in Seq(S) /\ Len(a) = Len(Engine)
    BY ONLY <1>4, <2>1
  <2>4. b \in Seq(S) /\ Len(b) = Len(ai)
    BY ONLY <1>4, <2>2
  <2>. QED  BY <2>3, <2>4, LenProperties
<1>7. /\ rows \in Seq(S) /\ Len(rows) = Len(a) + Len(b) /\ DOMAIN rows = 1 .. Len(rows)
      /\ \A i \in 1 .. Len(a) + Len(b) :
            rows[i] = IF i <= Len(a) THEN a[i] ELSE b[i - Len(a)]
  BY <1>3, <1>6, ConcatProperties, LenProperties
<1>8. ASSUME NEW k \in DOMAIN Engine
      PROVE  k \in DOMAIN rows /\ rows[k] = FromEngine(Engine[k])
  BY <1>1, <1>4, <1>6, <1>7
<1>9. ASSUME NEW i \in DOMAIN rows, rows[i].source = "ai"
      PROVE  \E f \in Fns, issue \in STRING : rows[i] = FromAi(AiRow(f, issue))
  <2>1. CASE i <= Len(a)
    <3>1. i \in DOMAIN Engine
      BY <1>4, <1>6, <1>7, <2>1
    <3>. QED  BY <1>8, <1>9, <1>e, <3>1
  <2>2. CASE ~ (i <= Len(a))
    <3>1. i - Len(a) \in 1 .. Len(ai) /\ rows[i] = b[i - Len(a)]
      BY <1>4, <1>6, <1>7, <2>2
    <3>2. rows[i] = FromAi(ai[i - Len(a)]) /\ ai[i - Len(a)] \in AiRowSet
      BY <1>2, <1>4, <3>1
    <3>. QED  BY <3>2 DEF AiRowSet
  <2>. QED  BY <2>1, <2>2
<1>. SUFFICES ASSUME NEW i \in Visible(rows, "AI")
              PROVE  /\ rows[i].uncorroborated <=> rows[i].finding = NoFinding
                     /\ rows[i].severity = rows[i].finding.severity
                     /\ rows[i].finding # NoFinding =>
                           \E j \in Visible(rows, "Engine") :
                               rows[j].finding = rows[i].finding /\ Above(rows[j], rows[i])
  BY DEF RatingsAreEngines
<1>10. PICK f \in Fns, issue \in STRING : rows[i] = FromAi(AiRow(f, issue))
  BY <1>9 DEF Visible
<1>. PICK match : match = FirstFinding(f, issue)
  OBVIOUS
<1>11. /\ rows[i].finding = match /\ rows[i].severity = match.severity
       /\ rows[i].reachable = match.reachable /\ rows[i].source = "ai"
       /\ rows[i].uncorroborated = ~(match # NoFinding)
  BY <1>10, <1>f
<1>12. ASSUME match # NoFinding
       PROVE  \E j \in Visible(rows, "Engine") :
                  rows[j].finding = rows[i].finding /\ Above(rows[j], rows[i])
  <2>1. PICK k \in DOMAIN Engine : match = Engine[k]
    BY <1>12, FirstIsEngines
  <2>2. /\ k \in DOMAIN rows /\ rows[k].source = "engine" /\ rows[k].finding = match
        /\ rows[k].severity = match.severity /\ rows[k].reachable = match.reachable
    BY <1>8, <1>e, <2>1
  <2>3. k \in Visible(rows, "Engine")
    BY <2>2 DEF Visible
  <2>4. Above(rows[k], rows[i])
    BY <1>11, <2>2 DEF Above
  <2>. QED  BY <1>11, <2>2, <2>3, <2>4
<1>. QED  BY <1>11, <1>12

\* The cells the totals count, in terms of what is stored and of the items.
LEMMA TotalsDo ==
    ASSUME TypeInv, ListInv, QueueInv, HonestInv
    PROVE  TotalsAgree
<1>. DEFINE GivenUp(t) == {f \in ItemsIn(t, "failed") : stored[t][f] = <<>>}
<1>. DEFINE NotUsable == UNION {(Broken(t) \cup GivenUp(t)) \X {t} : t \in Tasks}
<1>1. "bugs" \in Tasks
  OBVIOUS
<1>2. ASSUME NEW t \in Tasks, NEW f \in Fns
      PROVE  /\ Outcome(t, f) \in {"issues", "clean"} <=> t = "bugs" /\ f \in Analysed(t)
             /\ Outcome(t, f) = "failed" <=> f \in Broken(t) \/ f \in GivenUp(t)
             /\ Outcome(t, f) # "skipped" => f \in Outcomes(t)
             /\ f \in Outcomes(t) => f \in Listed
  <2>. PICK s : s = stored[t][f]
    OBVIOUS
  <2>. PICK v : v = Current(t, f)
    OBVIOUS
  <2>. PICK i : i = job[t].items[f]
    OBVIOUS
  <2>1. s = <<>> <=> v.id = 0
    <3>1. /\ s = <<>> => v = Nothing
          /\ s # <<>> => 1 \in DOMAIN s /\ v = s[1]
      BY CurrentShape
    <3>2. s # <<>> => v.id \in 1 .. now - 1
      BY <3>1 DEF ListInv, ListOK
    <3>. QED  BY <3>1, <3>2 DEF Nothing
  <2>2. /\ f \in Analysed(t) <=> s # <<>> /\ ~v.bad
        /\ f \in Broken(t) <=> s # <<>> /\ v.bad
        /\ f \in GivenUp(t) <=> i.state = "failed" /\ s = <<>>
        /\ f \in Outcomes(t) <=> i # NoItem \/ s # <<>>
    BY DEF Analysed, Broken, ItemsIn, Outcomes
  <2>3. Outcome(t, f) = IF v.id # 0
                        THEN IF v.bad THEN "failed"
                             ELSE IF t # "bugs" THEN "done"
                             ELSE IF v.issues # <<>> THEN "issues" ELSE "clean"
                        ELSE IF i.state = "sent" THEN "waiting"
                        ELSE IF i.state \in {"queued", "failed"} THEN i.state
                        ELSE "skipped"
    BY DEF Outcome
  <2>4. i.state \in {"sent", "queued", "failed"} => i # NoItem
    BY DEF NoItem
  <2>5. f \in Outcomes(t) => f \in Listed
    BY DEF Listed, Touched
  <2>6. Outcome(t, f) \in {"issues", "clean"} <=> t = "bugs" /\ f \in Analysed(t)
    BY ONLY <2>1, <2>2, <2>3
  <2>7. Outcome(t, f) = "failed" <=> f \in Broken(t) \/ f \in GivenUp(t)
    BY ONLY <2>1, <2>2, <2>3
  <2>8. Outcome(t, f) # "skipped" => f \in Outcomes(t)
    BY ONLY <2>1, <2>2, <2>3, <2>4
  <2>. QED  BY ONLY <2>5, <2>6, <2>7, <2>8
<1>3. Listed \subseteq Fns /\ \A t \in Tasks : Analysed(t) \subseteq Fns
      /\ Broken(t) \subseteq Fns /\ GivenUp(t) \subseteq Fns
  BY DEF Listed, Analysed, Broken, ItemsIn
<1>. HIDE DEF GivenUp
<1>4. Cells({"issues", "clean"}) = Analysed("bugs") \X {"bugs"}
  BY ONLY <1>1, <1>2, <1>3 DEF Cells
<1>5. Cells({"failed"}) = NotUsable
  BY ONLY <1>2, <1>3 DEF Cells
<1>6. Strip = {} => Cells({"waiting", "queued"}) = {}
  <2>1. \A t \in Tasks, f \in Fns : Outcome(t, f) \in {"waiting", "queued"} => t \in Strip
    BY RowSays
  <2>. QED  BY ONLY <1>3, <2>1 DEF Cells
<1>7. Cardinality({}) = 0
  BY FS_EmptySet
<1>8. /\ Totals.done = Cardinality(Cells({"issues", "clean"}))
      /\ Totals.failed = Cardinality(Cells({"failed"}))
      /\ Totals.outstanding = Cardinality(Cells({"waiting", "queued"}))
  BY DEF Totals
<1>. QED  BY ONLY <1>4, <1>5, <1>6, <1>7, <1>8 DEF TotalsAgree, GivenUp

(* The pages say the same of a function (ViewsAgree): the tree, the        *)
(* Summary, its totals, the strip, the Findings box and the profile, of    *)
(* every state that answers late, twice, bad or after a reset can lead to. *)
THEOREM ViewsAreOne == Spec => []ViewsAgree
<1>. USE ViewsAssumption
<1>1. ASSUME TypeInv, ListInv, QueueInv, HonestInv PROVE ViewsAgree
  BY <1>1, TablesDo, TreesDo, TotalsDo, RatingsDo DEF ViewsAgree
<1>. QED  BY <1>1, TypeInit, TypeStep, ListInit, ListStep, QueueInit, QueueStep, HonestStep,
             PTL DEF Spec
-----------------------------------------------------------------------------
(* What a lift is told of (CalleesFirst).                                  *)

(* The pending list keeps the engine's order within a batch; batches are   *)
(* numbered down; what is done is stored.                                  *)
Precede(x, y) == \E c \in Picks["decompile"] : Sooner(c, Len(c), x, y)
InTurn(j) ==
    \A i, k \in DOMAIN j.pending :
        i < k /\ j.items[j.pending[i]].batch = j.items[j.pending[k]].batch
            => Precede(j.pending[i], j.pending[k])
Numbered(j, n) ==
    \A f \in Fns :
        LET i == j.items[f]
        IN  /\ i.batch = 0 \/ (i.batch > n /\ i.state # "absent")
            /\ f \in ToSet(j.pending) => i.batch # 0
DoneIsStored(j, s) == \A f \in Fns : j.items[f].state = "done" => s[f] # <<>>
LiftsInv ==
    LET j == job["decompile"]
    IN  InTurn(j) /\ Numbered(j, left.starts) /\ DoneIsStored(j, stored["decompile"])

\* The engine's order has no two functions both ways.
LEMMA OneOrder ==
    ASSUME NEW x, NEW y, Precede(x, y)
    PROVE  ~ Precede(y, x)
<1>. SUFFICES ASSUME Precede(y, x) PROVE FALSE
  OBVIOUS
<1>1. PICK c \in Picks["decompile"] : Sooner(c, Len(c), x, y)
  BY DEF Precede
<1>2. PICK d \in Picks["decompile"] : Sooner(d, Len(d), y, x)
  BY DEF Precede
<1>3. c \in Seq(Fns) /\ d \in Seq(Fns)
  OBVIOUS
<1>4. DOMAIN c = 1 .. Len(c) /\ DOMAIN d = 1 .. Len(d) /\ DOMAIN d \subseteq Nat
  BY <1>3, LenProperties
<1>5. PICK i \in DOMAIN c, j \in DOMAIN c : i < j /\ c[i] = x /\ c[j] = y
  BY ONLY <1>1, <1>4 DEF Sooner
<1>6. PICK l \in DOMAIN d, k \in DOMAIN d : l < k /\ d[l] = y /\ d[k] = x
  BY ONLY <1>2, <1>4 DEF Sooner
<1>7. k < l
  BY <1>5, <1>6, PicksAssumption
<1>. QED  BY ONLY <1>4, <1>6, <1>7

\* So none stands twice in the list.
LEMMA OnceInList ==
    ASSUME NEW j, InTurn(j), NEW i \in DOMAIN j.pending, NEW k \in DOMAIN j.pending, i < k
    PROVE  j.pending[i] # j.pending[k]
<1>. SUFFICES ASSUME j.pending[i] = j.pending[k] PROVE FALSE
  OBVIOUS
<1>1. Precede(j.pending[i], j.pending[k])
  BY DEF InTurn
<1>. QED  BY <1>1, OneOrder

\* An item changes and the list does not.
LEMMA MarkKeeps ==
    ASSUME NEW j \in Job, NEW f \in Fns, NEW s \in States \ {"absent"}, NEW n \in Nat,
           NEW d \in [Fns -> Seq(Version)], s = "done" => d[f] # <<>>,
           InTurn(j), Numbered(j, n), DoneIsStored(j, d)
    PROVE  LET m == Mark(j, {f}, s, j.items[f].batch)
           IN  InTurn(m) /\ Numbered(m, n) /\ DoneIsStored(m, d) /\ m \in Job
<1>. PICK b : b = j.items[f].batch
  OBVIOUS
<1>. PICK m : m = Mark(j, {f}, s, b)
  OBVIOUS
<1>1. m.pending = j.pending /\ \A g \in Fns : m.items[g] = IF g \in {f} THEN [state |-> s, batch |-> b]
                                                           ELSE j.items[g]
  BY ONLY j \in Job, m = Mark(j, {f}, s, b), MarkItems
<1>2. \A g \in Fns : m.items[g].batch = j.items[g].batch
  BY ONLY <1>1, b = j.items[f].batch
<1>3. \A i \in DOMAIN j.pending : j.pending[i] \in Fns
  BY LenProperties, ElementOfSeq DEF Job
<1>4. InTurn(m)
  BY ONLY <1>1, <1>2, <1>3, InTurn(j) DEF InTurn
<1>5. Numbered(m, n)
  BY ONLY <1>1, <1>2, Numbered(j, n), s \in States \ {"absent"} DEF Numbered
<1>6. DoneIsStored(m, d)
  BY ONLY <1>1, DoneIsStored(j, d), s = "done" => d[f] # <<>> DEF DoneIsStored
<1>7. b \in Nat
  BY DEF Job
<1>8. m \in Job
  BY <1>7, MarkShape
<1>. QED  BY <1>4, <1>5, <1>6, <1>8

\* The head of the list goes.
LEMMA HeadKeeps ==
    ASSUME NEW j \in Job, j.pending # <<>>, NEW n, NEW d,
           InTurn(j), Numbered(j, n), DoneIsStored(j, d)
    PROVE  LET m == [j EXCEPT !.pending = RemoveAt(j.pending, 1)]
           IN  InTurn(m) /\ Numbered(m, n) /\ DoneIsStored(m, d)
<1>. PICK p \in Seq(Fns) : p = j.pending
  BY DEF Job
<1>. PICK q : q = Tail(p)
  OBVIOUS
<1>1. RemoveAt(p, 1) = q
  <2>1. SubSeq(p, 1, 0) = <<>> /\ SubSeq(p, 2, Len(p)) = q /\ q \in Seq(Fns)
    BY SubSeqEmpty, TailIsSubSeq, HeadTailProperties
  <2>2. <<>> \o q = q
    BY <2>1, ConcatEmptySeq
  <2>. QED  BY <2>1, <2>2 DEF RemoveAt
<1>. PICK m : m = [j EXCEPT !.pending = q]
  OBVIOUS
<1>2. m.pending = q /\ m.items = j.items
  BY DEF Job
<1>3. /\ DOMAIN p = 1 .. Len(p) /\ Len(p) \in Nat
      /\ DOMAIN q = 1 .. Len(p) - 1 /\ \A i \in 1 .. Len(p) - 1 : q[i] = p[i + 1]
  <2>1. q \in Seq(Fns) /\ Len(q) = Len(p) - 1 /\ \A i \in 1 .. Len(q) : q[i] = p[i + 1]
    BY HeadTailProperties
  <2>. QED  BY <2>1, LenProperties
<1>4. \A i, k \in 1 .. Len(p) - 1 : i + 1 \in 1 .. Len(p) /\ (i < k => i + 1 < k + 1)
  BY <1>3
<1>5. InTurn(m)
  <2>1. ASSUME NEW i \in 1 .. Len(p) - 1, NEW k \in 1 .. Len(p) - 1, i < k,
               m.items[q[i]].batch = m.items[q[k]].batch
        PROVE  Precede(q[i], q[k])
    <3>1. PICK a \in DOMAIN p, b \in DOMAIN p : a < b /\ q[i] = p[a] /\ q[k] = p[b]
      BY <1>3, <1>4, <2>1
    <3>2. j.items[p[a]].batch = j.items[p[b]].batch
      BY ONLY <1>2, <2>1, <3>1
    <3>. QED  BY ONLY <3>1, <3>2, InTurn(j), p = j.pending DEF InTurn
  <2>. QED  BY ONLY <1>2, <1>3, <2>1 DEF InTurn
<1>6. ToSet(q) \subseteq ToSet(p)
  BY ONLY <1>3, <1>4 DEF ToSet
<1>7. Numbered(m, n)
  BY ONLY <1>2, <1>6, Numbered(j, n), p = j.pending DEF Numbered
<1>8. DoneIsStored(m, d)
  BY ONLY <1>2, DoneIsStored(j, d) DEF DoneIsStored
<1>. QED  BY <1>1, <1>5, <1>7, <1>8

\* A start by name: the function goes to the end, in a batch of its own.
LEMMA NamedKeeps ==
    ASSUME NEW j \in Job, NEW f \in Fns, NEW n \in Nat \ {0}, NEW d,
           InTurn(j), Numbered(j, n), DoneIsStored(j, d)
    PROVE  LET q == IF Contains(j.pending, f) THEN j.pending ELSE Append(j.pending, f)
               m == [Mark(j, {f}, "queued", n) EXCEPT !.pending = q]
           IN  InTurn(m) /\ Numbered(m, n - 1) /\ DoneIsStored(m, d)
<1>. PICK p \in Seq(Fns) : p = j.pending
  BY DEF Job
<1>. PICK q : q = IF Contains(p, f) THEN p ELSE Append(p, f)
  OBVIOUS
<1>. PICK k : k = Mark(j, {f}, "queued", n)
  OBVIOUS
<1>. PICK m : m = [k EXCEPT !.pending = q]
  OBVIOUS
<1>1. k \in Job /\ \A g \in Fns : k.items[g] = IF g \in {f} THEN [state |-> "queued", batch |-> n]
                                              ELSE j.items[g]
  <2>1. k \in Job
    BY MarkShape DEF States
  <2>. QED  BY ONLY <2>1, j \in Job, k = Mark(j, {f}, "queued", n), MarkItems
<1>2. m.pending = q /\ m.items = k.items
  BY <1>1 DEF Job
<1>3. \A g \in Fns : m.items[g] = IF g = f THEN [state |-> "queued", batch |-> n] ELSE j.items[g]
  BY ONLY <1>1, <1>2
<1>4. DOMAIN p = 1 .. Len(p) /\ Len(p) \in Nat /\ \A i \in DOMAIN p : p[i] \in Fns
  BY LenProperties, ElementOfSeq
\* Of two that wait, one is f and waits alone in its batch, or none is.
<1>5. ASSUME NEW x \in ToSet(p), NEW y \in ToSet(p), x # y,
             m.items[x].batch = m.items[y].batch
      PROVE  j.items[x].batch = j.items[y].batch
  <2>1. x \in Fns /\ y \in Fns
    BY ONLY <1>4, x \in ToSet(p), y \in ToSet(p) DEF ToSet
  <2>2. j.items[x].batch > n /\ j.items[y].batch > n
    BY ONLY <2>1, x \in ToSet(p), y \in ToSet(p), Numbered(j, n), p = j.pending DEF Numbered
  <2>3. ~ (n > n)
    OBVIOUS
  <2>4. x # f /\ y # f
    BY ONLY <1>3, <1>5, <2>1, <2>2, <2>3
  <2>. QED  BY ONLY <1>3, <1>5, <2>1, <2>4
<1>6. ASSUME Contains(p, f) PROVE InTurn(m)
  <2>1. q = p
    BY <1>6
  <2>2. ASSUME NEW a \in DOMAIN p, NEW b \in DOMAIN p, a < b,
               m.items[p[a]].batch = m.items[p[b]].batch
        PROVE  Precede(p[a], p[b])
    <3>1. p[a] # p[b]
      BY <2>2, OnceInList
    <3>2. p[a] \in ToSet(p) /\ p[b] \in ToSet(p)
      BY DEF ToSet
    <3>3. j.items[p[a]].batch = j.items[p[b]].batch
      BY <1>5, <2>2, <3>1, <3>2
    <3>. QED  BY ONLY <2>2, <3>3, InTurn(j), p = j.pending DEF InTurn
  <2>3. InTurn(m)
    BY ONLY <1>2, <2>1, <2>2 DEF InTurn
  <2>. QED  BY <2>1, <2>3
<1>7. ASSUME ~ Contains(p, f) PROVE InTurn(m)
  <2>1. /\ DOMAIN q = 1 .. Len(p) + 1 /\ q[Len(p) + 1] = f
        /\ \A i \in 1 .. Len(p) : q[i] = p[i]
    BY <1>7, AppendProperties, LenProperties
  <2>2. ASSUME NEW a \in DOMAIN q, NEW b \in DOMAIN q, a < b,
               m.items[q[a]].batch = m.items[q[b]].batch
        PROVE  Precede(q[a], q[b])
    <3>1. a \in 1 .. Len(p) /\ (b \in 1 .. Len(p) \/ b = Len(p) + 1)
      BY <1>4, <2>1, <2>2
    <3>2. q[a] = p[a] /\ p[a] \in Fns /\ p[a] \in ToSet(p) /\ p[a] # f
      BY <1>4, <1>7, <2>1, <3>1 DEF ToSet, Contains
    <3>3. CASE b \in 1 .. Len(p)
      <4>1. q[b] = p[b] /\ p[b] \in ToSet(p) /\ b \in DOMAIN p /\ a \in DOMAIN p
        BY <1>4, <2>1, <3>1, <3>3 DEF ToSet
      <4>2. p[a] # p[b]
        BY <2>2, <4>1, OnceInList
      <4>3. m.items[p[a]].batch = m.items[p[b]].batch
        BY ONLY <2>2, <3>2, <4>1
      <4>4. j.items[p[a]].batch = j.items[p[b]].batch
        BY ONLY <1>5, <3>2, <4>1, <4>2, <4>3
      <4>. QED  BY ONLY <2>2, <3>2, <4>1, <4>4, InTurn(j), p = j.pending DEF InTurn
    <3>4. CASE b = Len(p) + 1
      <4>1. m.items[q[b]].batch = n
        BY ONLY <1>3, <2>1, <3>4, f \in Fns
      <4>2. m.items[q[a]].batch > n
        BY ONLY <1>3, <3>2, Numbered(j, n), p = j.pending DEF Numbered
      <4>3. ~ (n > n)
        OBVIOUS
      <4>. QED  BY ONLY <2>2, <4>1, <4>2, <4>3
    <3>. QED  BY <3>1, <3>3, <3>4
  <2>3. InTurn(m)
    BY ONLY <1>2, <2>2 DEF InTurn
  <2>. QED  BY <2>3
<1>8. InTurn(m)
  BY <1>6, <1>7
<1>9. ToSet(q) \subseteq ToSet(p) \cup {f}
  <2>1. CASE Contains(p, f)
    BY <2>1
  <2>2. CASE ~ Contains(p, f)
    <3>1. /\ DOMAIN q = 1 .. Len(p) + 1 /\ q[Len(p) + 1] = f
          /\ \A i \in 1 .. Len(p) : q[i] = p[i]
      BY <2>2, AppendProperties, LenProperties
    <3>2. \A i \in 1 .. Len(p) + 1 : i = Len(p) + 1 \/ i \in 1 .. Len(p)
      BY <1>4
    <3>. QED  BY ONLY <1>4, <3>1, <3>2 DEF ToSet
  <2>. QED  BY <2>1, <2>2
<1>10. Numbered(m, n - 1)
  <2>1. n # 0 /\ n > n - 1 /\ \A b \in Nat : b > n => b > n - 1
    OBVIOUS
  <2>2. \A g \in Fns : j.items[g].batch \in Nat
    BY DEF Job
  <2>. QED  BY ONLY <1>2, <1>3, <1>9, <2>1, <2>2, Numbered(j, n), p = j.pending DEF Numbered
<1>11. DoneIsStored(m, d)
  BY ONLY <1>3, DoneIsStored(j, d) DEF DoneIsStored
<1>. QED  BY ONLY <1>8, <1>10, <1>11, p = j.pending, q = IF Contains(p, f) THEN p ELSE Append(p, f),
             k = Mark(j, {f}, "queued", n), m = [k EXCEPT !.pending = q]

\* A start of a selection.
LEMMA StartKeeps ==
    ASSUME TypeInv, NEW chosen \in Picks["decompile"], NEW n \in Nat \ {0}
    PROVE  LET q == Unfinished("decompile", chosen)
               fresh == Mark(EmptyJob, ToSet(chosen), "done", n)
               m == [Mark(fresh, ToSet(q), "queued", n) EXCEPT !.pending = q]
           IN  InTurn(m) /\ Numbered(m, n - 1) /\ DoneIsStored(m, stored["decompile"])
<1>. PICK q : q = Unfinished("decompile", chosen)
  OBVIOUS
<1>. PICK e : e = EmptyJob
  OBVIOUS
<1>. PICK fresh : fresh = Mark(e, ToSet(chosen), "done", n)
  OBVIOUS
<1>. PICK k : k = Mark(fresh, ToSet(q), "queued", n)
  OBVIOUS
<1>. PICK m : m = [k EXCEPT !.pending = q]
  OBVIOUS
<1>1. e \in Job /\ fresh \in Job /\ k \in Job
  <2>1. e \in Job
    BY DEF EmptyJob, Job, NoItem, States
  <2>. QED  BY <2>1, MarkShape DEF States
<1>2. ASSUME NEW g \in Fns
      PROVE  m.items[g] = IF g \in ToSet(q) THEN [state |-> "queued", batch |-> n]
                          ELSE IF g \in ToSet(chosen) THEN [state |-> "done", batch |-> n]
                          ELSE NoItem
  <2>1. e.items[g] = NoItem
    BY DEF EmptyJob
  <2>2. fresh.items[g] = IF g \in ToSet(chosen) THEN [state |-> "done", batch |-> n] ELSE e.items[g]
    BY ONLY <1>1, g \in Fns, fresh = Mark(e, ToSet(chosen), "done", n), MarkItems
  <2>3. k.items[g] = IF g \in ToSet(q) THEN [state |-> "queued", batch |-> n] ELSE fresh.items[g]
    BY ONLY <1>1, g \in Fns, k = Mark(fresh, ToSet(q), "queued", n), MarkItems
  <2>4. m.items = k.items
    BY <1>1 DEF Job
  <2>. QED  BY ONLY <2>1, <2>2, <2>3, <2>4
<1>3. m.pending = q
  BY <1>1 DEF Job
<1>4. chosen \in Seq(Fns)
  OBVIOUS
<1>. PICK N : N = Len(chosen)
  OBVIOUS
<1>5. q \in Seq(Fns) /\ LeftOver("decompile", chosen, N, q)
  BY <1>4, UnfinishedShape
<1>6. InTurn(m)
  <2>1. \A i, a \in DOMAIN q : i < a => Sooner(chosen, N, q[i], q[a])
    BY ONLY <1>5 DEF LeftOver
  <2>2. \A x, y : Sooner(chosen, N, x, y) => Precede(x, y)
    BY ONLY chosen \in Picks["decompile"], N = Len(chosen) DEF Precede
  <2>. QED  BY ONLY <1>3, <2>1, <2>2 DEF InTurn
<1>7. Numbered(m, n - 1)
  <2>1. n # 0 /\ n > n - 1
    OBVIOUS
  <2>. QED  BY ONLY <1>2, <1>3, <2>1 DEF Numbered, NoItem
<1>8. ASSUME NEW g \in Fns, m.items[g].state = "done"
      PROVE  stored["decompile"][g] # <<>>
  <2>1. g \in ToSet(chosen) /\ g \notin ToSet(q)
    BY ONLY <1>2, <1>8, g \in Fns DEF NoItem
  <2>2. PICK a \in 1 .. N : chosen[a] = g
    BY <1>4, <2>1, LenProperties DEF ToSet
  <2>3. Good(Current("decompile", g))
    BY ONLY <1>5, <2>1, <2>2 DEF LeftOver, ToSet
  <2>. QED  BY ONLY <2>3 DEF Good, Current, Nothing
<1>9. DoneIsStored(m, stored["decompile"])
  BY <1>8 DEF DoneIsStored
<1>. QED  BY ONLY <1>6, <1>7, <1>9, q = Unfinished("decompile", chosen), e = EmptyJob,
             fresh = Mark(e, ToSet(chosen), "done", n), k = Mark(fresh, ToSet(q), "queued", n),
             m = [k EXCEPT !.pending = q]

LEMMA LiftsInit == Init => LiftsInv
<1>. SUFFICES ASSUME Init PROVE LiftsInv
  OBVIOUS
<1>. PICK j : j = EmptyJob
  OBVIOUS
<1>1. j.pending = <<>> /\ DOMAIN j.pending = {} /\ ToSet(j.pending) = {}
      /\ \A f \in Fns : j.items[f] = NoItem
  BY DEF EmptyJob, ToSet
<1>2. job["decompile"] = j
  BY DEF Init
<1>3. InTurn(j)
  BY ONLY <1>1 DEF InTurn
<1>4. Numbered(j, left.starts) /\ DoneIsStored(j, stored["decompile"])
  BY ONLY <1>1 DEF Numbered, DoneIsStored, NoItem
<1>. QED  BY <1>2, <1>3, <1>4 DEF LiftsInv

LEMMA LiftsStep ==
    ASSUME TypeInv, LiftsInv, [Next]_vars
    PROVE  LiftsInv'
<1>. PICK D : D = "decompile"
  OBVIOUS
<1>. PICK j : j = job[D]
  OBVIOUS
<1>. PICK n : n = left.starts
  OBVIOUS
<1>. PICK d : d = stored[D]
  OBVIOUS
<1>0. /\ D \in Tasks /\ job \in [Tasks -> Job] /\ j \in Job /\ n \in Nat
      /\ stored \in [Tasks -> [Fns -> Seq(Version)]] /\ d \in [Fns -> Seq(Version)]
      /\ recording \subseteq Recording /\ reset \in Orders
  BY DEF TypeInv
<1>1. InTurn(j) /\ Numbered(j, n) /\ DoneIsStored(j, d)
  BY DEF LiftsInv
<1>2. ASSUME NEW m, job'[D] = m, InTurn(m), Numbered(m, left'.starts), DoneIsStored(m, stored'[D])
      PROVE  LiftsInv'
  BY ONLY <1>2, D = "decompile" DEF LiftsInv, InTurn, Numbered, DoneIsStored
<1>3. ASSUME job'[D] = j, stored'[D] = d, left'.starts = n PROVE LiftsInv'
  BY <1>1, <1>2, <1>3
<1>4. Started => n \in Nat \ {0} /\ left'.starts = n - 1
  BY <1>0 DEF Started, TypeInv
<1>5. Extra => left'.starts = n
  BY DEF Extra, TypeInv
\* Fewer starts are left, and the rest is as it was.
<1>6. ASSUME job'[D] = j, stored'[D] = d, left'.starts = n - 1, n \in Nat \ {0} PROVE LiftsInv'
  <2>1. \A b \in Nat : b > n => b > n - 1
    BY <1>6
  <2>2. \A g \in Fns : j.items[g].batch \in Nat
    BY <1>0 DEF Job
  <2>3. Numbered(j, n - 1)
    BY ONLY <1>1, <2>1, <2>2 DEF Numbered
  <2>. QED  BY <1>1, <1>2, <1>6, <2>3
<1>7. ASSUME NEW t \in Tasks, StartAutomatic(t) PROVE LiftsInv'
  <2>1. PICK chosen \in Picks[t] :
          LET queue == Unfinished(t, chosen)
              fresh == Mark(EmptyJob, ToSet(chosen), "done", NewBatch)
          IN  job' = [job EXCEPT ![t] =
                        [Mark(fresh, ToSet(queue), "queued", NewBatch) EXCEPT !.pending = queue]]
    BY <1>7 DEF StartAutomatic
  <2>2. Started /\ stored' = stored
    BY <1>7 DEF StartAutomatic
  <2>3. CASE t = D
    <3>1. LET q == Unfinished("decompile", chosen)
              fresh == Mark(EmptyJob, ToSet(chosen), "done", n)
              m == [Mark(fresh, ToSet(q), "queued", n) EXCEPT !.pending = q]
          IN  InTurn(m) /\ Numbered(m, n - 1) /\ DoneIsStored(m, stored["decompile"])
      BY <1>4, <2>2, <2>3, StartKeeps
    <3>2. LET q == Unfinished("decompile", chosen)
              fresh == Mark(EmptyJob, ToSet(chosen), "done", n)
              m == [Mark(fresh, ToSet(q), "queued", n) EXCEPT !.pending = q]
          IN  job'[D] = m
      BY <1>0, <2>1, <2>3 DEF NewBatch
    <3>. QED  BY <1>2, <1>4, <2>2, <3>1, <3>2
  <2>4. CASE t # D
    BY <1>0, <1>4, <1>6, <2>1, <2>2, <2>4
  <2>. QED  BY <2>3, <2>4
<1>8. ASSUME NEW t \in Tasks, Dispatch(t) PROVE LiftsInv'
  <2>. PICK f : f = job[t].pending[1]
    OBVIOUS
  <2>1. job' = [job EXCEPT ![t] = [Mark(job[t], {f}, "sent", job[t].items[f].batch) EXCEPT
                                      !.pending = RemoveAt(job[t].pending, 1)]]
        /\ stored' = stored /\ left' = left /\ job[t].pending # <<>>
    BY <1>8 DEF Dispatch, Going
  <2>2. CASE t = D
    <3>1. f \in Fns
      <4>1. j.pending \in Seq(Fns) /\ j.pending # <<>>
        BY <1>0, <2>1, <2>2 DEF Job
      <4>2. 1 \in 1 .. Len(j.pending)
        BY <4>1, EmptySeq, LenProperties
      <4>. QED  BY <2>2, <4>1, <4>2, ElementOfSeq
    <3>. PICK m : m = Mark(j, {f}, "sent", j.items[f].batch)
      OBVIOUS
    <3>2. InTurn(m) /\ Numbered(m, n) /\ DoneIsStored(m, d) /\ m \in Job
      BY <1>0, <1>1, <3>1, MarkKeeps DEF States
    <3>3. m.pending = j.pending
      BY ONLY <1>0, m = Mark(j, {f}, "sent", j.items[f].batch) DEF Mark, Job
    <3>4. LET k == [m EXCEPT !.pending = RemoveAt(m.pending, 1)]
          IN  InTurn(k) /\ Numbered(k, n) /\ DoneIsStored(k, d)
      BY <2>1, <2>2, <3>2, <3>3, HeadKeeps
    <3>5. job'[D] = [m EXCEPT !.pending = RemoveAt(m.pending, 1)]
      BY <1>0, <2>1, <2>2, <3>3
    <3>. QED  BY <1>2, <2>1, <3>4, <3>5
  <2>3. CASE t # D
    BY <1>0, <1>3, <2>1, <2>3
  <2>. QED  BY <2>2, <2>3
<1>9. ASSUME NEW t \in Tasks, NEW f \in Fns, Relift(t, f) PROVE LiftsInv'
  <2>1. Started /\ stored' = stored
    BY <1>9 DEF Relift
  <2>2. LET q == IF Contains(job[t].pending, f) THEN job[t].pending ELSE Append(job[t].pending, f)
        IN  job' = [job EXCEPT ![t] = [Mark(job[t], {f}, "queued", n) EXCEPT !.pending = q]]
    BY <1>9 DEF Relift, NewBatch
  <2>3. CASE t = D
    <3>1. LET q == IF Contains(j.pending, f) THEN j.pending ELSE Append(j.pending, f)
              m == [Mark(j, {f}, "queued", n) EXCEPT !.pending = q]
          IN  InTurn(m) /\ Numbered(m, n - 1) /\ DoneIsStored(m, d)
      BY <1>0, <1>1, <1>4, <2>1, NamedKeeps
    <3>2. LET q == IF Contains(j.pending, f) THEN j.pending ELSE Append(j.pending, f)
              m == [Mark(j, {f}, "queued", n) EXCEPT !.pending = q]
          IN  job'[D] = m
      BY <1>0, <2>2, <2>3
    <3>. QED  BY <1>2, <1>4, <2>1, <3>1, <3>2
  <2>4. CASE t # D
    BY <1>0, <1>4, <1>6, <2>1, <2>2, <2>4
  <2>. QED  BY <2>3, <2>4
<1>10. ASSUME NEW t \in Tasks, NEW f \in Fns, Reap(t, f) PROVE LiftsInv'
  <2>1. job' = [job EXCEPT ![t] = Mark(@, {f}, "failed", @.items[f].batch)] /\ Extra /\ stored' = stored
    BY <1>10 DEF Reap
  <2>2. CASE t = D
    <3>. PICK m : m = Mark(j, {f}, "failed", j.items[f].batch)
      OBVIOUS
    <3>1. InTurn(m) /\ Numbered(m, n) /\ DoneIsStored(m, d)
      BY <1>0, <1>1, MarkKeeps DEF States
    <3>2. job'[D] = m
      BY <1>0, <2>1, <2>2
    <3>. QED  BY <1>2, <1>5, <2>1, <3>1, <3>2
  <2>3. CASE t # D
    BY <1>0, <1>3, <1>5, <2>1, <2>3
  <2>. QED  BY <2>2, <2>3
<1>11. ASSUME NEW r \in recording, Record(r) PROVE LiftsInv'
  <2>1. r \in Recording /\ r.task \in Tasks /\ r.fn \in Fns
    BY <1>0 DEF Recording
  <2>2. /\ job' = [job EXCEPT ![r.task] = Mark(@, {r.fn}, "done", @.items[r.fn].batch)]
        /\ stored' = [stored EXCEPT ![r.task][r.fn] = Versions(r)] /\ left' = left
    BY <1>11 DEF Record
  <2>3. CASE r.task = D
    <3>. PICK f \in Fns : f = r.fn
      BY <2>1
    <3>. PICK s : s = [d EXCEPT ![f] = Versions(r)]
      OBVIOUS
    <3>1. Versions(r) \in Seq(Version) /\ Versions(r) # <<>>
      BY <2>1, VersionsShape
    <3>2. s \in [Fns -> Seq(Version)] /\ stored'[D] = s /\ s[f] # <<>>
      BY <1>0, <2>2, <2>3, <3>1
    <3>3. DoneIsStored(j, s)
      BY <1>0, <1>1, <3>1 DEF DoneIsStored
    <3>. PICK m : m = Mark(j, {f}, "done", j.items[f].batch)
      OBVIOUS
    <3>4. InTurn(m) /\ Numbered(m, n) /\ DoneIsStored(m, s)
      BY <1>0, <1>1, <3>2, <3>3, MarkKeeps DEF States
    <3>5. job'[D] = m
      BY <1>0, <2>2, <2>3
    <3>6. left'.starts = n
      BY <2>2
    <3>7. Numbered(m, left'.starts) /\ DoneIsStored(m, stored'[D])
      BY ONLY <3>2, <3>4, <3>6
    <3>. QED  BY ONLY <1>2, <3>4, <3>5, <3>7
  <2>4. CASE r.task # D
    BY <1>0, <1>3, <2>1, <2>2, <2>4
  <2>. QED  BY <2>3, <2>4
<1>12. CASE ResetTask
  <2>1. Head(reset) \in Tasks
    BY <1>0, <1>12, OrderTail DEF ResetTask
  <2>2. /\ job' = [job EXCEPT ![Head(reset)] = EmptyJob] /\ left' = left
        /\ stored' = [stored EXCEPT ![Head(reset)] = [f \in Fns |-> <<>>]]
    BY <1>12 DEF ResetTask
  <2>3. CASE Head(reset) = D
    <3>. PICK e : e = EmptyJob
      OBVIOUS
    <3>1. e.pending = <<>> /\ DOMAIN e.pending = {} /\ ToSet(e.pending) = {}
          /\ \A f \in Fns : e.items[f] = NoItem
      BY DEF EmptyJob, ToSet
    <3>2. InTurn(e)
      BY ONLY <3>1 DEF InTurn
    <3>3. Numbered(e, left'.starts) /\ DoneIsStored(e, stored'[D])
      BY ONLY <3>1 DEF Numbered, DoneIsStored, NoItem
    <3>4. job'[D] = e
      BY <1>0, <2>1, <2>2, <2>3
    <3>. QED  BY <1>2, <3>2, <3>3, <3>4
  <2>4. CASE Head(reset) # D
    BY <1>0, <1>3, <2>1, <2>2, <2>4
  <2>. QED  BY <2>3, <2>4
<1>13. CASE UNCHANGED vars \/ Reset \/ (\E f \in Fns : Review(f))
  BY <1>3, <1>5, <1>13 DEF vars, Reset, Review
<1>14. CASE \E p \in asked, bad, again \in BOOLEAN :
              \E issues \in IF p.task = "bugs" /\ ~bad THEN Reports ELSE {<<>>} :
                 Answer(p, bad, again, issues)
  <2>1. /\ job' = job /\ stored' = stored
        /\ Extra \/ left' = left
    BY <1>14 DEF Answer
  <2>. QED  BY <1>3, <1>5, <2>1
<1>. QED  BY <1>7, <1>8, <1>9, <1>10, <1>11, <1>12, <1>13, <1>14 DEF Next

\* What a prompt that is made leaves out.
LEMMA PromptTells ==
    ASSUME IsFiniteSet(Fns), TypeInv, ListInv, QueueInv, LiftsInv, [Next]_vars,
           NEW p \in asked' \ asked, p.task = "decompile"
    PROVE  LET items == job["decompile"].items
               batch == items[p.fn].batch
               untold == {g \in Callees[p.fn] \ {p.fn} :
                            /\ items[g].batch = batch /\ p.told[g].id = 0
                            /\ \E chosen \in Picks["decompile"] :
                                 /\ ToSet(chosen) = {h \in Fns : items[h].batch = batch}
                                 /\ \E i, j \in DOMAIN chosen :
                                      i < j /\ chosen[i] = g /\ chosen[j] = p.fn}
           IN   /\ \A g \in untold : items[g].state \in {"sent", "failed"}
                /\ Cardinality({g \in untold : items[g].state = "sent"}) < Window
<1>. PICK D : D = "decompile"
  OBVIOUS
<1>. PICK j : j = job[D]
  OBVIOUS
<1>. PICK items : items = j.items
  OBVIOUS
<1>0. /\ D \in Tasks /\ j \in Job /\ items \in [Fns -> [state : States, batch : Nat]]
      /\ j.pending \in Seq(Fns) /\ stored \in [Tasks -> [Fns -> Seq(Version)]]
  BY DEF TypeInv, Job
<1>1. Dispatch(D) /\ p = Prompt(D, j.pending[1])
  <2>1. PICK t \in Tasks : Dispatch(t)
    <3>1. ASSUME NEW q \in asked, NEW bad, NEW again, NEW issues, Answer(q, bad, again, issues)
          PROVE  FALSE
      BY ONLY <3>1, p \in asked' \ asked DEF Answer
    <3>2. ASSUME NEW t \in Tasks, NEW f, StartAutomatic(t) \/ Relift(t, f) \/ Reap(t, f) PROVE FALSE
      BY ONLY <3>2, p \in asked' \ asked DEF StartAutomatic, Relift, Reap
    <3>3. ASSUME Reset \/ ResetTask \/ UNCHANGED vars PROVE FALSE
      BY ONLY <3>3, p \in asked' \ asked DEF Reset, ResetTask, vars
    <3>4. ASSUME NEW f, NEW r, Review(f) \/ Record(r) PROVE FALSE
      BY ONLY <3>4, p \in asked' \ asked DEF Review, Record
    <3>. QED  BY <3>1, <3>2, <3>3, <3>4 DEF Next
  <2>2. asked' = asked \cup {Prompt(t, job[t].pending[1])}
    BY <2>1 DEF Dispatch, Going
  <2>3. p = Prompt(t, job[t].pending[1])
    BY <2>2
  <2>4. t = D
    BY <2>3 DEF Prompt
  <2>. QED  BY <2>1, <2>3, <2>4
<1>. PICK f : f = j.pending[1]
  OBVIOUS
<1>2. 1 \in DOMAIN j.pending /\ f \in Fns /\ f \in ToSet(j.pending) /\ DOMAIN j.pending = 1 .. Len(j.pending)
  <2>1. j.pending # <<>>
    BY <1>1 DEF Dispatch
  <2>2. 1 \in DOMAIN j.pending /\ DOMAIN j.pending = 1 .. Len(j.pending)
    BY <1>0, <2>1, EmptySeq, LenProperties
  <2>3. f \in Fns
    BY <1>0, <2>2, ElementOfSeq
  <2>. QED  BY <2>2, <2>3 DEF ToSet
<1>3. p.fn = f /\ \A g \in Callees[f] : p.told[g] = Current(D, g)
  BY <1>1, <1>2 DEF Prompt, Context
<1>. PICK b : b = items[f].batch
  OBVIOUS
<1>4. b # 0
  BY <1>2 DEF LiftsInv, Numbered
<1>5. ASSUME NEW g \in Callees[f] \ {f}, items[g].batch = b, p.told[g].id = 0, Precede(g, f)
      PROVE  items[g].state \in {"sent", "failed"}
  <2>1. g \in Fns
    BY <1>2
  <2>2. items[g].state # "absent"
    BY <1>4, <1>5, <2>1 DEF LiftsInv, Numbered
  <2>3. stored[D][g] = <<>>
    <3>. SUFFICES ASSUME stored[D][g] # <<>> PROVE FALSE
      OBVIOUS
    <3>. PICK s \in Seq(Version) : s = stored[D][g]
      BY <1>0, <2>1
    <3>1. 1 \in DOMAIN s /\ Head(s) = s[1]
      BY EmptySeq, LenProperties, HeadTailProperties
    <3>2. s[1].id \in 1 .. now - 1
      BY <1>0, <2>1, <3>1 DEF ListInv, ListOK
    <3>3. p.told[g].id = s[1].id
      BY <1>3, <1>5, <3>1 DEF Current
    <3>. QED  BY <1>5, <3>2, <3>3
  <2>4. items[g].state # "done"
    BY <2>1, <2>3 DEF LiftsInv, DoneIsStored
  <2>5. items[g].state # "queued"
    <3>. SUFFICES ASSUME items[g].state = "queued" PROVE FALSE
      OBVIOUS
    <3>1. g \in ToSet(j.pending)
      BY <1>0, <2>1 DEF QueueInv, Waits
    <3>2. PICK k \in DOMAIN j.pending : j.pending[k] = g
      BY <3>1 DEF ToSet
    <3>3. 1 < k
      BY <1>2, <1>5, <3>2
    <3>4. Precede(f, g)
      <4>1. InTurn(j)
        BY DEF LiftsInv
      <4>. QED  BY ONLY <1>2, <1>5, <3>2, <3>3, <4>1, f = j.pending[1], b = items[f].batch,
                  items = j.items DEF InTurn
    <3>. QED  BY <1>5, <3>4, OneOrder
  <2>6. items[g].state \in States
    BY <1>0, <2>1
  <2>. QED  BY <2>2, <2>4, <2>5, <2>6 DEF States
<1>6. ASSUME NEW g, NEW chosen \in Picks["decompile"],
             \E i, k \in DOMAIN chosen : i < k /\ chosen[i] = g /\ chosen[k] = f
      PROVE  Precede(g, f)
  <2>1. chosen \in Seq(Fns)
    OBVIOUS
  <2>2. DOMAIN chosen = 1 .. Len(chosen)
    BY <2>1, LenProperties
  <2>. QED  BY ONLY <1>6, <2>2, chosen \in Picks["decompile"] DEF Precede, Sooner
<1>. PICK U : U = {g \in Callees[f] \ {f} :
                     /\ items[g].batch = b /\ p.told[g].id = 0
                     /\ \E chosen \in Picks["decompile"] :
                          /\ ToSet(chosen) = {h \in Fns : items[h].batch = b}
                          /\ \E i, k \in DOMAIN chosen :
                               i < k /\ chosen[i] = g /\ chosen[k] = f}
  OBVIOUS
<1>7. ASSUME NEW g \in U PROVE items[g].state \in {"sent", "failed"}
  BY <1>5, <1>6
<1>8. Cardinality({g \in U : items[g].state = "sent"}) < Window
  <2>. PICK S : S = {g \in U : items[g].state = "sent"}
    OBVIOUS
  <2>. PICK W : W = ItemsIn(D, "sent")
    OBVIOUS
  <2>1. U \subseteq Fns
    BY <1>2
  <2>2. S \subseteq W /\ W \subseteq Fns
    BY <2>1 DEF ItemsIn
  <2>3. IsFiniteSet(W)
    BY <2>2, FS_Subset
  <2>4. Cardinality(S) <= Cardinality(W) /\ Cardinality(S) \in Nat /\ Cardinality(W) \in Nat
    BY ONLY <2>2, <2>3, FS_Subset, FS_CardinalityType
  <2>5. Cardinality(W) < Window /\ Window \in Nat
    BY <1>1 DEF Dispatch
  <2>. QED  BY ONLY <2>4, <2>5, S = {g \in U : items[g].state = "sent"}
<1>. QED  BY ONLY <1>3, <1>7, <1>8, D = "decompile", j = job[D], items = j.items, b = items[f].batch,
             U = {g \in Callees[f] \ {f} :
                     /\ items[g].batch = b /\ p.told[g].id = 0
                     /\ \E chosen \in Picks["decompile"] :
                          /\ ToSet(chosen) = {h \in Fns : items[h].batch = b}
                          /\ \E i, k \in DOMAIN chosen :
                               i < k /\ chosen[i] = g /\ chosen[k] = f}

(* A lift that is sent is told of what its batch took before it, but for   *)
(* the callees that are out, failed or stopped, however often batches are  *)
(* started over, functions lifted again and answers lost: CalleesFirst.    *)
THEOREM CalleesAreTold == Spec => CalleesFirst
<1>. USE ViewsAssumption
<1>1. ASSUME TypeInv, ListInv, QueueInv, LiftsInv, [Next]_vars
      PROVE  [\A p \in asked' \ asked :
          LET items == job["decompile"].items
              batch == items[p.fn].batch
              untold == {g \in Callees[p.fn] \ {p.fn} :
                            /\ items[g].batch = batch /\ p.told[g].id = 0
                            /\ \E chosen \in Picks["decompile"] :
                                 /\ ToSet(chosen) = {h \in Fns : items[h].batch = batch}
                                 /\ \E i, j \in DOMAIN chosen :
                                      i < j /\ chosen[i] = g /\ chosen[j] = p.fn}
          IN  p.task = "decompile" =>
                /\ \A g \in untold : items[g].state \in {"sent", "failed"}
                /\ Cardinality({g \in untold : items[g].state = "sent"}) < Window]_vars
  BY <1>1, PromptTells
<1>. QED  BY <1>1, TypeInit, TypeStep, ListInit, ListStep, QueueInit, QueueStep, LiftsInit, LiftsStep,
             PTL DEF Spec, CalleesFirst
-----------------------------------------------------------------------------
(***************************************************************************)
(* The files these results are kept in: JsonStore implements AtomicFile,   *)
(* for any calls, fields and failures.                                     *)
(*                                                                         *)
(* The argument: a call that has begun is the earliest one unanswered      *)
(* (Alone), because the promise it was chained to has settled and every    *)
(* earlier unanswered call would be no later than that one (Chained); the  *)
(* map's entry is dropped only when nothing is unanswered (TailLast).  So  *)
(* nobody changes the file between a patch's read and its rename (Fresh).  *)
(***************************************************************************)

HIDE ResultsAssumption

Busy(o) == at[o] \in {"waiting"} \cup Running

\* Tickets are handed out in the order of the calls.
Tickets ==
    /\ \A o \in Ops : at[o] # "idle" => ticket[o] <= made
    /\ \A o, p \in Ops :
         at[o] # "idle" /\ at[p] # "idle" /\ ticket[o] = ticket[p] => o = p

Chained ==
    \A o, p \in Ops :
        Busy(o) /\ Busy(p) /\ ticket[p] < ticket[o]
          => /\ prev[o] \in Ops /\ Busy(prev[o])
             /\ ticket[p] <= ticket[prev[o]]

TailLast ==
    \A p \in Ops : Busy(p) => /\ tail \in Ops /\ Busy(tail)
                              /\ ticket[p] <= ticket[tail]

Alone == \A o, p \in Ops : at[o] \in Running /\ Busy(p) => ticket[o] <= ticket[p]

Fresh ==
    \A o \in Ops :
        /\ at[o] \in {"read", "writing", "written"} /\ o \notin Replace
             => got[o] = file
        /\ at[o] = "written" => tmp[o] = Applied(got[o], o)

StoreInv == TypeOK /\ Tickets /\ Chained /\ TailLast /\ Alone /\ Fresh

USE ReplaceAssumption, SetsAssumption, NobodyAssumption, TornAssumption,
    NoneAssumption, BoundAssumption
USE DEF Docs, NoDoc, Applied

LEMMA AppliedDoc ==
    ASSUME NEW d \in Docs, NEW o \in Ops
    PROVE  Applied(d, o) \in Docs
BY DEF Promise!Docs, Promise!Applied

LEMMA NoDocDoc == NoDoc \in Docs
BY DEF Promise!Docs, Promise!NoDoc

LEMMA StoreInvInit == StoreInit => StoreInv
<1>. SUFFICES ASSUME StoreInit PROVE StoreInv
  OBVIOUS
<1>1. TypeOK
  BY NoDocDoc DEF StoreInit, TypeOK, Places
<1>2. \A o \in Ops : ~Busy(o) /\ at[o] = "idle"
  BY DEF StoreInit, Busy, Running
<1>3. Tickets /\ Chained /\ TailLast /\ Alone /\ Fresh
  BY <1>2 DEF Tickets, Chained, TailLast, Alone, Fresh, Running
<1>. QED  BY <1>1, <1>3 DEF StoreInv

\* A call whose turn it is comes before every other unanswered one.
LEMMA TurnFirst ==
    ASSUME StoreInv, NEW o \in Ops, Turn(o), NEW p \in Ops, Busy(p)
    PROVE  ticket[o] <= ticket[p]
<1>1. ticket[o] \in Nat /\ ticket[p] \in Nat
  BY DEF StoreInv, TypeOK
<1>2. Busy(o)
  BY DEF Turn, Busy
<1>3. prev[o] \in Ops => ~Busy(prev[o])
  BY DEF Turn, Unsettled, Busy, Running, Answered
<1>. QED  BY <1>1, <1>2, <1>3 DEF StoreInv, Chained

\* A step of the first unanswered call that stays unanswered.
LEMMA WorkOn ==
    ASSUME StoreInv, NEW o \in Ops, Busy(o), \A p \in Ops : Busy(p) => ticket[o] <= ticket[p],
           NEW place \in Running, Goto(o, place),
           UNCHANGED <<file, prev, tail, ticket, made>>,
           \A p \in Ops \ {o} : got'[p] = got[p] /\ tmp'[p] = tmp[p],
           place \in {"read", "writing", "written"} /\ o \notin Replace => got'[o] = file,
           place = "written" => tmp'[o] = Applied(got'[o], o)
    PROVE  Tickets' /\ Chained' /\ TailLast' /\ Alone' /\ Fresh'
<1>1. at \in [Ops -> Places] /\ ticket \in [Ops -> Nat]
  BY DEF StoreInv, TypeOK
<1>2. \A p \in Ops : at'[p] = IF p = o THEN place ELSE at[p]
  BY <1>1 DEF Goto
<1>3. \A p \in Ops : (Busy(p)' <=> Busy(p)) /\ (at'[p] = "idle" <=> at[p] = "idle")
  BY <1>2 DEF Busy, Running
<1>4. Tickets'
  BY <1>3 DEF StoreInv, Tickets
<1>5. Chained'
  BY <1>3 DEF StoreInv, Chained
<1>6. TailLast'
  BY <1>3 DEF StoreInv, TailLast
<1>7. Alone'
  BY <1>2, <1>3 DEF StoreInv, Alone
<1>8. Fresh'
  BY <1>2 DEF StoreInv, Fresh
<1>. QED  BY <1>4, <1>5, <1>6, <1>7, <1>8

\* The answer to the first unanswered call.
LEMMA AnswerIt ==
    ASSUME StoreInv, NEW o \in Ops, Busy(o), \A p \in Ops : Busy(p) => ticket[o] <= ticket[p],
           NEW how \in {"ok", "failed"}, Goto(o, how),
           UNCHANGED <<got, prev, tail, ticket, made>>,
           file' = file \/ at[o] \in Running,
           \A p \in Ops \ {o} : tmp'[p] = tmp[p]
    PROVE  Tickets' /\ Chained' /\ TailLast' /\ Alone' /\ Fresh'
<1>1. at \in [Ops -> Places] /\ ticket \in [Ops -> Nat]
  BY DEF StoreInv, TypeOK
<1>2. \A p \in Ops : at'[p] = IF p = o THEN how ELSE at[p]
  BY <1>1 DEF Goto
<1>3. \A p \in Ops : (Busy(p)' <=> Busy(p) /\ p # o) /\ (at'[p] = "idle" <=> at[p] = "idle")
  BY <1>2 DEF Busy, Running
<1>4. \A p \in Ops : Busy(p) /\ p # o => ticket[o] < ticket[p]
  <2>1. \A p \in Ops : Busy(p) => at[p] # "idle"
    BY DEF Busy, Running
  <2>. QED  BY <2>1, <1>1 DEF StoreInv, Tickets
<1>5. Tickets'
  BY <1>3 DEF StoreInv, Tickets
<1>6. Chained'
  <2>. SUFFICES ASSUME NEW q \in Ops, NEW p \in Ops, Busy(q), Busy(p), p # o, q # o,
                       ticket[p] < ticket[q]
                PROVE  /\ prev[q] \in Ops /\ Busy(prev[q]) /\ prev[q] # o
                       /\ ticket[p] <= ticket[prev[q]]
    BY <1>3 DEF Chained
  <2>1. prev[q] \in Ops /\ Busy(prev[q]) /\ ticket[p] <= ticket[prev[q]]
    BY DEF StoreInv, Chained
  <2>2. ticket[o] < ticket[p]
    BY <1>4
  <2>. QED  BY <2>1, <2>2, <1>1
<1>7. TailLast'
  <2>. SUFFICES ASSUME NEW p \in Ops, Busy(p), p # o
                PROVE  tail \in Ops /\ Busy(tail) /\ tail # o /\ ticket[p] <= ticket[tail]
    BY <1>3 DEF TailLast
  <2>1. tail \in Ops /\ Busy(tail) /\ ticket[p] <= ticket[tail]
    BY DEF StoreInv, TailLast
  <2>2. ticket[o] < ticket[p]
    BY <1>4
  <2>. QED  BY <2>1, <2>2, <1>1
<1>8. Alone'
  BY <1>2, <1>3 DEF StoreInv, Alone, Running
<1>9. Fresh'
  <2>1. \A p \in Ops : p # o /\ at[p] \in Running => at[o] \notin Running
    <3>. SUFFICES ASSUME NEW p \in Ops, p # o, at[p] \in Running, at[o] \in Running
                  PROVE  FALSE
      OBVIOUS
    <3>1. Busy(p) /\ ticket[p] <= ticket[o]
      BY DEF StoreInv, Alone, Busy
    <3>2. ticket[o] < ticket[p]
      BY <3>1, <1>4
    <3>. QED  BY <3>1, <3>2, <1>1
  <2>. QED  BY <2>1, <1>2 DEF StoreInv, Fresh, Running
<1>. QED  BY <1>5, <1>6, <1>7, <1>8, <1>9

LEMMA EnqueueInv ==
    ASSUME StoreInv, NEW o \in Ops, Enqueue(o)
    PROVE  StoreInv'
<1>1. at \in [Ops -> Places] /\ ticket \in [Ops -> Nat] /\ made \in Nat
      /\ prev \in [Ops -> Ops \cup {None}]
  BY DEF StoreInv, TypeOK
<1>2. /\ at[o] = "idle" /\ \A p \in Ops : at'[p] = IF p = o THEN "waiting" ELSE at[p]
      /\ \A p \in Ops : ticket'[p] = IF p = o THEN made + 1 ELSE ticket[p]
      /\ \A p \in Ops : prev'[p] = IF p = o THEN tail ELSE prev[p]
      /\ tail' = o /\ made' = made + 1
      /\ UNCHANGED <<file, got, tmp, released, crashes, uncleaned>>
  BY <1>1 DEF Enqueue, Called, Goto
<1>3. TypeOK'
  BY <1>2 DEF StoreInv, TypeOK, Enqueue, Called, Goto, Places
<1>4. ~Busy(o) /\ Busy(o)' /\ \A p \in Ops \ {o} : Busy(p)' <=> Busy(p)
  BY <1>2 DEF Busy, Running
<1>5. \A p \in Ops : at[p] # "idle" => ticket[p] <= made
  BY DEF StoreInv, Tickets
<1>6. \A p \in Ops : Busy(p) => at[p] # "idle"
  BY DEF Busy, Running
<1>7. Tickets'
  BY <1>1, <1>2, <1>5 DEF StoreInv, Tickets
<1>8. Chained'
  <2>. SUFFICES ASSUME NEW q \in Ops, NEW p \in Ops, Busy(q)', Busy(p)',
                       ticket'[p] < ticket'[q]
                PROVE  /\ prev'[q] \in Ops /\ Busy(prev[q])'
                       /\ ticket'[p] <= ticket'[prev'[q]]
    BY <1>2 DEF Chained, Busy
  <2>1. p # o
    BY <1>1, <1>2, <1>4, <1>5, <1>6
  <2>2. CASE q = o
    <3>1. tail \in Ops /\ Busy(tail) /\ ticket[p] <= ticket[tail]
      BY <2>1, <1>4 DEF StoreInv, TailLast
    <3>2. tail # o
      BY <3>1, <1>4
    <3>. QED  BY <2>1, <2>2, <3>1, <3>2, <1>2, <1>4 DEF Busy
  <2>3. CASE q # o
    <3>1. prev[q] \in Ops /\ Busy(prev[q]) /\ ticket[p] <= ticket[prev[q]]
      BY <2>1, <2>3, <1>2, <1>4 DEF StoreInv, Chained
    <3>2. prev[q] # o
      BY <3>1, <1>4
    <3>. QED  BY <2>1, <2>3, <3>1, <3>2, <1>2, <1>4 DEF Busy
  <2>. QED  BY <2>2, <2>3
<1>9. TailLast'
  BY <1>1, <1>2, <1>4, <1>5, <1>6 DEF TailLast, Busy
<1>10. Alone'
  <2>. SUFFICES ASSUME NEW q \in Ops, NEW p \in Ops, at'[q] \in Running, Busy(p)'
                PROVE  ticket'[q] <= ticket'[p]
    BY DEF Alone
  <2>1. q # o /\ at[q] \in Running /\ at[q] # "idle"
    BY <1>2 DEF Running
  <2>. QED  BY <2>1, <1>1, <1>2, <1>4, <1>5 DEF StoreInv, Alone
<1>11. Fresh'
  BY <1>2 DEF StoreInv, Fresh
<1>. QED  BY <1>3, <1>7, <1>8, <1>9, <1>10, <1>11 DEF StoreInv

\* A running call comes before every other unanswered one.
LEMMA RunningFirst ==
    ASSUME StoreInv, NEW o \in Ops, at[o] \in Running
    PROVE  Busy(o) /\ \A p \in Ops : Busy(p) => ticket[o] <= ticket[p]
BY DEF StoreInv, Alone, Busy

LEMMA WaitingFirst ==
    ASSUME StoreInv, NEW o \in Ops, Turn(o)
    PROVE  Busy(o) /\ \A p \in Ops : Busy(p) => ticket[o] <= ticket[p]
BY TurnFirst DEF Turn, Busy

LEMMA WorkInv ==
    ASSUME StoreInv, NEW o \in Ops, Work(o)
    PROVE  StoreInv'
<1>. USE DEF Running
<1>1. /\ file \in Docs /\ at \in [Ops -> Places] /\ got \in [Ops -> Docs]
      /\ tmp \in [Ops -> Docs \cup {Torn, None}] /\ released \subseteq Ops
      /\ tail \in Ops \cup {None}
  BY DEF StoreInv, TypeOK
<1>2. CASE Read(o)
  <2>1. TypeOK'
    BY <1>1, <1>2 DEF Read, Goto, StoreInv, TypeOK, Places
  <2>2. Tickets' /\ Chained' /\ TailLast' /\ Alone' /\ Fresh'
    BY <1>1, <1>2, WaitingFirst, WorkOn DEF Read
  <2>. QED  BY <2>1, <2>2 DEF StoreInv
<1>3. CASE StartFails(o)
  <2>1. TypeOK'
    BY <1>1, <1>3 DEF StartFails, Goto, StoreInv, TypeOK, Places, Answered
  <2>2. Tickets' /\ Chained' /\ TailLast' /\ Alone' /\ Fresh'
    BY <1>3, WaitingFirst, RunningFirst, AnswerIt DEF StartFails
  <2>. QED  BY <2>1, <2>2 DEF StoreInv
<1>4. CASE OpenTmp(o)
  <2>1. TypeOK'
    BY <1>1, <1>4 DEF OpenTmp, Goto, StoreInv, TypeOK, Places
  <2>2. Busy(o) /\ \A p \in Ops : Busy(p) => ticket[o] <= ticket[p]
    BY <1>4, WaitingFirst, RunningFirst DEF OpenTmp
  <2>3. o \notin Replace => got[o] = file
    BY <1>4 DEF OpenTmp, StoreInv, Fresh
  <2>4. \A p \in Ops \ {o} : got'[p] = got[p] /\ tmp'[p] = tmp[p]
    BY <1>1, <1>4 DEF OpenTmp
  <2>5. Tickets' /\ Chained' /\ TailLast' /\ Alone' /\ Fresh'
    BY <1>4, <2>2, <2>3, <2>4, WorkOn DEF OpenTmp
  <2>. QED  BY <2>1, <2>5 DEF StoreInv
<1>5. CASE FillTmp(o)
  <2>1. TypeOK'
    BY <1>1, <1>5, AppliedDoc DEF FillTmp, Goto, StoreInv, TypeOK, Places
  <2>2. \A p \in Ops \ {o} : got'[p] = got[p] /\ tmp'[p] = tmp[p]
    BY <1>1, <1>5 DEF FillTmp
  <2>3. o \notin Replace => got[o] = file
    BY <1>5 DEF FillTmp, StoreInv, Fresh
  <2>4. tmp'[o] = Applied(got'[o], o)
    BY <1>1, <1>5 DEF FillTmp
  <2>5. Tickets' /\ Chained' /\ TailLast' /\ Alone' /\ Fresh'
    BY <1>5, <2>2, <2>3, <2>4, RunningFirst, WorkOn DEF FillTmp
  <2>. QED  BY <2>1, <2>5 DEF StoreInv
<1>6. CASE Rename(o)
  <2>1. TypeOK'
    <3>1. tmp[o] \in Docs
      BY <1>1, <1>6, AppliedDoc DEF Rename, StoreInv, Fresh
    <3>. QED  BY <3>1, <1>1, <1>6 DEF Rename, Goto, StoreInv, TypeOK, Places, Answered
  <2>2. \A p \in Ops \ {o} : tmp'[p] = tmp[p]
    BY <1>1, <1>6 DEF Rename
  <2>3. Tickets' /\ Chained' /\ TailLast' /\ Alone' /\ Fresh'
    BY <1>6, <2>2, RunningFirst, AnswerIt DEF Rename
  <2>. QED  BY <2>1, <2>3 DEF StoreInv
<1>7. CASE WriteFails(o)
  <2>1. TypeOK'
    BY <1>1, <1>7 DEF WriteFails, Goto, StoreInv, TypeOK, Places
  <2>2. Tickets' /\ Chained' /\ TailLast' /\ Alone' /\ Fresh'
    BY <1>7, RunningFirst, WorkOn DEF WriteFails
  <2>. QED  BY <2>1, <2>2 DEF StoreInv
<1>8. CASE Cleanup(o)
  <2>1. TypeOK'
    BY <1>1, <1>8 DEF Cleanup, Goto, StoreInv, TypeOK, Places, Answered
  <2>2. \A p \in Ops \ {o} : tmp'[p] = tmp[p]
    BY <1>1, <1>8 DEF Cleanup
  <2>3. Tickets' /\ Chained' /\ TailLast' /\ Alone' /\ Fresh'
    BY <1>8, <2>2, RunningFirst, AnswerIt DEF Cleanup
  <2>. QED  BY <2>1, <2>3 DEF StoreInv
<1>9. CASE Release(o)
  <2>1. TypeOK'
    BY <1>1, <1>9 DEF Release, StoreInv, TypeOK
  <2>2. Tickets' /\ Chained' /\ Alone' /\ Fresh'
    BY <1>9 DEF Release, StoreInv, Tickets, Chained, Alone, Fresh, Busy
  <2>3. ~Busy(o)
    BY <1>9 DEF Release, Busy, Answered
  <2>4. TailLast'
    BY <1>9, <2>3 DEF Release, StoreInv, TailLast, Busy
  <2>. QED  BY <2>1, <2>2, <2>4 DEF StoreInv
<1>10. CASE CleanupFails(o)
  <2>1. TypeOK'
    BY <1>1, <1>10 DEF CleanupFails, Goto, StoreInv, TypeOK, Places, Answered
  <2>2. Tickets' /\ Chained' /\ TailLast' /\ Alone' /\ Fresh'
    BY <1>10, RunningFirst, AnswerIt DEF CleanupFails
  <2>. QED  BY <2>1, <2>2 DEF StoreInv
<1>. QED  BY <1>2, <1>3, <1>4, <1>5, <1>6, <1>7, <1>8, <1>9, <1>10 DEF Work

\* What a caller sees of a call.
LEMMA PendingBusy ==
    ASSUME StoreInv, NEW o \in Ops
    PROVE  /\ answer[o] = IF Busy(o) THEN "pending" ELSE at[o]
           /\ answer[o] = "pending" <=> Busy(o)
<1>1. at[o] \in Places
  BY DEF StoreInv, TypeOK
<1>2. answer[o] = IF Busy(o) THEN "pending" ELSE at[o]
  BY DEF answer, Busy
<1>3. at[o] # "pending"
  BY <1>1 DEF Places, Running, Answered
<1>. QED  BY <1>2, <1>3

LEMMA RestartInv ==
    ASSUME StoreInv, Restart
    PROVE  StoreInv'
<1>1. \A o \in Ops : at'[o] = IF Busy(o) THEN "lost" ELSE at[o]
  BY PendingBusy DEF Restart
<1>2. TypeOK'
  BY <1>1 DEF Restart, StoreInv, TypeOK, Places, Answered
<1>3. \A o \in Ops : ~Busy(o)' /\ (at'[o] = "idle" <=> at[o] = "idle")
  BY <1>1 DEF Busy, Running
<1>4. \A o \in Ops : at'[o] \notin Running
  BY <1>3 DEF Busy
<1>5. Tickets'
  BY <1>3 DEF Restart, StoreInv, Tickets
<1>6. Chained' /\ TailLast' /\ Alone'
  BY <1>3, <1>4 DEF Chained, TailLast, Alone
<1>7. Fresh'
  BY <1>4 DEF Fresh, Running
<1>. QED  BY <1>2, <1>5, <1>6, <1>7 DEF StoreInv

LEMMA StoreInvStep ==
    ASSUME StoreInv, [StoreNext]_storeVars
    PROVE  StoreInv'
<1>1. CASE UNCHANGED storeVars
  BY <1>1 DEF storeVars, StoreInv, TypeOK, Tickets, Chained, TailLast, Alone, Fresh, Busy
<1>. QED  BY <1>1, EnqueueInv, WorkInv, RestartInv DEF StoreNext

\* Files, queues and handlers keep their types: in particular the file on disk
\* is a whole document whatever fails (backend/store.js l.132-146).
THEOREM StoreTyped == StoreSpec => []TypeOK
<1>1. StoreInv => TypeOK
  BY DEF StoreInv
<1>. QED  BY StoreInvInit, StoreInvStep, <1>1, PTL DEF StoreSpec
-----------------------------------------------------------------------------
\* The answers after a step in which call o, and no other, moved.
LEMMA AnswerOf ==
    ASSUME StoreInv, NEW o \in Ops, NEW place \in Places, Goto(o, place)
    PROVE  answer' = [answer EXCEPT ![o] =
                        IF place \in {"waiting"} \cup Running THEN "pending" ELSE place]
<1>1. at \in [Ops -> Places]
  BY DEF StoreInv, TypeOK
<1>. QED  BY <1>1 DEF Goto, answer

\* A call that comes before every unanswered one is the abstract first call.
LEMMA FirstCall ==
    ASSUME StoreInv, NEW o \in Ops, Busy(o), \A p \in Ops : Busy(p) => ticket[o] <= ticket[p]
    PROVE  Promise!First(o)
BY PendingBusy DEF Promise!First, Promise!Pending

\* A step of a call that stays unanswered changes nothing a caller can see.
LEMMA StaysPending ==
    ASSUME StoreInv, NEW o \in Ops, Busy(o), NEW place \in Running, Goto(o, place)
    PROVE  answer' = answer
<1>1. at \in [Ops -> Places] /\ answer[o] = "pending"
  BY PendingBusy DEF StoreInv, TypeOK
<1>2. answer' = [answer EXCEPT ![o] = "pending"]
  BY AnswerOf DEF Places
<1>. QED  BY <1>1, <1>2 DEF answer

LEMMA WorkRefines ==
    ASSUME StoreInv, NEW o \in Ops, Work(o)
    PROVE  Promise!Take(o) \/ Promise!Fail(o) \/ UNCHANGED Promise!vars
<1>. USE DEF Running
<1>1. /\ at \in [Ops -> Places] /\ tmp \in [Ops -> Docs \cup {Torn, None}]
      /\ file \in Docs /\ got \in [Ops -> Docs]
  BY DEF StoreInv, TypeOK
<1>2. CASE Read(o)
  BY <1>2, WaitingFirst, StaysPending DEF Read, Promise!vars
<1>3. CASE OpenTmp(o)
  BY <1>3, WaitingFirst, RunningFirst, StaysPending DEF OpenTmp, Promise!vars
<1>4. CASE FillTmp(o)
  BY <1>4, RunningFirst, StaysPending DEF FillTmp, Promise!vars
<1>5. CASE WriteFails(o)
  BY <1>5, RunningFirst, StaysPending DEF WriteFails, Promise!vars
<1>6. CASE Release(o)
  BY <1>6 DEF Release, answer, Promise!vars
<1>7. CASE StartFails(o)
  <2>1. Promise!First(o)
    BY <1>7, WaitingFirst, RunningFirst, FirstCall DEF StartFails
  <2>2. answer' = [answer EXCEPT ![o] = "failed"]
    BY <1>7, AnswerOf DEF StartFails, Places, Answered
  <2>. QED  BY <1>7, <2>1, <2>2 DEF StartFails, Promise!Fail
<1>8. CASE Cleanup(o)
  <2>1. Promise!First(o)
    BY <1>8, RunningFirst, FirstCall DEF Cleanup
  <2>2. answer' = [answer EXCEPT ![o] = "failed"]
    BY <1>8, AnswerOf DEF Cleanup, Places, Answered
  <2>. QED  BY <1>8, <2>1, <2>2 DEF Cleanup, Promise!Fail
<1>9. CASE Rename(o)
  <2>1. Promise!First(o)
    BY <1>9, RunningFirst, FirstCall DEF Rename
  <2>2. answer' = [answer EXCEPT ![o] = "ok"]
    BY <1>9, AnswerOf DEF Rename, Places, Answered
  <2>3. tmp[o] = Applied(got[o], o) /\ (o \notin Replace => got[o] = file)
    BY <1>9 DEF Rename, StoreInv, Fresh
  <2>4. Applied(got[o], o) = Applied(file, o)
    BY <2>3 DEF Promise!Applied
  <2>. QED  BY <1>9, <2>1, <2>2, <2>3, <2>4 DEF Rename, Promise!Take
<1>10. CASE CleanupFails(o)
  <2>1. Promise!First(o)
    BY <1>10, RunningFirst, FirstCall DEF CleanupFails
  <2>2. answer' = [answer EXCEPT ![o] = "failed"]
    BY <1>10, AnswerOf DEF CleanupFails, Places, Answered
  <2>. QED  BY <1>10, <2>1, <2>2 DEF CleanupFails, Promise!Fail
<1>. QED  BY <1>2, <1>3, <1>4, <1>5, <1>6, <1>7, <1>8, <1>9, <1>10 DEF Work

LEMMA StepRefines ==
    ASSUME StoreInv, [StoreNext]_storeVars
    PROVE  [Promise!Next]_(Promise!vars)
<1>1. CASE UNCHANGED storeVars
  BY <1>1 DEF storeVars, answer, Promise!vars
<1>2. ASSUME NEW o \in Ops, Enqueue(o)
      PROVE  Promise!Call(o)
  <2>1. answer' = [answer EXCEPT ![o] = "pending"]
    BY <1>2, AnswerOf DEF Enqueue, Called, Places
  <2>2. answer[o] = "idle"
    BY <1>2 DEF Enqueue, Called, answer, Running
  <2>. QED  BY <1>2, <2>1, <2>2 DEF Enqueue, Called, Promise!Call
<1>3. ASSUME Restart
      PROVE  Promise!Crash
  <2>1. \A o \in Ops : at'[o] = IF Busy(o) THEN "lost" ELSE at[o]
    BY <1>3, PendingBusy DEF Restart
  <2>2. \A o \in Ops : answer'[o] = at'[o]
    BY <2>1 DEF answer, Busy, Running
  <2>3. answer' = [o \in Ops |-> at'[o]]
    BY <2>2 DEF answer
  <2>4. \A o \in Ops : at'[o] = IF o \in Promise!Pending THEN "lost" ELSE answer[o]
    BY <2>1, PendingBusy DEF Promise!Pending
  <2>. QED  BY <1>3, <2>3, <2>4 DEF Restart, Promise!Crash
<1>. QED  BY <1>1, <1>2, <1>3, WorkRefines DEF StoreNext, Promise!Next

\* Every behaviour of the queue, the temporary files and the renames is one in
\* which the calls take effect whole, one at a time and in the order they were
\* made, so no patch is lost (backend/store.js l.98-162).
THEOREM Implements == StoreSpec => Atomic
<1>1. StoreInit => Promise!Init
  BY DEF StoreInit, answer, Running, Promise!Init
<1>. QED  BY StoreInvInit, StoreInvStep, StepRefines, <1>1, PTL DEF StoreSpec, Atomic, Promise!Spec
-----------------------------------------------------------------------------
(* Nothing is left behind.                                                 *)

\* A call has a temporary file only while it writes and cleans up, when the
\* server died under it, or when the removal failed.  The map's entry is a call that was made and whose
\* callback on the settled tail, which runs once, has not run.
Tidy ==
    /\ \A o \in Ops : tmp[o] # None =>
         \/ at[o] \in {"writing", "written", "cleanup", "lost"}
         \/ at[o] = "failed" /\ o \in uncleaned
    /\ \A o \in Ops : at[o] = "idle" => o \notin released
    /\ tail # None => at[tail] # "idle" /\ tail \notin released

LEMMA TidyInit == StoreInit => Tidy
BY DEF StoreInit, Tidy

LEMMA TidyNext ==
    ASSUME TypeOK, Tidy, [StoreNext]_storeVars
    PROVE  Tidy'
<1>. USE DEF Tidy, Answered
<1>0. /\ at \in [Ops -> Places] /\ tmp \in [Ops -> Docs \cup {Torn, None}]
      /\ tail \in Ops \cup {None} /\ uncleaned \subseteq Ops
  BY DEF TypeOK
<1>1. ASSUME NEW o \in Ops, Enqueue(o)
      PROVE  Tidy'
  BY <1>0, <1>1 DEF Enqueue, Called, Goto
<1>2. ASSUME NEW o \in Ops, Read(o) \/ StartFails(o)
      PROVE  Tidy'
  BY <1>0, <1>2 DEF Read, StartFails, Turn, Goto
<1>3. ASSUME NEW o \in Ops, OpenTmp(o) \/ FillTmp(o)
      PROVE  Tidy'
  BY <1>0, <1>3 DEF OpenTmp, FillTmp, Turn, Goto
<1>4. ASSUME NEW o \in Ops, Rename(o) \/ Cleanup(o) \/ CleanupFails(o)
      PROVE  Tidy'
  BY <1>0, <1>4 DEF Rename, Cleanup, CleanupFails, Goto
<1>5. ASSUME NEW o \in Ops, WriteFails(o)
      PROVE  Tidy'
  BY <1>0, <1>5 DEF WriteFails, Goto
<1>6. ASSUME NEW o \in Ops, Release(o)
      PROVE  Tidy'
  BY <1>0, <1>6 DEF Release
<1>7. ASSUME Restart
      PROVE  Tidy'
  <2>1. tail' = None
    BY <1>7 DEF Restart
  <2>2. \A o \in Ops : at'[o] = "idle" => o \notin released'
    BY <1>0, <1>7 DEF Restart
  <2>3. \A o \in Ops :
            /\ at'[o] = at[o] \/ at'[o] = "lost"
            /\ at[o] \in {"writing", "written", "cleanup"} => at'[o] = "lost"
    BY <1>0, <1>7 DEF Restart, answer, Running
  <2>4. tmp' = tmp /\ uncleaned' = uncleaned
    BY <1>7 DEF Restart
  <2>. QED  BY <2>1, <2>2, <2>3, <2>4
<1>8. CASE UNCHANGED storeVars
  BY <1>8 DEF storeVars
<1>. QED  BY <1>1, <1>2, <1>3, <1>4, <1>5, <1>6, <1>7, <1>8 DEF StoreNext, Work

\* A write that has ended leaves no temporary file, unless the server died under
\* it or the removal in its catch block was itself rejected (store.js l.142-145);
\* and the map of tails is empty once every callback has run (l.124-125).
THEOREM LeavesNothing == StoreSpec => []NothingLeft
<1>1. TypeOK /\ Tidy => NothingLeft
  BY DEF Tidy, NothingLeft, TypeOK
<1>2. TypeOK /\ Tidy /\ [StoreNext]_storeVars => Tidy'
  BY TidyNext
<1>. QED  BY TidyInit, StoreTyped, <1>1, <1>2, PTL DEF StoreSpec
=============================================================================
