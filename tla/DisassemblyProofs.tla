------------------------- MODULE DisassemblyProofs -------------------------
(***************************************************************************)
(* The disassembler's results, for a section of any size and any image:    *)
(* the descent finds what control can reach, whatever the order in which   *)
(* its queue hands out the requests, and the code map is right about the   *)
(* bytes, through the padding, the sweep and a retraction.                 *)
(***************************************************************************)
EXTENDS Disassembly, Induction, FiniteSetTheorems, TLAPS

USE SizeAssumption, PadAssumption, MaxAssumption
-----------------------------------------------------------------------------
(* Sets of numbers, and maps.                                              *)

MapOK(map) ==
    /\ DOMAIN map \subseteq Addr
    /\ \A s \in DOMAIN map : map[s].end \in s + 1 .. Size

\* The cursor of unclaimed_ranges: the least address that none of the ranges
\* before goes beyond.
LEMMA ReachShape ==
    ASSUME NEW map, MapOK(map), NEW a \in 0 .. Size
    PROVE  /\ Reach(map, a) \in 0 .. Size
           /\ \A s \in DOMAIN map : s < a => map[s].end <= Reach(map, a)
           /\ \A b \in 0 .. Size :
                 (\A s \in DOMAIN map : s < a => map[s].end <= b) => Reach(map, a) <= b
<1>. PICK E : E = {0} \cup {map[s].end : s \in {t \in DOMAIN map : t < a}}
  OBVIOUS
<1>1. E \in SUBSET (0 .. Size) /\ E # {} /\ Size \in Nat
  BY DEF MapOK, Addr
<1>2. Reach(map, a) = Max(E)
  BY DEF Reach
<1>3. Reach(map, a) \in E /\ \A x \in E : x <= Reach(map, a)
  BY <1>1, <1>2, Greatest
<1>. QED  BY <1>1, <1>3

\* A gap is a nonempty stretch of the section, and no range covers any of it.
LEMMA GapShape ==
    ASSUME NEW map, MapOK(map), NEW g \in UnclaimedRanges(map)
    PROVE  /\ g \in Addr \X (1 .. Size) /\ g[1] < g[2]
           /\ g[2] \in DOMAIN map \cup {Size} /\ g[1] = Reach(map, g[2])
           /\ \A s \in DOMAIN map, x \in g[1] .. g[2] - 1 : x \notin s .. map[s].end - 1
<1>1. PICK a \in DOMAIN map \cup {Size} : Reach(map, a) < a /\ g = <<Reach(map, a), a>>
  BY DEF UnclaimedRanges
<1>2. a \in 0 .. Size
  BY DEF MapOK, Addr
<1>. PICK r : r = Reach(map, a)
  OBVIOUS
<1>3. r \in 0 .. Size /\ \A s \in DOMAIN map : s < a => map[s].end <= r
  BY <1>2, ReachShape
<1>4. r < a /\ g = <<r, a>>
  BY <1>1
<1>5. r \in Addr /\ a \in 1 .. Size
  BY <1>2, <1>3, <1>4 DEF Addr
<1>6. \A s \in DOMAIN map : s \in Int /\ map[s].end \in Int
  BY DEF MapOK, Addr
<1>7. ASSUME NEW s \in DOMAIN map, NEW x \in r .. a - 1, x \in s .. map[s].end - 1
      PROVE  FALSE
  <2>1. s < a
    BY <1>2, <1>3, <1>6, <1>7
  <2>. QED  BY <1>3, <1>6, <1>7, <2>1
<1>. QED  BY <1>4, <1>5, <1>7

\* A byte that no range covers is in a gap.
LEMMA GapCovers ==
    ASSUME NEW map, MapOK(map), NEW b \in Addr,
           \A s \in DOMAIN map : b \notin s .. map[s].end - 1
    PROVE  \E g \in UnclaimedRanges(map) : b \in g[1] .. g[2] - 1
<1>. PICK T : T = {t \in DOMAIN map \cup {Size} : t > b}
  OBVIOUS
<1>1. T \in SUBSET Nat /\ T # {} /\ T \subseteq 0 .. Size
  BY DEF MapOK, Addr
<1>2. PICK a \in T : \A t \in T : a <= t
  BY <1>1, Least
<1>3. a \in 0 .. Size /\ b < a /\ b \in 0 .. Size
  BY <1>1 DEF Addr
<1>4. \A s \in DOMAIN map : s < a => map[s].end <= b
  <2>. SUFFICES ASSUME NEW s \in DOMAIN map, s < a PROVE map[s].end <= b
    OBVIOUS
  <2>1. s \in Int /\ map[s].end \in Int
    BY DEF MapOK, Addr
  <2>2. s <= b
    BY <1>2, <1>3, <2>1
  <2>. QED  BY <1>3, <2>1, <2>2
<1>. PICK r : r = Reach(map, a)
  OBVIOUS
<1>5. r \in 0 .. Size /\ r <= b
  BY <1>3, <1>4, ReachShape
<1>6. r < a
  BY <1>3, <1>5
<1>7. <<r, a>> \in UnclaimedRanges(map)
  BY <1>6 DEF UnclaimedRanges
<1>8. b \in r .. a - 1
  BY <1>3, <1>5
<1>. QED  BY <1>7, <1>8

\* The gaps are the bytes no range covers.
LEMMA GapsAreUncovered ==
    ASSUME NEW map, MapOK(map)
    PROVE  UNION {g[1] .. g[2] - 1 : g \in UnclaimedRanges(map)}
             = Addr \ UNION {s .. map[s].end - 1 : s \in DOMAIN map}
<1>1. ASSUME NEW g \in UnclaimedRanges(map), NEW x \in g[1] .. g[2] - 1
      PROVE  x \in Addr \ UNION {s .. map[s].end - 1 : s \in DOMAIN map}
  <2>1. g[1] \in Addr /\ g[2] \in 1 .. Size
    BY GapShape
  <2>2. x \in Addr
    BY <1>1, <2>1 DEF Addr
  <2>. QED  BY <1>1, <2>2, GapShape
<1>2. ASSUME NEW b \in Addr \ UNION {s .. map[s].end - 1 : s \in DOMAIN map}
      PROVE  b \in UNION {g[1] .. g[2] - 1 : g \in UnclaimedRanges(map)}
  BY GapCovers
<1>. QED  BY <1>1, <1>2

\* Two gaps have no byte in common.
LEMMA GapsApart ==
    ASSUME NEW map, MapOK(map), NEW g \in UnclaimedRanges(map), NEW h \in UnclaimedRanges(map),
           g # h
    PROVE  (g[1] .. g[2] - 1) \cap (h[1] .. h[2] - 1) = {}
<1>1. /\ g[1] \in Nat /\ g[2] \in Nat /\ h[1] \in Nat /\ h[2] \in Nat
      /\ g[1] = Reach(map, g[2]) /\ h[1] = Reach(map, h[2])
      /\ g[2] \in DOMAIN map \cup {Size} /\ h[2] \in DOMAIN map \cup {Size}
      /\ g[2] \in 0 .. Size /\ h[2] \in 0 .. Size
      /\ g = <<g[1], g[2]>> /\ h = <<h[1], h[2]>>
  BY GapShape DEF Addr
<1>2. g[2] # h[2]
  BY <1>1
<1>3. ASSUME NEW a \in 0 .. Size, NEW b \in 0 .. Size, a < b, a \in DOMAIN map \cup {Size}
      PROVE  a < Reach(map, b)
  <2>1. a \in DOMAIN map
    BY <1>3
  <2>. PICK r : r = Reach(map, b)
    OBVIOUS
  <2>2. map[a].end \in a + 1 .. Size /\ map[a].end <= r /\ r \in 0 .. Size
    BY <1>3, <2>1, ReachShape DEF MapOK
  <2>. QED  BY <1>3, <2>2
<1>4. g[2] < h[1] \/ h[2] < g[1]
  BY <1>1, <1>2, <1>3
<1>. QED  BY <1>1, <1>4

\* The sweep's gap is one of the gaps.
LEMMA FirstGap ==
    ASSUME NEW found \in SUBSET (Addr \X (1 .. Size)), found # {}
    PROVE  GapOf(found) \in found
<1>. PICK T : T = {g[1] : g \in found}
  OBVIOUS
<1>1. T \in SUBSET Nat /\ T # {}
  BY DEF Addr
<1>2. PICK m \in T : \A k \in T : m <= k
  BY <1>1, Least
<1>3. \E g \in found : \A h \in found : g[1] <= h[1]
  BY <1>2
<1>. QED  BY <1>3 DEF GapOf
-----------------------------------------------------------------------------
(* Types.                                                                  *)

RangeOK(s) == [start : {s}, end : s + 1 .. Size, class : Classes, conf : Low .. Certain]
RangesOK(map) == DOMAIN map \subseteq Addr /\ \A s \in DOMAIN map : map[s] \in RangeOK(s)

TypeInv ==
    /\ TypeOK
    /\ code \in Images
    /\ \A a \in DOMAIN insns : Decodes(code, a)

LEMMA RangesAreMap ==
    ASSUME NEW map, RangesOK(map) PROVE MapOK(map)
BY DEF RangesOK, RangeOK, MapOK

LEMMA ClassifiedOK ==
    ASSUME NEW s \in Addr, NEW e \in s + 1 .. Size, NEW class \in Classes,
           NEW conf \in Low .. Certain
    PROVE  Classified(s, e, class, conf) \in RangeOK(s)
BY DEF Classified, RangeOK

LEMMA WithOK ==
    ASSUME NEW map, RangesOK(map), NEW s \in Addr, NEW v \in RangeOK(s)
    PROVE  RangesOK(With(map, s, v))
BY DEF With, RangesOK

LEMMA ClassifyOK ==
    ASSUME NEW map, RangesOK(map), NEW s \in Addr, NEW e \in s + 1 .. Size,
           NEW class \in Classes, NEW conf \in Low .. Certain
    PROVE  RangesOK(Classify(map, s, e, class, conf))
<1>1. RangesOK(With(map, s, Classified(s, e, class, conf)))
  BY WithOK, ClassifiedOK
<1>. QED  BY <1>1 DEF Classify

\* Where an instruction ends.
LEMMA EndShape ==
    ASSUME code \in Images, NEW a \in Addr, Decodes(code, a)
    PROVE  /\ EndOf(code, a) \in a + 1 .. Size
           /\ code.insn[a].targets \subseteq Addr \cup {Outside}
<1>1. code \in Image /\ EndOf(code, a) <= Size
  BY ImagesAssumption
<1>2. code.insn[a] \in Insn
  BY <1>1 DEF Image, Decodes
<1>3. code.insn[a].len \in Nat \ {0} /\ code.insn[a].targets \subseteq Addr \cup {Outside}
  BY <1>2 DEF Insn
<1>. QED  BY <1>1, <1>3 DEF EndOf, Addr

LEMMA GapsType ==
    ASSUME NEW map, RangesOK(map)
    PROVE  UnclaimedRanges(map) \in SUBSET (Addr \X (1 .. Size))
BY RangesAreMap, GapShape

\* A run of filler is within a gap.
LEMMA RunShape ==
    ASSUME NEW map, RangesOK(map), NEW r \in PaddingRuns(UnclaimedRanges(map))
    PROVE  /\ r[1] \in Addr /\ r[2] \in r[1] + 1 .. Size
           /\ \E g \in UnclaimedRanges(map) : g[1] <= r[1] /\ r[2] <= g[2]
<1>1. r \in Addr \X (1 .. Size) /\ r[2] - r[1] >= MinPad
  BY DEF PaddingRuns
<1>. QED  BY <1>1 DEF PaddingRuns, Addr

\* The map with its padding: the runs are new, what was there stays.
LEMMA PaddedShape ==
    ASSUME RangesOK(ranges)
    PROVE  /\ RangesOK(Padded)
           /\ \A s \in DOMAIN ranges : s \in DOMAIN Padded /\ Padded[s] = ranges[s]
           /\ \A s \in DOMAIN Padded \ DOMAIN ranges : Padded[s].class = "Padding"
<1>. PICK runs : runs = PaddingRuns(UnclaimedRanges(ranges))
  OBVIOUS
<1>. PICK starts : starts = {r[1] : r \in runs}
  OBVIOUS
<1>1. \A s \in starts : \E r \in runs : r[1] = s
  OBVIOUS
<1>2. /\ DOMAIN Padded = DOMAIN ranges \cup starts
      /\ \A s \in starts :
           Padded[s] = Classified(s, (CHOOSE r \in runs : r[1] = s)[2], "Padding", Medium)
      /\ \A s \in DOMAIN ranges \ starts : Padded[s] = ranges[s]
  BY DEF Padded
<1>3. \A s \in starts : s \in Addr /\ s \notin DOMAIN ranges
  <2>. SUFFICES ASSUME NEW r \in runs PROVE r[1] \in Addr /\ r[1] \notin DOMAIN ranges
    OBVIOUS
  <2>1. PICK g \in UnclaimedRanges(ranges) : g[1] <= r[1] /\ r[2] <= g[2]
    BY RunShape
  <2>2. r[1] \in Addr /\ r[2] \in r[1] + 1 .. Size
    BY RunShape
  <2>3. MapOK(ranges) /\ g[1] \in Int /\ g[2] \in Int
    BY RangesAreMap, GapShape DEF Addr
  <2>4. r[1] \in g[1] .. g[2] - 1
    BY <2>1, <2>2, <2>3 DEF Addr
  <2>5. ASSUME r[1] \in DOMAIN ranges PROVE FALSE
    <3>1. r[1] \in r[1] .. ranges[r[1]].end - 1
      BY <2>2, <2>3, <2>5 DEF MapOK, Addr
    <3>. QED  BY <2>3, <2>4, <2>5, <3>1, GapShape
  <2>. QED  BY <2>2, <2>5
<1>4. ASSUME NEW s \in starts PROVE Padded[s] \in RangeOK(s) /\ Padded[s].class = "Padding"
  <2>. PICK r : r = CHOOSE x \in runs : x[1] = s
    OBVIOUS
  <2>1. r \in runs /\ r[1] = s
    BY <1>1
  <2>2. r[2] \in s + 1 .. Size /\ s \in Addr
    BY <2>1, RunShape
  <2>3. Classified(s, r[2], "Padding", Medium) \in RangeOK(s)
    BY <2>2, ClassifiedOK DEF Classes, Low, Medium, Certain
  <2>. QED  BY <1>2, <2>3 DEF Classified
<1>. QED  BY <1>2, <1>3, <1>4 DEF RangesOK

LEMMA TypeInit == Init => TypeInv
<1>. SUFFICES ASSUME Init PROVE TypeInv
  OBVIOUS
<1>1. code \in Image
  BY ImagesAssumption DEF Init
<1>2. code.seeds \subseteq Addr \cup {Outside}
  BY <1>1 DEF Image
<1>. QED  BY <1>1, <1>2 DEF Init, TypeInv, TypeOK, Addr, Outside

LEMMA PushOK ==
    ASSUME TypeInv, NEW T \in SUBSET (Addr \cup {Outside}), Push(T, High)
    PROVE  /\ queue' \subseteq (Addr \cup {Outside}) \X {High, Certain}
           /\ queued' \subseteq Addr \cup {Outside}
BY DEF Push, Pushed, TypeInv, TypeOK

LEMMA NextGapOK ==
    ASSUME NEW found \in SUBSET (Addr \X (1 .. Size))
    PROVE  StartIn(found) \in Addr \cup {Outside}
BY FirstGap DEF StartIn

LEMMA TypeStep ==
    ASSUME TypeInv, [Next]_vars
    PROVE  TypeInv'
<1>t. /\ code \in Images /\ code \in Image
      /\ pass \in {"descent", "block", "sweep", "done"}
      /\ queue \subseteq (Addr \cup {Outside}) \X {High, Certain}
      /\ queued \subseteq Addr \cup {Outside}
      /\ cursor \in Addr \cup {Outside}
      /\ DOMAIN insns \subseteq Addr
      /\ \A a \in DOMAIN insns : insns[a] \in {"descent", "sweep"} /\ Decodes(code, a)
      /\ RangesOK(ranges)
      /\ gaps \in SUBSET (Addr \X (1 .. Size))
      /\ hole \in (Addr \cup {0}) \X (0 .. Size)
  BY DEF TypeInv, TypeOK, RangesOK, RangeOK
<1>. DEFINE Goal ==
              /\ pass' \in {"descent", "block", "sweep", "done"}
              /\ queue' \subseteq (Addr \cup {Outside}) \X {High, Certain}
              /\ queued' \subseteq Addr \cup {Outside}
              /\ cursor' \in Addr \cup {Outside}
              /\ DOMAIN insns' \subseteq Addr
              /\ \A a \in DOMAIN insns' : insns'[a] \in {"descent", "sweep"} /\ Decodes(code, a)
              /\ RangesOK(ranges')
              /\ gaps' \subseteq Addr \X (1 .. Size)
              /\ hole' \in (Addr \cup {0}) \X (0 .. Size)
              /\ code' = code
<1>. SUFFICES Goal
  BY <1>t DEF TypeInv, TypeOK, RangesOK, RangeOK, Decodes
<1>1. CASE Pop
  BY <1>1, <1>t DEF Pop, Top
<1>2. CASE BlockEnds
  BY <1>2, <1>t DEF BlockEnds
<1>3. CASE DecodeNext
  <2>1. cursor \in Addr /\ Decodes(code, cursor)
    BY <1>3, <1>t DEF DecodeNext, GoesOn
  <2>2. EndOf(code, cursor) \in cursor + 1 .. Size
        /\ code.insn[cursor].targets \in SUBSET (Addr \cup {Outside})
    BY <1>t, <2>1, EndShape
  <2>3. RangesOK(ranges')
    BY <1>3, <1>t, <2>1, <2>2, ClassifyOK DEF DecodeNext, Classes, Low, High, Certain
  <2>4. queue' \subseteq (Addr \cup {Outside}) \X {High, Certain}
        /\ queued' \subseteq Addr \cup {Outside}
    BY <1>3, <2>2, PushOK DEF DecodeNext
  <2>5. EndOf(code, cursor) \in Addr \cup {Outside}
    BY <2>1, <2>2 DEF Addr, Outside
  <2>6. DOMAIN insns' = DOMAIN insns \cup {cursor}
        /\ \A a \in DOMAIN insns' : insns'[a] \in {"descent", "sweep"} /\ Decodes(code, a)
    BY <1>3, <1>t, <2>1 DEF DecodeNext, With
  <2>. QED  BY <1>3, <1>t, <2>1, <2>3, <2>4, <2>5, <2>6 DEF DecodeNext
<1>4. CASE Pad
  <2>1. RangesOK(Padded)
    BY <1>t, PaddedShape
  <2>2. UnclaimedRanges(Padded) \in SUBSET (Addr \X (1 .. Size))
    BY <2>1, GapsType
  <2>3. StartIn(UnclaimedRanges(Padded)) \in Addr \cup {Outside}
    BY <2>2, NextGapOK
  <2>. QED  BY <1>4, <1>t, <2>1, <2>2, <2>3 DEF Pad
<1>5. CASE SweepSkips
  <2>1. GapOf(gaps) \in Addr \X (1 .. Size) /\ cursor < GapOf(gaps)[2]
    BY <1>5, <1>t, FirstGap DEF SweepSkips, InGap
  <2>2. cursor + 1 \in Addr \cup {Outside}
    BY <1>t, <2>1 DEF Addr, Outside
  <2>. QED  BY <1>5, <1>t, <2>2 DEF SweepSkips
<1>6. CASE SweepDecodes
  <2>1. GapOf(gaps) \in Addr \X (1 .. Size) /\ cursor < GapOf(gaps)[2]
    BY <1>6, <1>t, FirstGap DEF SweepDecodes, InGap
  <2>2. cursor \in Addr /\ Decodes(code, cursor)
    BY <1>6, <1>t, <2>1 DEF SweepDecodes, Skips, Addr, Outside
  <2>3. EndOf(code, cursor) \in cursor + 1 .. Size
    BY <1>t, <2>2, EndShape
  <2>4. RangesOK(ranges')
    BY <1>6, <1>t, <2>2, <2>3, ClassifyOK DEF SweepDecodes, Classes, Low, Certain
  <2>5. EndOf(code, cursor) \in Addr \cup {Outside}
    BY <2>2, <2>3 DEF Addr, Outside
  <2>6. DOMAIN insns' = DOMAIN insns \cup {cursor}
        /\ \A a \in DOMAIN insns' : insns'[a] \in {"descent", "sweep"} /\ Decodes(code, a)
    BY <1>6, <1>t, <2>2 DEF SweepDecodes, With
  <2>. QED  BY <1>6, <1>t, <2>2, <2>4, <2>5, <2>6 DEF SweepDecodes
<1>7. CASE LeaveGap
  <2>1. StartIn(gaps \ {GapOf(gaps)}) \in Addr \cup {Outside}
    BY <1>t, NextGapOK
  <2>. QED  BY <1>7, <1>t, <2>1 DEF LeaveGap, NextGap
<1>8. CASE Finish
  BY <1>8, <1>t DEF Finish
<1>9. CASE Retract
  <2>1. PICK s \in Addr, e \in 1 .. Size :
           s < e /\ insns' = Without(insns, s .. e - 1)
           /\ ranges' = ReclassifyForced(ranges, s, e) /\ hole' = <<s, e>>
    BY <1>9 DEF Retract
  <2>2. Classified(s, e, "Data", Certain) \in RangeOK(s)
    BY <2>1, ClassifiedOK DEF Addr, Classes, Low, Certain
  <2>3. RangesOK(Without(ranges, s .. e - 1))
    BY <1>t DEF RangesOK, Without
  <2>4. RangesOK(ranges')
    BY <2>1, <2>2, <2>3, WithOK DEF ReclassifyForced
  <2>5. hole' \in (Addr \cup {0}) \X (0 .. Size)
    BY <2>1
  <2>6. DOMAIN insns' \subseteq DOMAIN insns /\ \A a \in DOMAIN insns' : insns'[a] = insns[a]
    BY <2>1 DEF Without
  <2>. QED  BY <1>9, <1>t, <2>4, <2>5, <2>6 DEF Retract
<1>10. CASE UNCHANGED vars
  BY <1>10, <1>t DEF vars
<1>. HIDE DEF Goal
<1>. QED  BY <1>1, <1>2, <1>3, <1>4, <1>5, <1>6, <1>7, <1>8, <1>9, <1>10 DEF Next, Step

\* The disassembler's tables keep their types: instructions and ranges end
\* within the section, and what waits to be decoded was queued.
THEOREM TypeCorrect == Spec => []TypeOK
BY TypeInit, TypeStep, PTL DEF Spec, TypeInv
-----------------------------------------------------------------------------
(* The code map.  Until a region is retracted, the ranges are the          *)
(* instructions, each where it was decoded, and the padding.               *)

ClassIn(m) == IF m = "descent" THEN "Code" ELSE "ProbablyCode"

RangesInv ==
    hole = <<0, 0>> =>
        /\ \A a \in DOMAIN insns :
             /\ a \in DOMAIN ranges
             /\ ranges[a].end = EndOf(code, a) /\ ranges[a].class = ClassIn(insns[a])
        /\ \A s \in DOMAIN ranges :
             \/ s \in DOMAIN insns
             \/ pass \in {"sweep", "done"} /\ ranges[s].class = "Padding"
        /\ pass \in {"descent", "block"} =>
             /\ \A a \in DOMAIN insns : insns[a] = "descent"
             /\ \A s \in DOMAIN ranges : ranges[s].conf = High

(* The gaps of the sweep are apart from what is explained and from each    *)
(* other, and what the sweep has claimed lies before its cursor.           *)

Inside(g) == g[1] .. g[2] - 1

GapInv ==
    pass = "sweep" =>
        /\ \A g \in gaps, s \in DOMAIN ranges :
             ranges[s].class # "ProbablyCode" => Inside(g) \cap (s .. ranges[s].end - 1) = {}
        /\ \A g, h \in gaps : g # h => Inside(g) \cap Inside(h) = {}
        /\ \A a \in DOMAIN insns, g \in gaps : insns[a] = "sweep" =>
             \A x \in Bytes(a) \cap Inside(g) : g = GapOf(gaps) /\ x < cursor
        /\ gaps # {} => GapOf(gaps)[1] <= cursor

HoleInv ==
    /\ hole # <<0, 0>> => pass = "done"
    /\ RetractedIsData

MapInv == RangesInv /\ GapInv /\ SweepApart /\ HoleInv

\* Every range is High in the descent: each address is classified once.
LEMMA DescentClassifies ==
    ASSUME TypeInv, RangesInv, hole = <<0, 0>>, pass = "block", NEW s \in Addr,
           NEW e \in s + 1 .. Size
    PROVE  Classify(ranges, s, e, "Code", High) = With(ranges, s, Classified(s, e, "Code", High))
<1>1. RangesOK(ranges) /\ ~(s >= e)
  BY DEF TypeInv, TypeOK, RangesOK, RangeOK, Addr
<1>2. ASSUME Claimed(ranges, s) PROVE RangeAt(ranges, s).conf = High
  <2>1. Below(ranges, s) \in SUBSET (0 .. Size) /\ Below(ranges, s) # {}
    BY <1>1, <1>2 DEF Below, Claimed, RangesOK, Addr
  <2>2. Max(Below(ranges, s)) \in DOMAIN ranges
    BY <2>1, Greatest DEF Below
  <2>. QED  BY <2>2 DEF RangesInv, RangeAt
<1>. QED  BY <1>1, <1>2 DEF Classify, High

LEMMA MapInit == Init => MapInv
BY DEF Init, MapInv, RangesInv, GapInv, SweepApart, HoleInv, RetractedIsData

LEMMA DecodeNextMap ==
    ASSUME TypeInv, MapInv, DecodeNext
    PROVE  MapInv'
<1>1. hole = <<0, 0>> /\ hole' = hole /\ pass' \in {"block", "descent"} /\ code' = code
  BY DEF MapInv, HoleInv, DecodeNext
<1>2. cursor \in Addr /\ Decodes(code, cursor) /\ cursor \notin DOMAIN insns /\ code \in Images
  BY DEF DecodeNext, GoesOn, TypeInv, TypeOK
<1>. PICK e : e = EndOf(code, cursor)
  OBVIOUS
<1>3. e \in cursor + 1 .. Size
  BY <1>2, EndShape
<1>4. ranges' = With(ranges, cursor, Classified(cursor, e, "Code", High))
  BY <1>1, <1>3, <1>2, DescentClassifies DEF DecodeNext, MapInv
<1>5. insns' = With(insns, cursor, "descent")
  BY DEF DecodeNext
<1>6. RangesInv'
  BY <1>1, <1>2, <1>4, <1>5 DEF MapInv, RangesInv, With, Classified, ClassIn, EndOf, DecodeNext
<1>7. SweepApart'
  BY <1>1, <1>6 DEF RangesInv, SweepApart
<1>8. GapInv' /\ HoleInv'
  BY <1>1 DEF GapInv, HoleInv, RetractedIsData
<1>. QED  BY <1>6, <1>7, <1>8 DEF MapInv

LEMMA PadMap ==
    ASSUME TypeInv, MapInv, Pad
    PROVE  MapInv'
<1>1. hole = <<0, 0>> /\ hole' = hole /\ pass' = "sweep" /\ code' = code /\ insns' = insns
      /\ ranges' = Padded /\ gaps' = UnclaimedRanges(Padded)
      /\ cursor' = StartIn(UnclaimedRanges(Padded)) /\ pass = "descent"
  BY DEF MapInv, HoleInv, Pad
<1>2. RangesOK(ranges)
  BY DEF TypeInv, TypeOK, RangesOK, RangeOK
<1>3. /\ MapOK(Padded) /\ UnclaimedRanges(Padded) \in SUBSET (Addr \X (1 .. Size))
      /\ \A s \in DOMAIN ranges : s \in DOMAIN Padded /\ Padded[s] = ranges[s]
      /\ \A s \in DOMAIN Padded \ DOMAIN ranges : Padded[s].class = "Padding"
  BY <1>2, PaddedShape, RangesAreMap, GapsType
<1>4. \A a \in DOMAIN insns : insns[a] = "descent"
  BY <1>1 DEF MapInv, RangesInv
<1>5. RangesInv'
  BY <1>1, <1>3 DEF MapInv, RangesInv, EndOf
<1>6. SweepApart'
  BY <1>1, <1>4 DEF SweepApart
<1>7. GapInv'
  <2>1. \A g \in gaps', s \in DOMAIN ranges' : Inside(g) \cap (s .. ranges'[s].end - 1) = {}
    BY <1>1, <1>3, GapShape DEF Inside
  <2>2. \A g, h \in gaps' : g # h => Inside(g) \cap Inside(h) = {}
    BY <1>1, <1>3, GapsApart DEF Inside
  <2>3. gaps' # {} => GapOf(gaps')[1] <= cursor'
    <3>1. ASSUME gaps' # {} PROVE GapOf(gaps') \in gaps'
      BY <1>1, <1>3, <3>1, FirstGap
    <3>2. ASSUME gaps' # {} PROVE cursor' = GapOf(gaps')[1] /\ GapOf(gaps')[1] \in Int
      BY <1>1, <1>3, <3>1, <3>2 DEF StartIn, Addr
    <3>. QED  BY <3>2
  <2>. QED  BY <1>1, <1>4, <2>1, <2>2, <2>3 DEF GapInv
<1>8. HoleInv'
  BY <1>1 DEF HoleInv, RetractedIsData
<1>. QED  BY <1>5, <1>6, <1>7, <1>8 DEF MapInv

LEMMA SweepDecodesMap ==
    ASSUME TypeInv, MapInv, SweepDecodes
    PROVE  MapInv'
<1>1. /\ hole = <<0, 0>> /\ hole' = hole /\ pass = "sweep" /\ pass' = "sweep" /\ code' = code
      /\ gaps' = gaps /\ gaps # {} /\ cursor < GapOf(gaps)[2]
      /\ cursor \notin DOMAIN insns /\ ~Claimed(ranges, cursor) /\ Decodes(code, cursor)
      /\ insns' = With(insns, cursor, "sweep") /\ cursor' = EndOf(code, cursor)
      /\ EndOf(code, cursor) <= GapOf(gaps)[2]
      /\ ranges' = Classify(ranges, cursor, EndOf(code, cursor), "ProbablyCode", Low)
  BY DEF MapInv, HoleInv, SweepDecodes, InGap, Skips
<1>2. /\ gaps \in SUBSET (Addr \X (1 .. Size)) /\ cursor \in Addr \cup {Outside}
      /\ code \in Images /\ RangesOK(ranges) /\ DOMAIN insns \subseteq Addr
      /\ \A a \in DOMAIN insns : Decodes(code, a)
  BY DEF TypeInv, TypeOK, RangesOK, RangeOK
<1>. PICK g : g = GapOf(gaps)
  OBVIOUS
<1>3. g \in gaps /\ g[1] \in Int /\ g[2] \in 1 .. Size /\ g[1] <= cursor /\ cursor < g[2]
  BY <1>1, <1>2, FirstGap DEF MapInv, GapInv, Addr
<1>4. cursor \in Addr
  BY <1>2, <1>3 DEF Outside, Addr
<1>. PICK e : e = EndOf(code, cursor)
  OBVIOUS
<1>5. e \in cursor + 1 .. Size /\ e <= g[2] /\ cursor' = e
  BY <1>1, <1>2, <1>4, EndShape
<1>6. Bytes(cursor) = cursor .. e - 1 /\ Bytes(cursor) \subseteq Inside(g)
  BY <1>3, <1>4, <1>5 DEF Bytes, Inside, Addr
<1>7. ranges' = With(ranges, cursor, Classified(cursor, e, "ProbablyCode", Low))
  BY <1>1, <1>4, <1>5 DEF Classify, Addr
<1>8. cursor \notin DOMAIN ranges
  <2>. SUFFICES ASSUME cursor \in DOMAIN ranges PROVE FALSE
    OBVIOUS
  <2>1. ranges[cursor].class = "Padding"
    BY <1>1 DEF MapInv, RangesInv
  <2>2. cursor \in cursor .. ranges[cursor].end - 1
    BY <1>2, <1>4 DEF RangesOK, RangeOK, Addr
  <2>3. cursor \in Inside(g)
    BY <1>3, <1>4 DEF Inside, Addr
  <2>. QED  BY <1>1, <1>3, <2>1, <2>2, <2>3 DEF MapInv, GapInv
<1>9. /\ DOMAIN ranges' = DOMAIN ranges \cup {cursor} /\ DOMAIN insns' = DOMAIN insns \cup {cursor}
      /\ \A s \in DOMAIN ranges : ranges'[s] = ranges[s]
      /\ \A a \in DOMAIN insns : insns'[a] = insns[a]
      /\ ranges'[cursor].class = "ProbablyCode" /\ ranges'[cursor].end = e
      /\ insns'[cursor] = "sweep"
  BY <1>1, <1>7, <1>8 DEF With, Classified
<1>10. RangesInv'
  BY <1>1, <1>9 DEF MapInv, RangesInv, ClassIn, EndOf
\* What was explained or guessed before does not reach into the new one.
<1>11. \A s \in DOMAIN ranges :
          ranges[s].class # "ProbablyCode" => Bytes(cursor) \cap (s .. ranges[s].end - 1) = {}
  BY <1>1, <1>3, <1>6 DEF MapInv, GapInv
<1>12. \A a \in DOMAIN insns : Bytes(cursor) \cap Bytes(a) = {}
  <2>. SUFFICES ASSUME NEW a \in DOMAIN insns PROVE Bytes(cursor) \cap Bytes(a) = {}
    OBVIOUS
  <2>1. a \in DOMAIN ranges /\ ranges[a].end = EndOf(code, a) /\ ranges[a].class = ClassIn(insns[a])
    BY <1>1 DEF MapInv, RangesInv
  <2>2. CASE insns[a] = "sweep"
    <3>1. \A x \in Bytes(a) \cap Inside(g) : x < cursor
      BY <1>1, <1>3, <2>2 DEF MapInv, GapInv
    <3>2. \A x \in Bytes(cursor) : ~(x < cursor)
      BY <1>4, <1>5, <1>6 DEF Addr
    <3>. QED  BY <1>6, <3>1, <3>2
  <2>3. CASE insns[a] # "sweep"
    <3>1. insns[a] = "descent"
      BY <2>3 DEF TypeInv, TypeOK
    <3>. QED  BY <1>11, <2>1, <3>1 DEF ClassIn, Bytes
  <2>. QED  BY <2>2, <2>3
<1>13. \A a : Bytes(a)' = Bytes(a)
  BY <1>1 DEF Bytes, EndOf
<1>14. SweepApart'
  <2>1. ASSUME NEW a \in DOMAIN insns', insns'[a] = "sweep", NEW b \in DOMAIN insns' \ {a}
        PROVE  Bytes(a) \cap Bytes(b) = {}
    <3>1. CASE a = cursor
      BY <1>9, <1>12, <2>1, <3>1
    <3>2. CASE b = cursor
      BY <1>9, <1>12, <2>1, <3>2
    <3>3. CASE a # cursor /\ b # cursor
      BY <1>1, <1>9, <2>1, <3>3 DEF MapInv, SweepApart
    <3>. QED  BY <3>1, <3>2, <3>3
  <2>2. ASSUME NEW a \in DOMAIN insns', insns'[a] = "sweep", NEW s \in DOMAIN ranges',
               ranges'[s].class = "Padding"
        PROVE  Bytes(a) \cap (s .. ranges'[s].end - 1) = {}
    <3>1. s \in DOMAIN ranges /\ ranges'[s] = ranges[s]
      BY <1>9, <2>2
    <3>2. CASE a = cursor
      BY <1>11, <2>2, <3>1, <3>2
    <3>3. CASE a # cursor
      BY <1>1, <1>9, <2>2, <3>1, <3>3 DEF MapInv, SweepApart
    <3>. QED  BY <3>2, <3>3
  <2>. QED  BY <1>13, <2>1, <2>2 DEF SweepApart
<1>15. GapInv'
  <2>1. \A h \in gaps, s \in DOMAIN ranges' :
           ranges'[s].class # "ProbablyCode" => Inside(h) \cap (s .. ranges'[s].end - 1) = {}
    BY <1>1, <1>9 DEF MapInv, GapInv
  <2>2. \A h, k \in gaps : h # k => Inside(h) \cap Inside(k) = {}
    BY <1>1 DEF MapInv, GapInv
  <2>3. ASSUME NEW a \in DOMAIN insns', NEW h \in gaps, insns'[a] = "sweep",
               NEW x \in Bytes(a) \cap Inside(h)
        PROVE  h = g /\ x < e
    <3>1. CASE a = cursor
      <4>1. x \in Inside(g) /\ x < e
        BY <1>4, <1>5, <1>6, <2>3, <3>1 DEF Addr
      <4>. QED  BY <1>3, <2>2, <2>3, <4>1
    <3>2. CASE a # cursor
      <4>1. h = g /\ x < cursor
        BY <1>1, <1>9, <2>3, <3>2 DEF MapInv, GapInv
      <4>2. x \in Int
        BY <1>3, <2>3, <4>1 DEF Inside
      <4>. QED  BY <1>4, <1>5, <4>1, <4>2 DEF Addr
    <3>. QED  BY <3>1, <3>2
  <2>4. g[1] <= e
    BY <1>3, <1>4, <1>5 DEF Addr
  <2>. QED  BY <1>1, <1>5, <1>13, <2>1, <2>2, <2>3, <2>4 DEF GapInv
<1>16. HoleInv'
  BY <1>1 DEF HoleInv, RetractedIsData
<1>. QED  BY <1>10, <1>14, <1>15, <1>16 DEF MapInv

LEMMA RetractMap ==
    ASSUME TypeInv, MapInv, Retract
    PROVE  MapInv'
<1>1. PICK s \in Addr, e \in 1 .. Size :
         s < e /\ insns' = Without(insns, s .. e - 1)
         /\ ranges' = ReclassifyForced(ranges, s, e) /\ hole' = <<s, e>>
  BY DEF Retract
<1>2. hole' # <<0, 0>> /\ pass' = "done" /\ s \in Nat /\ e \in Nat
  BY <1>1 DEF Retract, Addr
<1>3. /\ DOMAIN ranges' = (DOMAIN ranges \ (s .. e - 1)) \cup {s}
      /\ ranges'[s].class = "Data" /\ ranges'[s].end = e
  BY <1>1 DEF ReclassifyForced, With, Without, Classified
<1>4. DOMAIN ranges \subseteq Addr
  BY DEF TypeInv, TypeOK
<1>5. ASSUME NEW a \in s .. e - 1 PROVE ClassOf(ranges', a) = "Data"
  <2>. PICK B : B = Below(ranges', a)
    OBVIOUS
  <2>1. s \in B /\ \A t \in B : t <= s
    BY <1>2, <1>3, <1>4 DEF Below, Addr
  <2>2. B \in SUBSET (0 .. Size)
    BY <1>1, <1>3, <1>4 DEF Below, Addr
  <2>3. Max(B) \in B /\ s <= Max(B)
    BY <2>1, <2>2, Greatest
  <2>4. Max(B) = s
    BY <2>1, <2>2, <2>3
  <2>. QED  BY <1>3, <2>1, <2>4 DEF ClassOf, Claimed, RangeAt
<1>6. \A a \in s .. e - 1 : a \notin DOMAIN insns'
  BY <1>1 DEF Without
<1>7. HoleInv'
  BY <1>1, <1>2, <1>5, <1>6 DEF HoleInv, RetractedIsData, ClassOf, Claimed, RangeAt, Below
<1>. QED  BY <1>2, <1>7 DEF MapInv, RangesInv, GapInv, SweepApart

LEMMA MapStep ==
    ASSUME TypeInv, MapInv, [Next]_vars
    PROVE  MapInv'
\* A step that leaves the instructions, the ranges and the region alone.
<1>1. ASSUME UNCHANGED <<code, insns, ranges, hole>>,
             pass \in {"descent", "block"} => pass' \in {"descent", "block"},
             pass \in {"sweep", "done"} => pass' \in {"sweep", "done"},
             hole # <<0, 0>> => pass' = "done",
             GapInv'
      PROVE  MapInv'
  <2>1. RangesInv'
    BY <1>1 DEF MapInv, RangesInv, EndOf, TypeInv, TypeOK
  <2>2. SweepApart'
    BY <1>1 DEF MapInv, SweepApart, Bytes, EndOf
  <2>3. HoleInv'
    BY <1>1 DEF MapInv, HoleInv, RetractedIsData, ClassOf, Claimed, RangeAt, Below
  <2>. QED  BY <1>1, <2>1, <2>2, <2>3 DEF MapInv
<1>2. CASE Pop \/ BlockEnds
  BY <1>1, <1>2 DEF Pop, BlockEnds, GapInv, MapInv, HoleInv
<1>3. CASE SweepSkips
  <2>1. cursor' = cursor + 1 /\ gaps' = gaps /\ pass = "sweep" /\ gaps # {} /\ code' = code
        /\ insns' = insns /\ ranges' = ranges /\ hole' = hole /\ pass' = pass
    BY <1>3 DEF SweepSkips, InGap
  <2>2. GapOf(gaps) \in gaps /\ gaps \subseteq Addr \X (1 .. Size) /\ cursor \in Nat
    BY <2>1, FirstGap DEF TypeInv, TypeOK, Addr, Outside
  <2>3. \A g \in gaps : \A x \in Inside(g) : x \in Int
    BY DEF Inside
  <2>4. \A x \in Int : x <= cursor => x <= cursor + 1
    BY <2>2
  <2>5. \A x \in Int : x < cursor => x < cursor + 1
    BY <2>2
  <2>6. GapOf(gaps)[1] \in Int
    BY <2>2 DEF Addr
  <2>7. \A a : Bytes(a)' = Bytes(a)
    BY <2>1 DEF Bytes, EndOf
  <2>8. GapInv'
    BY <2>1, <2>2, <2>3, <2>4, <2>5, <2>6, <2>7 DEF MapInv, GapInv
  <2>. QED  BY <1>1, <2>1, <2>8 DEF MapInv, HoleInv
<1>4. CASE LeaveGap
  <2>1. /\ gaps' = gaps \ {GapOf(gaps)} /\ cursor' = StartIn(gaps \ {GapOf(gaps)})
        /\ pass = "sweep" /\ code' = code
        /\ insns' = insns /\ ranges' = ranges /\ hole' = hole /\ pass' = pass
    BY <1>4 DEF LeaveGap, NextGap
  <2>2. gaps' \in SUBSET (Addr \X (1 .. Size))
    BY <2>1 DEF TypeInv, TypeOK
  <2>3. gaps' # {} => GapOf(gaps')[1] <= cursor'
    <3>1. ASSUME gaps' # {} PROVE GapOf(gaps') \in gaps'
      BY <2>2, <3>1, FirstGap
    <3>2. ASSUME gaps' # {} PROVE cursor' = GapOf(gaps')[1] /\ GapOf(gaps')[1] \in Int
      BY <2>1, <2>2, <3>1, <3>2 DEF StartIn, Addr
    <3>. QED  BY <3>2
  <2>4. \A a : Bytes(a)' = Bytes(a)
    BY <2>1 DEF Bytes, EndOf
  <2>5. GapInv'
    BY <2>1, <2>3, <2>4 DEF MapInv, GapInv
  <2>. QED  BY <1>1, <2>1, <2>5 DEF MapInv, HoleInv
<1>5. CASE Finish
  BY <1>1, <1>5 DEF Finish, GapInv
<1>6. CASE UNCHANGED vars
  <2>1. GapInv'
    BY <1>6 DEF vars, MapInv, GapInv, Bytes, EndOf
  <2>. QED  BY <1>1, <1>6, <2>1 DEF vars, MapInv, HoleInv
<1>. QED  BY <1>2, <1>3, <1>4, <1>5, <1>6, DecodeNextMap, PadMap, SweepDecodesMap, RetractMap
          DEF Next, Step

(* What the code map says of the bytes is so (MapTruthful): the gaps that  *)
(* unclaimed_ranges returns are what no range covers, however ranges       *)
(* overlap; a guess of the sweep overlaps no other instruction and no      *)
(* padding; a region that was retracted is data, and nothing starts in it. *)
THEOREM MapIsTruthful == Spec => []MapTruthful
<1>1. ASSUME TypeInv, MapInv PROVE MapTruthful
  <2>1. MapOK(ranges)
    BY <1>1, RangesAreMap DEF TypeInv, TypeOK, RangesOK, RangeOK
  <2>2. GapsExact
    BY <2>1, GapsAreUncovered DEF GapsExact
  <2>. QED  BY <1>1, <2>2 DEF MapInv, HoleInv, MapTruthful
<1>. QED  BY <1>1, TypeInit, TypeStep, MapInit, MapStep, PTL DEF Spec
-----------------------------------------------------------------------------
(* What control can reach: the least set that holds the trusted starts and *)
(* what follows each of its members.                                       *)

Closed(S) == Live(code.seeds) \subseteq S /\ \A a \in S : Follows(a) \subseteq S
Closure == {a \in Addr : \A S \in SUBSET Addr : Closed(S) => a \in S}

\* One round of following every edge.
Wider(S) == S \cup UNION {Follows(a) : a \in S}

LEMMA FollowsShape ==
    ASSUME code \in Images, NEW a \in Addr
    PROVE  Follows(a) \subseteq Addr
<1>1. code \in Image /\ EndOf(code, a) <= Size
  BY ImagesAssumption
<1>2. code.insn[a] \in Insn \cup {Bad}
  BY <1>1 DEF Image
<1>3. code.insn[a].len \in Nat /\ code.insn[a].targets \subseteq Addr \cup {Outside}
  BY <1>2 DEF Insn, Bad
<1>4. EndOf(code, a) \in Addr \cup {Outside}
  BY <1>1, <1>3 DEF EndOf, Addr, Outside
<1>. QED  BY <1>3, <1>4 DEF Follows, Live

LEMMA ClosureClosed ==
    ASSUME code \in Images
    PROVE  Closure \subseteq Addr /\ Closed(Closure)
<1>1. Live(code.seeds) \subseteq Addr
  BY ImagesAssumption DEF Image, Live
<1>2. \A a \in Closure : Follows(a) \subseteq Closure
  BY FollowsShape DEF Closure, Closed
<1>. QED  BY <1>1, <1>2 DEF Closure, Closed

\* Reachable is the recursion it is written as.
LEMMA ReachableUnrolls ==
    ASSUME code \in Images
    PROVE  /\ Reachable[0] = Live(code.seeds)
           /\ \A n \in Nat \ {0} : Reachable[n] = Wider(Reachable[n - 1])
           /\ \A n \in Nat : Reachable[n] \subseteq Addr
<1>. PICK D : D = SUBSET Addr
  OBVIOUS
<1>. PICK first : first = Live(code.seeds)
  OBVIOUS
<1>. PICK wide : wide = [S \in D |-> Wider(S)]
  OBVIOUS
<1>1. first \in D
  BY ImagesAssumption DEF Image, Live
<1>2. wide \in [D -> D]
  <2>1. \A S \in D : Wider(S) \in D
    BY FollowsShape DEF Wider
  <2>. QED  BY <2>1
<1>3. \A N \in Nat : \E g : Unrolls(g, N, D, first, [i \in 1 .. N |-> wide])
  <2>. SUFFICES ASSUME NEW N \in Nat
                PROVE  \E g : Unrolls(g, N, D, first, [i \in 1 .. N |-> wide])
    OBVIOUS
  <2>1. [i \in 1 .. N |-> wide] \in Steps(N, D)
    BY <1>2 DEF Steps
  <2>. QED  BY <1>1, <2>1, Recursion
<1>. DEFINE Run(N) == CHOOSE g : Unrolls(g, N, D, first, [i \in 1 .. N |-> wide])
<1>4. \A N \in Nat : /\ Run(N) \in [0 .. N -> D] /\ Run(N)[0] = first
                     /\ \A i \in 1 .. N : Run(N)[i] = wide[Run(N)[i - 1]]
  <2>. SUFFICES ASSUME NEW N \in Nat
                PROVE  /\ Run(N) \in [0 .. N -> D] /\ Run(N)[0] = first
                       /\ \A i \in 1 .. N : Run(N)[i] = wide[Run(N)[i - 1]]
    OBVIOUS
  <2>1. Unrolls(Run(N), N, D, first, [i \in 1 .. N |-> wide])
    BY <1>3
  <2>. QED  BY <2>1 DEF Unrolls
<1>. HIDE DEF Run
\* Two runs agree as far as both go.
<1>5. ASSUME NEW N \in Nat, NEW M \in Nat, N <= M
      PROVE  Run(M)[N] = Run(N)[N]
  <2>. PICK T : T = {i \in 0 .. N : Run(M)[i] = Run(N)[i]}
    OBVIOUS
  <2>1. 0 \in T /\ T \in SUBSET (0 .. N)
    BY <1>4
  <2>2. ASSUME NEW i \in 1 .. N, i - 1 \in T PROVE i \in T
    <3>1. i \in 1 .. M /\ i \in 0 .. N
      BY <1>5
    <3>2. Run(M)[i] = wide[Run(M)[i - 1]] /\ Run(N)[i] = wide[Run(N)[i - 1]]
      BY <1>4, <3>1
    <3>. QED  BY <2>2, <3>1, <3>2
  <2>3. N \in T
    BY <2>1, <2>2, UpTo
  <2>. QED  BY <2>3
<1>. PICK g : g = [n \in Nat |-> Run(n)[n]]
  OBVIOUS
<1>6. \A n \in Nat : g[n] \in D
  BY <1>4
<1>7. g[0] = first
  BY <1>4
<1>8. ASSUME NEW n \in Nat \ {0} PROVE g[n] = Wider(g[n - 1])
  <2>1. n - 1 \in Nat /\ n - 1 <= n /\ n \in 1 .. n
    OBVIOUS
  <2>2. g[n] = wide[Run(n)[n - 1]]
    BY <1>4, <2>1
  <2>3. Run(n)[n - 1] = g[n - 1]
    BY <1>5, <2>1
  <2>. QED  BY <1>6, <2>1, <2>2, <2>3
<1>9. g = [n \in Nat |-> IF n = 0 THEN Live(code.seeds)
                         ELSE LET R == g[n - 1] IN R \cup UNION {Follows(a) : a \in R}]
  BY <1>7, <1>8 DEF Wider
<1>10. Reachable = [n \in Nat |-> IF n = 0 THEN Live(code.seeds)
                         ELSE LET R == Reachable[n - 1] IN R \cup UNION {Follows(a) : a \in R}]
  BY ONLY Zenon, <1>9 DEF Reachable
<1>11. Reachable[0] = first /\ \A n \in Nat \ {0} : Reachable[n] = Wider(Reachable[n - 1])
  BY <1>10 DEF Wider
<1>12. ASSUME NEW N \in Nat PROVE Reachable[N] \in D
  <2>. PICK T : T = {i \in 0 .. N : Reachable[i] \in D}
    OBVIOUS
  <2>1. 0 \in T /\ T \in SUBSET (0 .. N) /\ N \in 0 .. N
    BY <1>1, <1>11
  <2>2. ASSUME NEW i \in 1 .. N, i - 1 \in T PROVE i \in T
    BY <1>2, <1>11, <2>2
  <2>3. N \in T
    BY <2>1, <2>2, UpTo
  <2>. QED  BY <2>3
<1>. QED  BY <1>11, <1>12

\* The section has Size bytes, so Size rounds are enough: a round that adds
\* nothing is the last, and each of the others adds a byte.
LEMMA ReachableIsClosure ==
    ASSUME code \in Images
    PROVE  Reachable[Size] = Closure
<1>1. /\ Reachable[0] = Live(code.seeds)
      /\ \A n \in Nat \ {0} : Reachable[n] = Wider(Reachable[n - 1])
      /\ \A n \in Nat : Reachable[n] \subseteq Addr
  BY ReachableUnrolls
<1>. PICK R : R = Reachable
  OBVIOUS
<1>2. IsFiniteSet(Addr) /\ Cardinality(Addr) = Size
  <2>1. Size - 1 \in Int /\ (IF 0 > Size - 1 THEN 0 ELSE Size - 1 - 0 + 1) = Size
    OBVIOUS
  <2>. QED  BY <2>1, FS_Interval DEF Addr
<1>3. \A n \in Nat : IsFiniteSet(R[n]) /\ Cardinality(R[n]) \in Nat /\ Cardinality(R[n]) <= Size
  BY <1>1, <1>2, FS_Subset, FS_CardinalityType
<1>4. \A S : Wider(S) = S => \A a \in S : Follows(a) \subseteq S
  BY DEF Wider
<1>. PICK T : T = {n \in 0 .. Size : Wider(R[n]) = R[n] \/ Cardinality(R[n]) > n}
  OBVIOUS
<1>5. 0 \in T
  <2>1. CASE R[0] = {}
    BY <2>1 DEF Wider
  <2>2. CASE R[0] # {}
    <3>1. Cardinality(R[0]) # 0
      BY <1>3, <2>2, FS_EmptySet
    <3>. QED  BY <1>3, <3>1
  <2>. QED  BY <2>1, <2>2
<1>6. ASSUME NEW n \in 1 .. Size, n - 1 \in T PROVE n \in T
  <2>1. n \in Nat \ {0} /\ n - 1 \in Nat /\ R[n] = Wider(R[n - 1])
    BY <1>1
  <2>2. CASE Wider(R[n - 1]) = R[n - 1]
    BY <2>1, <2>2
  <2>3. CASE Wider(R[n - 1]) # R[n - 1]
    <3>1. Cardinality(R[n - 1]) > n - 1
      BY <1>6, <2>3
    <3>2. R[n - 1] \in SUBSET R[n] /\ R[n - 1] # R[n]
      BY <2>1, <2>3 DEF Wider
    <3>3. Cardinality(R[n - 1]) <= Cardinality(R[n]) /\ Cardinality(R[n - 1]) # Cardinality(R[n])
      BY <1>3, <2>1, <3>2, FS_Subset
    <3>4. Cardinality(R[n]) > n
      BY <1>3, <2>1, <3>1, <3>3
    <3>. QED  BY <3>4
  <2>. QED  BY <2>2, <2>3
<1>7. Size \in T
  <2>1. T \in SUBSET (0 .. Size)
    OBVIOUS
  <2>. QED  BY <1>5, <1>6, <2>1, UpTo
<1>8. Wider(R[Size]) = R[Size]
  BY <1>3, <1>7
\* The rounds stay within the closure, and they never lose a start.
<1>. PICK U : U = {n \in 0 .. Size : Live(code.seeds) \subseteq R[n] /\ R[n] \subseteq Closure}
  OBVIOUS
<1>9. Closure \subseteq Addr /\ Closed(Closure)
  BY ClosureClosed
<1>10. 0 \in U
  BY <1>1, <1>9 DEF Closed
<1>11. ASSUME NEW n \in 1 .. Size, n - 1 \in U PROVE n \in U
  <2>1. R[n] = Wider(R[n - 1])
    BY <1>1
  <2>. QED  BY <1>9, <1>11, <2>1 DEF Closed, Wider
<1>12. Size \in U
  <2>1. U \in SUBSET (0 .. Size) /\ Size \in 0 .. Size
    OBVIOUS
  <2>. QED  BY <1>10, <1>11, <2>1, UpTo
<1>13. Closed(R[Size]) /\ R[Size] \in SUBSET Addr
  BY <1>1, <1>4, <1>8, <1>12 DEF Closed
<1>. QED  BY <1>12, <1>13 DEF Closure
-----------------------------------------------------------------------------
(* The descent.                                                            *)

\* What it has still to look at.
Waiting == {r[1] : r \in queue} \cup {cursor}

DescentInv ==
    /\ pass \in {"descent", "block"} =>
         /\ pass = "descent" => cursor = Outside
         /\ DOMAIN insns \cup Live(Waiting) \subseteq Closure
         /\ code.seeds \subseteq queued
         /\ Live(queued) \subseteq DOMAIN insns \cup Waiting
         /\ \A a \in DOMAIN insns : Follows(a) \subseteq DOMAIN insns \cup Waiting
    /\ pass \in {"sweep", "done"} /\ hole = <<0, 0>> /\ MaxInsns = 0 => Descended = Closure

LEMMA DescentInit == Init => DescentInv
<1>. SUFFICES ASSUME Init PROVE DescentInv
  OBVIOUS
<1>1. code \in Images /\ pass = "descent" /\ cursor = Outside /\ queued = code.seeds
      /\ queue = {<<a, Certain>> : a \in code.seeds} /\ DOMAIN insns = {}
  BY DEF Init
<1>2. Waiting = code.seeds \cup {Outside}
  <2>1. \A a \in code.seeds : \E r \in queue : r[1] = a
    <3>1. \A a : <<a, Certain>>[1] = a
      OBVIOUS
    <3>. QED  BY <1>1, <3>1
  <2>2. \A r \in queue : r[1] \in code.seeds
    BY <1>1
  <2>3. {r[1] : r \in queue} = code.seeds
    BY ONLY <2>1, <2>2
  <2>. QED  BY <1>1, <2>3 DEF Waiting
<1>3. Live(Waiting) = Live(code.seeds)
  BY <1>2 DEF Live
<1>4. Closed(Closure)
  BY <1>1, ClosureClosed
<1>. QED  BY <1>1, <1>2, <1>3, <1>4 DEF DescentInv, Closed, Live

LEMMA DescentStep ==
    ASSUME TypeInv, MapInv, DescentInv, [Next]_vars
    PROVE  DescentInv'
<1>t. code \in Images /\ hole \in (Addr \cup {0}) \X (0 .. Size)
  BY DEF TypeInv, TypeOK
<1>c. ASSUME code' = code
      PROVE  Closure' = Closure /\ (\A S : Live(S)' = Live(S)) /\ (\A a : Follows(a)' = Follows(a))
  <2>1. \A S : Live(S)' = Live(S)
    BY <1>c DEF Live, Decodes
  <2>2. \A a : Follows(a)' = Follows(a)
    BY <1>c DEF Follows, Live, Decodes, EndOf
  <2>3. Closure' = Closure
    BY <1>c, <2>1, <2>2 DEF Closure, Closed
  <2>. QED  BY <2>1, <2>2, <2>3
<1>1. CASE Pop
  <2>1. PICK r \in Top : queue' = queue \ {r} /\ cursor' = r[1]
    BY <1>1 DEF Pop
  <2>2. pass = "descent" /\ pass' = "block" /\ UNCHANGED <<code, queued, insns, ranges, gaps, hole>>
        /\ r \in queue
    BY <1>1, <2>1 DEF Pop, Top
  <2>3. cursor = Outside
    BY <2>2 DEF DescentInv
  <2>4. Waiting' \subseteq Waiting /\ Waiting \subseteq Waiting' \cup {Outside}
    BY <2>1, <2>2, <2>3 DEF Waiting
  <2>5. \A S : Outside \notin Live(S)
    BY DEF Live
  <2>6. \A a : Outside \notin Follows(a)
    BY <2>5 DEF Follows
  <2>7. Live(Waiting') \subseteq Live(Waiting)
    BY <2>4 DEF Live
  <2>. QED  BY <1>c, <2>2, <2>4, <2>5, <2>6, <2>7 DEF DescentInv
<1>2. CASE BlockEnds
  <2>1. pass = "block" /\ pass' = "descent" /\ cursor' = Outside /\ ~GoesOn(cursor)
        /\ UNCHANGED <<code, queue, queued, insns, ranges, gaps, hole>>
    BY <1>2 DEF BlockEnds
  <2>2. ASSUME cursor # Outside, Decodes(code, cursor) PROVE cursor \in DOMAIN insns
    <3>1. hole = <<0, 0>>
      BY <2>1 DEF MapInv, HoleInv
    <3>2. ClassOf(ranges, cursor) \notin {"Data", "Padding"}
      <4>1. CASE Claimed(ranges, cursor)
        <5>1. Below(ranges, cursor) \in SUBSET (0 .. Size) /\ Below(ranges, cursor) # {}
          BY <4>1 DEF Below, Claimed, TypeInv, TypeOK, Addr
        <5>2. Max(Below(ranges, cursor)) \in DOMAIN ranges
          BY <5>1, Greatest DEF Below
        <5>3. ranges[Max(Below(ranges, cursor))].class = "Code"
          BY <2>1, <3>1, <5>2 DEF MapInv, RangesInv, ClassIn
        <5>. QED  BY <4>1, <5>3 DEF ClassOf, RangeAt
      <4>2. CASE ~Claimed(ranges, cursor)
        BY <4>2 DEF ClassOf
      <4>. QED  BY <4>1, <4>2
    <3>. QED  BY <2>1, <2>2, <3>2 DEF GoesOn
  <2>3. \A a \in Waiting : a \in Waiting' \/ a \in DOMAIN insns \/ a \notin Live(Waiting)
    BY <2>1, <2>2 DEF Waiting, Live
  <2>4. Live(Waiting') \subseteq Live(Waiting)
    BY <2>1 DEF Waiting, Live
  <2>5. ASSUME NEW S, S \subseteq DOMAIN insns \cup Waiting,
               \A a \in S : a # Outside /\ Decodes(code, a)
        PROVE  S \subseteq DOMAIN insns \cup Waiting'
    BY <2>3, <2>5 DEF Live
  <2>6. \A S : \A a \in Live(S) : a # Outside /\ Decodes(code, a)
    BY DEF Live
  <2>7. \A b : \A a \in Follows(b) : a # Outside /\ Decodes(code, a)
    BY <2>6 DEF Follows
  <2>8. Live(queued) \subseteq DOMAIN insns \cup Waiting'
    BY <2>1, <2>5, <2>6 DEF DescentInv
  <2>9. \A a \in DOMAIN insns : Follows(a) \subseteq DOMAIN insns \cup Waiting'
    BY <2>1, <2>5, <2>7 DEF DescentInv
  <2>. QED  BY <1>c, <2>1, <2>4, <2>8, <2>9 DEF DescentInv
<1>3. CASE DecodeNext
  <2>. PICK c : c = cursor
    OBVIOUS
  <2>. PICK targets : targets = code.insn[c].targets
    OBVIOUS
  <2>1. /\ pass = "block" /\ GoesOn(c) /\ code' = code /\ pass' \in {"block", "descent"}
        /\ DOMAIN insns' = DOMAIN insns \cup {c}
        /\ queue' = queue \cup {<<a, High>> : a \in targets \ queued}
        /\ queued' = queued \cup targets
        /\ IF code.insn[c].falls THEN cursor' = EndOf(code, c) /\ pass' = "block"
           ELSE cursor' = Outside /\ pass' = "descent"
    BY <1>3 DEF DecodeNext, With, Push, Pushed
  <2>2. c \in Waiting /\ c # Outside /\ Decodes(code, c)
    BY <2>1 DEF GoesOn, Waiting
  <2>3. /\ DOMAIN insns \cup Live(Waiting) \subseteq Closure
        /\ code.seeds \subseteq queued
        /\ Live(queued) \subseteq DOMAIN insns \cup Waiting
        /\ \A a \in DOMAIN insns : Follows(a) \subseteq DOMAIN insns \cup Waiting
    BY <2>1 DEF DescentInv
  <2>4. c \in Closure
    BY <2>2, <2>3 DEF Live
  <2>5. Follows(c) \subseteq Closure
    BY <1>t, <2>4, ClosureClosed DEF Closed
  <2>6. Waiting' = {r[1] : r \in queue} \cup (targets \ queued) \cup {cursor'}
    <3>1. \A a \in targets \ queued : \E r \in queue' : r[1] = a
      <4>1. \A a : <<a, High>>[1] = a
        OBVIOUS
      <4>. QED  BY <2>1, <4>1
    <3>2. \A r \in queue' : r \in queue \/ r[1] \in targets \ queued
      BY <2>1
    <3>3. {r[1] : r \in queue'} = {r[1] : r \in queue} \cup (targets \ queued)
      BY ONLY <2>1, <3>1, <3>2
    <3>. QED  BY <3>3 DEF Waiting
  <2>7. DOMAIN insns \cup Waiting \subseteq DOMAIN insns' \cup Waiting'
    BY <2>1, <2>6 DEF Waiting
  <2>8. Live(targets) \subseteq DOMAIN insns' \cup Waiting'
    BY <2>3, <2>6, <2>7 DEF Live
  <2>9. Follows(c) \subseteq DOMAIN insns' \cup Waiting'
    BY <2>1, <2>6, <2>8 DEF Follows, Live
  <2>10. Live(Waiting') \subseteq Live(Waiting) \cup Follows(c)
    BY <2>1, <2>6 DEF Follows, Live, Waiting
  <2>11. Live(queued') \subseteq DOMAIN insns' \cup Waiting'
    BY <2>1, <2>3, <2>7, <2>8 DEF Live
  <2>12. \A a \in DOMAIN insns' : Follows(a) \subseteq DOMAIN insns' \cup Waiting'
    BY <2>1, <2>3, <2>7, <2>9
  <2>13. DOMAIN insns' \cup Live(Waiting') \subseteq Closure
    BY <2>1, <2>3, <2>4, <2>5, <2>10
  <2>14. code.seeds \subseteq queued'
    BY <2>1, <2>3
  <2>. QED  BY <1>c, <2>1, <2>11, <2>12, <2>13, <2>14 DEF DescentInv
<1>4. CASE Pad
  <2>1. pass = "descent" /\ pass' = "sweep" /\ code' = code /\ insns' = insns /\ hole' = hole
        /\ (queue = {} \/ LimitReached)
    BY <1>4 DEF Pad
  <2>2. ASSUME MaxInsns = 0 PROVE Descended = Closure
    <3>1. queue = {} /\ cursor = Outside
      BY <2>1, <2>2 DEF LimitReached, DescentInv
    <3>2. Waiting = {Outside}
      BY <3>1 DEF Waiting
    <3>3. Outside \notin Addr /\ Outside \notin Live(queued) /\ \A a : Outside \notin Follows(a)
      BY DEF Outside, Addr, Live, Follows
    <3>4. Live(code.seeds) \subseteq Live(queued)
      BY <2>1 DEF DescentInv, Live
    <3>5. Closed(DOMAIN insns)
      BY <2>1, <3>2, <3>3, <3>4 DEF DescentInv, Closed
    <3>6. DOMAIN insns \in SUBSET Addr /\ DOMAIN insns \subseteq Closure
      BY <2>1 DEF TypeInv, TypeOK, DescentInv
    <3>7. DOMAIN insns = Closure
      BY <3>5, <3>6 DEF Closure
    <3>8. \A a \in DOMAIN insns : insns[a] = "descent"
      BY <2>1 DEF MapInv, HoleInv, RangesInv
    <3>. QED  BY <3>7, <3>8 DEF Descended
  <2>. QED  BY <1>c, <2>1, <2>2 DEF DescentInv, Descended
<1>5. CASE SweepDecodes
  <2>1. pass = "sweep" /\ pass' = "sweep" /\ code' = code /\ hole' = hole
        /\ insns' = With(insns, cursor, "sweep") /\ cursor \notin DOMAIN insns
    BY <1>5 DEF SweepDecodes, InGap, Skips
  <2>2. Descended' = Descended
    BY <2>1 DEF Descended, With
  <2>. QED  BY <1>c, <2>1, <2>2 DEF DescentInv
<1>6. CASE SweepSkips \/ LeaveGap \/ Finish
  <2>1. pass = "sweep" /\ pass' \in {"sweep", "done"} /\ code' = code /\ hole' = hole
        /\ insns' = insns
    BY <1>6 DEF SweepSkips, LeaveGap, Finish, InGap
  <2>. QED  BY <1>c, <2>1 DEF DescentInv, Descended
<1>7. CASE Retract
  <2>1. pass' = "done" /\ hole' # <<0, 0>>
    BY <1>7 DEF Retract
  <2>. QED  BY <2>1 DEF DescentInv
<1>8. CASE UNCHANGED vars
  BY <1>c, <1>8 DEF vars, DescentInv, Descended, Waiting
<1>. QED  BY <1>1, <1>2, <1>3, <1>4, <1>5, <1>6, <1>7, <1>8 DEF Next, Step

(* The descent finds everything control can reach from a trusted start and *)
(* nothing else (DescentExact), whatever the image and the order in which  *)
(* the queue hands out requests of the same confidence.                    *)
THEOREM DescentIsExact == Spec => []DescentExact
<1>1. ASSUME TypeInv, DescentInv PROVE DescentExact
  <2>1. Reachable[Size] = Closure
    BY <1>1, ReachableIsClosure DEF TypeInv
  <2>. QED  BY <1>1, <2>1 DEF DescentExact, DescentInv
<1>. QED  BY <1>1, TypeInit, TypeStep, MapInit, MapStep, DescentInit, DescentStep, PTL DEF Spec
=============================================================================
