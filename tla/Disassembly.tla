---------------------------- MODULE Disassembly -----------------------------
(***************************************************************************)
(* The disassembler (src/disasm) on one executable section of an image:    *)
(* recursive descent from the trusted starts, padding, a linear sweep over *)
(* the bytes nobody claimed, and the retraction of a region that turned    *)
(* out to be data.  The CodeMap, the DecodeQueue and the instruction store *)
(* are its state.                                                          *)
(*                                                                         *)
(* The image is what Capstone makes of it: code.insn[a] says how the bytes *)
(* at a decode.  Control flow is reduced to what the descent looks at: the *)
(* direct targets and whether control falls through.                       *)
(***************************************************************************)
EXTENDS Integers, FiniteSets, FiniteSetsExt

CONSTANTS
    Size,       \* the section holds the addresses 0 .. Size-1
    Images,     \* the images considered
    MinPad,     \* kMinPaddingRun
    MaxInsns    \* options.max_instructions; 0 is no limit

Addr == 0 .. Size - 1
Outside == Size         \* stands for any address outside the section
Insn == [len : Nat \ {0}, targets : SUBSET (Addr \cup {Outside}), falls : BOOLEAN]
Bad == [len |-> 0, targets |-> {}, falls |-> FALSE]

\* What the loader hands over: decodable bytes, filler bytes, trusted starts.
Image == [insn : [Addr -> Insn \cup {Bad}], pad : SUBSET Addr,
          seeds : SUBSET (Addr \cup {Outside})]

Decodes(code, a) == code.insn[a] # Bad
EndOf(code, a) == a + code.insn[a].len

ASSUME SizeAssumption == Size \in Nat \ {0}
ASSUME ImagesAssumption ==
    Images \subseteq Image /\ \A code \in Images, a \in Addr : EndOf(code, a) <= Size
ASSUME PadAssumption == MinPad \in Nat \ {0}
ASSUME MaxAssumption == MaxInsns \in Nat

VARIABLES
    code,       \* the image
    pass,       \* which pass of run is under way
    queue,      \* DecodeQueue: the requests waiting, <<address, confidence>>
    queued,     \* DecodeQueue: seen_
    cursor,     \* the address decode_block or the sweep is at
    insns,      \* InstructionStorage: the pass that decoded each instruction
    ranges,     \* CodeMap: the classified range at each start address
    gaps,       \* the gaps the sweep has still to go through
    hole        \* the region retracted last, or <<0, 0>>

vars == <<code, pass, queue, queued, cursor, insns, ranges, gaps, hole>>
-----------------------------------------------------------------------------
(* CodeMap.                                                                *)

Low == 1
Medium == 2
High == 3
Certain == 4

Classes == {"Code", "ProbablyCode", "Padding", "Data"}
Classified(s, e, class, conf) == [start |-> s, end |-> e, class |-> class, conf |-> conf]

\* Drops entries of a map; adds one.
Without(m, S) == [k \in DOMAIN m \ S |-> m[k]]
With(m, k, v) == [j \in DOMAIN m \cup {k} |-> IF j = k THEN v ELSE m[j]]

\* range_containing: only the range with the greatest start is looked at.
Below(map, a) == {s \in DOMAIN map : s <= a}
Claimed(map, a) == Below(map, a) # {} /\ a < map[Max(Below(map, a))].end
RangeAt(map, a) == map[Max(Below(map, a))]
ClassOf(map, a) == IF Claimed(map, a) THEN RangeAt(map, a).class ELSE "Unknown"

Classify(map, s, e, class, conf) ==
    IF s >= e \/ (Claimed(map, s) /\ RangeAt(map, s).conf > conf)
    THEN map
    ELSE With(map, s, Classified(s, e, class, conf))

\* reclassify_forced, on the word of a user.  Mutant: what the region held stays.
ReclassifyForced_Keeps(map, s, e) == With(map, s, Classified(s, e, "Data", Certain))

ReclassifyForced(map, s, e) ==
    With(Without(map, s .. e - 1), s, Classified(s, e, "Data", Certain))

\* Mutant: the end of the range before, not the furthest end.
Reach_LastEnd(map, a) ==
    LET before == {t \in DOMAIN map : t < a}
    IN  IF before = {} THEN 0 ELSE map[Max(before)].end

\* How far the ranges that start before an address reach, as unclaimed_ranges
\* counts: its cursor only moves forward.
Reach(map, a) == Max({0} \cup {map[s].end : s \in {t \in DOMAIN map : t < a}})

\* unclaimed_ranges over the section.
UnclaimedRanges(map) ==
    {<<Reach(map, a), a>> : a \in {t \in DOMAIN map \cup {Size} : Reach(map, t) < t}}

-----------------------------------------------------------------------------
(* DecodeQueue.                                                            *)

\* push, for several requests: an address is queued once only.
Pushed(addresses) == addresses \ queued
Push(addresses, conf) ==
    /\ queue' = queue \cup {<<a, conf>> : a \in Pushed(addresses)}
    /\ queued' = queued \cup addresses

\* Any of the requests with the highest confidence may be on top of the heap.
Top == {r \in queue : \A q \in queue : q[2] <= r[2]}

LimitReached == MaxInsns # 0 /\ Cardinality(DOMAIN insns) >= MaxInsns

Init ==
    /\ code \in Images
    /\ pass = "descent"
    /\ queue = {<<a, Certain>> : a \in code.seeds}
    /\ queued = code.seeds
    /\ cursor = Outside
    /\ insns = [a \in {} |-> "descent"]
    /\ ranges = [s \in {} |-> Classified(0, 0, "Code", High)]
    /\ gaps = {}
    /\ hole = <<0, 0>>
-----------------------------------------------------------------------------
(* Pass 1: recursive descent.                                              *)

Pop ==
    /\ pass = "descent"
    /\ ~LimitReached
    /\ \E r \in Top :
         /\ queue' = queue \ {r}
         /\ cursor' = r[1]
    /\ pass' = "block"
    /\ UNCHANGED <<code, queued, insns, ranges, gaps, hole>>

\* decode_block goes on inside the section, where no other path has decoded,
\* no byte is known data and the bytes decode.
GoesOn(a) ==
    /\ a # Outside
    /\ a \notin DOMAIN insns
    /\ ClassOf(ranges, a) \notin {"Data", "Padding"}
    /\ Decodes(code, a)

BlockEnds ==
    /\ pass = "block"
    /\ ~GoesOn(cursor)
    /\ pass' = "descent"
    /\ cursor' = Outside
    /\ UNCHANGED <<code, queue, queued, insns, ranges, gaps, hole>>

\* Mutant: the targets of an instruction that does not fall through are lost.
DecodeNext_FallsOnly ==
    /\ pass = "block"
    /\ GoesOn(cursor)
    /\ ranges' = Classify(ranges, cursor, EndOf(code, cursor), "Code", High)
    /\ insns' = With(insns, cursor, "descent")
    /\ IF code.insn[cursor].falls
       THEN /\ Push(code.insn[cursor].targets, High)
            /\ cursor' = EndOf(code, cursor)
            /\ pass' = "block"
       ELSE /\ cursor' = Outside
            /\ pass' = "descent"
            /\ UNCHANGED <<queue, queued>>
    /\ UNCHANGED <<code, gaps, hole>>

\* One turn of decode_block's loop.
DecodeNext ==
    /\ pass = "block"
    /\ GoesOn(cursor)
    /\ ranges' = Classify(ranges, cursor, EndOf(code, cursor), "Code", High)
    /\ Push(code.insn[cursor].targets, High)
    /\ insns' = With(insns, cursor, "descent")
    /\ IF code.insn[cursor].falls
       THEN cursor' = EndOf(code, cursor) /\ pass' = "block"
       ELSE cursor' = Outside /\ pass' = "descent"
    /\ UNCHANGED <<code, gaps, hole>>
-----------------------------------------------------------------------------
(* Pass 2: padding, and the gaps the sweep starts from.                    *)

\* The maximal runs of filler within the gaps, long enough to count.
PaddingRuns(found) ==
    {r \in Addr \X (1 .. Size) :
       /\ r[2] - r[1] >= MinPad
       /\ \A a \in r[1] .. r[2] - 1 : a \in code.pad
       /\ \E gap \in found :
                /\ gap[1] <= r[1] /\ r[2] <= gap[2]
                /\ (r[1] = gap[1] \/ r[1] - 1 \notin code.pad)
                /\ (r[2] = gap[2] \/ r[2] \notin code.pad)}

\* Nothing covers a run, so each is classified.
Padded ==
    LET runs == PaddingRuns(UnclaimedRanges(ranges))
    IN  [s \in DOMAIN ranges \cup {r[1] : r \in runs} |->
           IF \E r \in runs : r[1] = s
           THEN Classified(s, (CHOOSE r \in runs : r[1] = s)[2], "Padding", Medium)
           ELSE ranges[s]]

\* The first of the gaps is the one the sweep is in.
GapOf(found) == CHOOSE g \in found : \A h \in found : g[1] <= h[1]
StartIn(found) == IF found = {} THEN Outside ELSE GapOf(found)[1]

Pad ==
    /\ pass = "descent"
    /\ queue = {} \/ LimitReached
    /\ ranges' = Padded
    /\ gaps' = UnclaimedRanges(Padded)
    /\ pass' = "sweep"
    /\ cursor' = StartIn(UnclaimedRanges(Padded))
    /\ UNCHANGED <<code, queue, queued, insns, hole>>
-----------------------------------------------------------------------------
(* Pass 3: linear sweep, one turn of its loop a step.                      *)

NextGap ==
    /\ gaps' = gaps \ {GapOf(gaps)}
    /\ cursor' = StartIn(gaps \ {GapOf(gaps)})

InGap == pass = "sweep" /\ gaps # {} /\ cursor < GapOf(gaps)[2] /\ ~LimitReached
Skips == cursor \in DOMAIN insns \/ Claimed(ranges, cursor) \/ ~Decodes(code, cursor)

\* Mutant: a byte that does not decode is tried again.
SweepSkips_Stuck ==
    /\ InGap
    /\ Skips
    /\ cursor' = IF Decodes(code, cursor) THEN cursor + 1 ELSE cursor
    /\ UNCHANGED <<code, pass, queue, queued, insns, ranges, gaps, hole>>

SweepSkips ==
    /\ InGap
    /\ Skips
    /\ cursor' = cursor + 1
    /\ UNCHANGED <<code, pass, queue, queued, insns, ranges, gaps, hole>>

\* Mutant: an instruction may straddle the end of the gap.
SweepDecodes_Straddles ==
    /\ InGap
    /\ ~Skips
    /\ ranges' = Classify(ranges, cursor, EndOf(code, cursor), "ProbablyCode", Low)
    /\ insns' = With(insns, cursor, "sweep")
    /\ cursor' = EndOf(code, cursor)
    /\ UNCHANGED <<code, pass, queue, queued, gaps, hole>>

SweepDecodes ==
    /\ InGap
    /\ ~Skips
    /\ EndOf(code, cursor) <= GapOf(gaps)[2]
    /\ ranges' = Classify(ranges, cursor, EndOf(code, cursor), "ProbablyCode", Low)
    /\ insns' = With(insns, cursor, "sweep")
    /\ cursor' = EndOf(code, cursor)
    /\ UNCHANGED <<code, pass, queue, queued, gaps, hole>>

\* The gap is used up, the limit is reached, or the next instruction would
\* overrun into claimed territory.
LeaveGap ==
    /\ pass = "sweep"
    /\ gaps # {}
    /\ ~(InGap /\ (Skips \/ EndOf(code, cursor) <= GapOf(gaps)[2]))
    /\ NextGap
    /\ UNCHANGED <<code, pass, queue, queued, insns, ranges, hole>>

Finish ==
    /\ pass = "sweep"
    /\ gaps = {}
    /\ pass' = "done"
    /\ UNCHANGED <<code, queue, queued, cursor, insns, ranges, gaps, hole>>
-----------------------------------------------------------------------------
\* retract_range, on a finished analysis.
Retract ==
    /\ pass = "done"
    /\ hole = <<0, 0>>
    /\ \E s \in Addr, e \in 1 .. Size :
         /\ s < e
         /\ insns' = Without(insns, s .. e - 1)
         /\ ranges' = ReclassifyForced(ranges, s, e)
         /\ hole' = <<s, e>>
    /\ UNCHANGED <<code, pass, queue, queued, cursor, gaps>>

Step ==
    \/ Pop \/ BlockEnds \/ DecodeNext \/ Pad
    \/ SweepSkips \/ SweepDecodes \/ LeaveGap \/ Finish

Next == Step \/ Retract

Spec == Init /\ [][Next]_vars

\* The engine is one thread that runs until it is through.
FairSpec == Spec /\ WF_vars(Step)
-----------------------------------------------------------------------------
TypeOK ==
    /\ code \in Image
    /\ pass \in {"descent", "block", "sweep", "done"}
    /\ queue \subseteq (Addr \cup {Outside}) \X {High, Certain}
    /\ queued \subseteq Addr \cup {Outside}
    /\ cursor \in Addr \cup {Outside}
    /\ DOMAIN insns \subseteq Addr
    /\ \A a \in DOMAIN insns : insns[a] \in {"descent", "sweep"}
    /\ DOMAIN ranges \subseteq Addr
    /\ \A s \in DOMAIN ranges :
         ranges[s] \in [start : {s}, end : s + 1 .. Size, class : Classes, conf : Low .. Certain]
    /\ gaps \subseteq Addr \X (1 .. Size)
    /\ hole \in (Addr \cup {0}) \X (0 .. Size)

Descended == {a \in DOMAIN insns : insns[a] = "descent"}
Bytes(a) == a .. EndOf(code, a) - 1

\* Where control can go from an address, as far as bytes decode.
Live(S) == {a \in S : a # Outside /\ Decodes(code, a)}
Follows(a) ==
    Live(code.insn[a].targets
           \cup IF code.insn[a].falls THEN {EndOf(code, a)} ELSE {})

\* Reachable[n]: what n edges or fewer reach from the trusted starts.
Reachable[n \in Nat] ==
    IF n = 0 THEN Live(code.seeds)
    ELSE LET R == Reachable[n - 1] IN R \cup UNION {Follows(a) : a \in R}

\* The descent finds everything control can reach from a trusted start, and
\* nothing else, in whatever order the queue hands out its requests.
DescentExact ==
    pass \in {"sweep", "done"} /\ hole = <<0, 0>> /\ MaxInsns = 0
        => Descended = Reachable[Size]

\* The gaps are the bytes no range covers, even where ranges overlap.
GapsExact ==
    UNION {g[1] .. g[2] - 1 : g \in UnclaimedRanges(ranges)}
        = Addr \ UNION {s .. ranges[s].end - 1 : s \in DOMAIN ranges}

\* Speculation never claims a byte that control flow or padding explains.
SweepApart ==
    hole = <<0, 0>> =>
        \A a \in DOMAIN insns : insns[a] = "sweep" =>
            /\ \A b \in DOMAIN insns \ {a} : Bytes(a) \cap Bytes(b) = {}
            /\ \A s \in DOMAIN ranges : ranges[s].class = "Padding"
                 => Bytes(a) \cap (s .. ranges[s].end - 1) = {}

\* After a retraction the region is data and no instruction starts in it.
RetractedIsData ==
    \A a \in hole[1] .. hole[2] - 1 :
        a \notin DOMAIN insns /\ ClassOf(ranges, a) = "Data"

\* What the code map says of the bytes is so: its gaps are what no range
\* covers, a guess of the sweep overlaps nothing that is explained, and what
\* was retracted is data.
MapTruthful == GapsExact /\ SweepApart /\ RetractedIsData

Terminates == <>(pass = "done")

\* "Keyed by start address, non-overlapping, sorted" (CodeMap.h l.66).
RangesDisjoint ==
    \A s, t \in DOMAIN ranges : s < t => ranges[s].end <= t
=============================================================================
