---------------------------- MODULE SpeakerMerge ----------------------------
(***************************************************************************)
(* Which speaker said a unit of recognised text, and the loop that joins   *)
(* units into segments of one speaker (offline/speaker_utils.py).  Times   *)
(* are ticks.  A unit stands for the recognised units from..to of the text *)
(* and is blank if there are none; the loop takes the units in the order of*)
(* their times.  A group of units is kept as the first and last position in*)
(* that order: its text, start and end follow from the units.              *)
(***************************************************************************)
EXTENDS Integers, FiniteSets, SequencesExt

CONSTANT ShortToken    \* the longest token the boundary rule is for (250 ms)

ASSUME TokenAssumption == ShortToken \in Nat

VARIABLES
    units,      \* the units with their times, sorted
    speakers,   \* the segments of the speaker recognition, sorted
    next,       \* the next unit of the loop
    merged,     \* the groups that are complete
    current     \* the group being extended, NoGroup at first

mergeVars == <<units, speakers, next, merged, current>>

NoGroup == [from |-> 0, to |-> 0, spk |-> 0]

(* sorted() by start and end, stable: the text's order breaks ties.  D are *)
(* the positions of s that are kept.                                       *)
Precedes(a, b) ==
    \/ a.start < b.start
    \/ a.start = b.start /\ a.end < b.end

SortedAt(s, D) ==
    LET before(i, j) == Precedes(s[i], s[j]) \/ (~Precedes(s[j], s[i]) /\ i < j)
    IN  [k \in 1..Cardinality(D) |->
            s[CHOOSE i \in D : Cardinality({j \in D : before(j, i)}) = k - 1]]

Sorted(s) == SortedAt(s, DOMAIN s)

Distance(a, b) == Max({a - b, b - a})

Overlap(u, s) == Min({u.end, s.end}) - Max({u.start, s.start})

\* The first index of the non-empty sequence v of numbers with the least value.
FirstLeast(v) ==
    CHOOSE i \in DOMAIN v : \A j \in DOMAIN v : v[i] < v[j] \/ (v[i] = v[j] /\ i <= j)

(* The largest overlap, the first of equals; without any, the segment with *)
(* an end nearest to the middle of the unit; without segments, 0.          *)
SpeakerForRange(u, segs) ==
    LET overlap  == [i \in DOMAIN segs |-> -Overlap(u, segs[i])]
        distance == [i \in DOMAIN segs |->
                        Min({Distance(u.start + u.end, 2 * segs[i].start),
                             Distance(u.start + u.end, 2 * segs[i].end)})]
    IN  IF segs = <<>> THEN 0
        ELSE IF overlap[FirstLeast(overlap)] < 0 THEN segs[FirstLeast(overlap)].spk
        ELSE segs[FirstLeast(distance)].spk

\* Mutant: the start of the next speaker may lie after the token.
BoundariesAfter(u, segs) ==
    {i \in 2..Len(segs) : segs[i - 1].spk # segs[i].spk /\ u.start < segs[i].start}

(* Where another speaker begins inside the unit.                           *)
Boundaries(u, segs) ==
    {i \in 2..Len(segs) : /\ segs[i - 1].spk # segs[i].spk
                          /\ u.start < segs[i].start /\ segs[i].start < u.end}

(* A short token across such a boundary belongs to the speaker after it.   *)
SpeakerFor(u, segs) ==
    IF u.end - u.start \in 1..ShortToken /\ Boundaries(u, segs) # {}
    THEN segs[Min(Boundaries(u, segs))].spk
    ELSE SpeakerForRange(u, segs)

IsBlank(g) == \A i \in g.from .. g.to : units[i].from > units[i].to

MergeIdle ==
    /\ units = <<>> /\ speakers = <<>>
    /\ next = 1 /\ merged = <<>> /\ current = NoGroup

MergeBegins(u, segs) ==
    /\ units'    = Sorted(u)
    /\ speakers' = segs
    /\ next' = 1 /\ merged' = <<>> /\ current' = NoGroup

\* Mutant: a group that another speaker ends is dropped.
ClosedAtEnd == merged

(* The complete groups once the current one is closed: blank text is       *)
(* dropped.  NoGroup adds nothing.                                         *)
Closed == IF current = NoGroup \/ IsBlank(current) THEN merged ELSE Append(merged, current)

(* One turn of the loop.                                                   *)
MergeUnit ==
    /\ next <= Len(units)
    /\ LET spk == SpeakerFor(units[next], speakers)
       IN  IF current # NoGroup /\ current.spk = spk
           THEN current' = [current EXCEPT !.to = next] /\ UNCHANGED merged
           ELSE /\ current' = [from |-> next, to |-> next, spk |-> spk]
                /\ merged'  = Closed
    /\ next' = next + 1
    /\ UNCHANGED <<units, speakers>>

(* After the loop.                                                         *)
MergeEnds ==
    /\ next = Len(units) + 1
    /\ merged'  = Closed
    /\ current' = NoGroup
    /\ next'    = next + 1
    /\ UNCHANGED <<units, speakers>>

(* The loop by itself, over any units whatever the speakers.               *)
Unit == [from : Int, to : Int, start : Int, end : Int]

MergeLoop ==
    /\ units \in Seq(Unit)
    /\ next = 1 /\ merged = <<>> /\ current = NoGroup
    /\ [][MergeUnit \/ MergeEnds]_mergeVars

----------------------------------------------------------------------------
\* Groups that follow each other before position `limit` without overlap, two
\* neighbours of one speaker with something between them.
InOrder(gs, limit) ==
    /\ \A k \in 1..Len(gs) : gs[k].to \in 1 .. limit - 1 /\ gs[k].from \in 1 .. gs[k].to
    /\ \A k \in 2..Len(gs) :
          /\ gs[k - 1].to < gs[k].from
          /\ gs[k - 1].spk = gs[k].spk => gs[k - 1].to + 1 < gs[k].from

\* Every unit with a text before `limit` is in one of the groups.
Covered(gs, limit) ==
    \A i \in 1 .. limit - 1 : units[i].from <= units[i].to =>
        \E k \in 1..Len(gs) : gs[k].from <= i /\ i <= gs[k].to

Groups == IF current = NoGroup THEN merged ELSE Append(merged, current)

(* The groups follow each other through the sorted units without overlap,  *)
(* only blank units lie outside them, and neighbours have different        *)
(* speakers unless blank text was dropped between them: no unit is lost or *)
(* said twice, and nobody's words are split (merge_timed_units_by_speaker).*)
MergeExact ==
    LET limit == IF next > Len(units) THEN Len(units) + 1 ELSE next
    IN  InOrder(Groups, limit) /\ Covered(Groups, limit)

(* A unit is given to somebody who speaks during it, if anybody does, and a*)
(* longer one to whoever speaks during most of it, counted by the ticks    *)
(* each segment shares with it (speaker_for_time_range_with_boundary).     *)
SpeakerHeard ==
    \A k \in DOMAIN Groups : \A i \in Groups[k].from .. Groups[k].to :
        LET shared == [j \in DOMAIN speakers |->
                          {t \in units[i].start .. units[i].end - 1 :
                              speakers[j].start <= t /\ t < speakers[j].end}]
            heard  == {j \in DOMAIN speakers : shared[j] # {}}
        IN  heard # {} =>
              \E j \in heard :
                 /\ speakers[j].spk = Groups[k].spk
                 /\ units[i].end - units[i].start > ShortToken =>
                       \A h \in heard : Cardinality(shared[h]) <= Cardinality(shared[j])

(* What makes SpeakerHeard inductive: a group has the speaker of each of   *)
(* its units, and a segment of a speaker has a length.                     *)
Labelled(g) == \A i \in g.from .. g.to : g.spk = SpeakerFor(units[i], speakers)

SpeakerIInv ==
    /\ speakers \in Seq([start : Int, end : Int, spk : Nat])
    /\ \A j \in 1..Len(speakers) : speakers[j].start < speakers[j].end
    /\ \A k \in 1..Len(merged) : Labelled(merged[k])
    /\ current # NoGroup => Labelled(current)

(* What makes MergeExact inductive: the complete groups end before the     *)
(* current one begins, which reaches up to the next unit.                  *)
LoopShape ==
    /\ units \in Seq(Unit)
    /\ next \in 1 .. Len(units) + 2
    /\ Len(merged) \in Nat /\ merged = [k \in 1..Len(merged) |-> merged[k]]
    /\ current \in [from : Nat, to : Nat, spk : {current.spk}]
    /\ current # NoGroup => /\ current.from \in 1 .. current.to
                            /\ current.to = next - 1 /\ next <= Len(units) + 1
    /\ current = NoGroup => (next = 1 /\ merged = <<>>) \/ next = Len(units) + 2

\* The first position that the complete groups do not reach.
Limit == IF current # NoGroup THEN current.from
         ELSE IF next = 1 THEN 1 ELSE Len(units) + 1

\* The last group does not go on at `from` with the same speaker.
Apart(gs, from, spk) ==
    Len(gs) > 0 /\ gs[Len(gs)].spk = spk => gs[Len(gs)].to + 1 < from

LoopIInv ==
    /\ LoopShape
    /\ InOrder(merged, Limit) /\ Covered(merged, Limit)
    /\ current # NoGroup => Apart(merged, current.from, current.spk)

=============================================================================
