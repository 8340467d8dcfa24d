------------------------- MODULE OfflineResultProofs -------------------------
(* The merge loop keeps every unit for any units and speakers; and one     *)
(* OFFLINE recognition merges its units at the time they were said, gives  *)
(* them to who speaks, and returns each of them once, for any audio, VAD,  *)
(* speaker segments and bounds.                                            *)
EXTENDS OfflineResult, SequenceTheorems, SequenceFacts, TLAPS

----------------------------------------------------------------------------
(* The merge loop.                                                         *)

(* Append on a list of anything, the groups' speakers being values of no   *)
(* particular set.                                                         *)
LEMMA AppendAny ==
  ASSUME NEW s, NEW e, Len(s) \in Nat, s = [i \in 1..Len(s) |-> s[i]]
  PROVE  /\ Len(Append(s, e)) = Len(s) + 1
         /\ Append(s, e) = [i \in 1..Len(s) + 1 |-> Append(s, e)[i]]
         /\ \A i \in 1..Len(s) : Append(s, e)[i] = s[i]
         /\ Append(s, e)[Len(s) + 1] = e
  <1> DEFINE S == {s[i] : i \in 1..Len(s)} \cup {e}
  <1>1. s \in [1..Len(s) -> S]
    OBVIOUS
  <1>2. s \in Seq(S) /\ e \in S
    BY <1>1
  <1> HIDE DEF S
  <1>3. Append(s, e) \in Seq(S) /\ Len(Append(s, e)) = Len(s) + 1
    BY <1>2
  <1>4. /\ \A i \in 1..Len(s) : Append(s, e)[i] = s[i]
        /\ Append(s, e)[Len(s) + 1] = e
    BY <1>2, <1>3, AppendProperties
  <1>5. Append(s, e) = [i \in 1..Len(s) + 1 |-> Append(s, e)[i]]
    <2> DEFINE t == Append(s, e)
    <2>1. t \in Seq(S) /\ Len(t) = Len(s) + 1
      BY <1>3
    <2> HIDE DEF t
    <2>2. t \in [1..Len(s) + 1 -> S]
      BY <2>1
    <2>3. t = [i \in 1..Len(s) + 1 |-> t[i]]
      BY <2>2
    <2> QED
      BY <2>3 DEF t
  <1> QED
    BY <1>3, <1>4, <1>5, Zenon

(* A group that begins at `limit` is added to groups that end before it.   *)
LEMMA GroupAdded ==
  ASSUME NEW gs, NEW g, Len(gs) \in Nat, gs = [k \in 1..Len(gs) |-> gs[k]],
         g.to \in Nat, g.from \in 1 .. g.to,
         InOrder(gs, g.from), Covered(gs, g.from), Apart(gs, g.from, g.spk)
  PROVE  /\ InOrder(Append(gs, g), g.to + 1)
         /\ Covered(Append(gs, g), g.to + 1)
         /\ Append(gs, g)[Len(Append(gs, g))] = g
  <1> DEFINE more == Append(gs, g)
  <1>1. /\ Len(more) = Len(gs) + 1
        /\ \A k \in 1..Len(gs) : more[k] = gs[k]
        /\ more[Len(gs) + 1] = g
    BY AppendAny
  <1> HIDE DEF more
  <1>2. \A k \in 1..Len(more) : more[k].to \in 1 .. g.to /\ more[k].from \in 1 .. more[k].to
    BY <1>1 DEF InOrder
  <1>3. ASSUME NEW k \in 2..Len(more)
        PROVE  /\ more[k - 1].to < more[k].from
               /\ more[k - 1].spk = more[k].spk => more[k - 1].to + 1 < more[k].from
    <2>1. CASE k <= Len(gs)
      <3>1. k \in 2..Len(gs) /\ k \in 1..Len(gs) /\ k - 1 \in 1..Len(gs)
        BY <2>1
      <3>2. more[k] = gs[k] /\ more[k - 1] = gs[k - 1]
        BY <1>1, <3>1
      <3> QED
        BY <3>1, <3>2 DEF InOrder
    <2>2. CASE k = Len(gs) + 1
      <3>1. more[k] = g /\ more[k - 1] = gs[Len(gs)] /\ Len(gs) \in 1..Len(gs)
        BY <1>1, <2>2
      <3>2. gs[Len(gs)].to \in 1 .. g.from - 1
        BY <3>1 DEF InOrder
      <3>3. gs[Len(gs)].to < g.from
        BY <3>2
      <3>4. gs[Len(gs)].spk = g.spk => gs[Len(gs)].to + 1 < g.from
        <4>1. Len(gs) > 0
          BY <3>1
        <4> QED
          BY <4>1 DEF Apart
      <3> QED
        BY <3>1, <3>3, <3>4
    <2> QED
      BY <1>1, <2>1, <2>2
  <1>4. ASSUME NEW i \in 1 .. g.to, units[i].from <= units[i].to
        PROVE  \E k \in 1..Len(more) : more[k].from <= i /\ i <= more[k].to
    <2>1. CASE i < g.from
      <3>1. PICK k \in 1..Len(gs) : gs[k].from <= i /\ i <= gs[k].to
        BY <1>4, <2>1 DEF Covered
      <3> QED
        BY <1>1, <3>1
    <2>2. CASE g.from <= i
      BY <1>1, <2>2
    <2> QED
      BY <2>1, <2>2
  <1>5. InOrder(more, g.to + 1)
    BY <1>2, <1>3 DEF InOrder
  <1>6. Covered(more, g.to + 1)
    BY <1>4 DEF Covered
  <1> QED
    BY <1>1, <1>5, <1>6 DEF more

(* Groups before a position are before every later one.                    *)
LEMMA LimitRaised ==
  ASSUME NEW gs, Len(gs) \in Nat, NEW a \in Nat, NEW b \in Nat, a <= b, InOrder(gs, a)
  PROVE  InOrder(gs, b) /\ \A k \in 1..Len(gs) : gs[k].to < a
  <1>1. \A k \in 1..Len(gs) : gs[k].to \in 1 .. a - 1
    BY DEF InOrder
  <1>2. \A x \in 1 .. a - 1 : x \in 1 .. b - 1 /\ x < a
    OBVIOUS
  <1>3. \A k \in 1..Len(gs) : gs[k].to \in 1 .. b - 1 /\ gs[k].to < a
    BY <1>1, <1>2
  <1> QED
    BY <1>3, Zenon DEF InOrder

(* At first no group is complete and no unit has been looked at.           *)
LEMMA InitLoopIInv ==
  ASSUME units \in Seq(Unit), next = 1, merged = <<>>, current = NoGroup
  PROVE  LoopIInv
  <1>1. current \in [from : Nat, to : Nat, spk : {current.spk}]
    BY DEF NoGroup
  <1>2. LoopShape
    BY <1>1 DEF LoopShape
  <1>3. Limit = 1 /\ Len(merged) = 0
    BY DEF Limit
  <1>4. InOrder(merged, 1) /\ Covered(merged, 1)
    BY <1>3 DEF InOrder, Covered
  <1> QED
    BY <1>2, <1>3, <1>4 DEF LoopIInv

(* Closing the current group leaves complete groups that cover every unit  *)
(* before `next`; another speaker may go on there.                         *)
LEMMA CloseGroup ==
  ASSUME LoopIInv, next <= Len(units) + 1
  PROVE  /\ Len(Closed) \in Nat /\ Closed = [k \in 1..Len(Closed) |-> Closed[k]]
         /\ InOrder(Closed, next) /\ Covered(Closed, next)
         /\ \A spk : current = NoGroup \/ current.spk # spk => Apart(Closed, next, spk)
  <1>1. /\ LoopShape /\ Len(units) \in Nat /\ next \in Nat
        /\ Len(merged) \in Nat /\ merged = [k \in 1..Len(merged) |-> merged[k]]
        /\ InOrder(merged, Limit) /\ Covered(merged, Limit)
    BY DEF LoopIInv, LoopShape
  <1>2. CASE current = NoGroup
    <2>1. next = 1 /\ merged = <<>> /\ Closed = merged /\ Limit = 1 /\ Len(merged) = 0
      BY <1>1, <1>2 DEF Closed, LoopShape, Limit
    <2> QED
      BY <1>1, <2>1 DEF Apart
  <1>3. CASE current # NoGroup
    <2>1. /\ current.to \in Nat /\ current.from \in 1 .. current.to
          /\ next = current.to + 1 /\ Limit = current.from
          /\ Apart(merged, current.from, current.spk)
      BY <1>1, <1>3 DEF LoopIInv, LoopShape, Limit
    <2>2. CASE IsBlank(current)
      <3>1. Closed = merged
        BY <2>2 DEF Closed
      <3>2. InOrder(merged, next) /\ \A k \in 1..Len(merged) : merged[k].to < current.from
        BY <1>1, <2>1, LimitRaised
      <3>3. \A i \in current.from .. current.to : ~(units[i].from <= units[i].to)
        <4>1. \A i \in current.from .. current.to : units[i] \in Unit
          BY <1>1, <1>3, <2>1 DEF LoopShape
        <4> QED
          BY <2>2, <4>1 DEF IsBlank, Unit
      <3>4. Covered(merged, next)
        BY <1>1, <2>1, <3>3 DEF Covered
      <3>5. \A k \in 1..Len(merged) : merged[k].to \in Nat
        BY <1>1, <2>1 DEF InOrder
      <3>6. \A spk : Apart(merged, next, spk)
        BY <1>1, <2>1, <3>2, <3>5 DEF Apart
      <3> QED
        BY <1>1, <3>1, <3>2, <3>4, <3>6
    <2>3. CASE ~IsBlank(current)
      <3>1. Closed = Append(merged, current)
        BY <1>3, <2>3 DEF Closed
      <3>2. /\ InOrder(Closed, next) /\ Covered(Closed, next)
            /\ Closed[Len(Closed)] = current
        BY <1>1, <2>1, <3>1, GroupAdded
      <3>3. Len(Closed) \in Nat /\ Closed = [k \in 1..Len(Closed) |-> Closed[k]]
        BY <1>1, <3>1, AppendAny
      <3> QED
        BY <1>3, <3>2, <3>3 DEF Apart
    <2> QED
      BY <2>2, <2>3
  <1> QED
    BY <1>2, <1>3

(* One turn of the loop.                                                   *)
LEMMA MergeUnitIInv ==
  ASSUME LoopIInv, MergeUnit
  PROVE  LoopIInv'
  <1> DEFINE spk == SpeakerFor(units[next], speakers)
  <1>1. /\ next <= Len(units) /\ next' = next + 1 /\ units' = units
        /\ next \in Nat /\ next >= 1 /\ Len(units) \in Nat
        /\ units \in Seq(Unit)
    BY DEF MergeUnit, LoopIInv, LoopShape
  <1>2. CASE current # NoGroup /\ current.spk = spk
    <2>1. current' = [current EXCEPT !.to = next] /\ merged' = merged
      BY <1>2 DEF MergeUnit
    <2>2. /\ current \in [from : Nat, to : Nat, spk : {current.spk}]
          /\ current.from \in 1 .. current.to /\ current.to = next - 1
          /\ Len(merged) \in Nat /\ merged = [k \in 1..Len(merged) |-> merged[k]]
      BY <1>2 DEF LoopIInv, LoopShape
    <2>3. /\ current'.from = current.from /\ current'.to = next
          /\ current'.spk = current.spk
          /\ current' \in [from : Nat, to : Nat, spk : {current'.spk}]
      BY <1>1, <2>1, <2>2
    <2>4. current' # NoGroup
      BY <2>2, <2>3 DEF NoGroup
    <2>5. LoopShape'
      BY <1>1, <2>1, <2>2, <2>3, <2>4 DEF LoopShape
    <2>6. Limit = current.from /\ Limit' = current.from
      BY <1>2, <2>3, <2>4 DEF Limit
    <2> QED
      BY <1>1, <1>2, <2>1, <2>3, <2>5, <2>6 DEF LoopIInv, InOrder, Covered, Apart
  <1>3. CASE ~(current # NoGroup /\ current.spk = spk)
    <2>1. /\ current' = [from |-> next, to |-> next, spk |-> spk]
          /\ merged' = Closed
      BY <1>3 DEF MergeUnit
    <2> HIDE DEF spk
    <2>2. /\ current'.from = next /\ current'.to = next /\ current'.spk = spk
          /\ current' \in [from : Nat, to : Nat, spk : {current'.spk}]
          /\ current' # NoGroup
      BY <1>1, <2>1 DEF NoGroup
    <2>3. /\ Len(Closed) \in Nat /\ Closed = [k \in 1..Len(Closed) |-> Closed[k]]
          /\ InOrder(Closed, next) /\ Covered(Closed, next)
          /\ Apart(Closed, next, spk)
      BY <1>1, <1>3, CloseGroup
    <2>4. LoopShape'
      BY <1>1, <2>1, <2>2, <2>3 DEF LoopShape
    <2>5. Limit' = next
      BY <2>2 DEF Limit
    <2> QED
      BY <1>1, <2>1, <2>2, <2>3, <2>4, <2>5 DEF LoopIInv, InOrder, Covered, Apart
  <1> QED
    BY <1>2, <1>3

(* The end of the loop.                                                    *)
LEMMA MergeEndsIInv ==
  ASSUME LoopIInv, MergeEnds
  PROVE  LoopIInv'
  <1>1. /\ next = Len(units) + 1 /\ next' = Len(units) + 2 /\ units' = units
        /\ next \in Nat /\ Len(units) \in Nat /\ units \in Seq(Unit)
        /\ merged' = Closed /\ current' = NoGroup
    BY DEF MergeEnds, LoopIInv, LoopShape
  <1>2. /\ Len(Closed) \in Nat /\ Closed = [k \in 1..Len(Closed) |-> Closed[k]]
        /\ InOrder(Closed, next) /\ Covered(Closed, next)
    BY <1>1, CloseGroup
  <1>3. current' \in [from : Nat, to : Nat, spk : {current'.spk}]
    BY <1>1 DEF NoGroup
  <1>4. LoopShape'
    BY <1>1, <1>2, <1>3 DEF LoopShape
  <1>5. Limit' = next
    BY <1>1 DEF Limit
  <1> QED
    BY <1>1, <1>2, <1>4, <1>5 DEF LoopIInv, InOrder, Covered

(* MergeExact follows: the current group comes after the complete ones.    *)
LEMMA IInvIsExact ==
  ASSUME LoopIInv
  PROVE  MergeExact
  <1>1. /\ LoopShape /\ Len(units) \in Nat /\ next \in Nat
        /\ Len(merged) \in Nat /\ merged = [k \in 1..Len(merged) |-> merged[k]]
        /\ InOrder(merged, Limit) /\ Covered(merged, Limit)
    BY DEF LoopIInv, LoopShape
  <1>2. CASE current = NoGroup
    <2>1. Groups = merged /\ Limit = IF next > Len(units) THEN Len(units) + 1 ELSE next
      BY <1>1, <1>2 DEF Groups, Limit, LoopShape
    <2> QED
      BY <1>1, <2>1 DEF MergeExact
  <1>3. CASE current # NoGroup
    <2>1. /\ current.to \in Nat /\ current.from \in 1 .. current.to
          /\ current.to + 1 = (IF next > Len(units) THEN Len(units) + 1 ELSE next)
          /\ Limit = current.from /\ Groups = Append(merged, current)
          /\ Apart(merged, current.from, current.spk)
      BY <1>1, <1>3 DEF LoopIInv, LoopShape, Limit, Groups
    <2>2. InOrder(Groups, current.to + 1) /\ Covered(Groups, current.to + 1)
      BY <1>1, <2>1, GroupAdded
    <2> QED
      BY <2>1, <2>2 DEF MergeExact
  <1> QED
    BY <1>2, <1>3

----------------------------------------------------------------------------
(* The loop's invariant holds for any units and speakers.                  *)
THEOREM LoopInvariant == MergeLoop => []LoopIInv
  <1>1. ASSUME LoopIInv, [MergeUnit \/ MergeEnds]_mergeVars
        PROVE  LoopIInv'
    <2>1. CASE UNCHANGED mergeVars
      BY <1>1, <2>1 DEF mergeVars, LoopIInv, LoopShape, InOrder, Covered, Apart, Limit
    <2> QED
      BY <1>1, <2>1, MergeUnitIInv, MergeEndsIInv
  <1> QED
    BY <1>1, InitLoopIInv, PTL DEF MergeLoop

(* Whatever the units and the speakers, merging loses no unit, says none   *)
(* twice and splits nobody's words (merge_timed_units_by_speaker).         *)
THEOREM MergeIsExact == MergeLoop => []MergeExact
  BY LoopInvariant, IInvIsExact, PTL

----------------------------------------------------------------------------
(* Sorting.                                                                *)

(* `at` lists the positions D of s in the order of sorted().               *)
SortOf(s, D, at) ==
    /\ at \in Bijection(1..Cardinality(D), D)
    /\ SortedAt(s, D) = [k \in 1..Cardinality(D) |-> s[at[k]]]
    /\ \A k, l \in 1..Cardinality(D) : k <= l => s[at[k]].start <= s[at[l]].start

LEMMA SortingIsOrder ==
  ASSUME NEW S, NEW s \in Seq(S), NEW D \in SUBSET (1..Len(s)),
         \A i \in 1..Len(s) : s[i].start \in Int /\ s[i].end \in Int
  PROVE  /\ IsFiniteSet(D) /\ Cardinality(D) \in Nat
         /\ \E at : SortOf(s, D, at)
  <1> DEFINE before(i, j) == Precedes(s[i], s[j]) \/ (~Precedes(s[j], s[i]) /\ i < j)
             below == [i \in D |-> {j \in D : before(j, i)}]
             N == Cardinality(D)
             Pick(k) == CHOOSE i \in D : Cardinality({j \in D : before(j, i)}) = k - 1
             at == [k \in 1..N |-> Pick(k)]
  <1>1. IsFiniteSet(D) /\ Len(s) \in Nat
    <2>1. Len(s) \in Nat /\ 1 \in Int
      OBVIOUS
    <2>2. IsFiniteSet(1..Len(s))
      BY <2>1, FS_Interval
    <2> QED
      BY <2>1, <2>2, FS_Subset
  <1>2. \A i \in D : i \in Nat /\ s[i].start \in Int /\ s[i].end \in Int
    OBVIOUS
  <1>3. /\ \A i \in D : i \notin below[i]
        /\ \A i, j \in D : i = j \/ i \in below[j] \/ j \in below[i]
        /\ \A i, j \in D : j \in below[i] => s[j].start <= s[i].start
    <2>1. ASSUME NEW i \in D, NEW j \in D
          PROVE  /\ ~before(i, i)
                 /\ i = j \/ before(i, j) \/ before(j, i)
                 /\ before(j, i) => s[j].start <= s[i].start
      <3>1. ~before(i, i) /\ (before(j, i) => s[j].start <= s[i].start)
        BY <1>2 DEF Precedes
      <3>2. i = j \/ before(i, j) \/ before(j, i)
        BY <1>2 DEF Precedes
      <3> QED
        BY <3>1, <3>2, Zenon
    <2>2. \A i, j \in D : j \in below[i] <=> before(j, i)
      OBVIOUS
    <2> HIDE DEF below, before
    <2> QED
      BY <2>1, <2>2
  <1>4. ASSUME NEW i \in D, NEW j \in D, NEW k \in D, before(j, i), before(k, j)
        PROVE  before(k, i)
    BY <1>2, <1>4, SMTT(30) DEF Precedes
  <1>5. \A i, j \in D : j \in below[i] => below[j] \subseteq below[i]
    BY <1>4
  <1>6. /\ N \in Nat
        /\ \A i \in D : Cardinality(below[i]) \in 0 .. N - 1
        /\ \A i, j \in D : j \in below[i] => Cardinality(below[j]) < Cardinality(below[i])
        /\ \A k \in 1..N : \E i \in D : Cardinality(below[i]) = k - 1
    <2>1. below \in [D -> SUBSET D]
      OBVIOUS
    <2> HIDE DEF below
    <2> QED
      BY <1>1, <1>3, <1>5, <2>1, Ranks
  <1>7. \A i \in D : below[i] = {j \in D : before(j, i)}
    OBVIOUS
  <1>8. \A k \in 1..N : at[k] \in D /\ Cardinality(below[at[k]]) = k - 1
    <2> TAKE k \in 1..N
    <2>1. \E i \in D : Cardinality({j \in D : before(j, i)}) = k - 1
      BY <1>6, <1>7
    <2>2. Pick(k) \in D /\ Cardinality({j \in D : before(j, Pick(k))}) = k - 1
      <3> HIDE DEF before
      <3> QED
        BY <2>1
    <2>3. at[k] = Pick(k)
      OBVIOUS
    <2> HIDE DEF Pick, at, before
    <2> QED
      BY <1>7, <2>2, <2>3
  <1>9. SortedAt(s, D) = [k \in 1..N |-> s[at[k]]]
    BY DEF SortedAt
  <1>10. at \in [1..N -> D]
    <2>1. \A k \in 1..N : Pick(k) \in D
      BY <1>8
    <2> HIDE DEF Pick
    <2> QED
      BY <2>1
  <1> HIDE DEF at, Pick, below, before, N
  <1>11. ASSUME NEW k \in 1..N, NEW l \in 1..N, at[k] = at[l] PROVE k = l
    <2>1. k - 1 = l - 1 /\ k \in Int /\ l \in Int
      BY <1>8, <1>11
    <2> QED
      BY <2>1
  <1>12. ASSUME NEW i \in D PROVE \E k \in 1..N : at[k] = i
    <2> DEFINE k == Cardinality(below[i]) + 1
    <2>1. k \in 1..N /\ k - 1 = Cardinality(below[i])
      BY <1>6
    <2>2. at[k] \in D /\ Cardinality(below[at[k]]) = Cardinality(below[i])
      BY <1>8, <2>1
    <2>3. at[k] = i
      <3>0. Cardinality(below[i]) \in Int
        BY <1>6
      <3>1. ~ (at[k] \in below[i])
        <4>1. at[k] \in below[i] => Cardinality(below[at[k]]) < Cardinality(below[i])
          BY <1>6, <2>2
        <4> QED
          BY <2>2, <3>0, <4>1
      <3>2. ~ (i \in below[at[k]])
        <4>1. i \in below[at[k]] => Cardinality(below[i]) < Cardinality(below[at[k]])
          BY <1>6, <2>2
        <4> QED
          BY <2>2, <3>0, <4>1
      <3> QED
        BY <1>3, <2>2, <3>1, <3>2
    <2> QED
      BY <2>1, <2>3
  <1>13. ASSUME NEW k \in 1..N, NEW l \in 1..N, k <= l
         PROVE  s[at[k]].start <= s[at[l]].start
    <2>1. at[k] \in D /\ at[l] \in D
      BY <1>8
    <2>2. CASE at[k] = at[l]
      <3>1. s[at[k]].start \in Int
        BY <1>2, <2>1
      <3> QED
        BY <2>2, <3>1
    <2>3. CASE at[k] \in below[at[l]]
      BY <1>3, <2>1, <2>3
    <2>4. CASE at[l] \in below[at[k]]
      <3>1. Cardinality(below[at[l]]) < Cardinality(below[at[k]])
        BY <1>6, <2>1, <2>4
      <3> QED
        BY <1>8, <1>13, <3>1
    <2> QED
      BY <1>3, <2>1, <2>2, <2>3, <2>4
  <1>14. at \in Bijection(1..N, D)
    <2>1. at \in Injection(1..N, D)
      BY <1>10, <1>11 DEF Injection, IsInjective
    <2>2. at \in Surjection(1..N, D)
      BY <1>10, <1>12 DEF Surjection
    <2> QED
      BY <2>1, <2>2 DEF Bijection
  <1>15. SortOf(s, D, at)
    BY <1>9, <1>13, <1>14 DEF SortOf, N
  <1> QED
    BY <1>1, <1>6, <1>15 DEF N

LEMMA SortedIs ==
  ASSUME NEW S, NEW s \in Seq(S), NEW D \in SUBSET (1..Len(s)),
         \A i \in 1..Len(s) : s[i].start \in Int /\ s[i].end \in Int
  PROVE  /\ SortedAt(s, D) \in Seq(S)
         /\ Len(SortedAt(s, D)) = Cardinality(D) /\ Cardinality(D) \in Nat
         /\ \A k \in 1..Cardinality(D) : \E i \in D : SortedAt(s, D)[k] = s[i]
         /\ \A k, l \in 1..Cardinality(D) :
               k <= l => SortedAt(s, D)[k].start <= SortedAt(s, D)[l].start
  <1> DEFINE N == Cardinality(D)
  <1>1. N \in Nat /\ \E at : SortOf(s, D, at)
    BY SortingIsOrder
  <1>2. PICK at : SortOf(s, D, at)
    BY <1>1
  <1>3. /\ at \in [1..N -> D]
        /\ SortedAt(s, D) = [k \in 1..N |-> s[at[k]]]
        /\ \A k, l \in 1..N : k <= l => s[at[k]].start <= s[at[l]].start
    BY <1>2 DEF SortOf, Bijection, Injection
  <1> HIDE DEF N
  <1>4. \A k \in 1..N : at[k] \in D /\ s[at[k]] \in S
    <2>1. \A i \in D : s[i] \in S
      OBVIOUS
    <2>2. \A k \in 1..N : at[k] \in D
      BY <1>3
    <2> QED
      BY <2>1, <2>2
  <1>5. SortedAt(s, D) \in [1..N -> S]
    BY <1>3, <1>4
  <1>6. SortedAt(s, D) \in Seq(S) /\ Len(SortedAt(s, D)) = N
    BY <1>1, <1>5
  <1> QED
    BY <1>1, <1>3, <1>4, <1>6 DEF N

----------------------------------------------------------------------------
(* Who speaks.                                                             *)

LEMMA FirstLeastIs ==
  ASSUME NEW N \in Nat \ {0}, NEW v \in [1..N -> Int]
  PROVE  FirstLeast(v) \in 1..N /\ \A j \in 1..N : v[FirstLeast(v)] <= v[j]
  <1> DEFINE S == {v[i] : i \in 1..N}
  <1>1. DOMAIN v = 1..N /\ v = [i \in 1..N |-> v[i]] /\ 1 \in 1..N
    OBVIOUS
  <1>2. IsFiniteSet(S)
    BY <1>1, FiniteValues
  <1>3. S \subseteq Int /\ S # {}
    BY <1>1
  <1>4. PICK m \in S : \A k \in S : m <= k
    <2> HIDE DEF S
    <2> QED
      BY <1>2, <1>3, ExtremesExist
  <1> DEFINE I == {i \in 1..N : v[i] = m}
  <1>5. PICK i \in I : \A j \in I : i <= j
    <2>1. I \subseteq Nat /\ I # {}
      OBVIOUS
    <2> HIDE DEF I
    <2> QED
      BY <2>1, LeastExists
  <1>6. \A j \in 1..N : v[i] < v[j] \/ (v[i] = v[j] /\ i <= j)
    <2> TAKE j \in 1..N
    <2>1. v[i] = m /\ m <= v[j] /\ v[j] \in Int /\ m \in Int
      BY <1>3, <1>4
    <2>2. v[j] = m => i <= j
      BY <1>5
    <2> QED
      BY <2>1, <2>2
  <1> DEFINE First(k) == \A j \in 1..N : v[k] < v[j] \/ (v[k] = v[j] /\ k <= j)
  <1>7. i \in 1..N /\ First(i)
    BY <1>6
  <1>8. FirstLeast(v) = CHOOSE k \in 1..N : First(k)
    BY <1>1 DEF FirstLeast
  <1>9. FirstLeast(v) \in 1..N /\ First(FirstLeast(v))
    <2> HIDE DEF First
    <2> QED
      BY <1>7, <1>8
  <1> QED
    BY <1>9

Speech == [start : Int, end : Int, spk : Nat]

\* The ticks that segment s shares with unit u.
SharedTicks(u, s) == {t \in u.start .. u.end - 1 : s.start <= t /\ t < s.end}

LEMMA OverlapIsShared ==
  ASSUME NEW u \in Unit, NEW s \in Speech
  PROVE  /\ Overlap(u, s) \in Int
         /\ SharedTicks(u, s) # {} <=> Overlap(u, s) > 0
         /\ Cardinality(SharedTicks(u, s)) = IF Overlap(u, s) > 0 THEN Overlap(u, s) ELSE 0
  <1> DEFINE a == IF u.start >= s.start THEN u.start ELSE s.start
             b == IF u.end <= s.end THEN u.end ELSE s.end
  <1>1. u.start \in Int /\ u.end \in Int /\ s.start \in Int /\ s.end \in Int
    BY DEF Unit, Speech
  <1>2. Overlap(u, s) = b - a
    BY <1>1, TwoExtremes DEF Overlap
  <1>3. SharedTicks(u, s) = a .. b - 1
    BY <1>1 DEF SharedTicks
  <1>4. a \in Int /\ b \in Int /\ b - 1 \in Int
    BY <1>1
  <1>5. Cardinality(a .. b - 1) = IF a > b - 1 THEN 0 ELSE b - 1 - a + 1
    <2> HIDE DEF a, b
    <2> QED
      BY <1>4, FS_Interval
  <1> HIDE DEF a, b
  <1>6. a .. b - 1 # {} <=> b - a > 0
    <2>1. b - a > 0 => a \in a .. b - 1
      BY <1>4
    <2>2. \A x \in a .. b - 1 : b - a > 0
      BY <1>4
    <2> QED
      BY <2>1, <2>2, Zenon
  <1> QED
    BY <1>2, <1>3, <1>4, <1>5, <1>6

(* SpeakerFor answers with somebody who speaks during the unit, if anybody *)
(* does, and for a longer unit with who shares most ticks with it.         *)
LEMMA SpeakerIsHeard ==
  ASSUME NEW u \in Unit, NEW segs \in Seq(Speech),
         \A j \in 1..Len(segs) : segs[j].start < segs[j].end,
         NEW h \in 1..Len(segs), SharedTicks(u, segs[h]) # {}
  PROVE  \E j \in 1..Len(segs) :
            /\ SharedTicks(u, segs[j]) # {}
            /\ segs[j].spk = SpeakerFor(u, segs)
            /\ u.end - u.start > ShortToken =>
                  \A i \in 1..Len(segs) : Cardinality(SharedTicks(u, segs[i]))
                                             <= Cardinality(SharedTicks(u, segs[j]))
  <1> DEFINE N == Len(segs)
             B == Boundaries(u, segs)
  <1>1. N \in Nat \ {0} /\ segs # <<>> /\ u.start \in Int /\ u.end \in Int
        /\ \A j \in 1..N : segs[j] \in Speech /\ segs[j].start \in Int /\ segs[j].end \in Int
    <2>1. N \in Nat \ {0} /\ u.start \in Int /\ u.end \in Int
      BY DEF Unit
    <2>2. segs # <<>>
      BY <2>1, EmptySeq
    <2>3. \A s \in Speech : s.start \in Int /\ s.end \in Int
      BY DEF Speech
    <2> QED
      BY <2>1, <2>2, <2>3
  <1>2. CASE u.end - u.start \in 1..ShortToken /\ B # {}
    <2>1. SpeakerFor(u, segs) = segs[Min(B)].spk
      BY <1>2 DEF SpeakerFor
    <2>2. Min(B) \in B
      <3>1. B \subseteq 1..N
        BY DEF Boundaries
      <3>2. IsFiniteSet(1..N)
        BY <1>1, FS_Interval
      <3>3. IsFiniteSet(B) /\ B \subseteq Int
        BY <3>1, <3>2, FS_Subset
      <3> HIDE DEF B
      <3> QED
        BY <1>2, <3>3, ExtremesOf
    <2> DEFINE j == Min(B)
    <2>3. j \in 1..N /\ u.start < segs[j].start /\ segs[j].start < u.end
      <3>1. \A i \in B : i \in 1..N /\ u.start < segs[i].start /\ segs[i].start < u.end
        BY DEF Boundaries
      <3> HIDE DEF B
      <3> QED
        BY <2>2, <3>1
    <2> HIDE DEF j
    <2>4. segs[j].start \in SharedTicks(u, segs[j])
      BY <1>1, <2>3, SMTT(30) DEF SharedTicks
    <2>5. ~ (u.end - u.start > ShortToken)
      BY <1>1, <1>2, TokenAssumption
    <2> QED
      BY <2>1, <2>3, <2>4, <2>5 DEF j
  <1>3. CASE ~ (u.end - u.start \in 1..ShortToken /\ B # {})
    <2> DEFINE v == [i \in DOMAIN segs |-> -Overlap(u, segs[i])]
               j == FirstLeast(v)
    <2>1. \A i \in 1..N : Overlap(u, segs[i]) \in Int
      BY <1>1, OverlapIsShared
    <2>2. v \in [1..N -> Int] /\ \A i \in 1..N : v[i] = -Overlap(u, segs[i])
      BY <2>1
    <2>3. j \in 1..N /\ \A i \in 1..N : v[j] <= v[i]
      <3> HIDE DEF v
      <3> QED
        BY <1>1, <2>2, FirstLeastIs
    <2>4. SpeakerFor(u, segs) = SpeakerForRange(u, segs)
      BY <1>3 DEF SpeakerFor
    <2>5. v[j] < 0 => SpeakerForRange(u, segs) = segs[j].spk
      BY <1>1 DEF SpeakerForRange
    <2> HIDE DEF v, j
    <2>6. \A i \in 1..N : Overlap(u, segs[i]) <= Overlap(u, segs[j])
      BY <2>1, <2>2, <2>3
    <2>7. Overlap(u, segs[h]) > 0
      BY <1>1, OverlapIsShared
    <2>8. Overlap(u, segs[j]) > 0 /\ v[j] < 0
      BY <2>1, <2>2, <2>3, <2>6, <2>7
    <2>9. SharedTicks(u, segs[j]) # {}
      BY <1>1, <2>3, <2>8, OverlapIsShared
    <2>10. ASSUME NEW i \in 1..N
           PROVE  Cardinality(SharedTicks(u, segs[i])) <= Cardinality(SharedTicks(u, segs[j]))
      <3>1. /\ Cardinality(SharedTicks(u, segs[i])) =
                  IF Overlap(u, segs[i]) > 0 THEN Overlap(u, segs[i]) ELSE 0
            /\ Cardinality(SharedTicks(u, segs[j])) =
                  IF Overlap(u, segs[j]) > 0 THEN Overlap(u, segs[j]) ELSE 0
        BY <1>1, <2>3, OverlapIsShared
      <3> QED
        BY <2>1, <2>3, <2>6, <2>8, <3>1
    <2> QED
      BY <2>3, <2>4, <2>5, <2>8, <2>9, <2>10
  <1> QED
    BY <1>2, <1>3

LEMMA ClosedLabelled ==
  ASSUME LoopIInv, SpeakerIInv
  PROVE  /\ Len(Closed) \in Nat
         /\ \A k \in 1..Len(Closed) : Labelled(Closed[k])
  <1>1. Len(merged) \in Nat /\ merged = [k \in 1..Len(merged) |-> merged[k]]
    BY DEF LoopIInv, LoopShape
  <1>2. CASE current = NoGroup \/ IsBlank(current)
    BY <1>1, <1>2 DEF Closed, SpeakerIInv
  <1>3. CASE ~ (current = NoGroup \/ IsBlank(current))
    <2>1. Closed = Append(merged, current) /\ Labelled(current)
      BY <1>3 DEF Closed, SpeakerIInv
    <2>2. /\ Len(Closed) = Len(merged) + 1
          /\ \A k \in 1..Len(merged) : Closed[k] = merged[k]
          /\ Closed[Len(merged) + 1] = current
      BY <1>1, <2>1, AppendAny
    <2>3. \A k \in 1..Len(Closed) : k \in 1..Len(merged) \/ k = Len(merged) + 1
      BY <1>1, <2>2
    <2> QED
      BY <1>1, <2>1, <2>2, <2>3 DEF SpeakerIInv
  <1> QED
    BY <1>2, <1>3

LEMMA MergeUnitSpeaker ==
  ASSUME LoopIInv, SpeakerIInv, MergeUnit
  PROVE  SpeakerIInv'
  <1> DEFINE spk == SpeakerFor(units[next], speakers)
  <1>1. /\ UNCHANGED <<units, speakers>> /\ next \in Nat /\ next >= 1
        /\ \A g : Labelled(g)' <=> Labelled(g)
    BY DEF MergeUnit, LoopIInv, LoopShape, Labelled
  <1>2. /\ speakers' \in Seq([start : Int, end : Int, spk : Nat])
        /\ \A j \in 1..Len(speakers') : speakers'[j].start < speakers'[j].end
    BY <1>1 DEF SpeakerIInv
  <1>3. CASE current # NoGroup /\ current.spk = spk
    <2>1. current' = [current EXCEPT !.to = next] /\ merged' = merged
      BY <1>3 DEF MergeUnit
    <2>2. /\ current \in [from : Nat, to : Nat, spk : {current.spk}]
          /\ current.from \in 1 .. current.to /\ current.to = next - 1
      BY <1>3 DEF LoopIInv, LoopShape
    <2>3. current'.from = current.from /\ current'.to = next /\ current'.spk = current.spk
      BY <2>1, <2>2
    <2>4. ASSUME NEW i \in current'.from .. current'.to
          PROVE  current'.spk = SpeakerFor(units[i], speakers)
      <3>1. i = next \/ i \in current.from .. current.to
        BY <1>1, <2>2, <2>3
      <3>2. ASSUME i \in current.from .. current.to
            PROVE  current.spk = SpeakerFor(units[i], speakers)
        BY <1>3, <3>2 DEF SpeakerIInv, Labelled
      <3> QED
        BY <1>3, <2>3, <3>1, <3>2, Zenon
    <2>5. Labelled(current)'
      BY <1>1, <2>4 DEF Labelled
    <2>6. \A k \in 1..Len(merged) : Labelled(merged[k])'
      BY <1>1, <2>1 DEF SpeakerIInv, Labelled
    <2> QED
      BY <1>2, <2>1, <2>5, <2>6 DEF SpeakerIInv
  <1>4. CASE ~ (current # NoGroup /\ current.spk = spk)
    <2>1. current' = [from |-> next, to |-> next, spk |-> spk] /\ merged' = Closed
      BY <1>4 DEF MergeUnit
    <2>2. Labelled(current')
      <3>1. current'.from = next /\ current'.to = next /\ current'.spk = spk
        BY <2>1
      <3>2. \A i \in next .. next : i = next
        BY <1>1
      <3> QED
        BY <3>1, <3>2, Zenon DEF Labelled
    <2>3. \A k \in 1..Len(merged') : Labelled(merged'[k])
      BY <2>1, ClosedLabelled
    <2> QED
      BY <1>1, <1>2, <2>2, <2>3 DEF SpeakerIInv
  <1> QED
    BY <1>3, <1>4

LEMMA MergeEndsSpeaker ==
  ASSUME LoopIInv, SpeakerIInv, MergeEnds
  PROVE  SpeakerIInv'
  <1>1. /\ UNCHANGED <<units, speakers>> /\ merged' = Closed /\ current' = NoGroup
        /\ \A g : Labelled(g)' <=> Labelled(g)
    BY DEF MergeEnds, Labelled
  <1> QED
    BY <1>1, ClosedLabelled DEF SpeakerIInv

LEMMA SpeakerIInvIsHeard ==
  ASSUME LoopIInv, SpeakerIInv
  PROVE  SpeakerHeard
  <1>1. /\ Len(merged) \in Nat /\ merged = [k \in 1..Len(merged) |-> merged[k]]
        /\ units \in Seq(Unit) /\ Len(units) \in Nat /\ next \in Nat
    BY DEF LoopIInv, LoopShape
  <1>2. /\ DOMAIN Groups = 1..Len(Groups)
        /\ \A k \in 1..Len(Groups) : Labelled(Groups[k])
    <2>1. CASE current = NoGroup
      BY <1>1, <2>1 DEF Groups, SpeakerIInv
    <2>2. CASE current # NoGroup
      <3>1. Groups = Append(merged, current) /\ Labelled(current)
        BY <2>2 DEF Groups, SpeakerIInv
      <3>2. /\ Len(Groups) = Len(merged) + 1
            /\ \A k \in 1..Len(merged) : Groups[k] = merged[k]
            /\ Groups[Len(merged) + 1] = current
            /\ Groups = [k \in 1..Len(merged) + 1 |-> Groups[k]]
        BY <1>1, <3>1, AppendAny
      <3>3. \A k \in 1..Len(Groups) : k \in 1..Len(merged) \/ k = Len(merged) + 1
        BY <1>1, <3>2
      <3> QED
        BY <1>1, <3>1, <3>2, <3>3 DEF SpeakerIInv
    <2> QED
      BY <2>1, <2>2
  <1>3. ASSUME NEW k \in 1..Len(Groups), NEW i \in Groups[k].from .. Groups[k].to
        PROVE  i \in 1..Len(units) /\ units[i] \in Unit
    <2>1. PICK limit \in 1 .. Len(units) + 1 : InOrder(Groups, limit)
      <3> DEFINE limit == IF next > Len(units) THEN Len(units) + 1 ELSE next
      <3>1. next >= 1
        BY DEF LoopIInv, LoopShape
      <3>2. limit \in 1 .. Len(units) + 1
        BY <1>1, <3>1
      <3>3. InOrder(Groups, limit)
        BY IInvIsExact DEF MergeExact
      <3> QED
        BY <3>2, <3>3
    <2>2. Groups[k].to \in 1 .. limit - 1 /\ Groups[k].from \in 1 .. Groups[k].to
      BY <2>1 DEF InOrder
    <2>3. i \in 1..Len(units)
      BY <1>1, <2>1, <2>2, SMTT(30)
    <2> QED
      BY <1>1, <2>3
  <1>4. speakers \in Seq(Speech) /\ \A j \in 1..Len(speakers) : speakers[j].start < speakers[j].end
        /\ DOMAIN speakers = 1..Len(speakers)
    BY DEF SpeakerIInv, Speech
  <1>5. ASSUME NEW k \in DOMAIN Groups, NEW i \in Groups[k].from .. Groups[k].to
        PROVE  LET shared == [j \in DOMAIN speakers |->
                                {t \in units[i].start .. units[i].end - 1 :
                                    speakers[j].start <= t /\ t < speakers[j].end}]
                   heard  == {j \in DOMAIN speakers : shared[j] # {}}
               IN  heard # {} =>
                     \E j \in heard :
                        /\ speakers[j].spk = Groups[k].spk
                        /\ units[i].end - units[i].start > ShortToken =>
                              \A h \in heard : Cardinality(shared[h]) <= Cardinality(shared[j])
    <2>1. units[i] \in Unit /\ Groups[k].spk = SpeakerFor(units[i], speakers)
      BY <1>2, <1>3, <1>5 DEF Labelled
    <2> DEFINE shared == [j \in DOMAIN speakers |->
                            {t \in units[i].start .. units[i].end - 1 :
                                speakers[j].start <= t /\ t < speakers[j].end}]
               heard  == {j \in DOMAIN speakers : shared[j] # {}}
    <2>2. \A j \in 1..Len(speakers) : shared[j] = SharedTicks(units[i], speakers[j])
      BY <1>4 DEF SharedTicks
    <2> HIDE DEF shared
    <2> SUFFICES ASSUME NEW h \in heard
                 PROVE  \E j \in heard :
                          /\ speakers[j].spk = Groups[k].spk
                          /\ units[i].end - units[i].start > ShortToken =>
                                \A g \in heard : Cardinality(shared[g]) <= Cardinality(shared[j])
      BY DEF shared
    <2>3. h \in 1..Len(speakers) /\ SharedTicks(units[i], speakers[h]) # {}
      BY <1>4, <2>2
    <2>4. PICK j \in 1..Len(speakers) :
            /\ SharedTicks(units[i], speakers[j]) # {}
            /\ speakers[j].spk = SpeakerFor(units[i], speakers)
            /\ units[i].end - units[i].start > ShortToken =>
                  \A g \in 1..Len(speakers) : Cardinality(SharedTicks(units[i], speakers[g]))
                                                <= Cardinality(SharedTicks(units[i], speakers[j]))
      BY <1>4, <2>1, <2>3, SpeakerIsHeard
    <2>5. j \in heard
      BY <1>4, <2>2, <2>4
    <2>6. ASSUME units[i].end - units[i].start > ShortToken, NEW g \in heard
          PROVE  Cardinality(shared[g]) <= Cardinality(shared[j])
      <3>1. g \in 1..Len(speakers)
        BY <1>4
      <3> QED
        BY <2>2, <2>4, <2>6, <3>1
    <2> QED
      BY <2>1, <2>4, <2>5, <2>6
  <1> QED
    BY <1>5, Zenon DEF SpeakerHeard

----------------------------------------------------------------------------
(* What the models return.                                                 *)

(* An utterance lies between a and b, one unit after the other.            *)
LEMMA UtteranceIs ==
  ASSUME NEW a \in Int, NEW b \in Int, NEW n \in Nat, NEW u \in Utterances(a, b, n)
  PROVE  /\ u \in Seq(Times)
         /\ \A i \in 1..Len(u) : a <= u[i].start /\ u[i].start < u[i].end /\ u[i].end <= b
         /\ \A i \in 1..Len(u) : u[i].end <= u[Len(u)].end
  <1>1. PICK m \in 0..n : u \in [1..m -> {v \in [start : a..b, end : a..b] : v.start < v.end}]
    BY DEF Utterances, SeqOf
  <1>2. \A i \in 1..m : u[i] \in Times /\ a <= u[i].start /\ u[i].start < u[i].end /\ u[i].end <= b
    BY <1>1 DEF Times
  <1>3. u \in [1..m -> Times] /\ m \in Nat
    BY <1>1, <1>2
  <1>4. u \in Seq(Times) /\ Len(u) = m
    BY <1>3
  <1>5. \A i \in 2..m : u[i - 1].end <= u[i].start
    BY <1>4 DEF Utterances
  <1> DEFINE R == {k \in 0..m : \A i \in 1..k : u[i].end <= u[k].end}
  <1>6. 0 \in R
    BY <1>3
  <1>7. ASSUME NEW k \in 0 .. m - 1, k \in R PROVE k + 1 \in R
    <2>1. k + 1 \in 1..m /\ k \in Nat /\ (k + 1) - 1 = k
      BY <1>3
    <2>2. u[k + 1].start \in Int /\ u[k + 1].end \in Int /\ u[k + 1].start < u[k + 1].end
      BY <1>2, <2>1 DEF Times
    <2>3. ASSUME NEW i \in 1 .. k + 1 PROVE u[i].end <= u[k + 1].end
      <3>1. CASE i = k + 1
        BY <2>2, <3>1
      <3>2. CASE i # k + 1
        <4>1. i \in 1..k /\ i \in 1..m /\ k \in 1..m /\ k + 1 \in 2..m
          BY <2>1, <3>2
        <4>2. u[i].end <= u[k].end
          BY <1>7, <4>1
        <4>3. u[(k + 1) - 1].end <= u[k + 1].start
          BY <1>5, <4>1
        <4>4. u[i].end \in Int /\ u[k].end \in Int /\ u[k].end <= u[k + 1].start
          BY <1>2, <2>1, <4>1, <4>3 DEF Times
        <4> QED
          BY <2>2, <4>2, <4>4
      <3> QED
        BY <3>1, <3>2
    <2>4. k + 1 \in 0..m
      BY <2>1
    <2> QED
      BY <2>3, <2>4
  <1>8. m \in R
    <2> HIDE DEF R
    <2>1. 0..m \subseteq R
      BY <1>3, <1>6, <1>7, CountingUp
    <2> QED
      BY <1>3, <2>1
  <1> QED
    BY <1>2, <1>4, <1>8

LEMMA StampsIs ==
  ASSUME NEW u \in Seq(Times), NEW s \in Stamps(u)
  PROVE  s \in Seq(Times) /\ (Len(s) = Len(u) => s = u)
  <1>1. CASE s = u
    BY <1>1
  <1>2. CASE s # u
    <2>1. u # <<>> /\ (s = <<>> \/ s = Front(u))
      BY <1>2 DEF Stamps
    <2>2. Len(u) \in Nat \ {0} /\ Len(u) - 1 \in Nat
      BY <2>1, EmptySeq
    <2>3. CASE s = <<>>
      BY <2>2, <2>3, EmptySeq
    <2>4. CASE s = Front(u)
      <3>1. \A i \in 1 .. Len(u) - 1 : u[i] \in Times
        BY <2>2
      <3>2. s \in Seq(Times) /\ Len(s) = IF 1 <= Len(u) - 1 THEN Len(u) - 1 - 1 + 1 ELSE 0
        BY <2>2, <2>4, <3>1, SubSeqProperties DEF Front
      <3> QED
        BY <2>2, <3>2
    <2> QED
      BY <2>1, <2>3, <2>4
  <1> QED
    BY <1>1, <1>2

LEMMA IntervalIs ==
  /\ \A x, y \in Int : Interval(x, y) \in Times
  /\ \A x, y : Interval(x, y).start = x /\ Interval(x, y).end = y
  /\ \A t \in Times : t = Interval(t.start, t.end) /\ t.start \in Int /\ t.end \in Int
  BY DEF Interval, Times

LEMMA ShiftIs ==
  ASSUME NEW s \in Seq(Times), NEW by \in Int
  PROVE  /\ Shift(s, by) \in Seq(Times)
         /\ Len(Shift(s, by)) = Len(s)
         /\ \A i \in 1..Len(s) : /\ Shift(s, by)[i] = Interval(s[i].start + by, s[i].end + by)
                                 /\ Shift(s, by)[i].start = s[i].start + by
                                 /\ Shift(s, by)[i].end = s[i].end + by
  <1>1. Len(s) \in Nat /\ DOMAIN s = 1..Len(s)
    OBVIOUS
  <1>2. \A i \in 1..Len(s) : Interval(s[i].start + by, s[i].end + by) \in Times
    <2> TAKE i \in 1..Len(s)
    <2>1. s[i].start \in Int /\ s[i].end \in Int
      BY IntervalIs
    <2> QED
      BY <2>1, IntervalIs
  <1>3. Shift(s, by) = [i \in 1..Len(s) |-> Interval(s[i].start + by, s[i].end + by)]
    BY <1>1 DEF Shift
  <1>4. Shift(s, by) \in [1..Len(s) -> Times]
    BY <1>2, <1>3
  <1> QED
    BY <1>1, <1>3, <1>4, IntervalIs

(* Shifting there and back changes nothing.                                *)
LEMMA ShiftBack ==
  ASSUME NEW s \in Seq(Times), NEW by \in Int
  PROVE  Shift(Shift(s, -by), by) = s
  <1> DEFINE a == Shift(s, -by)
             c == Shift(a, by)
  <1>0. -by \in Int
    OBVIOUS
  <1>1. /\ a \in Seq(Times) /\ Len(a) = Len(s)
        /\ \A i \in 1..Len(s) : a[i].start = s[i].start + (-by) /\ a[i].end = s[i].end + (-by)
    BY <1>0, ShiftIs
  <1> HIDE DEF a
  <1>2. /\ c \in Seq(Times) /\ Len(c) = Len(s)
        /\ \A i \in 1..Len(s) : c[i] = Interval(a[i].start + by, a[i].end + by)
    BY <1>1, ShiftIs
  <1> HIDE DEF c
  <1>3. \A i \in 1..Len(s) : c[i] = s[i]
    <2> TAKE i \in 1..Len(s)
    <2>1. s[i].start \in Int /\ s[i].end \in Int /\ s[i] = Interval(s[i].start, s[i].end)
      BY IntervalIs
    <2>2. a[i].start + by = s[i].start /\ a[i].end + by = s[i].end
      BY <1>1, <2>1
    <2> QED
      BY <1>2, <2>1, <2>2
  <1>4. c = s
    BY <1>1, <1>2, <1>3, SeqEqual
  <1> QED
    BY <1>4 DEF a, c

LEMMA SliceIs ==
  ASSUME NEW v \in Times
  PROVE  /\ Slice(v).from \in Int /\ Slice(v).to \in Int /\ Slice(v).offset = Slice(v).from
  <1>1. v.start - Padding \in Int /\ v.end + Padding \in Int /\ Duration \in Int /\ 0 \in Int
    BY ResultAssumption DEF Times
  <1>2. Max({0, v.start - Padding}) \in Int /\ Min({Duration, v.end + Padding}) \in Int
    <2> DEFINE a == v.start - Padding
               b == v.end + Padding
    <2> HIDE DEF a, b
    <2> QED
      BY <1>1, TwoExtremes DEF a, b
  <1> QED
    BY <1>2 DEF Slice

(* The windows are intervals in the order of their starts.                 *)
LEMMA WindowsAre ==
  ASSUME NEW out \in VadOutputs
  PROVE  /\ VadSegments(out) \in Seq(Times)
         /\ \A i, j \in 1..Len(VadSegments(out)) :
               i <= j => VadSegments(out)[i].start <= VadSegments(out)[j].start
  <1> DEFINE usable == {i \in Valid(out) : out[i].start >= 0}
  <1>1. out \in Seq(Times) /\ usable \in SUBSET (1..Len(out))
    BY ResultAssumption DEF Valid
  <1>2. CASE usable = {}
    <2>1. Interval(0, Duration) \in Times /\ Interval(0, Duration).start \in Int
      BY ResultAssumption, IntervalIs
    <2>2. VadSegments(out) = <<Interval(0, Duration)>>
      BY <1>2 DEF VadSegments
    <2> QED
      BY <2>1, <2>2
  <1>3. CASE usable # {}
    <2>1. \A i \in 1..Len(out) : out[i].start \in Int /\ out[i].end \in Int
      BY <1>1, IntervalIs
    <2>2. VadSegments(out) = SortedAt(out, usable)
      BY <1>3 DEF VadSegments
    <2> HIDE DEF usable
    <2> QED
      BY <1>1, <2>1, <2>2, SortedIs
  <1> QED
    BY <1>2, <1>3

LEMMA SpeakersAre ==
  ASSUME NEW out \in Diarizations
  PROVE  /\ SpeakerSegments(out) \in Seq(Speech)
         /\ \A j \in 1..Len(SpeakerSegments(out)) :
               SpeakerSegments(out)[j].start < SpeakerSegments(out)[j].end
  <1> DEFINE segs == SpeakerSegments(out)
  <1>1. out \in Seq(Speech) /\ Valid(out) \in SUBSET (1..Len(out))
    BY ResultAssumption, SMTT(30) DEF Valid, Speech
  <1>2. \A i \in 1..Len(out) : out[i].start \in Int /\ out[i].end \in Int
    <2>1. \A s \in Speech : s.start \in Int /\ s.end \in Int
      BY DEF Speech
    <2> QED
      BY <1>1, <2>1
  <1>3. /\ segs \in Seq(Speech) /\ Len(segs) = Cardinality(Valid(out))
        /\ \A k \in 1..Cardinality(Valid(out)) : \E i \in Valid(out) : segs[k] = out[i]
    BY <1>1, <1>2, SortedIs DEF SpeakerSegments
  <1> HIDE DEF segs
  <1>4. ASSUME NEW j \in 1..Len(segs) PROVE segs[j].start < segs[j].end
    <2>1. PICK i \in Valid(out) : segs[j] = out[i]
      BY <1>3
    <2> QED
      BY <1>1, <1>2, <2>1 DEF Valid
  <1> QED
    BY <1>3, <1>4 DEF segs

----------------------------------------------------------------------------
(* The units of the merge.                                                 *)

LEMMA AlignIs ==
  ASSUME NEW firsts \in Seq(Nat), NEW to \in Nat, NEW stamps \in Seq(Times)
  PROVE  LET n == IF Len(firsts) <= Len(stamps) THEN Len(firsts) ELSE Len(stamps)
         IN  /\ n \in Nat
             /\ Align(firsts, to, stamps) \in Seq(Unit)
             /\ Len(Align(firsts, to, stamps)) = n
             /\ \A i \in 1..n :
                   /\ Align(firsts, to, stamps)[i].from = firsts[i]
                   /\ Align(firsts, to, stamps)[i].to = IF i < n THEN firsts[i + 1] - 1 ELSE to
                   /\ Align(firsts, to, stamps)[i].start = stamps[i].start
                   /\ Align(firsts, to, stamps)[i].end = stamps[i].end
  <1> DEFINE n == IF Len(firsts) <= Len(stamps) THEN Len(firsts) ELSE Len(stamps)
             U(i) == [from |-> firsts[i], to |-> IF i < n THEN firsts[i + 1] - 1 ELSE to,
                      start |-> stamps[i].start, end |-> stamps[i].end]
  <1>1. n \in Nat /\ Min({Len(firsts), Len(stamps)}) = n
    <2> DEFINE a == Len(firsts)
               b == Len(stamps)
    <2>1. a \in Nat /\ b \in Nat
      OBVIOUS
    <2> HIDE DEF a, b
    <2>2. Min({a, b}) = IF a <= b THEN a ELSE b
      BY <2>1, TwoExtremes
    <2> QED
      BY <2>1, <2>2 DEF a, b
  <1>2. Align(firsts, to, stamps) = [i \in 1..n |-> U(i)]
    BY <1>1 DEF Align
  <1>3. \A i \in 1..n : U(i) \in Unit
    <2> TAKE i \in 1..n
    <2>1. i \in 1..Len(stamps) /\ i \in 1..Len(firsts) /\ (i < n => i + 1 \in 1..Len(firsts))
      BY <1>1
    <2>2. stamps[i].start \in Int /\ stamps[i].end \in Int
      BY <2>1, IntervalIs
    <2>3. firsts[i] \in Int /\ (i < n => firsts[i + 1] - 1 \in Int)
      BY <2>1
    <2> QED
      BY <2>2, <2>3 DEF Unit
  <1> HIDE DEF n
  <1>4. Align(firsts, to, stamps) \in [1..n -> Unit]
    BY <1>2, <1>3
  <1>5. Align(firsts, to, stamps) \in Seq(Unit) /\ Len(Align(firsts, to, stamps)) = n
    BY <1>1, <1>4
  <1> QED
    BY <1>1, <1>2, <1>5 DEF n

(* The words of a sentence of PT are its units.                            *)
LEMMA AlignTextIs ==
  ASSUME NEW from \in Nat, NEW to \in Nat, from <= to + 1, NEW stamps \in Seq(Times)
  PROVE  LET n == IF to - from + 1 <= Len(stamps) THEN to - from + 1 ELSE Len(stamps)
             A == Align(Text(from, to), to, stamps)
         IN  /\ n \in Nat
             /\ A \in Seq(Unit)
             /\ Len(A) = n
             /\ \A i \in 1..n :
                   /\ A[i].from = from + i - 1
                   /\ A[i].to = IF i < n THEN from + i - 1 ELSE to
                   /\ A[i].start = stamps[i].start
                   /\ A[i].end = stamps[i].end
  <1> DEFINE text == Text(from, to)
             size == to - from + 1
             n == IF size <= Len(stamps) THEN size ELSE Len(stamps)
             A == Align(text, to, stamps)
  <1>1. size \in Nat /\ Len(stamps) \in Nat
    OBVIOUS
  <1>2. text = [i \in 1..size |-> from + i - 1]
    BY DEF Text
  <1>3. /\ text \in Seq(Nat) /\ Len(text) = size
        /\ \A i \in 1..size : text[i] = from + i - 1
    <2>1. \A i \in 1..size : from + i - 1 \in Nat
      BY <1>1
    <2> HIDE DEF size, text
    <2>2. text \in [1..size -> Nat]
      BY <1>2, <2>1
    <2> QED
      BY <1>1, <1>2, <2>2
  <1> HIDE DEF text, size
  <1>4. /\ n \in Nat /\ A \in Seq(Unit) /\ Len(A) = n
        /\ \A i \in 1..n : /\ A[i].from = text[i]
                           /\ A[i].to = IF i < n THEN text[i + 1] - 1 ELSE to
                           /\ A[i].start = stamps[i].start /\ A[i].end = stamps[i].end
    <2> DEFINE m == IF Len(text) <= Len(stamps) THEN Len(text) ELSE Len(stamps)
    <2>1. /\ m \in Nat /\ A \in Seq(Unit) /\ Len(A) = m
          /\ \A i \in 1..m : /\ A[i].from = text[i]
                             /\ A[i].to = IF i < m THEN text[i + 1] - 1 ELSE to
                             /\ A[i].start = stamps[i].start /\ A[i].end = stamps[i].end
      BY <1>3, AlignIs, ZenonT(60)
    <2>2. m = n
      BY <1>3
    <2> HIDE DEF m, A
    <2> QED
      BY <2>1, <2>2
  <1>5. /\ \A i \in 1..n : text[i] = from + i - 1
        /\ \A i \in 1..n : i < n => text[i + 1] - 1 = from + i - 1
    <2>1. \A i \in 1..n : i \in 1..size /\ (i < n => i + 1 \in 1..size)
      BY <1>1
    <2>2. \A i \in Nat : from + (i + 1) - 1 - 1 = from + i - 1
      OBVIOUS
    <2>3. \A i \in 1..n : i < n => text[i + 1] = from + (i + 1) - 1
      BY <1>3, <2>1
    <2> QED
      BY <1>1, <1>3, <2>1, <2>2, <2>3
  <1> HIDE DEF A, n
  <1>6. \A i \in 1..n : /\ A[i].from = from + i - 1
                        /\ A[i].to = IF i < n THEN from + i - 1 ELSE to
                        /\ A[i].start = stamps[i].start /\ A[i].end = stamps[i].end
    <2> TAKE i \in 1..n
    <2>1. /\ A[i].from = text[i] /\ A[i].to = IF i < n THEN text[i + 1] - 1 ELSE to
          /\ A[i].start = stamps[i].start /\ A[i].end = stamps[i].end
      BY <1>4
    <2>2. text[i] = from + i - 1 /\ (i < n => text[i + 1] - 1 = from + i - 1)
      BY <1>5
    <2> DEFINE v == from + i - 1
               t == text[i + 1] - 1
    <2>3. /\ A[i].to = IF i < n THEN t ELSE to
          /\ i < n => t = v
          /\ A[i].from = v
      BY <2>1, <2>2
    <2> HIDE DEF v, t
    <2>4. A[i].to = IF i < n THEN v ELSE to
      BY <2>3
    <2>5. A[i].from = from + i - 1
      BY <2>3 DEF v
    <2>6. A[i].to = IF i < n THEN from + i - 1 ELSE to
      BY <2>4 DEF v
    <2> QED
      BY <2>1, <2>5, <2>6
  <1> QED
    BY <1>4, <1>6 DEF A, n, size, text

LEMMA MaybeOffsetIs ==
  ASSUME NEW p \in Piece
  PROVE  /\ MaybeOffset(p) = p.stamps \/ MaybeOffset(p) = Shift(p.stamps, p.start)
         /\ MaybeOffset(p) \in Seq(Times) /\ Len(MaybeOffset(p)) = Len(p.stamps)
  <1>1. p.stamps \in Seq(Times) /\ p.start \in Int
    BY DEF Piece
  <1>2. MaybeOffset(p) = p.stamps \/ MaybeOffset(p) = Shift(p.stamps, p.start)
    BY DEF MaybeOffset
  <1>3. Shift(p.stamps, p.start) \in Seq(Times) /\ Len(Shift(p.stamps, p.start)) = Len(p.stamps)
    BY <1>1, ShiftIs
  <1> QED
    BY <1>1, <1>2, <1>3

(* A sentence gives the units of its timestamps, or one unit of its own.   *)
LEMMA SentenceUnits ==
  ASSUME NEW p \in Piece, p.from <= p.to + 1
  PROVE  /\ UnitsOfSentence(p) \in Seq(Unit)
         /\ \/ UnitsOfSentence(p) = <<Whole(p)>> /\ Whole(p) \in Unit
            \/ /\ Len(UnitsOfSentence(p)) # 0
               /\ UnitsOfSentence(p) = Align(Text(p.from, p.to), p.to, MaybeOffset(p))
         /\ p.from <= p.to /\ Len(p.stamps) # 0 =>
               UnitsOfSentence(p) = Align(Text(p.from, p.to), p.to, MaybeOffset(p))
  <1> DEFINE tokens == Align(Text(p.from, p.to), p.to, MaybeOffset(p))
  <1>1. p.from \in Nat /\ p.to \in Nat /\ MaybeOffset(p) \in Seq(Times)
        /\ Len(MaybeOffset(p)) = Len(p.stamps) /\ Len(p.stamps) \in Nat
    BY MaybeOffsetIs DEF Piece
  <1>2. tokens \in Seq(Unit) /\ (p.from <= p.to /\ Len(p.stamps) # 0 => Len(tokens) # 0)
    <2> DEFINE from == p.from
               to == p.to
               stamps == MaybeOffset(p)
    <2> HIDE DEF from, to, stamps
    <2>1. from \in Nat /\ to \in Nat /\ from <= to + 1 /\ stamps \in Seq(Times)
      BY <1>1 DEF from, to, stamps
    <2>2. /\ Align(Text(from, to), to, stamps) \in Seq(Unit)
          /\ Len(Align(Text(from, to), to, stamps)) =
                IF to - from + 1 <= Len(stamps) THEN to - from + 1 ELSE Len(stamps)
      BY <2>1, AlignTextIs, ZenonT(60)
    <2>3. Len(stamps) = Len(p.stamps)
      BY <1>1 DEF stamps
    <2>4. from <= to /\ Len(p.stamps) # 0 => Len(Align(Text(from, to), to, stamps)) # 0
      BY <1>1, <2>1, <2>2, <2>3
    <2> QED
      BY <2>2, <2>4 DEF from, to, stamps
  <1>3. Whole(p) \in Unit
    BY DEF Whole, Unit, Piece
  <1>4. UnitsOfSentence(p) = IF tokens # <<>> THEN tokens ELSE <<Whole(p)>>
    BY DEF UnitsOfSentence
  <1> HIDE DEF tokens
  <1>5. tokens # <<>> <=> Len(tokens) # 0
    BY <1>2, EmptySeq
  <1>6. <<Whole(p)>> \in Seq(Unit)
    BY <1>3
  <1> QED
    BY <1>2, <1>3, <1>4, <1>5, <1>6 DEF tokens

LEMMA PieceTypes ==
  \A p \in Piece : /\ p.from \in Nat /\ p.to \in Nat /\ p.start \in Int /\ p.end \in Int
                   /\ p.stamps \in Seq(Times) /\ p.spk \in Nat
  BY DEF Piece

LEMMA StampsTyped ==
  ASSUME pieces \in Seq(Piece)
  PROVE  /\ [i \in DOMAIN pieces |-> pieces[i].stamps] \in Seq(Seq(Times))
         /\ Len([i \in DOMAIN pieces |-> pieces[i].stamps]) = Len(pieces)
         /\ AllStamps \in Seq(Times)
  <1> DEFINE lists == [i \in DOMAIN pieces |-> pieces[i].stamps]
  <1>1. Len(pieces) \in Nat /\ DOMAIN pieces = 1..Len(pieces)
        /\ \A i \in 1..Len(pieces) : pieces[i].stamps \in Seq(Times)
    BY PieceTypes
  <1>2. lists \in [1..Len(pieces) -> Seq(Times)]
    BY <1>1
  <1>3. lists \in Seq(Seq(Times)) /\ Len(lists) = Len(pieces)
    BY <1>1, <1>2
  <1>4. AllStamps = FlattenSeq(lists)
    BY DEF AllStamps
  <1> HIDE DEF lists
  <1>5. AllStamps \in Seq(Times)
    BY <1>3, <1>4, FlattenType
  <1> QED
    BY <1>3, <1>5 DEF lists

LEMMA SentencesTyped ==
  ASSUME pieces \in Seq(Piece), Divided
  PROVE  /\ [i \in DOMAIN pieces |-> UnitsOfSentence(pieces[i])] \in Seq(Seq(Unit))
         /\ Len([i \in DOMAIN pieces |-> UnitsOfSentence(pieces[i])]) = Len(pieces)
         /\ \A i \in 1..Len(pieces) :
               [j \in DOMAIN pieces |-> UnitsOfSentence(pieces[j])][i] = UnitsOfSentence(pieces[i])
  <1> DEFINE lists == [i \in DOMAIN pieces |-> UnitsOfSentence(pieces[i])]
  <1>1. Len(pieces) \in Nat /\ DOMAIN pieces = 1..Len(pieces)
    OBVIOUS
  <1>2. ASSUME NEW i \in 1..Len(pieces) PROVE UnitsOfSentence(pieces[i]) \in Seq(Unit)
    <2>1. pieces[i] \in Piece /\ pieces[i].to \in Nat /\ pieces[i].from \in 1 .. pieces[i].to + 1
      BY PieceTypes DEF Divided
    <2>2. pieces[i].from <= pieces[i].to + 1
      BY <2>1
    <2> QED
      BY <2>1, <2>2, SentenceUnits
  <1>3. lists \in [1..Len(pieces) -> Seq(Unit)]
    BY <1>1, <1>2
  <1> QED
    BY <1>1, <1>3

LEMMA TimedUnitsTyped ==
  ASSUME Typed, Divided, WordsApart
  PROVE  TimedUnits \in Seq(Unit)
  <1>1. CASE backend = "onnx"
    <2>1. Units \in Nat /\ 1 <= Units + 1 /\ AllStamps \in Seq(Times)
      BY StampsTyped DEF Typed, Units
    <2> QED
      BY <1>1, <2>1, AlignIs DEF TimedUnits, WordsApart
  <1>2. CASE backend # "onnx"
    <2> DEFINE lists == [i \in DOMAIN pieces |-> UnitsOfSentence(pieces[i])]
    <2>1. lists \in Seq(Seq(Unit))
      BY SentencesTyped DEF Typed
    <2>2. TimedUnits = FlattenSeq(lists)
      BY <1>2 DEF TimedUnits
    <2> HIDE DEF lists
    <2> QED
      BY <2>1, <2>2, FlattenType
  <1> QED
    BY <1>1, <1>2

----------------------------------------------------------------------------
(* The steps of a recognition.                                             *)

(* A piece is added after the others, with its units.                      *)
PieceIsAdded(u, stamps, start, end, label) ==
    LET n == Len(pieces)
    IN  /\ Units \in Nat /\ n \in Nat /\ Len(u) \in Nat
        /\ spoken' \in Seq(Times) /\ Units' = Units + Len(u)
        /\ \A i \in 1..Units : spoken'[i] = spoken[i]
        /\ \A i \in 1..Len(u) : spoken'[Units + i] = u[i]
        /\ pieces' \in Seq(Piece) /\ Len(pieces') = n + 1
        /\ \A k \in 1..n : pieces'[k] = pieces[k]
        /\ pieces'[n + 1] = [from |-> Units + 1, to |-> Units + Len(u), start |-> start,
                             end |-> end, stamps |-> stamps, spk |-> label]
        /\ \A k \in 1 .. n + 1 : k \in 1..n \/ k = n + 1
        /\ Divided'

LEMMA PieceAdded ==
  ASSUME Typed, Divided,
         NEW u \in Seq(Times), NEW stamps \in Seq(Times),
         NEW start \in Int, NEW end \in Int, NEW label \in Nat,
         AddPiece(u, stamps, start, end, label)
  PROVE  PieceIsAdded(u, stamps, start, end, label)
  <1> DEFINE new == [from |-> Units + 1, to |-> Units + Len(u), start |-> start, end |-> end,
                     stamps |-> stamps, spk |-> label]
             n == Len(pieces)
  <1>1. /\ spoken \in Seq(Times) /\ pieces \in Seq(Piece) /\ Units = Len(spoken)
        /\ Units \in Nat /\ n \in Nat /\ Len(u) \in Nat
    BY DEF Typed, Units
  <1>2. new \in Piece
    BY <1>1 DEF Piece
  <1>3. spoken' = spoken \o u /\ pieces' = Append(pieces, new)
    BY DEF AddPiece
  <1> HIDE DEF new
  <1>4. /\ spoken' \in Seq(Times) /\ Units' = Units + Len(u)
        /\ \A i \in 1..Units : spoken'[i] = spoken[i]
        /\ \A i \in 1..Len(u) : spoken'[Units + i] = u[i]
    BY <1>1, <1>3, ConcatProperties DEF Units
  <1>5. /\ pieces' \in Seq(Piece) /\ Len(pieces') = n + 1
        /\ \A k \in 1..n : pieces'[k] = pieces[k]
        /\ pieces'[n + 1] = new
    BY <1>1, <1>2, <1>3, AppendProperties
  <1>6. \A k \in 1 .. n + 1 : k \in 1..n \/ k = n + 1
    BY <1>1
  <1>7. new.from = Units + 1 /\ new.to = Units + Len(u)
    BY DEF new
  <1>8. Divided'
    <2> HIDE DEF n
    <2>1. ASSUME NEW k \in 1..n
          PROVE  /\ pieces[k].from \in Nat /\ pieces[k].to \in Nat
                 /\ pieces[k].from \in 1 .. pieces[k].to + 1 /\ pieces[k].to <= Units
      BY <1>1, PieceTypes DEF Divided, n
    <2>2. ASSUME NEW k \in 1..Len(pieces')
          PROVE  pieces'[k].from \in 1 .. pieces'[k].to + 1 /\ pieces'[k].to <= Units'
      <3>1. CASE k \in 1..n
        <4>1. \A x, y, z \in Nat : x <= y => x <= y + z
          OBVIOUS
        <4>2. pieces'[k] = pieces[k]
          BY <1>5, <3>1
        <4> QED
          BY <1>1, <1>4, <2>1, <3>1, <4>1, <4>2
      <3>2. CASE k = n + 1
        BY <1>1, <1>4, <1>5, <1>7, <3>2, SMTT(30)
      <3> QED
        BY <1>5, <1>6, <3>1, <3>2
    <2>3. ASSUME NEW j \in 1..Len(pieces'), NEW k \in 1..Len(pieces'), j < k
          PROVE  pieces'[j].to < pieces'[k].from
      <3>1. j \in 1..n
        BY <1>1, <1>5, <2>3
      <3>2. CASE k \in 1..n
        BY <1>5, <2>3, <3>1, <3>2 DEF Divided, n
      <3>3. CASE k = n + 1
        BY <1>1, <1>5, <1>7, <2>1, <3>1, <3>3, SMTT(30)
      <3> QED
        BY <1>5, <1>6, <3>2, <3>3
    <2>4. ASSUME NEW i \in 1..Units'
          PROVE  \E k \in 1..Len(pieces') : i \in pieces'[k].from .. pieces'[k].to
      <3>1. CASE i <= Units
        <4>1. i \in 1..Units
          BY <1>1, <1>4, <3>1
        <4>2. PICK k \in 1..n : i \in pieces[k].from .. pieces[k].to
          BY <4>1 DEF Divided, n
        <4>3. k \in 1..Len(pieces') /\ pieces'[k] = pieces[k]
          BY <1>1, <1>5
        <4> QED
          BY <4>2, <4>3
      <3>2. CASE ~ (i <= Units)
        <4>1. i \in new.from .. new.to /\ n + 1 \in 1..Len(pieces')
          BY <1>1, <1>4, <1>5, <1>7, <3>2
        <4> QED
          BY <1>5, <4>1
      <3> QED
        BY <3>1, <3>2
    <2> QED
      BY <2>2, <2>3, <2>4 DEF Divided
  <1> QED
    BY <1>1, <1>4, <1>5, <1>6, <1>8 DEF new, PieceIsAdded

LEMMA StampsAdded ==
  ASSUME Typed, Divided,
         NEW u \in Seq(Times), NEW stamps \in Seq(Times),
         NEW start \in Int, NEW end \in Int, NEW label \in Nat,
         AddPiece(u, stamps, start, end, label)
  PROVE  AllStamps' = AllStamps \o stamps
  <1> DEFINE old == [i \in DOMAIN pieces |-> pieces[i].stamps]
             more == [i \in DOMAIN pieces' |-> pieces'[i].stamps]
             n == Len(pieces)
  <1>1. /\ pieces' \in Seq(Piece) /\ Len(pieces') = n + 1 /\ n \in Nat
        /\ \A k \in 1..n : pieces'[k] = pieces[k]
        /\ pieces'[n + 1].stamps = stamps
        /\ \A k \in 1 .. n + 1 : k \in 1..n \/ k = n + 1
    <2>1. PieceIsAdded(u, stamps, start, end, label)
      BY PieceAdded
    <2> QED
      BY <2>1 DEF PieceIsAdded
  <1>2. /\ old \in Seq(Seq(Times)) /\ Len(old) = n /\ AllStamps = FlattenSeq(old)
        /\ \A k \in 1..n : old[k] = pieces[k].stamps
    BY StampsTyped DEF Typed, AllStamps
  <1>3. /\ more \in Seq(Seq(Times)) /\ Len(more) = n + 1 /\ AllStamps' = FlattenSeq(more)
        /\ \A k \in 1 .. n + 1 : more[k] = pieces'[k].stamps
    <2>1. DOMAIN pieces' = 1 .. n + 1 /\ \A k \in 1 .. n + 1 : pieces'[k].stamps \in Seq(Times)
      BY <1>1, PieceTypes
    <2>2. more \in [1 .. n + 1 -> Seq(Times)]
      BY <2>1
    <2>3. AllStamps' = FlattenSeq(more)
      BY DEF AllStamps
    <2> QED
      BY <1>1, <2>1, <2>2, <2>3
  <1> HIDE DEF old, more, n
  <1>4. more = Append(old, stamps)
    <2> DEFINE app == Append(old, stamps)
    <2>1. /\ app \in Seq(Seq(Times)) /\ Len(app) = n + 1
          /\ \A k \in 1..n : app[k] = old[k]
          /\ app[n + 1] = stamps
      BY <1>2, AppendProperties
    <2> HIDE DEF app
    <2>2. \A k \in 1 .. n + 1 : more[k] = app[k]
      BY <1>1, <1>2, <1>3, <2>1 DEF n
    <2>3. more = app
      <3> DEFINE V == Seq(Times)
      <3>1. more \in Seq(V) /\ app \in Seq(V) /\ Len(more) = Len(app)
            /\ \A k \in 1..Len(more) : more[k] = app[k]
        BY <1>3, <2>1, <2>2
      <3> HIDE DEF V
      <3> QED
        BY <3>1, SeqEqual
    <2> QED
      BY <2>3 DEF app
  <1> QED
    BY <1>2, <1>3, <1>4, FlattenAppend

(* A decoded segment: when the model stamped every unit, these are the     *)
(* times the units were said at, whatever padding its audio had.           *)
LEMMA Decoded ==
  ASSUME Typed, DecodeSegment
  PROVE  /\ windows \in Seq(Times) /\ windows # <<>>
         /\ \E u, stamps \in Seq(Times) :
               /\ AddPiece(u, stamps, Head(windows).start, Head(windows).end, 0)
               /\ JoinText(u)
               /\ Len(stamps) = Len(u) => stamps = u
  <1> DEFINE v == Head(windows)
             w == Slice(v)
             Heard == IF w.from < w.to THEN Utterances(w.from, w.to, MaxUnits) ELSE {<<>>}
  <1>1. windows \in Seq(Times) /\ windows # <<>> /\ v \in Times
    BY DEF Typed, DecodeSegment
  <1>2. w.from \in Int /\ w.to \in Int /\ w.offset = w.from
    BY <1>1, SliceIs
  <1>3. PICK u \in Heard :
            /\ \E s \in Stamps(Shift(u, -w.from)) :
                  AddPiece(u, Shift(s, w.offset), v.start, v.end, 0)
            /\ JoinText(u)
    BY DEF DecodeSegment
  <1> HIDE DEF w, v
  <1>4. u \in Seq(Times)
    <2>1. CASE u \in Utterances(w.from, w.to, MaxUnits)
      BY <1>2, <2>1, UtteranceIs, ResultAssumption
    <2>2. CASE u = <<>>
      BY <2>2
    <2> QED
      BY <1>3, <2>1, <2>2
  <1>5. PICK s \in Stamps(Shift(u, -w.from)) : AddPiece(u, Shift(s, w.offset), v.start, v.end, 0)
    BY <1>3
  <1>6. Shift(u, -w.from) \in Seq(Times) /\ Len(Shift(u, -w.from)) = Len(u) /\ -w.from \in Int
    BY <1>2, <1>4, ShiftIs
  <1>7. s \in Seq(Times) /\ (Len(s) = Len(u) => s = Shift(u, -w.from))
    BY <1>6, StampsIs
  <1>8. Shift(s, w.offset) \in Seq(Times) /\ Len(Shift(s, w.offset)) = Len(s)
    BY <1>2, <1>7, ShiftIs
  <1>9. Len(s) = Len(u) => Shift(s, w.offset) = u
    BY <1>2, <1>4, <1>7, ShiftBack
  <1> QED
    BY <1>1, <1>3, <1>4, <1>5, <1>8, <1>9 DEF v

(* A sentence of PT: its timestamps, if it has one for each unit, count    *)
(* from 0 or from its own start.                                           *)
LEMMA SentenceSaid ==
  ASSUME Typed, EndOfSpeech \in Nat, Sentence
  PROVE  \E u, stamps \in Seq(Times), label \in {0, 1}, by \in Nat :
            /\ Len(u) \in Nat \ {0} /\ by \in {0, u[1].start}
            /\ \A i \in 1..Len(u) : /\ EndOfSpeech <= u[i].start /\ u[i].start < u[i].end
                                    /\ u[i].end <= u[Len(u)].end
            /\ AddPiece(u, stamps, u[1].start, u[Len(u)].end, label)
            /\ Len(stamps) = Len(u) =>
                  \A i \in 1..Len(u) : stamps[i] = Interval(u[i].start - by, u[i].end - by)
  <1>1. PICK u \in Utterances(EndOfSpeech, Duration, MaxUnits) \ {<<>>} :
              \E s \in Stamps(u) \cup Stamps(Shift(u, -u[1].start)) :
                \E label \in {0, 1} : AddPiece(u, s, u[1].start, Last(u).end, label)
    BY DEF Sentence
  <1>2. PICK s \in Stamps(u) \cup Stamps(Shift(u, -u[1].start)), label \in {0, 1} :
                AddPiece(u, s, u[1].start, Last(u).end, label)
    BY <1>1
  <1>3. /\ u \in Seq(Times) /\ Len(u) \in Nat \ {0} /\ 1 \in 1..Len(u)
        /\ \A i \in 1..Len(u) : /\ EndOfSpeech <= u[i].start /\ u[i].start < u[i].end
                                /\ u[i].end <= u[Len(u)].end
    <2>1. Duration \in Int /\ MaxUnits \in Nat /\ EndOfSpeech \in Int
      BY ResultAssumption
    <2>2. /\ u \in Seq(Times)
          /\ \A i \in 1..Len(u) : /\ EndOfSpeech <= u[i].start /\ u[i].start < u[i].end
                                  /\ u[i].end <= u[Len(u)].end
      BY <1>1, <2>1, UtteranceIs
    <2>3. Len(u) \in Nat \ {0}
      BY <1>1, <2>2, EmptySeq
    <2> QED
      BY <2>2, <2>3
  <1>4. u[1].start \in Nat
    <2>1. u[1].start \in Int /\ EndOfSpeech <= u[1].start
      BY <1>3, IntervalIs
    <2> QED
      BY <2>1
  <1>5. \A i \in 1..Len(u) : u[i].start \in Int /\ u[i].end \in Int
                             /\ u[i] = Interval(u[i].start, u[i].end)
    BY <1>3, IntervalIs
  <1>6. CASE s \in Stamps(u)
    <2>1. s \in Seq(Times) /\ (Len(s) = Len(u) => s = u)
      BY <1>3, <1>6, StampsIs
    <2>2. \A i \in 1..Len(u) : u[i] = Interval(u[i].start - 0, u[i].end - 0)
      <3>1. \A x \in Int : x - 0 = x
        OBVIOUS
      <3> QED
        BY <1>5, <3>1
    <2> QED
      BY <1>2, <1>3, <2>1, <2>2 DEF Last
  <1>7. CASE s \in Stamps(Shift(u, -u[1].start))
    <2> DEFINE by == u[1].start
    <2>1. -by \in Int
      BY <1>4
    <2>2. /\ Shift(u, -by) \in Seq(Times) /\ Len(Shift(u, -by)) = Len(u)
          /\ \A i \in 1..Len(u) : Shift(u, -by)[i] = Interval(u[i].start + (-by), u[i].end + (-by))
      BY <1>3, <2>1, ShiftIs
    <2>3. s \in Seq(Times) /\ (Len(s) = Len(u) => s = Shift(u, -by))
      BY <1>7, <2>2, StampsIs
    <2> HIDE DEF by
    <2>4. \A i \in 1..Len(u) : Shift(u, -by)[i] = Interval(u[i].start - by, u[i].end - by)
      <3>1. \A x \in Int, y \in Int : x + (-y) = x - y
        OBVIOUS
      <3>2. by \in Int
        BY <1>4 DEF by
      <3> QED
        BY <1>5, <2>2, <3>1, <3>2
    <2>5. by \in Nat /\ by \in {0, u[1].start}
      BY <1>4 DEF by
    <2> QED
      BY <1>2, <1>3, <2>3, <2>4, <2>5 DEF Last
  <1> QED
    BY <1>2, <1>6, <1>7

(* Of the same state and pieces the recognition has the same units to      *)
(* merge and returns the same result.                                      *)
LEMMA SameUnits ==
  ASSUME UNCHANGED <<backend, spoken, pieces, words>>
  PROVE  AllStamps' = AllStamps /\ Units' = Units /\ TimedUnits' = TimedUnits
  <1>1. AllStamps' = AllStamps /\ Units' = Units
    BY DEF AllStamps, Units
  <1> QED
    BY <1>1 DEF TimedUnits

LEMMA SameParsed ==
  ASSUME UNCHANGED <<mergeVars, backend, spoken, pieces, speaker>>
  PROVE  Parsed' = Parsed
  <1>1. Segments' = Segments
    BY DEF Segments, SegmentOfGroup, mergeVars
  <1>2. Units' = Units
    BY DEF Units
  <1> QED
    BY <1>1, <1>2 DEF Parsed

(* A step that leaves the loop alone keeps what is true of it.             *)
LEMMA SameLoop ==
  ASSUME LoopIInv, SpeakerIInv, UNCHANGED mergeVars
  PROVE  LoopIInv' /\ SpeakerIInv'
  <1>1. \A g : Labelled(g)' <=> Labelled(g)
    BY DEF Labelled, mergeVars
  <1>2. LoopIInv'
    BY DEF mergeVars, LoopIInv, LoopShape, InOrder, Covered, Apart, Limit
  <1>3. SpeakerIInv'
    BY <1>1 DEF mergeVars, SpeakerIInv
  <1> QED
    BY <1>2, <1>3

(* So does one that leaves the pieces and the windows alone.               *)
LEMMA SamePieces ==
  ASSUME Typed, Divided, WordsApart, PiecesOrdered, StampsTrue,
         UNCHANGED <<backend, windows, spoken, pieces, words, exact>>,
         phase' \in {phase, "merging", "done"}
  PROVE  Typed' /\ Divided' /\ WordsApart' /\ PiecesOrdered' /\ StampsTrue'
  <1>1. AllStamps' = AllStamps /\ Units' = Units
    BY SameUnits
  <1>2. EndOfSpeech' = EndOfSpeech
    BY <1>1 DEF EndOfSpeech
  <1>3. Typed'
    BY DEF Typed
  <1>4. Divided'
    BY <1>1 DEF Divided
  <1>5. PiecesOrdered'
    BY <1>2 DEF PiecesOrdered
  <1>6. \A p : SaidIn(p)' <=> SaidIn(p)
    BY DEF SaidIn, Earlier
  <1>7. StampsTrue'
    BY <1>1, <1>6 DEF StampsTrue
  <1>8. WordsApart'
    BY <1>1 DEF WordsApart
  <1> QED
    BY <1>3, <1>4, <1>5, <1>7, <1>8

LEMMA InitResult ==
  ASSUME Init
  PROVE  LoopIInv /\ SpeakerIInv /\ ResultIInv
  <1>1. LoopIInv
    BY InitLoopIInv DEF Init, MergeIdle
  <1>2. SpeakerIInv
    <2>1. /\ speakers \in Seq([start : Int, end : Int, spk : Nat])
          /\ Len(speakers) = 0 /\ Len(merged) = 0
      BY DEF Init, MergeIdle
    <2> QED
      BY <2>1 DEF Init, MergeIdle, SpeakerIInv
  <1>3. Typed
    BY DEF Init, Typed
  <1>4. Units = 0 /\ Len(pieces) = 0 /\ Len(windows) = 0
    BY DEF Init, Units
  <1>5. Divided
    BY <1>4 DEF Divided
  <1>6. EndOfSpeech \in Nat
    BY <1>4 DEF EndOfSpeech
  <1>7. PiecesOrdered
    BY <1>4, <1>6 DEF PiecesOrdered, Init
  <1>8. StampsTrue
    <2>1. AllStamps = <<>>
      <3> DEFINE lists == [i \in DOMAIN pieces |-> pieces[i].stamps]
      <3>1. lists \in Seq(Seq(Times)) /\ Len(lists) = 0 /\ AllStamps = FlattenSeq(lists)
        BY <1>3, <1>4, StampsTyped DEF Typed, AllStamps
      <3> HIDE DEF lists
      <3>2. PICK f \in [0..Len(lists) -> Seq(Times)] :
                    f[0] = <<>> /\ FlattenSeq(lists) = f[Len(lists)]
        BY <3>1, FlattenByRounds
      <3> QED
        BY <3>1, <3>2
    <2> QED
      BY <1>4, <2>1 DEF StampsTrue, Init
  <1>9. Built
    BY DEF Built, Init, MergeIdle
  <1>10. WordsApart
    <2>1. words \in Seq(Nat) /\ Len(words) = 0
      BY DEF Init
    <2> QED
      BY <1>4, <2>1 DEF WordsApart
  <1> QED
    BY <1>1, <1>2, <1>3, <1>5, <1>7, <1>8, <1>9, <1>10 DEF ResultIInv

(* Before the merge begins, whatever does not begin it leaves it idle.     *)
LEMMA StillIdle ==
  ASSUME LoopIInv, SpeakerIInv, Built, phase \in {"loading", "asr"},
         UNCHANGED <<mergeVars, speaker>>, phase' \in {"loading", "asr"}
  PROVE  LoopIInv' /\ SpeakerIInv' /\ Built'
  <1>1. MergeIdle /\ speaker = "none"
    BY DEF Built
  <1>2. MergeIdle'
    BY <1>1 DEF MergeIdle, mergeVars
  <1>3. Built'
    BY <1>1, <1>2 DEF Built, MergeIdle
  <1> QED
    BY <1>3, SameLoop

(* Failing leaves no result.                                               *)
LEMMA FailResult ==
  ASSUME LoopIInv, SpeakerIInv, ResultIInv, phase \in {"loading", "asr"}, Fail
  PROVE  LoopIInv' /\ SpeakerIInv' /\ ResultIInv'
  <1>1. /\ phase' = "done" /\ result' = ErrorResult /\ UNCHANGED mergeVars
        /\ UNCHANGED <<backend, windows, spoken, pieces, words, exact>>
    BY DEF Fail
  <1>2. LoopIInv' /\ SpeakerIInv'
    BY <1>1, SameLoop
  <1>3. Typed' /\ Divided' /\ WordsApart' /\ PiecesOrdered' /\ StampsTrue'
    BY <1>1, SamePieces DEF ResultIInv
  <1>4. units = <<>> /\ units' = <<>>
    BY <1>1 DEF ResultIInv, Built, MergeIdle, mergeVars
  <1>5. Built'
    BY <1>1, <1>4 DEF Built, ErrorResult, NoResult
  <1> QED
    BY <1>2, <1>3, <1>5 DEF ResultIInv

LEMMA DetectSpeechResult ==
  ASSUME LoopIInv, SpeakerIInv, ResultIInv, DetectSpeech
  PROVE  LoopIInv' /\ SpeakerIInv' /\ ResultIInv'
  <1>1. PICK out \in VadOutputs : windows' = VadSegments(out)
    BY DEF DetectSpeech
  <1>2. /\ phase = "loading" /\ backend = "onnx" /\ phase' = "asr"
        /\ UNCHANGED <<mergeVars, speaker>>
        /\ UNCHANGED <<backend, spoken, pieces, words, exact, result>>
    BY DEF DetectSpeech
  <1>3. LoopIInv' /\ SpeakerIInv' /\ Built'
    BY <1>2, StillIdle DEF ResultIInv
  <1>4. /\ windows' \in Seq(Times)
        /\ \A i, j \in 1..Len(windows') : i <= j => windows'[i].start <= windows'[j].start
    BY <1>1, WindowsAre
  <1>5. Typed'
    BY <1>2, <1>4 DEF ResultIInv, Typed
  <1>6. Units' = Units /\ AllStamps' = AllStamps
    BY <1>2, SameUnits
  <1>7. Divided'
    BY <1>2, <1>6 DEF ResultIInv, Divided
  <1>8. pieces' = <<>> /\ Len(pieces') = 0
    BY <1>2 DEF ResultIInv, PiecesOrdered
  <1>9. PiecesOrdered'
    BY <1>2, <1>4, <1>8 DEF PiecesOrdered
  <1>10. StampsTrue'
    BY <1>2, <1>6 DEF ResultIInv, StampsTrue
  <1>11. WordsApart'
    BY <1>2, <1>6 DEF ResultIInv, WordsApart
  <1> QED
    BY <1>3, <1>5, <1>7, <1>9, <1>10, <1>11 DEF ResultIInv

(* The words of the joined text go on behind those before.                 *)
LEMMA WordsJoined ==
  ASSUME WordsApart, backend = "onnx", spoken \in Seq(Times),
         NEW u \in Seq(Times), JoinText(u), Units' = Units + Len(u)
  PROVE  WordsApart'
  <1> DEFINE L == Len(words)
             M == Len(u)
  <1>1. /\ words \in Seq(Nat) /\ L \in Nat /\ M \in Nat /\ Units \in Nat
        /\ \A k \in 1..L : words[k] \in k..Units
        /\ \A j, k \in 1..L : j < k => words[j] < words[k]
        /\ \A n \in 1..Units : \E k \in 1..L : words[k] <= n /\ (k < L => n < words[k + 1])
    BY DEF WordsApart, Units
  <1>2. PICK fused \in {0, 1} :
            /\ fused = 1 => Units > 0 /\ M > 0
            /\ words' = words \o [i \in 1 .. M - fused |-> Units + fused + i]
    <2>1. PICK fused \in IF Units > 0 /\ u # <<>> THEN {0, 1} ELSE {0} :
              words' = words \o [i \in 1 .. M - fused |-> Units + fused + i]
      BY DEF JoinText
    <2>2. u # <<>> => M > 0
      BY EmptySeq
    <2> HIDE DEF M
    <2>3. fused \in {0, 1} /\ (fused = 1 => Units > 0 /\ M > 0)
      BY <2>1, <2>2
    <2> QED
      BY <2>1, <2>3, SMTT(30) DEF M
  <1> DEFINE R == M - fused
             more == [i \in 1..R |-> Units + fused + i]
  <1>3. R \in Nat
    BY <1>1, <1>2
  <1>4. more \in Seq(Nat) /\ Len(more) = R /\ \A i \in 1..R : more[i] = Units + fused + i
    <2>1. \A i \in 1..R : Units + fused + i \in Nat
      BY <1>1, <1>2
    <2> HIDE DEF R
    <2>2. more \in [1..R -> Nat]
      BY <2>1
    <2> QED
      BY <1>3, <2>2
  <1> HIDE DEF L, M, R, more
  <1>5. /\ words' \in Seq(Nat) /\ Len(words') = L + R
        /\ \A k \in 1..L : words'[k] = words[k]
        /\ \A i \in 1..R : words'[L + i] = Units + fused + i
    <2>1. words' = words \o more
      BY <1>2 DEF more, R
    <2>2. /\ words \o more \in Seq(Nat) /\ Len(words \o more) = Len(words) + Len(more)
          /\ \A i \in 1 .. Len(words) + Len(more) :
                (words \o more)[i] = IF i <= Len(words) THEN words[i] ELSE more[i - Len(words)]
      BY <1>1, <1>4, ConcatProperties
    <2>3. /\ words' \in Seq(Nat) /\ Len(words') = L + R
          /\ \A i \in 1 .. L + R : words'[i] = IF i <= L THEN words[i] ELSE more[i - L]
      BY <1>4, <2>1, <2>2 DEF L
    <2>4. \A k \in 1..L : k \in 1 .. L + R /\ k <= L
      BY <1>1, <1>3
    <2>5. \A i \in 1..R : L + i \in 1 .. L + R /\ ~(L + i <= L) /\ (L + i) - L = i
      BY <1>1, <1>3
    <2>6. \A k \in 1..L : words'[k] = words[k]
      BY <2>3, <2>4
    <2>7. \A i \in 1..R : words'[L + i] = more[i]
      BY <2>3, <2>5
    <2> QED
      BY <1>4, <2>3, <2>6, <2>7
  <1>6. \A k \in 1 .. L + R : k \in 1..L \/ (k - L \in 1..R /\ L + (k - L) = k)
    BY <1>1, <1>3
  <1>7. Units' = Units + fused + R /\ L <= Units /\ (fused = 1 => L > 0)
    <2>1. Units' = Units + fused + R
      BY <1>1, <1>2 DEF R, M
    <2>2. L <= Units
      <3>1. L > 0 => L \in 1..L /\ words[L] \in L..Units
        BY <1>1
      <3> QED
        BY <1>1, <3>1
    <2>3. fused = 1 => L > 0
      <3>1. SUFFICES ASSUME fused = 1 PROVE L > 0
        OBVIOUS
      <3>2. 1 \in 1..Units
        BY <1>1, <1>2, <3>1
      <3>3. PICK k \in 1..L : words[k] <= 1
        BY <1>1, <3>2
      <3> QED
        BY <1>1, <3>3
    <2> QED
      BY <2>1, <2>2, <2>3
  <1>8. /\ \A k \in 1..L : words[k] \in Nat /\ words[k] >= k /\ words[k] <= Units
        /\ Units \in Nat /\ Units' \in Nat /\ fused \in Nat /\ Units <= Units'
    BY <1>1, <1>2, <1>3, <1>7
  <1>9. ASSUME NEW k \in 1 .. L + R
        PROVE  /\ words'[k] \in k..Units'
               /\ \A j \in 1 .. L + R : j < k => words'[j] < words'[k]
    <2>1. CASE k \in 1..L
      <3>1. \A j \in 1 .. L + R : j < k => j \in 1..L
        BY <1>1, <1>3, <2>1
      <3>2. words'[k] = words[k] /\ \A j \in 1..L : words'[j] = words[j]
        BY <1>5, <2>1
      <3>3. words[k] \in k..Units'
        BY <1>1, <1>8, <2>1
      <3> QED
        BY <1>1, <2>1, <3>1, <3>2, <3>3
    <2>2. CASE k - L \in 1..R /\ L + (k - L) = k
      <3> DEFINE w == Units + fused + (k - L)
      <3>1. words'[k] = w
        BY <1>5, <2>2
      <3>2. w \in k..Units'
        BY <1>1, <1>3, <1>7, <1>8, <2>2
      <3>3. ASSUME NEW j \in 1..L PROVE words'[j] < w
        <4>1. words'[j] <= Units /\ words'[j] \in Nat
          BY <1>5, <1>8
        <4> QED
          BY <1>1, <1>3, <1>8, <2>2, <4>1
      <3>4. ASSUME NEW j \in 1 .. L + R, j - L \in 1..R, L + (j - L) = j, j < k
            PROVE  words'[j] < w
        <4>1. words'[j] = Units + fused + (j - L)
          BY <1>5, <3>4
        <4> QED
          BY <1>1, <1>3, <1>8, <3>4, <4>1
      <3> HIDE DEF w
      <3> QED
        BY <1>6, <3>1, <3>2, <3>3, <3>4
    <2> QED
      BY <1>6, <2>1, <2>2
  <1>10. ASSUME NEW n \in 1..Units'
         PROVE  \E k \in 1 .. L + R : words'[k] <= n /\ (k < L + R => n < words'[k + 1])
    <2>1. CASE n <= Units
      <3>1. PICK k \in 1..L : words[k] <= n /\ (k < L => n < words[k + 1])
        BY <1>1, <2>1
      <3>2. k < L => k + 1 \in 1..L
        BY <1>1
      <3>3. k = L /\ L < L + R => words'[k + 1] = Units + fused + 1 /\ 1 \in 1..R
        BY <1>1, <1>3, <1>5
      <3>4. k < L + R => n < words'[k + 1]
        <4>1. CASE k < L
          <5>1. words'[k + 1] = words[k + 1]
            BY <1>5, <3>2, <4>1
          <5> QED
            BY <3>1, <4>1, <5>1
        <4>2. CASE k = L /\ L < L + R
          <5>1. words'[k + 1] = Units + fused + 1
            BY <3>3, <4>2
          <5> QED
            BY <1>8, <2>1, <5>1
        <4> QED
          BY <1>1, <4>1, <4>2
      <3>5. words'[k] <= n /\ k \in 1 .. L + R
        BY <1>1, <1>3, <1>5, <3>1
      <3> QED
        BY <3>4, <3>5
    <2>2. CASE n = Units + 1 /\ fused = 1
      <3>1. L \in 1..L /\ L \in 1 .. L + R /\ words'[L] = words[L] /\ words[L] <= Units
            /\ words[L] \in Nat
        BY <1>1, <1>3, <1>5, <1>7, <2>2, SMTT(30)
      <3>2. L < L + R => 1 \in 1..R /\ words'[L + 1] = Units + 1 + 1
        BY <1>1, <1>3, <1>5, <2>2
      <3>3. words'[L] <= n /\ (L < L + R => n < words'[L + 1])
        BY <1>1, <2>2, <3>1, <3>2
      <3> QED
        BY <3>1, <3>3
    <2>3. CASE n > Units + fused
      <3> DEFINE i == n - Units - fused
      <3>1. i \in 1..R /\ L + i \in 1 .. L + R /\ words'[L + i] = n
        <4>1. i \in 1..R /\ L + i \in 1 .. L + R /\ Units + fused + i = n
          BY <1>1, <1>3, <1>7, <1>8, <2>3
        <4> HIDE DEF i
        <4> QED
          BY <1>5, <4>1
      <3>2. L + i < L + R => /\ i + 1 \in 1..R /\ L + (i + 1) = L + i + 1
                             /\ words'[L + (i + 1)] = n + 1
        <4>1. /\ L + i < L + R => i + 1 \in 1..R /\ Units + fused + (i + 1) = n + 1
              /\ L + (i + 1) = L + i + 1
          BY <1>1, <1>3, <1>7, <1>8, <2>3
        <4> HIDE DEF i
        <4> QED
          BY <1>5, <4>1
      <3> HIDE DEF i
      <3>3. words'[L + i] <= n /\ (L + i < L + R => n < words'[L + i + 1])
        BY <1>7, <3>1, <3>2
      <3> QED
        BY <3>1, <3>3
    <2>4. n <= Units \/ (n = Units + 1 /\ fused = 1) \/ n > Units + fused
      BY <1>1, <1>2, <1>7
    <2> QED
      BY <2>1, <2>2, <2>3, <2>4
  <1> QED
    BY <1>5, <1>9, <1>10 DEF WordsApart

LEMMA DecodeResult ==
  ASSUME LoopIInv, SpeakerIInv, ResultIInv, DecodeSegment
  PROVE  LoopIInv' /\ SpeakerIInv' /\ ResultIInv'
  <1> DEFINE n == Len(pieces)
             v == Head(windows)
  <1>1. Typed /\ Divided /\ WordsApart /\ PiecesOrdered /\ StampsTrue /\ Built
    BY DEF ResultIInv
  <1>2. /\ phase = "asr" /\ phase' = "asr" /\ windows' = Tail(windows)
        /\ UNCHANGED <<mergeVars, speaker>> /\ UNCHANGED <<backend, result>>
    BY DEF DecodeSegment
  <1>3. LoopIInv' /\ SpeakerIInv' /\ Built'
    BY <1>1, <1>2, StillIdle
  <1>4. PICK u \in Seq(Times), stamps \in Seq(Times) :
               /\ AddPiece(u, stamps, v.start, v.end, 0) /\ JoinText(u)
               /\ Len(stamps) = Len(u) => stamps = u
    BY <1>1, Decoded
  <1>5. /\ windows \in Seq(Times) /\ v \in Times /\ v.start \in Int /\ v.end \in Int
        /\ Tail(windows) \in Seq(Times) /\ Len(windows) \in Nat \ {0}
        /\ Len(Tail(windows)) = Len(windows) - 1 /\ v = windows[1]
        /\ \A i \in 1 .. Len(windows) - 1 : Tail(windows)[i] = windows[i + 1]
    <2>1. windows \in Seq(Times) /\ windows # <<>>
      BY <1>1, Decoded
    <2>2. v \in Times /\ v = windows[1]
      BY <2>1
    <2> QED
      BY <2>1, <2>2, IntervalIs, HeadTailProperties, EmptySeq
  <1> HIDE DEF v
  <1>6. /\ spoken' \in Seq(Times) /\ pieces' \in Seq(Piece) /\ Divided' /\ n \in Nat
        /\ Len(pieces') = n + 1
        /\ \A k \in 1..n : pieces'[k] = pieces[k]
        /\ pieces'[n + 1].start = v.start /\ Units' = Units + Len(u)
        /\ \A k \in 1 .. n + 1 : k \in 1..n \/ k = n + 1
    <2> DEFINE start == v.start
               end == v.end
               label == 0
    <2>1. /\ AddPiece(u, stamps, start, end, label) /\ start \in Int /\ end \in Int
          /\ label \in Nat
      BY <1>4, <1>5 DEF v
    <2> HIDE DEF start, end, label
    <2>2. PieceIsAdded(u, stamps, start, end, label)
      BY <1>1, <2>1, PieceAdded
    <2> QED
      BY <2>2 DEF PieceIsAdded, start
  <1>7. Typed'
    BY <1>1, <1>2, <1>5, <1>6 DEF Typed
  <1>8. backend = "onnx"
    BY <1>1, <1>2, <1>5, EmptySeq DEF PiecesOrdered, Typed
  <1>9. PiecesOrdered'
    <2> HIDE DEF n
    <2>1. \A k \in 1..n : \A j \in 1..k : pieces[j].start <= pieces[k].start
      BY <1>1 DEF PiecesOrdered, n
    <2>2. \A k \in 1..n : \A i \in 1..Len(windows) : pieces[k].start <= windows[i].start
      BY <1>1 DEF PiecesOrdered, n
    <2>3. \A i \in 1..Len(windows) : v.start <= windows[i].start
      <3>1. \A i \in 1..Len(windows) : 1 \in 1..Len(windows) /\ 1 <= i
        BY <1>5
      <3> QED
        BY <1>1, <1>5, <3>1 DEF PiecesOrdered
    <2>4. \A i \in 1..Len(windows') : i + 1 \in 1..Len(windows) /\ windows'[i] = windows[i + 1]
      BY <1>2, <1>5
    <2>5. ASSUME NEW k \in 1..Len(pieces')
          PROVE  /\ \A j \in 1..k : pieces'[j].start <= pieces'[k].start
                 /\ \A i \in 1..Len(windows') : pieces'[k].start <= windows'[i].start
      <3>1. CASE k \in 1..n
        <4>1. \A j \in 1..k : j \in 1..n
          BY <1>6, <3>1
        <4> QED
          BY <1>6, <2>1, <2>2, <2>4, <3>1, <4>1
      <3>2. CASE k = n + 1
        <4>1. \A j \in 1..k : j \in 1..n \/ j = n + 1
          BY <1>6, <3>2
        <4>2. \A j \in 1..n : pieces[j].start <= v.start
          BY <1>5, <2>2
        <4>3. v.start <= v.start
          BY <1>5
        <4> QED
          BY <1>6, <2>3, <2>4, <3>2, <4>1, <4>2, <4>3
      <3> QED
        BY <1>6, <3>1, <3>2
    <2>6. \A i, j \in 1..Len(windows') : i <= j => windows'[i].start <= windows'[j].start
      <3>1. \A i, j \in 1..Len(windows') : i <= j => i + 1 <= j + 1
        OBVIOUS
      <3> QED
        BY <1>1, <2>4, <3>1 DEF PiecesOrdered
    <2> QED
      BY <1>2, <1>8, <2>5, <2>6 DEF PiecesOrdered
  <1>10. StampsTrue'
    <2>1. AllStamps' = AllStamps \o stamps /\ spoken' = spoken \o u
      BY <1>1, <1>4, <1>5, StampsAdded DEF AddPiece
    <2>2. exact' => exact /\ stamps = u
      BY <1>4 DEF AddPiece
    <2> QED
      BY <1>1, <1>2, <1>8, <2>1, <2>2 DEF StampsTrue
  <1>11. WordsApart'
    BY <1>1, <1>4, <1>6, <1>8, WordsJoined DEF Typed
  <1> QED
    BY <1>3, <1>6, <1>7, <1>9, <1>10, <1>11 DEF ResultIInv

(* The pieces before it stay as they were said.                            *)
LEMMA StillSaid ==
  ASSUME Typed, Divided, Typed',
         \A i \in 1..Units : spoken'[i] = spoken[i],
         NEW k \in 1..Len(pieces), pieces'[k] = pieces[k], SaidIn(pieces[k])
  PROVE  SaidIn(pieces[k])'
  <1> DEFINE p == pieces[k]
  <1>1. /\ p \in Piece /\ p.from \in Nat /\ p.to \in Nat /\ p.from >= 1 /\ p.to <= Units
        /\ Units \in Nat
    <2>1. p \in Piece /\ Units \in Nat /\ p.from \in 1 .. p.to + 1 /\ p.to <= Units
      BY DEF Typed, Divided, Units
    <2> QED
      BY <2>1 DEF Piece
  <1>2. /\ Len(p.stamps) = p.to - p.from + 1 /\ p.start \in Nat
        /\ p.from <= p.to => p.start < p.end /\ p.end = spoken[p.to].end
        /\ \A i \in p.from .. p.to : spoken[i].end <= p.end
    BY DEF SaidIn
  <1>3. PICK by \in {0, p.start} : \A i \in 1..Len(p.stamps) : p.stamps[i] = Earlier(p, i, by)
    BY DEF SaidIn
  <1> HIDE DEF p
  <1>4. \A i \in p.from .. p.to : spoken'[i] = spoken[i]
    BY <1>1
  <1>5. p.from <= p.to => p.to \in p.from .. p.to
    BY <1>1
  <1>6. \A i \in 1..Len(p.stamps) :
           p.stamps[i] = Interval(spoken'[p.from + i - 1].start - by,
                                  spoken'[p.from + i - 1].end - by)
    <2> TAKE i \in 1..Len(p.stamps)
    <2>1. p.from + i - 1 \in p.from .. p.to
      BY <1>1, <1>2, SMTT(30)
    <2> QED
      BY <1>3, <1>4, <2>1 DEF Earlier
  <1>7. /\ p.from <= p.to => p.start < p.end /\ p.end = spoken'[p.to].end
        /\ \A i \in p.from .. p.to : spoken'[i].end <= p.end
    BY <1>2, <1>4, <1>5
  <1>8. pieces'[k] = p
    BY DEF p
  <1> QED
    BY <1>2, <1>3, <1>6, <1>7, <1>8 DEF SaidIn, Earlier

(* A sentence that begins after the units before it, with timestamps of    *)
(* its own units.                                                          *)
LEMMA SentenceAdded ==
  ASSUME LoopIInv, SpeakerIInv, ResultIInv, phase = "loading", backend = "pt",
         NEW u \in Seq(Times), NEW stamps \in Seq(Times),
         NEW start \in Int, NEW end \in Int, NEW label \in Nat,
         AddPiece(u, stamps, start, end, label),
         UNCHANGED <<mergeVars, phase, backend, verify, windows, words, speaker, result>>,
         EndOfSpeech <= start, start <= EndOfSpeech', EndOfSpeech' \in Nat,
         Len(stamps) = Len(u) => SaidIn(pieces[Len(pieces)])'
  PROVE  LoopIInv' /\ SpeakerIInv' /\ ResultIInv'
  <1> DEFINE n == Len(pieces)
  <1>1. /\ Typed /\ Divided /\ WordsApart /\ PiecesOrdered /\ StampsTrue /\ Built
        /\ EndOfSpeech \in Nat /\ windows = <<>>
    BY DEF ResultIInv, PiecesOrdered
  <1>2. LoopIInv' /\ SpeakerIInv' /\ Built'
    BY <1>1, StillIdle
  <1>3. /\ spoken' \in Seq(Times) /\ pieces' \in Seq(Piece) /\ Divided' /\ n \in Nat
        /\ Len(pieces') = n + 1
        /\ \A k \in 1..n : pieces'[k] = pieces[k]
        /\ pieces'[n + 1].start = start
        /\ \A k \in 1 .. n + 1 : k \in 1..n \/ k = n + 1
        /\ \A i \in 1..Units : spoken'[i] = spoken[i]
        /\ Units \in Nat /\ Units' = Units + Len(u) /\ Len(u) \in Nat
    <2>1. PieceIsAdded(u, stamps, start, end, label)
      BY <1>1, PieceAdded
    <2> QED
      BY <2>1 DEF PieceIsAdded
  <1>4. Typed'
    BY <1>1, <1>3 DEF Typed
  <1>5. PiecesOrdered'
    <2>1. ASSUME NEW k \in 1..n
          PROVE  /\ \A j \in 1..k : j \in 1..n /\ pieces[j].start <= pieces[k].start
                 /\ pieces[k].start <= EndOfSpeech /\ pieces[k].start \in Int
      <3>1. k \in 1..Len(pieces) /\ \A j \in 1..k : j \in 1..n
        BY <1>3
      <3>2. pieces[k] \in Piece
        BY <1>1, <3>1 DEF Typed
      <3> QED
        BY <1>1, <3>1, <3>2, PieceTypes DEF PiecesOrdered
    <2> HIDE DEF n
    <2>2. ASSUME NEW k \in 1..Len(pieces')
          PROVE  /\ \A j \in 1..k : pieces'[j].start <= pieces'[k].start
                 /\ pieces'[k].start <= EndOfSpeech'
      <3>1. CASE k \in 1..n
        <4>1. \A j \in 1..k : pieces'[j].start <= pieces'[k].start
          BY <1>3, <2>1, <3>1
        <4>2. \A x, y, z \in Int : x <= y /\ y <= z => x <= z
          OBVIOUS
        <4>3. pieces[k].start <= EndOfSpeech'
          BY <1>1, <2>1, <3>1, <4>2
        <4> QED
          BY <1>3, <3>1, <4>1, <4>3
      <3>2. CASE k = n + 1
        <4>1. \A j \in 1..k : j \in 1..n \/ j = n + 1
          BY <1>3, <3>2
        <4>2. \A j \in 1..n : pieces[j].start <= start
          BY <1>1, <2>1
        <4>3. \A j \in 1..k : pieces'[j].start <= start
          <5>1. start <= start
            OBVIOUS
          <5> QED
            BY <1>3, <4>1, <4>2, <5>1, Zenon
        <4> QED
          BY <1>3, <3>2, <4>3
      <3> QED
        BY <1>3, <3>1, <3>2
    <2>3. Len(windows') = 0 /\ windows' = <<>>
      BY <1>1
    <2> QED
      BY <2>2, <2>3 DEF PiecesOrdered
  <1>6. StampsTrue'
    <2>1. SUFFICES ASSUME exact', NEW k \in 1..Len(pieces') PROVE SaidIn(pieces[k])'
      BY DEF StampsTrue
    <2>2. exact /\ Len(stamps) = Len(u)
      BY <2>1 DEF AddPiece
    <2>3. CASE k \in 1..n
      <3>1. SaidIn(pieces[k])
        BY <1>1, <2>2, <2>3 DEF StampsTrue
      <3> QED
        BY <1>1, <1>3, <1>4, <2>3, <3>1, StillSaid
    <2>4. CASE k = n + 1
      BY <1>3, <2>2, <2>4 DEF SaidIn, Earlier
    <2> QED
      BY <1>3, <2>3, <2>4
  <1>7. WordsApart'
    <2>1. \A k \in Nat : \A w : w \in k..Units => w \in k..Units'
      BY <1>3
    <2>2. words \in Seq(Nat) /\ Len(words) \in Nat
      BY <1>1 DEF WordsApart
    <2> QED
      BY <1>1, <2>1, <2>2 DEF WordsApart
  <1> QED
    BY <1>2, <1>3, <1>4, <1>5, <1>6, <1>7 DEF ResultIInv

LEMMA SentenceResult ==
  ASSUME LoopIInv, SpeakerIInv, ResultIInv, Sentence
  PROVE  LoopIInv' /\ SpeakerIInv' /\ ResultIInv'
  <1>1. /\ Typed /\ Divided /\ phase = "loading" /\ backend = "pt" /\ EndOfSpeech \in Nat
        /\ UNCHANGED <<mergeVars, phase, backend, verify, windows, words, speaker, result>>
    BY DEF ResultIInv, PiecesOrdered, Sentence
  <1>2. PICK u \in Seq(Times), stamps \in Seq(Times), label \in {0, 1}, by \in Nat :
            /\ Len(u) \in Nat \ {0} /\ by \in {0, u[1].start}
            /\ \A i \in 1..Len(u) : /\ EndOfSpeech <= u[i].start /\ u[i].start < u[i].end
                                    /\ u[i].end <= u[Len(u)].end
            /\ AddPiece(u, stamps, u[1].start, u[Len(u)].end, label)
            /\ Len(stamps) = Len(u) =>
                  \A i \in 1..Len(u) : stamps[i] = Interval(u[i].start - by, u[i].end - by)
    BY <1>1, SentenceSaid
  <1> DEFINE first == u[1].start
             last == u[Len(u)].end
             p == pieces'[Len(pieces')]
  <1>3. /\ first \in Int /\ last \in Int /\ EndOfSpeech <= first /\ first < last
        /\ first \in Nat /\ last \in Nat /\ label \in Nat
    <2>1. 1 \in 1..Len(u) /\ Len(u) \in 1..Len(u)
      BY <1>2
    <2>2. first \in Int /\ last \in Int /\ u[1].end \in Int
      BY <2>1, IntervalIs
    <2>3. EndOfSpeech <= first /\ first < u[1].end /\ u[1].end <= last
      BY <1>2, <2>1
    <2> QED
      BY <1>1, <2>2, <2>3
  <1> HIDE DEF first, last
  <1>4. /\ Units \in Nat /\ spoken' \in Seq(Times) /\ Units' = Units + Len(u)
        /\ \A i \in 1..Len(u) : spoken'[Units + i] = u[i]
        /\ p = [from |-> Units + 1, to |-> Units + Len(u), start |-> first, end |-> last,
                stamps |-> stamps, spk |-> label]
    <2>1. AddPiece(u, stamps, first, last, label)
      BY <1>2 DEF first, last
    <2>2. PieceIsAdded(u, stamps, first, last, label)
      BY <1>1, <1>3, <2>1, PieceAdded
    <2> QED
      BY <2>2 DEF PieceIsAdded
  <1> HIDE DEF p
  <1>5. EndOfSpeech' = last
    <2>1. Units' # 0 /\ Last(spoken') = u[Len(u)]
      BY <1>2, <1>4 DEF Last, Units
    <2> QED
      BY <2>1 DEF EndOfSpeech, last
  <1>6. Len(stamps) = Len(u) => SaidIn(pieces[Len(pieces)])'
    <2>1. SUFFICES ASSUME Len(stamps) = Len(u) PROVE SaidIn(pieces[Len(pieces)])'
      OBVIOUS
    <2>2. /\ p.from = Units + 1 /\ p.to = Units + Len(u) /\ p.start = first
          /\ p.end = last /\ p.stamps = stamps
      BY <1>4
    <2>3. Len(stamps) = (Units + Len(u)) - (Units + 1) + 1
      BY <1>2, <1>4, <2>1
    <2>4. spoken'[Units + Len(u)].end = last
      BY <1>2, <1>4, SMTT(30) DEF last
    <2>5. \A i \in Units + 1 .. Units + Len(u) : spoken'[i].end <= last
      <3> TAKE i \in Units + 1 .. Units + Len(u)
      <3>1. i - Units \in 1..Len(u) /\ Units + (i - Units) = i
        BY <1>2, <1>4
      <3> QED
        BY <1>2, <1>4, <3>1 DEF last
    <2>6. \A i \in 1..Len(stamps) :
             stamps[i] = Interval(spoken'[Units + 1 + i - 1].start - by,
                                  spoken'[Units + 1 + i - 1].end - by)
      <3> TAKE i \in 1..Len(stamps)
      <3>1. Units + 1 + i - 1 = Units + i /\ i \in 1..Len(u)
        BY <1>4, <2>1
      <3> QED
        BY <1>2, <1>4, <2>1, <3>1
    <2>7. by \in {0, first}
      BY <1>2 DEF first
    <2>8. /\ Len(p.stamps) = p.to - p.from + 1 /\ p.start \in Nat
          /\ p.start < p.end /\ p.end = spoken'[p.to].end
          /\ \A i \in p.from .. p.to : spoken'[i].end <= p.end
          /\ by \in {0, p.start}
          /\ \A i \in 1..Len(p.stamps) :
                p.stamps[i] = Interval(spoken'[p.from + i - 1].start - by,
                                       spoken'[p.from + i - 1].end - by)
      BY <1>3, <2>2, <2>3, <2>4, <2>5, <2>6, <2>7
    <2> QED
      BY <2>8 DEF SaidIn, Earlier, p
  <1>7. AddPiece(u, stamps, first, last, label) /\ first <= last
    BY <1>2, <1>3 DEF first, last
  <1> QED
    BY <1>1, <1>3, <1>5, <1>6, <1>7, SentenceAdded

LEMMA BlankResult ==
  ASSUME LoopIInv, SpeakerIInv, ResultIInv, BlankSentence
  PROVE  LoopIInv' /\ SpeakerIInv' /\ ResultIInv'
  <1> DEFINE p == pieces'[Len(pieces')]
             none == <<>>
             end == EndOfSpeech
  <1>1. /\ Typed /\ Divided /\ phase = "loading" /\ backend = "pt" /\ end \in Nat
        /\ UNCHANGED <<mergeVars, phase, backend, verify, windows, words, speaker, result>>
        /\ AddPiece(none, none, end, end, 0)
    BY DEF ResultIInv, PiecesOrdered, BlankSentence
  <1>2. none \in Seq(Times) /\ Len(none) = 0 /\ 0 \in Nat /\ end \in Int
    BY <1>1
  <1>3. spoken \in Seq(Times) /\ spoken' = spoken /\ Units \in Nat
    BY <1>1 DEF AddPiece, Typed, Units
  <1>4. end' = end
    BY <1>3 DEF EndOfSpeech, Units
  <1> HIDE DEF none, end
  <1>5. p = [from |-> Units + 1, to |-> Units + Len(none), start |-> end, end |-> end,
             stamps |-> none, spk |-> 0]
    <2> DEFINE label == 0
    <2>1. label \in Nat /\ AddPiece(none, none, end, end, label)
      BY <1>1, <1>2
    <2> HIDE DEF label
    <2>2. PieceIsAdded(none, none, end, end, label)
      BY <1>1, <1>2, <2>1, PieceAdded
    <2> QED
      BY <2>2 DEF PieceIsAdded, label
  <1> HIDE DEF p
  <1>6. SaidIn(pieces[Len(pieces)])'
    <2>1. /\ p.from = Units + 1 /\ p.to = Units /\ p.start = end
          /\ p.end = end /\ p.stamps = none
      BY <1>2, <1>3, <1>5
    <2>2. /\ Len(p.stamps) = p.to - p.from + 1 /\ p.start \in Nat
          /\ ~(p.from <= p.to) /\ p.from .. p.to = {} /\ 1..Len(p.stamps) = {}
      BY <1>1, <1>2, <1>3, <2>1
    <2> QED
      BY <2>1, <2>2 DEF SaidIn, Earlier, p
  <1>7. end <= end
    BY <1>2
  <1> QED
    BY <1>1, <1>2, <1>4, <1>6, <1>7, SentenceAdded DEF end

(* The loop begins over the units of the pieces, sorted.                   *)
LEMMA SpeakerAnswersResult ==
  ASSUME LoopIInv, SpeakerIInv, ResultIInv, SpeakerAnswers
  PROVE  LoopIInv' /\ SpeakerIInv' /\ ResultIInv'
  <1>1. PICK out \in Diarizations : MergeBegins(TimedUnits, SpeakerSegments(out))
    BY DEF SpeakerAnswers
  <1>2. /\ phase' = "merging"
        /\ UNCHANGED <<backend, verify, windows, spoken, pieces, words, exact>>
        /\ Typed /\ Divided /\ WordsApart /\ PiecesOrdered /\ StampsTrue
    BY DEF SpeakerAnswers, ResultIInv
  <1>3. /\ TimedUnits \in Seq(Unit) /\ units' = Sorted(TimedUnits)
        /\ speakers' = SpeakerSegments(out) /\ next' = 1 /\ merged' = <<>> /\ current' = NoGroup
    BY <1>1, <1>2, TimedUnitsTyped DEF MergeBegins
  <1>4. Sorted(TimedUnits) \in Seq(Unit)
    <2> DEFINE T == TimedUnits
    <2> HIDE DEF T
    <2>1. T \in Seq(Unit) /\ DOMAIN T = 1..Len(T)
      BY <1>3 DEF T
    <2>2. \A i \in 1..Len(T) : T[i].start \in Int /\ T[i].end \in Int
      <3>1. \A t \in Unit : t.start \in Int /\ t.end \in Int
        BY DEF Unit
      <3> QED
        BY <2>1, <3>1
    <2>3. SortedAt(T, DOMAIN T) \in Seq(Unit)
      BY <2>1, <2>2, SortedIs
    <2> QED
      BY <2>3 DEF Sorted, T
  <1>5. LoopIInv'
    <2>1. /\ (units \in Seq(Unit))' /\ (next = 1)' /\ (merged = <<>>)'
          /\ (current = NoGroup)'
      BY <1>3, <1>4
    <2> QED
      BY <2>1, InitLoopIInv, PTL
  <1>6. SpeakerIInv'
    BY <1>3, SpeakersAre DEF SpeakerIInv, Speech
  <1>7. Typed' /\ Divided' /\ WordsApart' /\ PiecesOrdered' /\ StampsTrue'
    BY <1>2, SamePieces
  <1>8. Built'
    BY <1>2, <1>3, SameUnits DEF Built, Sorted
  <1> QED
    BY <1>5, <1>6, <1>7, <1>8 DEF ResultIInv

LEMMA SpeakerSkippedResult ==
  ASSUME LoopIInv, SpeakerIInv, ResultIInv, SpeakerSkipped
  PROVE  LoopIInv' /\ SpeakerIInv' /\ ResultIInv'
  <1>1. /\ phase \in {"loading", "asr"} /\ phase' = "merging" /\ next' = Len(units) + 2
        /\ UNCHANGED <<units, speakers, merged, current>>
        /\ UNCHANGED <<backend, verify, windows, spoken, pieces, words, exact>>
        /\ Typed /\ Divided /\ WordsApart /\ PiecesOrdered /\ StampsTrue /\ MergeIdle
    BY DEF SpeakerSkipped, Transcribed, ResultIInv, Built
  <1>2. units' = <<>> /\ merged' = <<>> /\ current' = NoGroup /\ next' = 2 /\ Len(units) = 0
    BY <1>1 DEF MergeIdle
  <1>3. current' \in [from : Nat, to : Nat, spk : {current'.spk}]
    BY <1>2 DEF NoGroup
  <1>4. LoopIInv'
    <2>1. LoopShape'
      BY <1>2, <1>3 DEF LoopShape
    <2>2. Limit' = 1 /\ Len(merged') = 0
      BY <1>2 DEF Limit
    <2>3. InOrder(merged', 1) /\ Covered(merged, 1)'
      BY <1>2, <2>2 DEF InOrder, Covered
    <2> QED
      BY <1>2, <2>1, <2>2, <2>3 DEF LoopIInv
  <1>5. SpeakerIInv'
    <2>1. Len(merged') = 0
      BY <1>2
    <2> QED
      BY <1>1, <1>2, <2>1 DEF SpeakerIInv
  <1>6. Typed' /\ Divided' /\ WordsApart' /\ PiecesOrdered' /\ StampsTrue'
    BY <1>1, SamePieces
  <1>7. Built'
    BY <1>1, <1>2 DEF Built
  <1> QED
    BY <1>4, <1>5, <1>6, <1>7 DEF ResultIInv

LEMMA MergeResult ==
  ASSUME LoopIInv, SpeakerIInv, ResultIInv, Merge
  PROVE  LoopIInv' /\ SpeakerIInv' /\ ResultIInv'
  <1>1. /\ phase = "merging" /\ phase' = phase
        /\ MergeUnit \/ MergeEnds
        /\ UNCHANGED <<backend, windows, spoken, pieces, words, exact, speaker>>
    BY DEF Merge
  <1>2. LoopIInv' /\ SpeakerIInv'
    BY <1>1, MergeUnitIInv, MergeEndsIInv, MergeUnitSpeaker, MergeEndsSpeaker
  <1>3. Typed' /\ Divided' /\ WordsApart' /\ PiecesOrdered' /\ StampsTrue'
    BY <1>1, SamePieces DEF ResultIInv
  <1>4. units' = units
    BY <1>1 DEF MergeUnit, MergeEnds
  <1>5. Built'
    BY <1>1, <1>4, SameUnits DEF ResultIInv, Built, Sorted
  <1> QED
    BY <1>2, <1>3, <1>5 DEF ResultIInv

LEMMA ParseResult ==
  ASSUME LoopIInv, SpeakerIInv, ResultIInv, Parse
  PROVE  LoopIInv' /\ SpeakerIInv' /\ ResultIInv'
  <1>1. /\ next = Len(units) + 2 /\ result' = Parsed /\ phase' = "done"
        /\ UNCHANGED <<backend, windows, spoken, pieces, words, exact, speaker>>
        /\ UNCHANGED mergeVars
    BY DEF Parse
  <1>2. LoopIInv' /\ SpeakerIInv'
    BY <1>1, SameLoop
  <1>3. Typed' /\ Divided' /\ WordsApart' /\ PiecesOrdered' /\ StampsTrue'
    BY <1>1, SamePieces DEF ResultIInv
  <1>4. Parsed' = Parsed /\ TimedUnits' = TimedUnits /\ units' = units /\ next' = next
    BY <1>1, SameParsed, SameUnits DEF mergeVars
  <1>5. Built'
    BY <1>1, <1>4 DEF ResultIInv, Built, Sorted
  <1> QED
    BY <1>2, <1>3, <1>5 DEF ResultIInv

LEMMA StutterResult ==
  ASSUME LoopIInv, SpeakerIInv, ResultIInv, UNCHANGED vars
  PROVE  LoopIInv' /\ SpeakerIInv' /\ ResultIInv'
  <1>1. /\ UNCHANGED <<backend, windows, spoken, pieces, words, exact, speaker, phase, result>>
        /\ UNCHANGED mergeVars
    BY DEF vars
  <1>2. LoopIInv' /\ SpeakerIInv'
    BY <1>1, SameLoop
  <1>3. Typed' /\ Divided' /\ WordsApart' /\ PiecesOrdered' /\ StampsTrue'
    BY <1>1, SamePieces DEF ResultIInv
  <1>4. Parsed' = Parsed /\ TimedUnits' = TimedUnits
    BY <1>1, SameParsed, SameUnits
  <1>5. Built'
    BY <1>1, <1>4 DEF ResultIInv, Built, Sorted, MergeIdle, mergeVars
  <1> QED
    BY <1>2, <1>3, <1>5 DEF ResultIInv

----------------------------------------------------------------------------
(* What a recognition has at every moment: the loop's invariant, groups    *)
(* labelled with the speaker of their units, and pieces that divide the    *)
(* units, with the times these were said at.                               *)
THEOREM ResultInvariant == Spec => [](LoopIInv /\ SpeakerIInv /\ ResultIInv)
  <1>1. ASSUME LoopIInv, SpeakerIInv, ResultIInv, [Next]_vars
        PROVE  LoopIInv' /\ SpeakerIInv' /\ ResultIInv'
    <2>1. CASE ModelFails
      BY <1>1, <2>1, FailResult DEF ModelFails
    <2>2. CASE DetectSpeech
      BY <1>1, <2>2, DetectSpeechResult
    <2>3. CASE DecodeSegment
      BY <1>1, <2>3, DecodeResult
    <2>4. CASE Sentence
      BY <1>1, <2>4, SentenceResult
    <2>5. CASE BlankSentence
      BY <1>1, <2>5, BlankResult
    <2>6. CASE SpeakerAnswers
      BY <1>1, <2>6, SpeakerAnswersResult
    <2>7. CASE SpeakerFails
      BY <1>1, <2>7, FailResult DEF SpeakerFails, Transcribed
    <2>8. CASE SpeakerSkipped
      BY <1>1, <2>8, SpeakerSkippedResult
    <2>9. CASE Merge
      BY <1>1, <2>9, MergeResult
    <2>10. CASE Parse
      BY <1>1, <2>10, ParseResult
    <2>11. CASE UNCHANGED vars
      BY <1>1, <2>11, StutterResult
    <2> QED
      BY <1>1, <2>1, <2>2, <2>3, <2>4, <2>5, <2>6, <2>7, <2>8, <2>9, <2>10, <2>11 DEF Next, Done
  <1> QED
    BY <1>1, InitResult, PTL DEF Spec

(* In every recognition, whatever the models return, merging loses no      *)
(* unit, says none twice and splits nobody's words.                        *)
THEOREM ResultMergeIsExact == Spec => []MergeExact
  <1>1. LoopIInv /\ SpeakerIInv /\ ResultIInv => MergeExact
    BY IInvIsExact
  <1> QED
    BY <1>1, ResultInvariant, PTL

(* A unit is given to somebody who speaks during it, if anybody does, and  *)
(* a longer one to whoever shares most of it.                              *)
THEOREM HeardSpeakerSaidIt == Spec => []SpeakerHeard
  <1>1. LoopIInv /\ SpeakerIInv /\ ResultIInv => SpeakerHeard
    BY SpeakerIInvIsHeard
  <1> QED
    BY <1>1, ResultInvariant, PTL

----------------------------------------------------------------------------
(* When a unit was said.                                                   *)

LEMMA DistanceIs ==
  ASSUME NEW a \in Int, NEW d \in Nat
  PROVE  Distance(a + d, a) = d
  <1>1. (a + d) - a \in Int /\ a - (a + d) \in Int /\ (a + d) - a = d /\ a - (a + d) = -d
    OBVIOUS
  <1> DEFINE x == (a + d) - a
             y == a - (a + d)
  <1>2. Distance(a + d, a) = IF x >= y THEN x ELSE y
    <2> HIDE DEF x, y
    <2>1. x \in Int /\ y \in Int
      BY <1>1 DEF x, y
    <2>2. Distance(a + d, a) = Max({x, y})
      BY DEF Distance, x, y
    <2> QED
      BY <2>1, <2>2, TwoExtremes
  <1> QED
    BY <1>1, <1>2

(* The last of the timestamps, as an element of the set maybe_offset looks *)
(* at, and the largest of them.                                            *)
LEMMA LatestStamp ==
  ASSUME NEW s \in Seq(Times), Len(s) # 0
  PROVE  LET ends == {s[i].end : i \in DOMAIN s}
         IN  /\ Max(ends) \in Int
             /\ \A i \in 1..Len(s) : s[i].end <= Max(ends)
             /\ \E i \in 1..Len(s) : s[i].end = Max(ends)
  <1> DEFINE f == [i \in 1..Len(s) |-> s[i].end]
             ends == {f[i] : i \in 1..Len(s)}
  <1>1. Len(s) \in Nat \ {0} /\ DOMAIN s = 1..Len(s) /\ \A i \in 1..Len(s) : f[i] = s[i].end
    OBVIOUS
  <1>2. ends = {s[i].end : i \in DOMAIN s}
    BY <1>1
  <1>3. \A i \in 1..Len(s) : f[i] \in Int
    BY <1>1, IntervalIs
  <1>4. IsFiniteSet(ends)
    <2>1. DOMAIN f = 1..Len(s) /\ f = [i \in 1..Len(s) |-> f[i]] /\ Len(s) \in Nat
      BY <1>1
    <2> HIDE DEF f
    <2> QED
      BY <2>1, FiniteValues
  <1>5. ends \subseteq Int /\ ends # {}
    <2>1. f[1] \in ends
      BY <1>1
    <2> QED
      BY <1>3, <2>1
  <1>6. Max(ends) \in ends /\ \A x \in ends : x <= Max(ends)
    <2> HIDE DEF ends
    <2> QED
      BY <1>4, <1>5, ExtremesOf
  <1> QED
    BY <1>1, <1>2, <1>3, <1>6

(* A sentence's timestamps, shifted or not, are at most the tolerance late.*)
LEMMA GuessIsClose ==
  ASSUME Typed, NEW p \in Piece, p.from >= 1, p.to <= Units, SaidIn(p),
         NEW j \in 1..Len(p.stamps)
  PROVE  LET said == spoken[p.from + j - 1]
         IN  \E d \in 0..Slack : /\ MaybeOffset(p)[j].start = said.start + d
                                 /\ MaybeOffset(p)[j].end = said.end + d
  <1> DEFINE x == p.from + j - 1
             s == p.stamps
             ends == {s[i].end : i \in DOMAIN s}
             late == Max(ends)
  <1>1. /\ p.from \in Nat /\ p.to \in Nat /\ p.start \in Nat /\ p.end \in Int /\ s \in Seq(Times)
        /\ Len(s) = p.to - p.from + 1 /\ Len(s) \in Nat /\ Len(s) # 0
        /\ Units \in Nat /\ spoken \in Seq(Times) /\ Slack \in Nat
    <2>1. /\ p.from \in Nat /\ p.to \in Nat /\ p.start \in Nat /\ p.end \in Int /\ s \in Seq(Times)
          /\ Len(s) = p.to - p.from + 1
      BY PieceTypes DEF SaidIn
    <2>2. Units \in Nat /\ spoken \in Seq(Times) /\ Slack \in Nat
      BY ResultAssumption DEF Typed, Units
    <2>3. Len(s) \in Nat /\ Len(s) # 0
      BY <2>1
    <2> QED
      BY <2>1, <2>2, <2>3
  <1>2. PICK by \in {0, p.start} : \A i \in 1..Len(s) : s[i] = Earlier(p, i, by)
    BY DEF SaidIn
  <1>3. by \in Nat /\ by \in {0, p.start}
    BY <1>1, <1>2
  <1>4. ASSUME NEW i \in 1..Len(s)
        PROVE  /\ p.from + i - 1 \in p.from .. p.to
               /\ spoken[p.from + i - 1].start \in Int /\ spoken[p.from + i - 1].end \in Int
               /\ s[i].start = spoken[p.from + i - 1].start - by
               /\ s[i].end = spoken[p.from + i - 1].end - by
    <2>1. p.from + i - 1 \in p.from .. p.to /\ p.from + i - 1 \in 1..Len(spoken)
      BY <1>1, SMTT(30) DEF Units
    <2>2. spoken[p.from + i - 1] \in Times
      BY <1>1, <2>1
    <2>3. spoken[p.from + i - 1].start \in Int /\ spoken[p.from + i - 1].end \in Int
      BY <2>2, IntervalIs
    <2>4. s[i] = Interval(spoken[p.from + i - 1].start - by, spoken[p.from + i - 1].end - by)
      BY <1>2 DEF Earlier
    <2>5. /\ s[i].start = spoken[p.from + i - 1].start - by
          /\ s[i].end = spoken[p.from + i - 1].end - by
      BY <2>4 DEF Interval
    <2> QED
      BY <2>1, <2>3, <2>5
  <1>5. /\ p.start < p.end /\ p.end = spoken[p.to].end
        /\ \A i \in p.from .. p.to : spoken[i].end <= p.end
    BY <1>1 DEF SaidIn
  <1>6. /\ late \in Int
        /\ \A i \in 1..Len(s) : s[i].end <= late
        /\ \E i \in 1..Len(s) : s[i].end = late
    BY <1>1, LatestStamp
  <1>7. late = p.end - by
    <2>1. Len(s) \in 1..Len(s) /\ p.from + Len(s) - 1 = p.to
      BY <1>1
    <2>2. s[Len(s)].end = p.end - by
      BY <1>4, <1>5, <2>1
    <2>3. p.end - by <= late
      BY <1>6, <2>1, <2>2
    <2>4. PICK i \in 1..Len(s) : s[i].end = late
      BY <1>6
    <2>5. s[i].end <= p.end - by
      <3> DEFINE e == spoken[p.from + i - 1].end
      <3>1. e <= p.end /\ e \in Int /\ s[i].end = e - by
        BY <1>4, <1>5
      <3> HIDE DEF e
      <3>2. e - by <= p.end - by
        BY <1>1, <1>3, <3>1
      <3> QED
        BY <3>1, <3>2
    <2>6. p.end - by \in Int
      BY <1>1, <1>3
    <2> HIDE DEF late
    <2> QED
      BY <1>6, <2>3, <2>4, <2>5, <2>6
  <1>8. MaybeOffset(p) = IF p.start > 0 /\ late <= p.end - p.start + Slack
                         THEN Shift(s, p.start) ELSE s
    <2>1. s # <<>>
      BY <1>1, EmptySeq
    <2> HIDE DEF late
    <2> QED
      BY <1>1, <1>5, <2>1 DEF MaybeOffset, late
  <1> HIDE DEF late, s
  <1>9. /\ spoken[x].start \in Int /\ spoken[x].end \in Int
        /\ s[j].start = spoken[x].start - by /\ s[j].end = spoken[x].end - by
    BY <1>4 DEF s
  <1> HIDE DEF x
  <1>10. CASE p.start > 0 /\ late <= p.end - p.start + Slack
    <2> DEFINE ahead == p.start
    <2>1. s \in Seq(Times) /\ ahead \in Int /\ j \in 1..Len(s)
      BY <1>1 DEF s
    <2> HIDE DEF ahead
    <2>2. /\ Shift(s, ahead)[j].start = s[j].start + ahead
          /\ Shift(s, ahead)[j].end = s[j].end + ahead
      BY <2>1, ShiftIs
    <2>3. ahead - by \in 0..Slack
      <3>1. \A a, b, e, k \in Int : b \in {0, a} /\ a > 0 /\ k >= 0 /\ e - b <= e - a + k
                                  => a - b \in 0..k
        OBVIOUS
      <3>2. ahead > 0 /\ p.end - by <= p.end - ahead + Slack /\ by \in {0, ahead}
        BY <1>3, <1>7, <1>10 DEF ahead
      <3> QED
        BY <1>1, <1>3, <2>1, <3>1, <3>2
    <2>4. \A a \in Int : (a - by) + ahead = a + (ahead - by)
      BY <1>3, <2>1
    <2>5. MaybeOffset(p) = Shift(s, ahead)
      BY <1>8, <1>10 DEF ahead
    <2>6. /\ MaybeOffset(p)[j].start = spoken[x].start + (ahead - by)
          /\ MaybeOffset(p)[j].end = spoken[x].end + (ahead - by)
      BY <1>9, <2>2, <2>4, <2>5
    <2> QED
      BY <2>3, <2>6 DEF x
  <1>11. CASE ~ (p.start > 0 /\ late <= p.end - p.start + Slack)
    <2>1. by = 0
      BY <1>1, <1>3, <1>7, <1>11
    <2>2. MaybeOffset(p) = s
      BY <1>8, <1>11
    <2>3. /\ MaybeOffset(p)[j].start = spoken[x].start + 0
          /\ MaybeOffset(p)[j].end = spoken[x].end + 0
      BY <1>9, <2>1, <2>2
    <2>4. 0 \in 0..Slack
      BY <1>1
    <2> QED
      BY <2>3, <2>4 DEF x
  <1> QED
    BY <1>10, <1>11

(* A unit of the merge for ONNX, whose timestamps are exact: the words come*)
(* in turn, and the first has the first timestamp.                         *)
LEMMA WordsInTurn ==
  ASSUME Typed, WordsApart, StampsTrue, exact, backend = "onnx",
         NEW j \in 1..Len(TimedUnits)
  PROVE  LET u == TimedUnits[j]
         IN  /\ j \in 1..Len(words) /\ u.from = words[j]
             /\ u.to = IF j < Len(words) THEN words[j + 1] - 1 ELSE Units
             /\ u.start = spoken[j].start /\ u.end = spoken[j].end
  <1>1. /\ Units \in Nat /\ Units = Len(spoken) /\ spoken \in Seq(Times)
        /\ words \in Seq(Nat) /\ Len(words) \in Nat
        /\ \A k \in 1..Len(words) : words[k] \in k..Units
    BY DEF Typed, Units, WordsApart
  <1>2. TimedUnits = Align(words, Units, spoken)
    BY DEF TimedUnits, StampsTrue
  <1>3. Len(words) <= Len(spoken)
    <2>1. Len(words) > 0 => Len(words) \in 1..Len(words) /\ words[Len(words)] \in Len(words)..Units
      BY <1>1
    <2> QED
      BY <1>1, <2>1
  <1> DEFINE n == IF Len(words) <= Len(spoken) THEN Len(words) ELSE Len(spoken)
             A == Align(words, Units, spoken)
  <1>4. /\ Len(A) = n
        /\ \A i \in 1..n : /\ A[i].from = words[i]
                           /\ A[i].to = IF i < n THEN words[i + 1] - 1 ELSE Units
                           /\ A[i].start = spoken[i].start /\ A[i].end = spoken[i].end
    BY <1>1, AlignIs, ZenonT(60)
  <1>5. n = Len(words)
    BY <1>3
  <1> HIDE DEF n, A
  <1> QED
    BY <1>2, <1>4, <1>5 DEF A

(* The j-th word is the j-th to begin.                                     *)
LEMMA WordsCounted ==
  ASSUME WordsApart, NEW j \in 1..Len(words)
  PROVE  WordsUpTo(words[j]) = j
  <1>1. /\ words \in Seq(Nat) /\ Len(words) \in Nat
        /\ \A k, m \in 1..Len(words) : k < m => words[k] < words[m]
        /\ ToSet(words) = {words[k] : k \in 1..Len(words)}
    BY ElementsOf DEF WordsApart
  <1> DEFINE f == [k \in 1..j |-> words[k]]
             S == {m \in ToSet(words) : m <= words[j]}
  <1>2. \A k \in 1..Len(words) : words[k] \in Nat /\ (words[k] <= words[j] <=> k <= j)
    <2> TAKE k \in 1..Len(words)
    <2>1. k < j => words[k] < words[j]
      BY <1>1
    <2>2. j < k => words[j] < words[k]
      BY <1>1
    <2>3. words[k] \in Nat /\ words[j] \in Nat
      BY <1>1
    <2>4. k < j \/ j < k \/ k = j
      BY <1>1
    <2> QED
      BY <1>1, <2>1, <2>2, <2>3, <2>4
  <1>3. \A k \in 1..j : k \in 1..Len(words) /\ k <= j
    BY <1>1
  <1>4. f \in [1..j -> S]
    BY <1>1, <1>2, <1>3
  <1>5. \A k, m \in 1..j : f[k] = f[m] => k = m
    <2> SUFFICES ASSUME NEW k \in 1..j, NEW m \in 1..j, f[k] = f[m], k # m PROVE FALSE
      OBVIOUS
    <2>1. words[k] = words[m] /\ words[k] \in Nat /\ (k < m \/ m < k)
      BY <1>1, <1>2, <1>3
    <2>2. words[k] < words[m] \/ words[m] < words[k]
      BY <1>1, <1>3, <2>1
    <2> QED
      BY <2>1, <2>2
  <1>6. \A m \in S : \E k \in 1..j : f[k] = m
    <2> TAKE m \in S
    <2>1. PICK k \in 1..Len(words) : m = words[k]
      BY <1>1
    <2>2. k <= j
      BY <1>2, <2>1
    <2>3. k \in 1..j
      BY <2>2
    <2> QED
      BY <2>1, <2>3
  <1> HIDE DEF f, S
  <1>7. f \in Bijection(1..j, S)
    <2>1. f \in Injection(1..j, S)
      BY <1>4, <1>5 DEF Injection, IsInjective
    <2>2. f \in Surjection(1..j, S)
      BY <1>4, <1>6 DEF Surjection
    <2> QED
      BY <2>1, <2>2 DEF Bijection
  <1>8. IsFiniteSet(1..j) /\ Cardinality(1..j) = j
    BY FS_Interval
  <1>9. Cardinality(S) = j
    BY <1>7, <1>8, FS_Bijection DEF ExistsBijection
  <1> QED
    BY <1>9 DEF S, WordsUpTo

(* No word begins inside another.                                          *)
LEMMA WordAlone ==
  ASSUME WordsApart, Units \in Nat, NEW j \in 1..Len(words)
  PROVE  LET to == IF j < Len(words) THEN words[j + 1] - 1 ELSE Units
         IN  (words[j] .. to) \cap ToSet(words) = {words[j]}
  <1> DEFINE to == IF j < Len(words) THEN words[j + 1] - 1 ELSE Units
  <1>1. /\ words \in Seq(Nat) /\ Len(words) \in Nat
        /\ \A k \in 1..Len(words) : words[k] \in k..Units
        /\ \A k, m \in 1..Len(words) : k < m => words[k] < words[m]
        /\ ToSet(words) = {words[k] : k \in 1..Len(words)}
    BY ElementsOf DEF WordsApart
  <1>2. j < Len(words) => j + 1 \in 1..Len(words) /\ words[j] < words[j + 1]
    <2>1. j < Len(words) => j + 1 \in 1..Len(words) /\ j < j + 1
      BY <1>1
    <2> QED
      BY <1>1, <2>1
  <1>3. words[j] \in words[j] .. to /\ words[j] \in ToSet(words)
    <2>1. words[j] \in Nat /\ words[j] <= Units
      BY <1>1
    <2>2. j < Len(words) => words[j + 1] \in Nat
      BY <1>1, <1>2
    <2> QED
      BY <1>1, <1>2, <2>1, <2>2
  <1>4. ASSUME NEW k \in 1..Len(words), words[k] \in words[j] .. to
        PROVE  k = j
    <2>1. CASE k < j
      <3>1. words[k] < words[j] /\ words[k] \in Nat /\ words[j] \in Nat
        BY <1>1, <2>1
      <3> QED
        BY <1>4, <3>1
    <2>2. CASE j < k
      <3>1. j < Len(words) /\ to = words[j + 1] - 1
        BY <1>1, <2>2
      <3>2. words[j + 1] <= words[k]
        <4>1. j + 1 = k \/ j + 1 < k
          BY <2>2
        <4>2. words[k] \in Nat
          BY <1>1
        <4> QED
          BY <1>1, <1>2, <3>1, <4>1, <4>2
      <3>3. words[k] \in Nat /\ words[j + 1] \in Nat
        BY <1>1, <1>2, <3>1, SMTT(30)
      <3>4. words[k] <= words[j + 1] - 1
        BY <1>4, <3>1
      <3> QED
        BY <3>2, <3>3, <3>4
    <2> QED
      BY <1>1, <2>1, <2>2
  <1> HIDE DEF to
  <1>5. (words[j] .. to) \cap ToSet(words) = {words[j]}
    BY <1>1, <1>3, <1>4
  <1> QED
    BY <1>5 DEF to

(* A unit of the merge for PT: with exact timestamps it is one unit of the *)
(* text, at most the tolerance late.                                       *)
LEMMA MergedWhenSaid ==
  ASSUME Typed, Divided, WordsApart, StampsTrue, exact, backend = "pt",
         NEW j \in 1..Len(TimedUnits), TimedUnits[j].from <= TimedUnits[j].to
  PROVE  LET u == TimedUnits[j]
         IN  /\ u.from = u.to /\ u.from \in 1..Units
             /\ \E d \in 0..Slack : /\ u.start = spoken[u.from].start + d
                                   /\ u.end = spoken[u.from].end + d
  <1> DEFINE u == TimedUnits[j]
  <1>1. Units \in Nat /\ spoken \in Seq(Times) /\ pieces \in Seq(Piece) /\ Slack \in Nat
    BY ResultAssumption DEF Typed, Units
  <1> DEFINE lists == [i \in DOMAIN pieces |-> UnitsOfSentence(pieces[i])]
  <1>2. backend = "pt" /\ backend # "onnx"
    OBVIOUS
  <1>3. /\ lists \in Seq(Seq(Unit)) /\ Len(lists) = Len(pieces) /\ TimedUnits = FlattenSeq(lists)
        /\ \A i \in 1..Len(pieces) : lists[i] = UnitsOfSentence(pieces[i])
    BY <1>1, <1>2, SentencesTyped DEF TimedUnits
  <1> HIDE DEF lists
  <1>4. TimedUnits \in Seq(Unit)
    BY TimedUnitsTyped
  <1>5. u \in UNION {ToSet(lists[n]) : n \in 1..Len(lists)}
    <2>1. u \in ToSet(TimedUnits)
      BY <1>4, ElementsOf
    <2> QED
      BY <1>3, <2>1, FlattenElements
  <1>6. PICK k \in 1..Len(pieces) : u \in ToSet(UnitsOfSentence(pieces[k]))
    BY <1>3, <1>5
  <1> DEFINE p == pieces[k]
  <1>7. /\ p \in Piece /\ p.from \in Nat /\ p.to \in Nat /\ p.from >= 1
        /\ p.from <= p.to + 1 /\ p.to <= Units /\ SaidIn(p)
    <2>1. p \in Piece /\ p.from \in 1 .. p.to + 1 /\ p.to <= Units /\ SaidIn(p)
      BY <1>1, <1>2, <1>6 DEF Divided, StampsTrue
    <2>2. p.from \in Nat /\ p.to \in Nat
      BY <2>1, PieceTypes
    <2> HIDE DEF p
    <2> QED
      BY <2>1, <2>2
  <1>8. u \in ToSet(UnitsOfSentence(p))
    BY <1>6
  <1> HIDE DEF p, u
  <1> DEFINE n == Len(p.stamps)
             A == Align(Text(p.from, p.to), p.to, MaybeOffset(p))
  <1>9. n = p.to - p.from + 1 /\ n \in Nat
    BY <1>7, PieceTypes DEF SaidIn
  <1>10. /\ Len(A) = n /\ A \in Seq(Unit)
        /\ \A i \in 1..n : /\ A[i].from = p.from + i - 1
                           /\ A[i].to = IF i < n THEN p.from + i - 1 ELSE p.to
                           /\ A[i].start = MaybeOffset(p)[i].start
                           /\ A[i].end = MaybeOffset(p)[i].end
    <2> DEFINE from == p.from
               to == p.to
               stamps == MaybeOffset(p)
               m == IF to - from + 1 <= Len(stamps) THEN to - from + 1 ELSE Len(stamps)
    <2>1. /\ from \in Nat /\ to \in Nat /\ from <= to + 1 /\ stamps \in Seq(Times)
          /\ m = n
      BY <1>7, <1>9, MaybeOffsetIs
    <2> HIDE DEF from, to, stamps, n
    <2>2. /\ Align(Text(from, to), to, stamps) \in Seq(Unit)
          /\ Len(Align(Text(from, to), to, stamps)) = m
          /\ \A i \in 1..m :
               /\ Align(Text(from, to), to, stamps)[i].from = from + i - 1
               /\ Align(Text(from, to), to, stamps)[i].to = IF i < m THEN from + i - 1 ELSE to
               /\ Align(Text(from, to), to, stamps)[i].start = stamps[i].start
               /\ Align(Text(from, to), to, stamps)[i].end = stamps[i].end
      BY <2>1, AlignTextIs, ZenonT(60)
    <2> HIDE DEF m
    <2> QED
      BY <2>1, <2>2 DEF from, to, stamps
  <1> HIDE DEF A, n
  <1>11. u.from <= u.to
    BY DEF u
  <1>12. UnitsOfSentence(p) = A
    <2>1. CASE UnitsOfSentence(p) = <<Whole(p)>>
      <3>1. ToSet(<<Whole(p)>>) = {Whole(p)}
        BY DEF ToSet
      <3>2. u.from = p.from /\ u.to = p.to
        BY <1>8, <2>1, <3>1 DEF Whole
      <3>3. p.from <= p.to /\ n # 0
        BY <1>7, <1>9, <1>11, <3>2
      <3> QED
        BY <1>7, <3>3, SentenceUnits DEF A, n
    <2>2. CASE UnitsOfSentence(p) # <<Whole(p)>>
      BY <1>7, <2>2, SentenceUnits DEF A
    <2> QED
      BY <2>1, <2>2
  <1>13. PICK i \in 1..n : u = A[i]
    BY <1>8, <1>10, <1>12, ElementsOf
  <1>14. u.from = p.from + i - 1 /\ u.to = p.from + i - 1 /\ u.from \in 1..Units
    <2>1. u.from = p.from + i - 1 /\ u.to = IF i < n THEN p.from + i - 1 ELSE p.to
      BY <1>10, <1>13
    <2>2. /\ p.from + i - 1 \in 1..Units
          /\ ~(i < n) => p.to = p.from + i - 1
      <3> DEFINE a == p.from
                 b == p.to
      <3>1. a \in Nat /\ b \in Nat /\ a >= 1 /\ b <= Units /\ n = b - a + 1
        BY <1>7, <1>9
      <3> HIDE DEF a, b
      <3>2. i \in Nat /\ 1 <= i /\ i <= n
        BY <1>9
      <3>3. a + i - 1 \in 1..Units /\ (~(i < n) => b = a + i - 1)
        BY <1>1, <3>1, <3>2
      <3> QED
        BY <3>3 DEF a, b
    <2> QED
      BY <2>1, <2>2
  <1>15. PICK d \in 0..Slack : /\ MaybeOffset(p)[i].start = spoken[p.from + i - 1].start + d
                               /\ MaybeOffset(p)[i].end = spoken[p.from + i - 1].end + d
    BY <1>7, GuessIsClose DEF n
  <1>16. /\ u.start = spoken[u.from].start + d /\ u.end = spoken[u.from].end + d
         /\ d \in 0 .. (IF backend = "pt" THEN Slack ELSE 0)
    BY <1>2, <1>10, <1>13, <1>14, <1>15
  <1> QED
    BY <1>14, <1>16 DEF u

LEMMA InvIsTimesTrue ==
  ASSUME ResultIInv
  PROVE  TimesTrue
  <1> DEFINE T == TimedUnits
  <1>1. SUFFICES ASSUME exact, NEW i \in DOMAIN units, units[i].from <= units[i].to
                 PROVE  IF backend = "onnx"
                        THEN /\ (units[i].from .. units[i].to) \cap ToSet(words) = {units[i].from}
                             /\ units[i].start = spoken[WordsUpTo(units[i].from)].start
                             /\ units[i].end = spoken[WordsUpTo(units[i].from)].end
                        ELSE /\ units[i].from = units[i].to
                             /\ Distance(units[i].start, spoken[units[i].from].start) <= Slack
                             /\ Distance(units[i].end, spoken[units[i].from].end) <= Slack
    BY DEF TimesTrue
  <1>2. /\ Typed /\ Divided /\ WordsApart /\ StampsTrue /\ Built
        /\ Slack \in Nat /\ spoken \in Seq(Times) /\ Units \in Nat
    BY ResultAssumption DEF ResultIInv, Typed, Units
  <1>3. T \in Seq(Unit) /\ DOMAIN T = 1..Len(T)
    BY <1>2, TimedUnitsTyped
  <1>4. units = SortedAt(T, DOMAIN T)
    BY <1>1, <1>2 DEF Built, Sorted
  <1> HIDE DEF T
  <1>5. PICK j \in 1..Len(T) : units[i] = T[j]
    <2>1. \A k \in 1..Len(T) : T[k].start \in Int /\ T[k].end \in Int
      <3>1. \A t \in Unit : t.start \in Int /\ t.end \in Int
        BY DEF Unit
      <3> QED
        BY <1>3, <3>1
    <2> DEFINE D == DOMAIN T
    <2>2. D \in SUBSET (1..Len(T))
      BY <1>3
    <2> HIDE DEF D
    <2>3. /\ SortedAt(T, D) \in Seq(Unit) /\ Len(SortedAt(T, D)) = Cardinality(D)
          /\ \A k \in 1..Cardinality(D) : \E m \in D : SortedAt(T, D)[k] = T[m]
      BY <1>3, <2>1, <2>2, SortedIs
    <2> QED
      BY <1>1, <1>4, <2>2, <2>3 DEF D
  <1> DEFINE u == T[j]
  <1>6. CASE backend = "onnx"
    <2>1. /\ j \in 1..Len(words) /\ u.from = words[j]
          /\ u.to = IF j < Len(words) THEN words[j + 1] - 1 ELSE Units
          /\ u.start = spoken[j].start /\ u.end = spoken[j].end
      BY <1>1, <1>2, <1>6, WordsInTurn DEF T
    <2> HIDE DEF u
    <2>2. WordsUpTo(u.from) = j
      BY <1>2, <2>1, WordsCounted
    <2>3. (u.from .. u.to) \cap ToSet(words) = {u.from}
      BY <1>2, <2>1, WordAlone
    <2> QED
      BY <1>5, <1>6, <2>1, <2>2, <2>3 DEF u
  <1>7. CASE backend # "onnx"
    <2>1. /\ u.from = u.to /\ u.from \in 1..Units
          /\ \E d \in 0..Slack : /\ u.start = spoken[u.from].start + d
                                /\ u.end = spoken[u.from].end + d
      <3>1. backend = "pt"
        BY <1>2, <1>7 DEF Typed
      <3> QED
        BY <1>1, <1>2, <1>5, <3>1, MergedWhenSaid DEF T
    <2> HIDE DEF u
    <2>2. PICK d \in 0..Slack : /\ u.start = spoken[u.from].start + d
                               /\ u.end = spoken[u.from].end + d
      BY <2>1
    <2>3. spoken[u.from].start \in Int /\ spoken[u.from].end \in Int
      BY <1>2, <2>1, IntervalIs DEF Units
    <2>4. d \in Nat /\ d <= Slack
      BY <1>2, <2>2
    <2>5. /\ Distance(u.start, spoken[u.from].start) = d
          /\ Distance(u.end, spoken[u.from].end) = d
      BY <2>2, <2>3, <2>4, DistanceIs
    <2> QED
      BY <1>5, <1>7, <2>1, <2>4, <2>5 DEF u
  <1> QED
    BY <1>6, <1>7

(* With one timestamp for each unit, every unit is merged at the time it   *)
(* was said: exactly for ONNX, whose windows are padded and begin anywhere,*)
(* until words fuse at the border of segments, and then with the time of   *)
(* the unit that lies as many units before it as words have fused; within  *)
(* maybe_offset's tolerance for PT, which guesses whether the timestamps of*)
(* a sentence are absolute.                                                *)
THEOREM MergedAtTheirTime == Spec => []TimesTrue
  <1>1. LoopIInv /\ SpeakerIInv /\ ResultIInv => TimesTrue
    BY InvIsTimesTrue
  <1> QED
    BY <1>1, ResultInvariant, PTL

----------------------------------------------------------------------------
(* What the units of the merge have of the text.                           *)

Span(u) == u.from .. u.to

(* The spans of s divide X among them.                                     *)
Splits(s, X) ==
    /\ \A i, j \in 1..Len(s) : \A x : x \in Span(s[i]) /\ x \in Span(s[j]) => i = j
    /\ \A i \in 1..Len(s) : Span(s[i]) \subseteq X
    /\ \A x \in X : \E i \in 1..Len(s) : x \in Span(s[i])

LEMMA AlignSplits ==
  ASSUME NEW from \in Nat, NEW to \in Nat, from <= to + 1, NEW stamps \in Seq(Times),
         Len(stamps) # 0 \/ from = to + 1
  PROVE  Splits(Align(Text(from, to), to, stamps), from .. to)
  <1> DEFINE A == Align(Text(from, to), to, stamps)
             n == IF to - from + 1 <= Len(stamps) THEN to - from + 1 ELSE Len(stamps)
  <1>1. /\ n \in Nat /\ Len(A) = n
        /\ \A i \in 1..n : A[i].from = from + i - 1 /\ A[i].to = IF i < n THEN from + i - 1 ELSE to
    <2>1. /\ n \in Nat /\ A \in Seq(Unit) /\ Len(A) = n
          /\ \A i \in 1..n : /\ A[i].from = from + i - 1
                             /\ A[i].to = IF i < n THEN from + i - 1 ELSE to
                             /\ A[i].start = stamps[i].start
                             /\ A[i].end = stamps[i].end
      BY AlignTextIs, ZenonT(60)
    <2> QED
      BY <2>1
  <1>2. n <= to - from + 1 /\ (from <= to => n # 0)
    <2>1. Len(stamps) \in Nat
      OBVIOUS
    <2> QED
      BY <2>1
  <1> HIDE DEF A, n
  <1>3. ASSUME NEW i \in 1..n
        PROVE  Span(A[i]) = IF i < n THEN {from + i - 1} ELSE from + n - 1 .. to
    <2>1. i \in Nat /\ from + i - 1 \in Int /\ (~(i < n) => i = n)
      BY <1>1
    <2>2. \A a \in Int : a .. a = {a}
      OBVIOUS
    <2> QED
      BY <1>1, <2>1, <2>2 DEF Span
  <1>4. ASSUME NEW i \in 1..n, NEW x \in Span(A[i])
        PROVE  x \in from .. to /\ i = IF x < from + n - 1 THEN x - from + 1 ELSE n
    <2>1. CASE i < n
      BY <1>1, <1>2, <1>3, <1>4, <2>1
    <2>2. CASE ~ (i < n)
      BY <1>1, <1>2, <1>3, <1>4, <2>2
    <2> QED
      BY <2>1, <2>2
  <1>5. ASSUME NEW x \in from .. to
        PROVE  \E i \in 1..n : x \in Span(A[i])
    <2>1. n # 0 /\ n \in 1..n
      BY <1>1, <1>2
    <2>2. CASE x < from + n - 1
      <3>1. x - from + 1 \in 1..n /\ x - from + 1 < n /\ from + (x - from + 1) - 1 = x
        BY <1>1, <2>2
      <3> QED
        BY <1>3, <3>1
    <2>3. CASE ~ (x < from + n - 1)
      <3>1. x \in from + n - 1 .. to /\ ~(n < n)
        BY <1>1, <2>3
      <3> QED
        BY <1>3, <2>1, <3>1
    <2> QED
      BY <2>2, <2>3
  <1>6. Splits(A, from .. to)
    BY <1>1, <1>4, <1>5 DEF Splits
  <1> QED
    BY <1>6 DEF A

LEMMA SentenceSplits ==
  ASSUME NEW p \in Piece, p.from <= p.to + 1
  PROVE  Splits(UnitsOfSentence(p), Span(p))
  <1>1. p.from \in Nat /\ p.to \in Nat /\ MaybeOffset(p) \in Seq(Times)
    BY PieceTypes, MaybeOffsetIs
  <1>2. CASE UnitsOfSentence(p) = <<Whole(p)>>
    <2>1. /\ Len(<<Whole(p)>>) = 1 /\ <<Whole(p)>>[1] = Whole(p) /\ \A i \in 1..1 : i = 1
          /\ 1 \in 1..1 /\ Span(Whole(p)) = Span(p)
      BY DEF Whole, Span
    <2> HIDE DEF Whole
    <2> QED
      BY <1>2, <2>1 DEF Splits
  <1>3. CASE UnitsOfSentence(p) # <<Whole(p)>>
    <2>1. /\ Len(UnitsOfSentence(p)) # 0
          /\ UnitsOfSentence(p) = Align(Text(p.from, p.to), p.to, MaybeOffset(p))
      BY <1>3, SentenceUnits
    <2> DEFINE from == p.from
               to == p.to
               stamps == MaybeOffset(p)
    <2>2. /\ from \in Nat /\ to \in Nat /\ from <= to + 1 /\ stamps \in Seq(Times)
          /\ Len(Align(Text(from, to), to, stamps)) # 0
      BY <1>1, <2>1
    <2> HIDE DEF from, to, stamps
    <2>3. Len(stamps) # 0
      <3>1. Len(Align(Text(from, to), to, stamps)) =
               IF to - from + 1 <= Len(stamps) THEN to - from + 1 ELSE Len(stamps)
        BY <2>2, AlignTextIs, ZenonT(60)
      <3>2. to - from + 1 \in Nat /\ Len(stamps) \in Nat
        BY <2>2
      <3> QED
        BY <2>2, <3>1, <3>2
    <2>4. Splits(Align(Text(from, to), to, stamps), from .. to)
      BY <2>2, <2>3, AlignSplits
    <2> QED
      BY <2>1, <2>4 DEF from, to, stamps, Span
  <1> QED
    BY <1>2, <1>3

(* What divides the text among the pieces divides it among their units.    *)
LEMMA PiecesSplit ==
  ASSUME pieces \in Seq(Piece), Divided, Units \in Nat,
         NEW T, NEW lists \in Seq(Seq(T)), Len(lists) = Len(pieces),
         \A k \in 1..Len(pieces) : Splits(lists[k], Span(pieces[k]))
  PROVE  Splits(FlattenSeq(lists), 1..Units)
  <1> DEFINE F == FlattenSeq(lists)
             N == Len(pieces)
  <1>1. \E r, c : Placed(F, lists, Len(lists), r, c)
    BY FlattenPlaced
  <1>2. PICK row, col : Placed(F, lists, N, row, col)
    BY <1>1
  <1>3. F \in Seq(T) /\ Len(F) \in Nat /\ N \in Nat
    BY FlattenType
  <1> HIDE DEF F, N
  <1>4. /\ \A i \in 1..Len(F) : /\ row[i] \in 1..N /\ col[i] \in Nat
                                /\ col[i] \in 1..Len(lists[row[i]])
                                /\ F[i] = lists[row[i]][col[i]]
        /\ \A i, j \in 1..Len(F) : i < j => row[i] < row[j] \/ (row[i] = row[j] /\ col[i] < col[j])
        /\ \A m \in 1..N : \A k \in 1..Len(lists[m]) : \E i \in 1..Len(F) : row[i] = m /\ col[i] = k
    BY <1>2 DEF Placed
  <1>5. ASSUME NEW k \in 1..N
        PROVE  /\ pieces[k].from \in Nat /\ pieces[k].to \in Nat
               /\ pieces[k].from >= 1 /\ pieces[k].to <= Units
               /\ Splits(lists[k], Span(pieces[k]))
    BY PieceTypes DEF Divided, N
  <1>6. ASSUME NEW k \in 1..N, NEW m \in 1..N, NEW x \in Span(pieces[k]), x \in Span(pieces[m])
        PROVE  k = m
    <2>1. \A a, b \in 1..N : a < b => pieces[a].to < pieces[b].from
      BY DEF Divided, N
    <2>2. x \in Nat /\ pieces[k].from <= x /\ x <= pieces[k].to
          /\ pieces[m].from <= x /\ x <= pieces[m].to
      BY <1>5, <1>6 DEF Span
    <2>3. ~ (k < m)
      BY <1>5, <2>1, <2>2
    <2>4. ~ (m < k)
      BY <1>5, <2>1, <2>2
    <2> QED
      BY <1>3, <2>3, <2>4
  <1>7. ASSUME NEW i \in 1..Len(F)
        PROVE  Span(F[i]) \subseteq Span(pieces[row[i]]) /\ Span(F[i]) = Span(lists[row[i]][col[i]])
    <2> DEFINE k == row[i]
               l == lists[k]
    <2>1. k \in 1..N /\ col[i] \in 1..Len(l) /\ F[i] = l[col[i]]
      BY <1>4
    <2> HIDE DEF k
    <2>2. \A m \in 1..Len(l) : Span(l[m]) \subseteq Span(pieces[k])
      BY <1>5, <2>1 DEF Splits
    <2> HIDE DEF l
    <2>3. Span(F[i]) \subseteq Span(pieces[k]) /\ Span(F[i]) = Span(l[col[i]])
      BY <2>1, <2>2
    <2> QED
      BY <2>3 DEF k, l
  <1>8. ASSUME NEW i \in 1..Len(F), NEW j \in 1..Len(F), NEW x, x \in Span(F[i]), x \in Span(F[j])
        PROVE  i = j
    <2>1. row[i] = row[j]
      BY <1>4, <1>6, <1>7, <1>8
    <2>2. col[i] = col[j]
      <3>1. x \in Span(lists[row[i]][col[i]]) /\ x \in Span(lists[row[i]][col[j]])
        BY <1>7, <1>8, <2>1
      <3> QED
        BY <1>4, <1>5, <2>1, <3>1 DEF Splits
    <2>3. \A y, z \in 1..Len(F) : y < z => ~ (row[y] = row[z] /\ col[y] = col[z])
      <3>1. \A y \in 1..Len(F) : row[y] \in Nat /\ col[y] \in Nat
        BY <1>3, <1>4
      <3>2. \A a, b \in Nat : a < b => a # b
        OBVIOUS
      <3> QED
        BY <1>4, <3>1, <3>2
    <2>4. i < j \/ j < i \/ i = j
      BY <1>3
    <2> QED
      BY <2>1, <2>2, <2>3, <2>4
  <1>9. ASSUME NEW i \in 1..Len(F) PROVE Span(F[i]) \subseteq 1..Units
    <2>1. Span(pieces[row[i]]) \subseteq 1..Units
      BY <1>4, <1>5, SMTT(30) DEF Span
    <2> QED
      BY <1>7, <2>1
  <1>10. ASSUME NEW x \in 1..Units PROVE \E i \in 1..Len(F) : x \in Span(F[i])
    <2>1. PICK k \in 1..N : x \in Span(pieces[k])
      BY DEF Divided, N, Span
    <2>2. PICK m \in 1..Len(lists[k]) : x \in Span(lists[k][m])
      BY <1>5, <2>1 DEF Splits
    <2>3. PICK i \in 1..Len(F) : row[i] = k /\ col[i] = m
      BY <1>4
    <2> QED
      BY <1>4, <2>2, <2>3
  <1>11. Splits(F, 1..Units)
    BY <1>8, <1>9, <1>10 DEF Splits
  <1> QED
    BY <1>11 DEF F

(* Every unit is in one word, the last token takes what is left over.      *)
LEMMA WordsSplit ==
  ASSUME WordsApart, backend = "onnx", Units \in Nat,
         NEW stamps \in Seq(Times), Len(stamps) # 0
  PROVE  Splits(Align(words, Units, stamps), 1..Units)
  <1> DEFINE A == Align(words, Units, stamps)
             L == Len(words)
             n == IF L <= Len(stamps) THEN L ELSE Len(stamps)
  <1>1. /\ words \in Seq(Nat) /\ L \in Nat
        /\ \A k \in 1..L : words[k] \in Nat /\ words[k] >= 1 /\ words[k] <= Units
        /\ \A k, m \in 1..L : k < m => words[k] < words[m]
        /\ \A x \in 1..Units : \E k \in 1..L : words[k] <= x /\ (k < L => x < words[k + 1])
    <2> HIDE DEF A, n
    <2>1. words \in Seq(Nat) /\ L \in Nat
      BY DEF WordsApart
    <2>2. \A k \in 1..L : words[k] \in k..Units
      BY DEF WordsApart
    <2>3. \A k, m \in 1..L : k < m => words[k] < words[m]
      BY DEF WordsApart
    <2>4. \A x \in 1..Units : \E k \in 1..L : words[k] <= x /\ (k < L => x < words[k + 1])
      BY DEF WordsApart
    <2> HIDE DEF L
    <2>5. \A k \in 1..L : words[k] \in Nat /\ words[k] >= 1 /\ words[k] <= Units
      BY <2>1, <2>2
    <2> QED
      BY <2>1, <2>3, <2>4, <2>5
  <1>2. /\ n \in Nat /\ Len(A) = n /\ n <= L /\ (L # 0 => n # 0)
        /\ \A i \in 1..n : /\ A[i].from = words[i]
                           /\ A[i].to = IF i < n THEN words[i + 1] - 1 ELSE Units
    <2>1. words \in Seq(Nat) /\ Units \in Nat /\ stamps \in Seq(Times)
      BY <1>1
    <2>2. /\ n \in Nat /\ A \in Seq(Unit) /\ Len(A) = n
          /\ \A i \in 1..n : /\ A[i].from = words[i]
                             /\ A[i].to = IF i < n THEN words[i + 1] - 1 ELSE Units
                             /\ A[i].start = stamps[i].start
                             /\ A[i].end = stamps[i].end
      BY <2>1, AlignIs, ZenonT(60)
    <2>3. Len(stamps) \in Nat
      OBVIOUS
    <2>4. n <= L /\ (L # 0 => n # 0)
      BY <1>1, <2>3
    <2> QED
      BY <2>2, <2>4
  <1> HIDE DEF A, L, n
  <1>3. ASSUME NEW k \in 1..n, NEW m \in 1..n
        PROVE  /\ words[k] \in Nat /\ words[k] >= 1 /\ words[k] <= Units
               /\ k < m => k < n /\ words[k + 1] \in Nat /\ words[k + 1] <= words[m]
    <2>1. k \in 1..L /\ m \in 1..L /\ (k < m => k < n /\ k + 1 \in 1..L /\ (k + 1 = m \/ k + 1 < m))
      BY <1>1, <1>2
    <2>2. words[k] \in Nat /\ words[k] >= 1 /\ words[k] <= Units /\ words[m] \in Nat
      BY <1>1, <2>1
    <2>3. k < m => words[k + 1] \in Nat
      BY <1>1, <2>1
    <2>4. k < m => words[k + 1] = words[m] \/ words[k + 1] < words[m]
      BY <1>1, <2>1
    <2>5. k < m => words[k + 1] <= words[m]
      BY <2>2, <2>3, <2>4
    <2> QED
      BY <2>1, <2>2, <2>3, <2>5
  <1>4. ASSUME NEW i \in 1..n, NEW m \in 1..n, NEW x \in Span(A[i]), x \in Span(A[m])
        PROVE  ~(i < m)
    <2>1. SUFFICES ASSUME i < m PROVE FALSE
      OBVIOUS
    <2>2. words[i + 1] <= words[m] /\ i < n /\ words[i + 1] \in Nat /\ words[m] \in Nat
      BY <1>3, <2>1
    <2>3. x <= words[i + 1] - 1 /\ x >= words[m] /\ x \in Int
      BY <1>2, <1>4, <2>2 DEF Span
    <2> QED
      BY <2>2, <2>3
  <1>5. ASSUME NEW i \in 1..n, NEW x \in Span(A[i]) PROVE x \in 1..Units
    <2>1. i < n => words[i + 1] - 1 <= Units /\ words[i + 1] \in Nat
      <3>1. i < n => i + 1 \in 1..L
        BY <1>1, <1>2
      <3>2. i < n => words[i + 1] \in Nat /\ words[i + 1] <= Units
        BY <1>1, <3>1
      <3> QED
        BY <3>2
    <2>2. words[i] \in Nat /\ words[i] >= 1
      BY <1>3
    <2> QED
      BY <1>2, <2>1, <2>2 DEF Span
  <1>6. ASSUME NEW x \in 1..Units PROVE \E i \in 1..n : x \in Span(A[i])
    <2>1. PICK k \in 1..L : words[k] <= x /\ (k < L => x < words[k + 1])
      BY <1>1
    <2>2. CASE k < n
      <3>1. k \in 1..n /\ k < L /\ k + 1 \in 1..L
        BY <1>1, <1>2, <2>2
      <3>2. A[k].from <= x /\ x <= A[k].to
        <4>1. words[k + 1] \in Nat /\ x < words[k + 1]
          BY <1>1, <2>1, <3>1
        <4>2. A[k].from = words[k] /\ A[k].to = words[k + 1] - 1
          BY <1>2, <2>2, <3>1
        <4> QED
          BY <2>1, <4>1, <4>2
      <3>3. A[k].from \in Int /\ A[k].to \in Int
        <4>1. words[k] \in Nat /\ words[k + 1] \in Nat
          BY <1>1, <3>1
        <4>2. A[k].from = words[k] /\ A[k].to = words[k + 1] - 1
          BY <1>2, <2>2, <3>1
        <4> QED
          BY <4>1, <4>2
      <3> QED
        BY <3>1, <3>2, <3>3 DEF Span
    <2>3. CASE ~(k < n)
      <3>1. n \in 1..n /\ n \in 1..L /\ (n = k \/ n < k)
        BY <1>1, <1>2, <2>3
      <3>2. words[n] <= x /\ words[n] \in Nat
        <4>1. words[k] \in Nat /\ words[n] \in Nat
          BY <1>1, <3>1
        <4>2. words[n] = words[k] \/ words[n] < words[k]
          BY <1>1, <3>1
        <4> QED
          BY <2>1, <4>1, <4>2
      <3>3. A[n].from = words[n] /\ A[n].to = Units
        BY <1>2, <3>1
      <3> QED
        BY <3>1, <3>2, <3>3 DEF Span
    <2> QED
      BY <2>2, <2>3
  <1>7. \A i, m \in 1..n : \A x : x \in Span(A[i]) /\ x \in Span(A[m]) => i = m
    <2> SUFFICES ASSUME NEW i \in 1..n, NEW m \in 1..n, NEW x, x \in Span(A[i]), x \in Span(A[m])
                 PROVE  i = m
      OBVIOUS
    <2>1. ~(i < m) /\ ~(m < i)
      BY <1>4
    <2> QED
      BY <1>2, <2>1
  <1>8. Splits(A, 1..Units)
    BY <1>2, <1>5, <1>6, <1>7 DEF Splits
  <1> QED
    BY <1>8 DEF A

LEMMA TimedUnitsSplit ==
  ASSUME Typed, Divided, WordsApart, Len(TimedUnits) # 0
  PROVE  Splits(TimedUnits, 1..Units)
  <1>1. Units \in Nat /\ pieces \in Seq(Piece) /\ AllStamps \in Seq(Times)
    BY StampsTyped DEF Typed, Units
  <1>2. CASE backend = "onnx"
    <2>1. TimedUnits = Align(words, Units, AllStamps)
      BY <1>2 DEF TimedUnits
    <2>2. Len(AllStamps) # 0
      <3>1. Len(Align(words, Units, AllStamps)) =
               IF Len(words) <= Len(AllStamps) THEN Len(words) ELSE Len(AllStamps)
        <4>1. words \in Seq(Nat)
          BY DEF WordsApart
        <4> QED
          BY <1>1, <4>1, AlignIs, ZenonT(60)
      <3>2. Len(words) \in Nat /\ Len(AllStamps) \in Nat
        BY <1>1 DEF WordsApart
      <3> QED
        BY <2>1, <3>1, <3>2
    <2> QED
      BY <1>1, <1>2, <2>1, <2>2, WordsSplit
  <1>3. CASE backend # "onnx"
    <2> DEFINE lists == [i \in DOMAIN pieces |-> UnitsOfSentence(pieces[i])]
    <2>1. /\ lists \in Seq(Seq(Unit)) /\ Len(lists) = Len(pieces)
          /\ TimedUnits = FlattenSeq(lists)
          /\ \A i \in 1..Len(pieces) : lists[i] = UnitsOfSentence(pieces[i])
      BY <1>1, <1>3, SentencesTyped DEF TimedUnits
    <2> HIDE DEF lists
    <2>2. ASSUME NEW k \in 1..Len(pieces) PROVE Splits(lists[k], Span(pieces[k]))
      <3>1. pieces[k] \in Piece /\ pieces[k].to \in Nat /\ pieces[k].from \in 1 .. pieces[k].to + 1
        BY <1>1, PieceTypes DEF Divided
      <3>2. pieces[k].from <= pieces[k].to + 1
        BY <3>1
      <3>3. Splits(UnitsOfSentence(pieces[k]), Span(pieces[k]))
        BY <3>1, <3>2, SentenceSplits
      <3> QED
        BY <2>1, <3>3
    <2> QED
      BY <1>1, <2>1, <2>2, PiecesSplit
  <1> QED
    BY <1>2, <1>3

(* Sorting moves the spans.                                                *)
LEMMA SortedSplit ==
  ASSUME NEW T \in Seq(Unit), NEW X, Splits(T, X)
  PROVE  Splits(Sorted(T), X)
  <1> DEFINE D == DOMAIN T
             N == Cardinality(D)
             S == SortedAt(T, D)
  <1>1. D = 1..Len(T) /\ D \in SUBSET (1..Len(T))
    OBVIOUS
  <1>2. \A i \in 1..Len(T) : T[i].start \in Int /\ T[i].end \in Int
    <2>1. \A t \in Unit : t.start \in Int /\ t.end \in Int
      BY DEF Unit
    <2> QED
      BY <2>1
  <1>3. S \in Seq(Unit) /\ Len(S) = N /\ N \in Nat
    BY <1>1, <1>2, SortedIs
  <1>4. PICK at : SortOf(T, D, at)
    <2>1. \E at : SortOf(T, D, at)
      BY <1>1, <1>2, SortingIsOrder
    <2> QED
      BY <2>1
  <1> HIDE DEF D, N
  <1>5. /\ \A k \in 1..N : at[k] \in D /\ S[k] = T[at[k]]
        /\ \A k, l \in 1..N : at[k] = at[l] => k = l
        /\ \A i \in D : \E k \in 1..N : at[k] = i
    <2>1. at \in Bijection(1..N, D) /\ S = [k \in 1..N |-> T[at[k]]]
      BY <1>4 DEF SortOf, N
    <2> HIDE DEF S
    <2>2. /\ at \in [1..N -> D]
          /\ \A k, l \in 1..N : at[k] = at[l] => k = l
          /\ \A i \in D : \E k \in 1..N : at[k] = i
      <3>1. at \in Injection(1..N, D) /\ at \in Surjection(1..N, D)
        BY <2>1 DEF Bijection
      <3>2. at \in [1..N -> D] /\ \A k, l \in 1..N : at[k] = at[l] => k = l
        BY <3>1 DEF Injection, IsInjective
      <3>3. \A i \in D : \E k \in 1..N : at[k] = i
        BY <3>1 DEF Surjection
      <3> QED
        BY <3>2, <3>3
    <2> QED
      BY <2>1, <2>2
  <1> HIDE DEF S
  <1>6. Splits(S, X)
    <2>1. /\ \A i, j \in D : \A x : x \in Span(T[i]) /\ x \in Span(T[j]) => i = j
          /\ \A i \in D : Span(T[i]) \subseteq X
          /\ \A x \in X : \E i \in D : x \in Span(T[i])
      BY <1>1 DEF Splits
    <2>2. \A i, j \in 1..N : \A x : x \in Span(S[i]) /\ x \in Span(S[j]) => i = j
      BY <1>5, <2>1
    <2>3. \A i \in 1..N : Span(S[i]) \subseteq X
      BY <1>5, <2>1
    <2>4. \A x \in X : \E i \in 1..N : x \in Span(S[i])
      BY <1>5, <2>1
    <2> QED
      BY <1>3, <2>2, <2>3, <2>4 DEF Splits
  <1> QED
    BY <1>6 DEF S, D, Sorted

----------------------------------------------------------------------------
(* The segments and their texts.                                           *)

Said(parts) == FlattenSeq([k \in DOMAIN parts |-> parts[k].text])

SegmentBy(S) == [text : Seq(Int), start : Int, end : Int, spk : S]

LEMMA TextIs ==
  ASSUME NEW from \in Int, NEW to \in Int
  PROVE  /\ Text(from, to) \in Seq(Int) /\ IsInjective(Text(from, to))
         /\ ToSet(Text(from, to)) = from .. to
  <1> DEFINE t == Text(from, to)
             n == IF from <= to THEN to - from + 1 ELSE 0
  <1>1. n \in Nat /\ 1 .. to - from + 1 = 1..n
    OBVIOUS
  <1>2. t = [i \in 1..n |-> from + i - 1]
    BY <1>1 DEF Text
  <1>3. t \in [1..n -> Int]
    BY <1>1, <1>2
  <1>4. t \in Seq(Int) /\ Len(t) = n
    BY <1>1, <1>3
  <1>5. IsInjective(t)
    BY <1>1, <1>2 DEF IsInjective
  <1>6. ToSet(t) = {t[i] : i \in 1..n}
    BY <1>4, ElementsOf
  <1>7. \A i \in 1..n : from + i - 1 \in from .. to
    BY <1>1
  <1>8. ASSUME NEW x \in from .. to PROVE \E i \in 1..n : x = from + i - 1
    <2>1. x - from + 1 \in 1..n /\ x = from + (x - from + 1) - 1
      BY <1>1
    <2> QED
      BY <2>1
  <1> HIDE DEF t, n
  <1>9. ToSet(t) = from .. to
    BY <1>2, <1>6, <1>7, <1>8
  <1> QED
    BY <1>4, <1>5, <1>9 DEF t

(* Texts of which no two share a unit and that together have 1..N.         *)
LEMMA TextsWhole ==
  ASSUME NEW N \in Nat, NEW texts \in Seq(Seq(Int)),
         \A k \in 1..Len(texts) : IsInjective(texts[k]),
         \A j, k \in 1..Len(texts) : \A x : x \in ToSet(texts[j]) /\ x \in ToSet(texts[k]) => j = k,
         \A k \in 1..Len(texts) : ToSet(texts[k]) \subseteq 1..N,
         \A x \in 1..N : \E k \in 1..Len(texts) : x \in ToSet(texts[k])
  PROVE  ToSet(FlattenSeq(texts)) = 1..N /\ Len(FlattenSeq(texts)) = N
  <1> DEFINE F == FlattenSeq(texts)
  <1>1. \A j, k \in 1..Len(texts) : j # k => ToSet(texts[j]) \cap ToSet(texts[k]) = {}
    OBVIOUS
  <1>2. F \in Seq(Int) /\ IsInjective(F)
    BY <1>1, FlattenType, FlattenInjective
  <1>3. ToSet(F) = UNION {ToSet(texts[k]) : k \in 1..Len(texts)}
    BY FlattenElements
  <1>4. UNION {ToSet(texts[k]) : k \in 1..Len(texts)} = 1..N
    <2> DEFINE sets == {ToSet(texts[k]) : k \in 1..Len(texts)}
    <2>1. \A x \in UNION sets : x \in 1..N
      OBVIOUS
    <2>2. \A x \in 1..N : x \in UNION sets
      OBVIOUS
    <2> HIDE DEF sets
    <2>3. UNION sets = 1..N
      BY <2>1, <2>2
    <2> QED
      BY <2>3 DEF sets
  <1> HIDE DEF F
  <1>5. Len(F) = N
    BY <1>2, <1>3, <1>4, OnceEach
  <1> QED
    BY <1>3, <1>4, <1>5 DEF F

(* The text of a group of units is theirs, each once.                      *)
LEMMA GroupText ==
  ASSUME NEW X, units \in Seq(Unit), Splits(units, X),
         NEW g, g.from \in Nat, g.to \in Nat, g.from >= 1, g.from <= g.to, g.to <= Len(units)
  PROVE  LET text == SegmentOfGroup(g).text
         IN  /\ text \in Seq(Int) /\ IsInjective(text)
             /\ \A x : x \in ToSet(text) <=> \E i \in g.from .. g.to : x \in Span(units[i])
  <1> DEFINE n == g.to - g.from + 1
             T(i) == Text(units[g.from + i - 1].from, units[g.from + i - 1].to)
             texts == [i \in 1..n |-> T(i)]
  <1>1. n \in Nat /\ Len(units) \in Nat
        /\ \A i \in 1..n : g.from + i - 1 \in 1..Len(units) /\ g.from + i - 1 \in g.from .. g.to
    OBVIOUS
  <1>2. ASSUME NEW j \in 1..Len(units)
        PROVE  LET t == Text(units[j].from, units[j].to)
               IN  t \in Seq(Int) /\ IsInjective(t) /\ ToSet(t) = Span(units[j])
    <2>1. \A u \in Unit : u.from \in Int /\ u.to \in Int
      BY DEF Unit
    <2>2. units[j].from \in Int /\ units[j].to \in Int
      BY <2>1
    <2> QED
      BY <2>2, TextIs DEF Span
  <1>3. ASSUME NEW i \in 1..n
        PROVE  T(i) \in Seq(Int) /\ IsInjective(T(i)) /\ ToSet(T(i)) = Span(units[g.from + i - 1])
    BY <1>1, <1>2
  <1>4. SegmentOfGroup(g).text = FlattenSeq(texts)
    BY DEF SegmentOfGroup
  <1> HIDE DEF T
  <1>5. texts \in [1..n -> Seq(Int)]
    BY <1>3
  <1>6. texts \in Seq(Seq(Int)) /\ Len(texts) = n /\ \A i \in 1..n : texts[i] = T(i)
    <2>1. \A i \in 1..n : texts[i] = T(i)
      OBVIOUS
    <2> DEFINE V == Seq(Int)
    <2> HIDE DEF n, texts, V
    <2>2. texts \in [1..n -> V] /\ n \in Nat
      BY <1>1, <1>5 DEF V
    <2>3. texts \in Seq(V) /\ Len(texts) = n
      BY <2>2
    <2> QED
      BY <2>1, <2>3 DEF V
  <1> HIDE DEF texts
  <1>7. ASSUME NEW i \in 1..n, NEW j \in 1..n, NEW x, x \in ToSet(texts[i]), x \in ToSet(texts[j])
        PROVE  i = j
    <2>1. g.from + i - 1 = g.from + j - 1
      <3> DEFINE a == g.from + i - 1
                 b == g.from + j - 1
      <3>1. a \in 1..Len(units) /\ b \in 1..Len(units)
        BY <1>1
      <3>2. x \in Span(units[a]) /\ x \in Span(units[b])
        BY <1>3, <1>6, <1>7
      <3> HIDE DEF a, b
      <3>3. a = b
        BY <3>1, <3>2 DEF Splits
      <3> QED
        BY <3>3 DEF a, b
    <2> QED
      BY <1>1, <2>1
  <1>8. FlattenSeq(texts) \in Seq(Int)
    BY <1>6, FlattenType
  <1>9. IsInjective(FlattenSeq(texts))
    <2>1. \A i, j \in 1..Len(texts) : i # j => ToSet(texts[i]) \cap ToSet(texts[j]) = {}
      BY <1>6, <1>7
    <2>2. \A i \in 1..Len(texts) : IsInjective(texts[i])
      BY <1>3, <1>6
    <2> QED
      BY <1>6, <2>1, <2>2, FlattenInjective
  <1>10. ASSUME NEW x
         PROVE  x \in ToSet(FlattenSeq(texts)) <=> \E i \in g.from .. g.to : x \in Span(units[i])
    <2>1. ToSet(FlattenSeq(texts)) = UNION {ToSet(texts[i]) : i \in 1..Len(texts)}
      BY <1>6, FlattenElements
    <2>2. ASSUME NEW i \in g.from .. g.to
          PROVE  i - g.from + 1 \in 1..n /\ g.from + (i - g.from + 1) - 1 = i
      OBVIOUS
    <2> HIDE DEF n
    <2>3. x \in ToSet(FlattenSeq(texts)) <=> \E i \in 1..n : x \in Span(units[g.from + i - 1])
      BY <1>3, <1>6, <2>1
    <2> QED
      BY <1>1, <2>2, <2>3
  <1> QED
    BY <1>4, <1>8, <1>9, <1>10

(* Segments that have the whole text once, in the order of their starts.   *)
AreWhole(segs, S) ==
    /\ segs \in Seq(SegmentBy(S))
    /\ ToSet(Said(segs)) = 1..Units /\ Len(Said(segs)) = Units
    /\ \A k \in 2..Len(segs) : segs[k - 1].start <= segs[k].start

LEMMA SegmentsTyped ==
  ASSUME NEW S, NEW segs \in Seq(SegmentBy(S))
  PROVE  LET texts == [k \in DOMAIN segs |-> segs[k].text]
         IN  /\ texts \in Seq(Seq(Int)) /\ Len(texts) = Len(segs)
             /\ \A k \in 1..Len(segs) : texts[k] = segs[k].text
             /\ Said(segs) = FlattenSeq(texts)
  <1> DEFINE texts == [k \in DOMAIN segs |-> segs[k].text]
             V == Seq(Int)
  <1>1. DOMAIN segs = 1..Len(segs) /\ Len(segs) \in Nat
        /\ \A k \in 1..Len(segs) : segs[k].text \in V
    <2>1. \A s \in SegmentBy(S) : s.text \in V
      BY DEF SegmentBy
    <2> HIDE DEF V
    <2>2. DOMAIN segs = 1..Len(segs) /\ Len(segs) \in Nat
          /\ \A k \in 1..Len(segs) : segs[k] \in SegmentBy(S)
      OBVIOUS
    <2> QED
      BY <2>1, <2>2
  <1>2. Said(segs) = FlattenSeq(texts) /\ \A k \in 1..Len(segs) : texts[k] = segs[k].text
    BY <1>1 DEF Said
  <1> HIDE DEF V
  <1>3. texts \in [1..Len(segs) -> V]
    BY <1>1
  <1> HIDE DEF texts
  <1>4. texts \in Seq(V) /\ Len(texts) = Len(segs)
    BY <1>1, <1>3
  <1> QED
    BY <1>2, <1>4 DEF texts, V

(* The groups follow each other, not only the neighbours.                  *)
LEMMA GroupsApart ==
  ASSUME NEW gs, Len(gs) \in Nat, NEW limit \in Nat, InOrder(gs, limit)
  PROVE  \A k \in 1..Len(gs) : /\ gs[k].from \in Nat /\ gs[k].to \in Nat /\ 1 <= gs[k].from
                               /\ gs[k].from <= gs[k].to /\ gs[k].to < limit
                               /\ \A j \in 1 .. k - 1 : gs[j].to < gs[k].from
  <1> DEFINE N == Len(gs)
  <1>1. ASSUME NEW k \in 1..N
        PROVE  /\ gs[k].from \in Nat /\ gs[k].to \in Nat /\ 1 <= gs[k].from
               /\ gs[k].from <= gs[k].to /\ gs[k].to < limit
    <2>1. gs[k].to \in 1 .. limit - 1 /\ gs[k].from \in 1 .. gs[k].to
      BY DEF InOrder
    <2> QED
      BY <2>1
  <1>2. \A k \in 2..N : gs[k - 1].to < gs[k].from
    BY DEF InOrder
  <1> HIDE DEF N
  <1> DEFINE R == {n \in 0..N : \A k \in 1..n : \A j \in 1 .. k - 1 : gs[j].to < gs[k].from}
  <1>3. 0 \in R
    BY DEF N
  <1>4. ASSUME NEW n \in 0 .. N - 1, n \in R PROVE n + 1 \in R
    <2>1. n + 1 \in 0..N /\ n + 1 \in 1..N /\ (n + 1) - 1 = n /\ n \in Nat
      BY DEF N
    <2>2. ASSUME NEW k \in 1 .. n + 1, NEW j \in 1 .. k - 1
          PROVE  gs[j].to < gs[k].from
      <3>1. CASE k \in 1..n
        BY <1>4, <3>1
      <3>2. CASE k = n + 1 /\ j = n
        <4>1. n + 1 \in 2..N
          BY <2>1, <2>2, <3>2
        <4> QED
          BY <1>2, <2>1, <3>2, <4>1
      <3>3. CASE k = n + 1 /\ j # n
        <4>1. n \in 1..n /\ n \in 1..N /\ j \in 1 .. n - 1 /\ j \in 1..N /\ n + 1 \in 2..N
          <5>1. j \in Int /\ 1 <= j /\ j <= n /\ j # n
            BY <2>1, <2>2, <3>3
          <5>2. j <= n - 1 /\ 1 <= n
            BY <2>1, <5>1
          <5>3. n \in Nat /\ N \in Nat /\ n + 1 <= N
            BY <2>1 DEF N
          <5> QED
            BY <5>1, <5>2, <5>3
        <4>2. gs[j].to < gs[n].from
          BY <1>4, <4>1
        <4>3. gs[(n + 1) - 1].to < gs[n + 1].from
          BY <1>2, <4>1
        <4>4. \A a, b, c, d \in Nat : a < b /\ b <= c /\ c < d => a < d
          OBVIOUS
        <4> QED
          BY <1>1, <2>1, <3>3, <4>1, <4>2, <4>3, <4>4
      <3> QED
        BY <2>1, <3>1, <3>2, <3>3
    <2> QED
      BY <2>1, <2>2
  <1>5. N \in R
    <2> HIDE DEF R
    <2>1. N \in Nat
      BY DEF N
    <2>2. 0..N \subseteq R
      BY <1>3, <1>4, <2>1, CountingUp
    <2> QED
      BY <2>1, <2>2
  <1> QED
    BY <1>1, <1>5 DEF N

(* What the merge loop leaves are segments with the whole text.            *)
LEMMA MergedSegmentsWhole ==
  ASSUME LoopIInv, ResultIInv, units # <<>>, next = Len(units) + 2
  PROVE  \E S : AreWhole(Segments, S)
  <1> DEFINE N == Len(merged)
             M == Len(units)
             S == {merged[k].spk : k \in 1..N}
             seg(k) == SegmentOfGroup(merged[k])
             T == TimedUnits
  <1>1. /\ units \in Seq(Unit) /\ N \in Nat /\ M \in Nat
        /\ merged = [k \in 1..N |-> merged[k]] /\ current = NoGroup /\ Limit = M + 1
        /\ InOrder(merged, M + 1) /\ Covered(merged, M + 1)
    <2>1. /\ units \in Seq(Unit) /\ N \in Nat /\ M \in Nat
          /\ merged = [k \in 1..N |-> merged[k]] /\ current = NoGroup
      BY DEF LoopIInv, LoopShape
    <2>2. Limit = M + 1
      BY <2>1 DEF Limit
    <2> QED
      BY <2>1, <2>2 DEF LoopIInv
  <1>2. /\ Typed /\ Divided /\ WordsApart /\ Units \in Nat
        /\ units = Sorted(T) /\ T \in Seq(Unit)
    BY TimedUnitsTyped DEF ResultIInv, Built, Typed, Units
  <1>3. \A k, l \in 1..M : k <= l => units[k].start <= units[l].start
    <2> HIDE DEF T
    <2>1. DOMAIN T = 1..Len(T) /\ DOMAIN T \in SUBSET (1..Len(T))
      BY <1>2
    <2>2. \A i \in 1..Len(T) : T[i].start \in Int /\ T[i].end \in Int
      <3>1. \A t \in Unit : t.start \in Int /\ t.end \in Int
        BY DEF Unit
      <3> QED
        BY <1>2, <3>1
    <2> DEFINE D == DOMAIN T
    <2>3. /\ Len(SortedAt(T, D)) = Cardinality(D)
          /\ \A k, l \in 1..Cardinality(D) :
                k <= l => SortedAt(T, D)[k].start <= SortedAt(T, D)[l].start
      BY <1>2, <2>1, <2>2, SortedIs
    <2> QED
      BY <1>2, <2>3 DEF Sorted
  <1>4. Splits(units, 1..Units)
    <2>1. Len(T) # 0
      <3> HIDE DEF T
      <3>1. Len(T) = 0 => T = <<>> /\ DOMAIN T = {}
        BY <1>2, EmptySeq
      <3>2. Cardinality({}) = 0
        BY FS_EmptySet
      <3>3. DOMAIN T = {} => Len(Sorted(T)) = 0 /\ Sorted(T) \in Seq(Unit)
        <4>1. ASSUME DOMAIN T = {} PROVE Sorted(T) = <<>>
          <5> DEFINE at(k) == CHOOSE i \in {} : TRUE
          <5>1. Cardinality(DOMAIN T) = 0 /\ 1..0 = {}
            BY <3>2, <4>1
          <5> QED
            BY <5>1 DEF Sorted, SortedAt
        <4> QED
          BY <4>1
      <3> QED
        BY <1>1, <1>2, <3>1, <3>3, EmptySeq
    <2>2. Splits(T, 1..Units)
      BY <1>2, <2>1, TimedUnitsSplit
    <2> HIDE DEF T
    <2> QED
      BY <1>2, <2>2, SortedSplit
  <1>5. \A k \in 1..N : /\ merged[k].from \in Nat /\ merged[k].to \in Nat /\ 1 <= merged[k].from
                        /\ merged[k].from <= merged[k].to /\ merged[k].to < M + 1
                        /\ \A j \in 1 .. k - 1 : merged[j].to < merged[k].from
    <2>1. M + 1 \in Nat
      BY <1>1
    <2> QED
      BY <1>1, <2>1, GroupsApart
  <1> HIDE DEF N, M, T, S
  <1>6. ASSUME NEW k \in 1..N
        PROVE  /\ seg(k).text \in Seq(Int) /\ IsInjective(seg(k).text)
               /\ \A x : x \in ToSet(seg(k).text) <=>
                            \E i \in merged[k].from .. merged[k].to : x \in Span(units[i])
               /\ seg(k).start = units[merged[k].from].start
               /\ seg(k) \in SegmentBy(S)
    <2> DEFINE g == merged[k]
    <2>1. /\ g.from \in Nat /\ g.to \in Nat /\ g.from >= 1 /\ g.from <= g.to /\ g.to <= Len(units)
          /\ g.from \in 1..Len(units) /\ g.to \in 1..Len(units)
      BY <1>1, <1>5 DEF M
    <2>2. g.spk \in S
      BY DEF S
    <2> HIDE DEF g
    <2>3. /\ SegmentOfGroup(g).text \in Seq(Int) /\ IsInjective(SegmentOfGroup(g).text)
          /\ \A x : x \in ToSet(SegmentOfGroup(g).text) <=>
                       \E i \in g.from .. g.to : x \in Span(units[i])
      BY <1>1, <1>4, <2>1, GroupText
    <2>4. units[g.from].start \in Int /\ units[g.to].end \in Int
      <3>1. \A u \in Unit : u.start \in Int /\ u.end \in Int
        BY DEF Unit
      <3> QED
        BY <1>1, <2>1, <3>1
    <2>5. SegmentOfGroup(g) = [text |-> SegmentOfGroup(g).text, start |-> units[g.from].start,
                               end |-> units[g.to].end, spk |-> g.spk]
      BY DEF SegmentOfGroup
    <2> DEFINE t == SegmentOfGroup(g).text
    <2>6. /\ t \in Seq(Int) /\ SegmentOfGroup(g) = [text |-> t, start |-> units[g.from].start,
                               end |-> units[g.to].end, spk |-> g.spk]
      BY <2>3, <2>5
    <2> HIDE DEF t
    <2>7. SegmentOfGroup(g) \in SegmentBy(S) /\ SegmentOfGroup(g).start = units[g.from].start
      BY <2>2, <2>4, <2>6 DEF SegmentBy
    <2> QED
      BY <2>3, <2>7 DEF g
  <1>7. Segments = [k \in 1..N |-> seg(k)]
    <2>1. DOMAIN merged = 1..N
      BY <1>1
    <2> QED
      BY <2>1 DEF Segments
  <1> HIDE DEF seg
  <1>8. /\ Segments \in Seq(SegmentBy(S)) /\ Len(Segments) = N
        /\ \A k \in 1..N : Segments[k] = seg(k)
    <2> DEFINE V == SegmentBy(S)
    <2>1. \A k \in 1..N : seg(k) \in V
      BY <1>6
    <2> HIDE DEF V
    <2>2. Segments \in [1..N -> V]
      BY <1>7, <2>1
    <2>3. Segments \in Seq(V) /\ Len(Segments) = N
      BY <1>1, <2>2
    <2> QED
      BY <1>7, <2>3 DEF V
  <1> DEFINE texts == [k \in DOMAIN Segments |-> Segments[k].text]
  <1>9. /\ texts \in Seq(Seq(Int)) /\ Len(texts) = N /\ Said(Segments) = FlattenSeq(texts)
        /\ \A k \in 1..N : texts[k] = seg(k).text
    <2>1. /\ texts \in Seq(Seq(Int)) /\ Len(texts) = Len(Segments)
          /\ \A k \in 1..Len(Segments) : texts[k] = Segments[k].text
          /\ Said(Segments) = FlattenSeq(texts)
      BY <1>8, SegmentsTyped
    <2> QED
      BY <1>8, <2>1
  <1> HIDE DEF texts
  <1>10. ASSUME NEW j \in 1..N, NEW k \in 1..N, NEW x, x \in ToSet(texts[j]), x \in ToSet(texts[k])
         PROVE  j = k
    <2>1. PICK i \in merged[j].from .. merged[j].to : x \in Span(units[i])
      BY <1>6, <1>9, <1>10
    <2>2. PICK l \in merged[k].from .. merged[k].to : x \in Span(units[l])
      BY <1>6, <1>9, <1>10
    <2>3. i \in 1..M /\ l \in 1..M
      BY <1>1, <1>5, SMTT(30)
    <2>4. i = l
      BY <1>4, <2>1, <2>2, <2>3 DEF Splits, M
    <2>5. ~ (j < k)
      <3>1. j < k => j \in 1 .. k - 1
        BY <1>1
      <3> QED
        BY <1>5, <2>4, <3>1
    <2>6. ~ (k < j)
      <3>1. k < j => k \in 1 .. j - 1
        BY <1>1
      <3> QED
        BY <1>5, <2>4, <3>1
    <2> QED
      BY <1>1, <2>5, <2>6
  <1>11. ASSUME NEW k \in 1..N
         PROVE  IsInjective(texts[k]) /\ ToSet(texts[k]) \subseteq 1..Units
    <2>1. ASSUME NEW x \in ToSet(texts[k]) PROVE x \in 1..Units
      <3>1. PICK i \in merged[k].from .. merged[k].to : x \in Span(units[i])
        BY <1>6, <1>9
      <3>2. i \in 1..M
        BY <1>1, <1>5
      <3> QED
        BY <1>4, <3>1, <3>2 DEF Splits, M
    <2> QED
      BY <1>6, <1>9, <2>1
  <1>12. ASSUME NEW x \in 1..Units PROVE \E k \in 1..N : x \in ToSet(texts[k])
    <2>1. PICK i \in 1..M : x \in Span(units[i])
      BY <1>4 DEF Splits, M
    <2>2. units[i].from <= units[i].to
      <3>1. units[i].from \in Int /\ units[i].to \in Int
        <4>1. \A u \in Unit : u.from \in Int /\ u.to \in Int
          BY DEF Unit
        <4> QED
          BY <1>1, <2>1, <4>1 DEF M
      <3> QED
        BY <2>1, <3>1 DEF Span
    <2>3. i \in 1 .. (M + 1) - 1
      BY <1>1
    <2>4. PICK k \in 1..N : merged[k].from <= i /\ i <= merged[k].to
      BY <1>1, <2>2, <2>3 DEF Covered, N
    <2>5. i \in merged[k].from .. merged[k].to
      BY <1>1, <1>5, <2>4
    <2> QED
      BY <1>6, <1>9, <2>1, <2>5
  <1>13. ToSet(Said(Segments)) = 1..Units /\ Len(Said(Segments)) = Units
    BY <1>2, <1>9, <1>10, <1>11, <1>12, TextsWhole
  <1>14. ASSUME NEW k \in 2..N PROVE Segments[k - 1].start <= Segments[k].start
    <2>1. k \in 1..N /\ k - 1 \in 1..N /\ k - 1 \in 1 .. k - 1
      BY <1>1
    <2>2. merged[k - 1].from \in 1..M /\ merged[k].from \in 1..M
          /\ merged[k - 1].from <= merged[k].from
      <3>1. merged[k - 1].to < merged[k].from
        BY <1>5, <2>1
      <3>2. /\ merged[k - 1].from \in Nat /\ merged[k - 1].to \in Nat
            /\ 1 <= merged[k - 1].from /\ merged[k - 1].from <= merged[k - 1].to
        BY <1>5, <2>1
      <3>3. /\ merged[k].from \in Nat /\ merged[k].to \in Nat
            /\ merged[k].from <= merged[k].to /\ merged[k].to < M + 1
        BY <1>5, <2>1
      <3>4. \A a, b, c, d \in Nat : 1 <= a /\ a <= b /\ b < c /\ c <= d /\ d < M + 1
                                     => a \in 1..M /\ c \in 1..M /\ a <= c
        BY <1>1
      <3> QED
        BY <3>1, <3>2, <3>3, <3>4
    <2> QED
      BY <1>3, <1>6, <1>8, <2>1, <2>2
  <1>15. AreWhole(Segments, S)
    BY <1>8, <1>13, <1>14 DEF AreWhole
  <1> QED
    BY <1>15

----------------------------------------------------------------------------
(* The lines of the full text.                                             *)

LineBy(S) == [spk : S, text : Seq(Int)]

LEMMA SameSequence ==
  ASSUME NEW T, NEW s \in Seq(T), NEW t \in Seq(T), Len(s) = Len(t),
         \A i \in 1..Len(s) : s[i] = t[i]
  PROVE  s = t
  <1>1. s = [i \in 1..Len(s) |-> s[i]] /\ t = [i \in 1..Len(t) |-> t[i]]
    OBVIOUS
  <1> QED
    BY <1>1

LEMMA LinesTyped ==
  ASSUME NEW S, NEW lines \in Seq(LineBy(S))
  PROVE  LET texts == [k \in DOMAIN lines |-> lines[k].text]
         IN  /\ texts \in Seq(Seq(Int)) /\ Len(texts) = Len(lines)
             /\ \A k \in 1..Len(lines) : texts[k] = lines[k].text
             /\ Said(lines) = FlattenSeq(texts)
  <1> DEFINE texts == [k \in DOMAIN lines |-> lines[k].text]
             V == Seq(Int)
  <1>1. DOMAIN lines = 1..Len(lines) /\ Len(lines) \in Nat
        /\ \A k \in 1..Len(lines) : lines[k].text \in V
    <2>1. \A l \in LineBy(S) : l.text \in V
      BY DEF LineBy
    <2> HIDE DEF V
    <2>2. DOMAIN lines = 1..Len(lines) /\ Len(lines) \in Nat
          /\ \A k \in 1..Len(lines) : lines[k] \in LineBy(S)
      OBVIOUS
    <2> QED
      BY <2>1, <2>2
  <1>2. Said(lines) = FlattenSeq(texts) /\ \A k \in 1..Len(lines) : texts[k] = lines[k].text
    BY <1>1 DEF Said
  <1> HIDE DEF V
  <1>3. texts \in [1..Len(lines) -> V]
    BY <1>1
  <1> HIDE DEF texts
  <1>4. texts \in Seq(V) /\ Len(texts) = Len(lines)
    BY <1>1, <1>3
  <1> QED
    BY <1>2, <1>4 DEF texts, V

LEMMA SaidAppend ==
  ASSUME NEW S, NEW lines \in Seq(LineBy(S)), NEW l \in LineBy(S)
  PROVE  Append(lines, l) \in Seq(LineBy(S)) /\ Said(Append(lines, l)) = Said(lines) \o l.text
  <1> DEFINE more == Append(lines, l)
             a == [k \in DOMAIN lines |-> lines[k].text]
             b == [k \in DOMAIN more |-> more[k].text]
             t == l.text
             V == Seq(Int)
             L == LineBy(S)
  <1>1. t \in V
    BY DEF LineBy
  <1>2. /\ more \in Seq(L) /\ Len(more) = Len(lines) + 1 /\ Len(lines) \in Nat
        /\ more[Len(lines) + 1] = l /\ \A k \in 1..Len(lines) : more[k] = lines[k]
    <2> HIDE DEF L
    <2>1. lines \in Seq(L) /\ l \in L
      BY DEF L
    <2> QED
      BY <2>1
  <1>3. /\ a \in Seq(V) /\ Len(a) = Len(lines) /\ Said(lines) = FlattenSeq(a)
        /\ \A k \in 1..Len(lines) : a[k] = lines[k].text
    BY LinesTyped
  <1> HIDE DEF more
  <1>4. /\ b \in Seq(V) /\ Len(b) = Len(more) /\ Said(more) = FlattenSeq(b)
        /\ \A k \in 1..Len(more) : b[k] = more[k].text
    BY <1>2, LinesTyped
  <1> HIDE DEF a, b, L
  <1>5. b = Append(a, t)
    <2> HIDE DEF t, V
    <2>1. /\ Append(a, t) \in Seq(V) /\ Len(Append(a, t)) = Len(lines) + 1
          /\ \A k \in 1..Len(lines) : Append(a, t)[k] = a[k]
          /\ Append(a, t)[Len(lines) + 1] = t
      BY <1>1, <1>3
    <2>2. b[Len(lines) + 1] = t
      BY <1>2, <1>4 DEF t
    <2>3. \A k \in 1..Len(lines) : b[k] = a[k]
      BY <1>2, <1>3, <1>4
    <2>4. \A k \in 1..Len(b) : k \in 1..Len(lines) \/ k = Len(lines) + 1
      BY <1>2, <1>4
    <2>5. \A k \in 1..Len(b) : b[k] = Append(a, t)[k]
      BY <2>1, <2>2, <2>3, <2>4
    <2> QED
      BY <1>2, <1>4, <2>1, <2>5, SameSequence
  <1>6. FlattenSeq(b) = FlattenSeq(a) \o t
    BY <1>1, <1>3, <1>5, FlattenAppend
  <1> QED
    BY <1>2, <1>3, <1>4, <1>6 DEF more, L

(* A line that goes on.                                                    *)
Extended(lines, t) == [lines EXCEPT ![Len(lines)].text = @ \o t]

LEMMA SaidLonger ==
  ASSUME NEW S, NEW lines \in Seq(LineBy(S)), lines # <<>>, NEW t \in Seq(Int)
  PROVE  Extended(lines, t) \in Seq(LineBy(S)) /\ Said(Extended(lines, t)) = Said(lines) \o t
  <1> DEFINE N == Len(lines)
             more == Extended(lines, t)
             V == Seq(Int)
             L == LineBy(S)
             last == lines[N].text
             a == [k \in DOMAIN lines |-> lines[k].text]
             b == [k \in DOMAIN more |-> more[k].text]
             front == [k \in 1 .. N - 1 |-> a[k]]
  <1>1. N \in Nat /\ N - 1 \in Nat /\ DOMAIN lines = 1..N /\ N \in 1..N
        /\ lines = [k \in 1..N |-> lines[k]]
    <2>1. N # 0
      BY EmptySeq
    <2> QED
      BY <2>1
  <1>2. lines[N] = [spk |-> lines[N].spk, text |-> last] /\ last \in V /\ lines[N].spk \in S
    <2>1. \A l \in LineBy(S) : l = [spk |-> l.spk, text |-> l.text] /\ l.text \in V /\ l.spk \in S
      BY DEF LineBy
    <2> HIDE DEF V
    <2> QED
      BY <1>1, <2>1
  <1>3. last \o t \in V
    BY <1>2
  <1> DEFINE line == [spk |-> lines[N].spk, text |-> last \o t]
  <1>4. line \in L /\ line.text = last \o t
    BY <1>2, <1>3 DEF LineBy
  <1>5. more = [k \in 1..N |-> IF k = N THEN line ELSE lines[k]]
    <2>1. more = [lines EXCEPT ![N] = [lines[N] EXCEPT !.text = last \o t]]
      BY DEF Extended
    <2>2. [lines[N] EXCEPT !.text = last \o t] = line
      <3> DEFINE s == lines[N].spk
      <3>1. lines[N] = [spk |-> s, text |-> last]
        BY <1>2
      <3> HIDE DEF s
      <3>2. \A r, y : r = [spk |-> s, text |-> last]
                         => [r EXCEPT !.text = y] = [spk |-> s, text |-> y]
        OBVIOUS
      <3>3. [lines[N] EXCEPT !.text = last \o t] = [spk |-> s, text |-> last \o t]
        BY <3>1, <3>2
      <3> QED
        BY <3>3 DEF s
    <2> HIDE DEF line, N
    <2>3. more = [lines EXCEPT ![N] = line]
      BY <2>1, <2>2
    <2> HIDE DEF more
    <2> QED
      BY <1>1, <2>3
  <1>6. more \in Seq(L) /\ Len(more) = N /\ more[N] = line
        /\ \A k \in 1..N - 1 : more[k] = lines[k]
    <2> HIDE DEF more, line, L
    <2>1. \A k \in 1..N : lines[k] \in L
      BY DEF L
    <2>2. more \in [1..N -> L]
      BY <1>4, <1>5, <2>1
    <2>3. more \in Seq(L) /\ Len(more) = N
      BY <1>1, <2>2
    <2> QED
      BY <1>1, <1>5, <2>3
  <1> HIDE DEF line
  <1>7. /\ a \in Seq(V) /\ Len(a) = N /\ Said(lines) = FlattenSeq(a)
        /\ \A k \in 1..N : a[k] = lines[k].text
    BY LinesTyped
  <1> HIDE DEF more
  <1>8. /\ b \in Seq(V) /\ Len(b) = N /\ Said(more) = FlattenSeq(b)
        /\ \A k \in 1..N : b[k] = more[k].text
    BY <1>6, LinesTyped
  <1> HIDE DEF a, b, L, V, last
  <1>9. front \in Seq(V) /\ Len(front) = N - 1 /\ \A k \in 1 .. N - 1 : front[k] = a[k]
    <2>1. \A k \in 1 .. N - 1 : a[k] \in V
      BY <1>1, <1>7
    <2>2. front \in [1 .. N - 1 -> V]
      BY <2>1
    <2> QED
      BY <1>1, <2>2
  <1> HIDE DEF front, N
  <1>10. a = Append(front, last)
    <2>1. /\ Append(front, last) \in Seq(V) /\ Len(Append(front, last)) = N
          /\ Append(front, last)[N] = last
          /\ \A k \in 1 .. N - 1 : Append(front, last)[k] = front[k]
      BY <1>1, <1>2, <1>9
    <2>2. a[N] = last
      BY <1>1, <1>7 DEF last
    <2>3. \A k \in 1..N : k = N \/ k \in 1 .. N - 1
      BY <1>1
    <2>4. \A k \in 1..N : a[k] = Append(front, last)[k]
      BY <1>9, <2>1, <2>2, <2>3
    <2> QED
      BY <1>7, <2>1, <2>4, SameSequence
  <1>11. b = Append(front, last \o t)
    <2> DEFINE e == last \o t
    <2>1. b[N] = e
      BY <1>1, <1>4, <1>6, <1>8
    <2>2. e \in V
      BY <1>3
    <2> HIDE DEF e
    <2>3. /\ Append(front, e) \in Seq(V) /\ Len(Append(front, e)) = N
          /\ Append(front, e)[N] = e
          /\ \A k \in 1 .. N - 1 : Append(front, e)[k] = front[k]
      BY <1>1, <1>9, <2>2
    <2>4. \A k \in 1..N : k = N \/ k \in 1 .. N - 1
      BY <1>1
    <2>5. \A k \in 1 .. N - 1 : b[k] = front[k]
      <3>1. \A k \in 1 .. N - 1 : k \in 1..N
        BY <1>1
      <3> QED
        BY <1>6, <1>7, <1>8, <1>9, <3>1
    <2>6. \A k \in 1..N : b[k] = Append(front, e)[k]
      BY <2>1, <2>3, <2>4, <2>5
    <2>7. b = Append(front, e)
      BY <1>8, <2>3, <2>6, SameSequence
    <2> QED
      BY <2>7 DEF e
  <1>12. FlattenSeq(b) = FlattenSeq(a) \o t
    BY <1>2, <1>9, <1>10, <1>11, FlattenLonger DEF V
  <1> QED
    BY <1>6, <1>7, <1>8, <1>12 DEF more, L

(* One segment more in the lines.                                          *)
NextLine(s, before) ==
    IF before # <<>> /\ Last(before).spk = s.spk THEN Extended(before, s.text)
    ELSE Append(before, [spk |-> s.spk, text |-> s.text])

LEMMA LineAdded ==
  ASSUME NEW S, NEW s \in SegmentBy(S), NEW before \in Seq(LineBy(S))
  PROVE  /\ NextLine(s, before) \in Seq(LineBy(S))
         /\ Said(NextLine(s, before)) = Said(before) \o s.text
  <1> DEFINE l == [spk |-> s.spk, text |-> s.text]
             L == LineBy(S)
  <1>1. s.text \in Seq(Int) /\ s.spk \in S
    BY DEF SegmentBy
  <1>2. l \in L /\ l.text = s.text
    BY <1>1 DEF LineBy
  <1>3. CASE before # <<>> /\ Last(before).spk = s.spk
    <2> DEFINE t == s.text
    <2>1. NextLine(s, before) = Extended(before, t)
      BY <1>3 DEF NextLine
    <2>2. t \in Seq(Int)
      BY <1>1
    <2> HIDE DEF t
    <2>3. /\ Extended(before, t) \in Seq(LineBy(S))
          /\ Said(Extended(before, t)) = Said(before) \o t
      BY <1>3, <2>2, SaidLonger
    <2> QED
      BY <2>1, <2>3 DEF t
  <1>4. CASE ~ (before # <<>> /\ Last(before).spk = s.spk)
    <2>1. NextLine(s, before) = Append(before, l)
      BY <1>4 DEF NextLine
    <2> HIDE DEF l
    <2>2. /\ Append(before, l) \in Seq(LineBy(S))
          /\ Said(Append(before, l)) = Said(before) \o l.text
      BY <1>2, SaidAppend
    <2> QED
      BY <1>2, <2>1, <2>2
  <1> QED
    BY <1>3, <1>4

(* The lines say what the segments say.                                    *)
LEMMA LinesSame ==
  ASSUME NEW S, NEW segs \in Seq(SegmentBy(S))
  PROVE  Said(Lines(segs)) = Said(segs)
  <1> DEFINE N == Len(segs)
             V == Seq(LineBy(S))
             none == <<>>
             step == [n \in 1..N |-> [v \in V |-> NextLine(segs[n], v)]]
             Is(h) == h = [n \in 0..N |-> IF n = 0 THEN <<>> ELSE NextLine(segs[n], h[n - 1])]
             texts == [k \in DOMAIN segs |-> segs[k].text]
  <1>1. N \in Nat /\ \A n \in 1..N : segs[n] \in SegmentBy(S)
    OBVIOUS
  <1>2. none \in V
    OBVIOUS
  <1>3. \A n \in 1..N : \A v \in V : NextLine(segs[n], v) \in V
                                      /\ Said(NextLine(segs[n], v)) = Said(v) \o segs[n].text
    BY <1>1, LineAdded
  <1> HIDE DEF V
  <1>4. step \in [1..N -> [V -> V]]
    BY <1>3
  <1>5. PICK f : Rounds(V, N, none, step, f)
    <2> HIDE DEF V, N, none, step
    <2> QED
      BY <1>1, <1>2, <1>4, RoundsDefined, Zenon
  <1>6. /\ f \in [0..N -> V] /\ f[0] = none
        /\ \A n \in 1..N : f[n] = NextLine(segs[n], f[n - 1])
    <2>1. f \in [0..N -> V] /\ f[0] = none /\ \A n \in 1..N : f[n] = step[n][f[n - 1]]
      BY <1>5 DEF Rounds
    <2>2. \A n \in 1..N : f[n - 1] \in V
      BY <1>1, <2>1
    <2> QED
      BY <2>1, <2>2
  <1>7. Is(f)
    <2>1. \A n \in 0..N : f[n] = IF n = 0 THEN <<>> ELSE NextLine(segs[n], f[n - 1])
      BY <1>1, <1>6
    <2> QED
      BY <1>6, <2>1
  <1> DEFINE c == CHOOSE h : Is(h)
  <1>8. Is(c)
    <2> HIDE DEF Is
    <2> QED
      BY <1>7
  <1>9. Lines(segs) = c[N]
    BY DEF Lines, NextLine, Extended
  <1> HIDE DEF c
  <1>10. /\ texts \in Seq(Seq(Int)) /\ Len(texts) = N /\ Said(segs) = FlattenSeq(texts)
         /\ \A k \in 1..N : texts[k] = segs[k].text
    BY SegmentsTyped
  <1> HIDE DEF texts
  <1>11. PICK g \in [0..N -> Seq(Int)] :
                /\ g[0] = <<>> /\ \A n \in 1..N : g[n] = g[n - 1] \o texts[n]
                /\ FlattenSeq(texts) = g[N]
    <2>1. \E g \in [0..Len(texts) -> Seq(Int)] :
                /\ g[0] = <<>> /\ \A n \in 1..Len(texts) : g[n] = g[n - 1] \o texts[n]
                /\ FlattenSeq(texts) = g[Len(texts)]
      BY <1>10, FlattenByRounds
    <2> QED
      BY <1>10, <2>1
  <1> DEFINE R == {n \in 0..N : c[n] \in V /\ Said(c[n]) = g[n]}
  <1> HIDE DEF N
  <1>12. 0 \in R
    <2>1. c[0] = <<>> /\ 0 \in 0..N
      BY <1>1, <1>8
    <2>2. Said(<<>>) = <<>>
      <3> DEFINE e == <<>>
                 a == [k \in DOMAIN e |-> e[k].text]
      <3>1. DOMAIN e = {} /\ a = <<>>
        OBVIOUS
      <3>2. FlattenSeq(<<>>) = <<>>
        BY DEF FlattenSeq
      <3>3. Said(e) = FlattenSeq(a)
        BY DEF Said
      <3> QED
        BY <3>1, <3>2, <3>3
    <2> QED
      BY <1>2, <1>11, <2>1, <2>2
  <1>13. ASSUME NEW n \in 0 .. N - 1, n \in R PROVE n + 1 \in R
    <2>1. n + 1 \in 1..N /\ n + 1 \in 0..N /\ n + 1 # 0 /\ (n + 1) - 1 = n
      BY <1>1
    <2>2. c[n + 1] = NextLine(segs[n + 1], c[n])
      BY <1>8, <2>1
    <2>3. NextLine(segs[n + 1], c[n]) \in V
          /\ Said(NextLine(segs[n + 1], c[n])) = Said(c[n]) \o segs[n + 1].text
      BY <1>3, <1>13, <2>1
    <2>4. g[n + 1] = g[n] \o segs[n + 1].text
      BY <1>10, <1>11, <2>1
    <2>5. c[n + 1] \in V /\ Said(c[n + 1]) = g[n + 1]
      BY <1>13, <2>2, <2>3, <2>4
    <2> QED
      BY <2>1, <2>5
  <1>14. N \in R
    <2> HIDE DEF R
    <2>1. 0..N \subseteq R
      BY <1>1, <1>12, <1>13, CountingUp
    <2> QED
      BY <1>1, <2>1
  <1> QED
    BY <1>9, <1>10, <1>11, <1>14

(* Without units to merge the pieces are the segments.                     *)
LEMMA PieceSegmentsWhole ==
  ASSUME Typed, Divided, PiecesOrdered, units = <<>>
  PROVE  \E S : AreWhole(Segments, S)
  <1> DEFINE N == Len(pieces)
             who(p) == IF speaker = "ok" THEN SpeakerFor(Whole(p), speakers) ELSE p.spk
             S == {who(pieces[i]) : i \in 1..N}
             E == SegmentBy(S)
             seg(i) == SegmentOfPiece(pieces[i], who(pieces[i]))
             silent(i) == backend = "onnx" /\ pieces[i].from > pieces[i].to
             lists == [i \in DOMAIN pieces |-> IF silent(i) THEN <<>> ELSE <<seg(i)>>]
             F == FlattenSeq(lists)
  <1>1. /\ N \in Nat /\ Units \in Nat /\ DOMAIN pieces = 1..N
        /\ \A k \in 1..N : /\ pieces[k].from \in Nat /\ pieces[k].to \in Nat
                           /\ pieces[k].start \in Int /\ pieces[k].end \in Int
                           /\ 1 <= pieces[k].from /\ pieces[k].to <= Units
    <2>1. N \in Nat /\ Units \in Nat /\ DOMAIN pieces = 1..N
      BY DEF Typed, Units
    <2>2. \A k \in 1..N : pieces[k] \in Piece
      BY DEF Typed
    <2>3. \A k \in 1..N : pieces[k].from \in 1 .. pieces[k].to + 1 /\ pieces[k].to <= Units
      BY DEF Divided
    <2> QED
      BY <2>1, <2>2, <2>3, PieceTypes
  <1>2. Segments = F
    <2>1. Segments = FlattenSeq([i \in DOMAIN pieces |->
            LET p == pieces[i]
            IN  IF backend = "onnx" /\ p.from > p.to THEN <<>>
                ELSE <<SegmentOfPiece(p, IF speaker = "ok" THEN SpeakerFor(Whole(p), speakers)
                                         ELSE p.spk)>>])
      BY DEF Segments
    <2> QED
      BY <2>1
  <1>3. \A j, k \in 1..N : j < k => pieces[j].to < pieces[k].from
    BY DEF Divided
  <1>4. \A k \in 1..N : \A j \in 1..k : pieces[j].start <= pieces[k].start
    BY DEF PiecesOrdered
  <1>5. \A x \in 1..Units : \E k \in 1..N : x \in pieces[k].from .. pieces[k].to
    BY DEF Divided
  <1> HIDE DEF N, who
  <1>6. ASSUME NEW k \in 1..N
        PROVE  /\ seg(k).text = Text(pieces[k].from, pieces[k].to)
               /\ seg(k).start = pieces[k].start /\ seg(k) \in E
    <2> DEFINE p == pieces[k]
               t == Text(p.from, p.to)
    <2>1. t \in Seq(Int) /\ p.start \in Int /\ p.end \in Int
      <3>1. p.from \in Int /\ p.to \in Int /\ p.start \in Int /\ p.end \in Int
        BY <1>1
      <3> HIDE DEF p
      <3> QED
        BY <3>1, TextIs
    <2>2. who(p) \in S
      OBVIOUS
    <2>3. seg(k) = [text |-> t, start |-> p.start, end |-> p.end, spk |-> who(p)]
      BY DEF SegmentOfPiece
    <2> HIDE DEF p, t, S, seg
    <2>4. seg(k).text = t /\ seg(k).start = p.start /\ seg(k) \in E
      BY <2>1, <2>2, <2>3 DEF SegmentBy
    <2> QED
      BY <2>4 DEF p, t
  <1> HIDE DEF seg, E, S, silent
  <1>7. lists \in Seq(Seq(E)) /\ Len(lists) = N
        /\ \A k \in 1..N : lists[k] = IF silent(k) THEN <<>> ELSE <<seg(k)>>
    <2>1. \A k \in 1..N : lists[k] = IF silent(k) THEN <<>> ELSE <<seg(k)>>
      BY <1>1
    <2>2. \A k \in 1..N : <<>> \in Seq(E) /\ <<seg(k)>> \in Seq(E)
      BY <1>6
    <2>3. \A k \in 1..N : lists[k] \in Seq(E)
      BY <2>1, <2>2
    <2> DEFINE V == Seq(E)
    <2>4. \A k \in 1..N : lists[k] \in V
      BY <2>3
    <2>5. lists = [k \in 1..N |-> lists[k]]
      BY <1>1
    <2> HIDE DEF lists, V
    <2>6. lists \in [1..N -> V]
      BY <2>4, <2>5
    <2>7. lists \in Seq(V) /\ Len(lists) = N
      BY <1>1, <2>6
    <2> QED
      BY <2>1, <2>7 DEF V
  <1> HIDE DEF lists
  <1>8. \E r, c : Placed(F, lists, Len(lists), r, c)
    BY <1>7, FlattenPlaced
  <1>9. PICK row, col : Placed(F, lists, N, row, col)
    BY <1>7, <1>8
  <1>10. F \in Seq(E) /\ Len(F) \in Nat
    BY <1>7, FlattenType
  <1> HIDE DEF F
  <1>11. ASSUME NEW i \in 1..Len(F)
         PROVE  /\ row[i] \in 1..N /\ F[i] = seg(row[i]) /\ col[i] = 1
    <2>1. /\ row[i] \in 1..N /\ col[i] \in 1..Len(lists[row[i]])
          /\ F[i] = lists[row[i]][col[i]]
      BY <1>9 DEF Placed
    <2>2. CASE silent(row[i])
      <3>1. Len(lists[row[i]]) = 0 /\ 1..0 = {}
        BY <1>7, <2>1, <2>2
      <3> QED
        BY <2>1, <3>1
    <2>3. CASE ~silent(row[i])
      <3>1. lists[row[i]] = <<seg(row[i])>>
        BY <1>7, <2>1, <2>3
      <3>2. col[i] = 1
        BY <2>1, <3>1
      <3> QED
        BY <2>1, <3>1, <3>2
    <2> QED
      BY <2>2, <2>3
  <1>12. ASSUME NEW i \in 1..Len(F), NEW j \in 1..Len(F), i < j
         PROVE  row[i] < row[j]
    <2>1. row[i] < row[j] \/ (row[i] = row[j] /\ col[i] < col[j])
      BY <1>9, <1>12 DEF Placed
    <2> QED
      BY <1>11, <2>1
  <1> DEFINE texts == [k \in DOMAIN F |-> F[k].text]
  <1>13. /\ texts \in Seq(Seq(Int)) /\ Len(texts) = Len(F) /\ Said(F) = FlattenSeq(texts)
         /\ \A k \in 1..Len(F) : texts[k] = F[k].text
    BY <1>10, SegmentsTyped DEF E
  <1> HIDE DEF texts
  <1>14. ASSUME NEW i \in 1..Len(F)
         PROVE  /\ IsInjective(texts[i])
                /\ ToSet(texts[i]) = pieces[row[i]].from .. pieces[row[i]].to
    <2>1. texts[i] = Text(pieces[row[i]].from, pieces[row[i]].to)
      BY <1>6, <1>11, <1>13
    <2>2. pieces[row[i]].from \in Int /\ pieces[row[i]].to \in Int
      BY <1>1, <1>11
    <2> QED
      BY <2>1, <2>2, TextIs
  <1>15. ASSUME NEW i \in 1..Len(F), NEW j \in 1..Len(F), NEW x,
                x \in ToSet(texts[i]), x \in ToSet(texts[j])
         PROVE  i = j
    <2>1. \A a, b \in 1..Len(F) : a < b => pieces[row[a]].to < pieces[row[b]].from
      BY <1>3, <1>11, <1>12
    <2>2. /\ x \in pieces[row[i]].from .. pieces[row[i]].to
          /\ x \in pieces[row[j]].from .. pieces[row[j]].to
      BY <1>14, <1>15
    <2>3. /\ pieces[row[i]].from \in Nat /\ pieces[row[i]].to \in Nat
          /\ pieces[row[j]].from \in Nat /\ pieces[row[j]].to \in Nat
      BY <1>1, <1>11
    <2>4. ~ (i < j) /\ ~ (j < i)
      BY <2>1, <2>2, <2>3, SMTT(30)
    <2> QED
      BY <1>10, <2>4
  <1>16. ASSUME NEW x \in 1..Units PROVE \E i \in 1..Len(F) : x \in ToSet(texts[i])
    <2>1. PICK k \in 1..N : x \in pieces[k].from .. pieces[k].to
      BY <1>5
    <2>2. ~silent(k)
      BY <1>1, <2>1 DEF silent
    <2>3. lists[k] = <<seg(k)>>
      BY <1>7, <2>2
    <2>4. 1 \in 1..Len(lists[k])
      BY <2>3
    <2>5. PICK i \in 1..Len(F) : row[i] = k
      BY <1>9, <2>4 DEF Placed
    <2> QED
      BY <1>14, <2>1, <2>5
  <1>17. ASSUME NEW i \in 1..Len(F) PROVE ToSet(texts[i]) \subseteq 1..Units
    <2>1. ToSet(texts[i]) = pieces[row[i]].from .. pieces[row[i]].to
      BY <1>14
    <2>2. /\ pieces[row[i]].from \in Nat /\ 1 <= pieces[row[i]].from
          /\ pieces[row[i]].to \in Nat /\ pieces[row[i]].to <= Units
      BY <1>1, <1>11
    <2> QED
      BY <1>1, <2>1, <2>2
  <1>18. ToSet(Said(F)) = 1..Units /\ Len(Said(F)) = Units
    BY <1>1, <1>13, <1>14, <1>15, <1>16, <1>17, TextsWhole
  <1>19. ASSUME NEW k \in 2..Len(F) PROVE F[k - 1].start <= F[k].start
    <2>1. k \in 1..Len(F) /\ k - 1 \in 1..Len(F) /\ k - 1 < k
      BY <1>10
    <2>2. row[k - 1] < row[k] /\ row[k - 1] \in 1..N /\ row[k] \in 1..N
      BY <1>11, <1>12, <2>1
    <2>3. row[k - 1] \in 1..row[k]
      BY <1>1, <2>2
    <2>4. pieces[row[k - 1]].start <= pieces[row[k]].start
      BY <1>4, <2>2, <2>3
    <2> QED
      BY <1>6, <1>11, <2>1, <2>2, <2>4
  <1>20. AreWhole(F, S)
    BY <1>10, <1>18, <1>19 DEF AreWhole, E
  <1> QED
    BY <1>2, <1>20

(* The range of a speaker reaches over every segment of the speaker.       *)
LEMMA RangesReach ==
  ASSUME NEW S, NEW segs \in Seq(SegmentBy(S)), NEW k \in 1..Len(segs)
  PROVE  \E r \in Ranges(segs) : /\ r.spk = segs[k].spk
                                 /\ r.start <= segs[k].start /\ segs[k].end <= r.end
  <1> DEFINE N == Len(segs)
             s == segs[k].spk
             of == {i \in DOMAIN segs : segs[i].spk = s}
             starts == {segs[i].start : i \in of}
             ends == {segs[i].end : i \in of}
             r == [spk |-> s, start |-> Min(starts), end |-> Max(ends)]
  <1>1. N \in Nat /\ DOMAIN segs = 1..N
        /\ \A i \in 1..N : segs[i].start \in Int /\ segs[i].end \in Int
    <2>1. \A e \in SegmentBy(S) : e.start \in Int /\ e.end \in Int
      BY DEF SegmentBy
    <2>2. N \in Nat /\ DOMAIN segs = 1..N /\ \A i \in 1..N : segs[i] \in SegmentBy(S)
      OBVIOUS
    <2> QED
      BY <2>1, <2>2
  <1>2. r \in Ranges(segs)
    <2>1. s \in {segs[i].spk : i \in DOMAIN segs}
      BY <1>1
    <2> QED
      BY <2>1 DEF Ranges
  <1>3. k \in of /\ of \subseteq 1..N
    BY <1>1
  <1>4. starts \subseteq Int /\ ends \subseteq Int
        /\ segs[k].start \in starts /\ segs[k].end \in ends
    BY <1>1, <1>3
  <1>5. IsFiniteSet(of)
    <2>1. IsFiniteSet(1..N)
      BY <1>1, FS_Interval
    <2> QED
      BY <1>3, <2>1, FS_Subset
  <1>6. IsFiniteSet(starts) /\ IsFiniteSet(ends)
    <2> HIDE DEF of
    <2> DEFINE f == [i \in of |-> segs[i].start]
               g == [i \in of |-> segs[i].end]
    <2>1. f \in Surjection(of, starts) /\ g \in Surjection(of, ends)
      BY DEF Surjection
    <2> HIDE DEF f, g, starts, ends
    <2> QED
      BY <1>5, <2>1, FS_Surjection
  <1> HIDE DEF starts, ends, of
  <1>7. Min(starts) <= segs[k].start /\ segs[k].end <= Max(ends)
    <2>1. starts # {} /\ ends # {}
      BY <1>4
    <2> QED
      BY <1>4, <1>6, <2>1, ExtremesOf
  <1>8. r.spk = s /\ r.start = Min(starts) /\ r.end = Max(ends)
    OBVIOUS
  <1> QED
    BY <1>2, <1>7, <1>8

(* The text as a single line.                                              *)
LEMMA OneLineWhole ==
  ASSUME Units \in Nat
  PROVE  LET lines == <<[spk |-> 0, text |-> Text(1, Units)]>>
         IN  ToSet(Said(lines)) = 1..Units /\ Len(Said(lines)) = Units
  <1> DEFINE t == Text(1, Units)
             line == [spk |-> 0, text |-> t]
             lines == <<line>>
             texts == [k \in DOMAIN lines |-> lines[k].text]
  <1>1. t \in Seq(Int) /\ IsInjective(t) /\ ToSet(t) = 1..Units
    BY TextIs
  <1>2. line \in LineBy({0}) /\ line.text = t
    BY <1>1 DEF LineBy
  <1> HIDE DEF t, line
  <1>3. lines \in Seq(LineBy({0})) /\ Len(lines) = 1 /\ lines[1] = line
    BY <1>2
  <1> HIDE DEF lines
  <1>4. /\ texts \in Seq(Seq(Int)) /\ Len(texts) = 1 /\ Said(lines) = FlattenSeq(texts)
        /\ \A k \in 1..1 : texts[k] = lines[k].text
    BY <1>3, LinesTyped
  <1> HIDE DEF texts
  <1>5. \A k \in 1..Len(texts) : k = 1 /\ texts[k] = t
    BY <1>2, <1>3, <1>4
  <1>6. 1 \in 1..Len(texts)
    BY <1>4
  <1>7. ToSet(FlattenSeq(texts)) = 1..Units /\ Len(FlattenSeq(texts)) = Units
    <2>1. \A k \in 1..Len(texts) : IsInjective(texts[k]) /\ ToSet(texts[k]) = 1..Units
      BY <1>1, <1>5
    <2>2. \A j, k \in 1..Len(texts) : j = k
      BY <1>5
    <2> QED
      BY <1>4, <1>6, <2>1, <2>2, TextsWhole
  <1> QED
    BY <1>4, <1>7 DEF lines, line, t

LEMMA InvIsWhole ==
  ASSUME LoopIInv, ResultIInv
  PROVE  ResultWhole
  <1> SUFFICES ASSUME phase = "done", ~result.error
               PROVE  /\ ToSet(Said(result.segments)) = 1..Units
                      /\ Len(Said(result.segments)) = Units
                      /\ ToSet(Said(result.lines)) = 1..Units
                      /\ Len(Said(result.lines)) = Units
                      /\ \A k \in DOMAIN result.segments :
                            /\ k > 1 => result.segments[k - 1].start <= result.segments[k].start
                            /\ \E r \in result.ranges :
                                  /\ r.spk = result.segments[k].spk
                                  /\ r.start <= result.segments[k].start
                                  /\ result.segments[k].end <= r.end
    BY DEF ResultWhole, Said
  <1>1. next = Len(units) + 2 /\ result = Parsed /\ Units \in Nat
    BY DEF ResultIInv, Built, Typed, Units
  <1>2. /\ result.segments = Segments /\ result.ranges = Ranges(Segments)
        /\ result.lines = IF backend = "onnx" /\ speaker = "none" /\ Units > 0
                          THEN <<[spk |-> 0, text |-> Text(1, Units)]>> ELSE Lines(Segments)
    BY <1>1 DEF Parsed
  <1>3. PICK S : AreWhole(Segments, S)
    <2>1. CASE units = <<>>
      BY <2>1, PieceSegmentsWhole DEF ResultIInv
    <2>2. CASE units # <<>>
      BY <1>1, <2>2, MergedSegmentsWhole
    <2> QED
      BY <2>1, <2>2
  <1>4. /\ Segments \in Seq(SegmentBy(S))
        /\ ToSet(Said(Segments)) = 1..Units /\ Len(Said(Segments)) = Units
        /\ \A k \in 2..Len(Segments) : Segments[k - 1].start <= Segments[k].start
    BY <1>3 DEF AreWhole
  <1>5. ToSet(Said(result.lines)) = 1..Units /\ Len(Said(result.lines)) = Units
    <2>1. CASE backend = "onnx" /\ speaker = "none" /\ Units > 0
      BY <1>1, <1>2, <2>1, OneLineWhole
    <2>2. CASE ~ (backend = "onnx" /\ speaker = "none" /\ Units > 0)
      <3>1. result.lines = Lines(Segments)
        BY <1>2, <2>2
      <3>2. Said(Lines(Segments)) = Said(Segments)
        BY <1>4, LinesSame
      <3> QED
        BY <1>4, <3>1, <3>2
    <2> QED
      BY <2>1, <2>2
  <1>6. ASSUME NEW k \in DOMAIN Segments
        PROVE  /\ k > 1 => Segments[k - 1].start <= Segments[k].start
               /\ \E r \in Ranges(Segments) : /\ r.spk = Segments[k].spk
                                              /\ r.start <= Segments[k].start
                                              /\ Segments[k].end <= r.end
    <2>1. k \in 1..Len(Segments) /\ k > 1 => k \in 2..Len(Segments)
      BY <1>4
    <2>2. k \in 1..Len(Segments)
      BY <1>4
    <2>3. \E r \in Ranges(Segments) : /\ r.spk = Segments[k].spk
                                      /\ r.start <= Segments[k].start
                                      /\ Segments[k].end <= r.end
      BY <1>4, <2>2, RangesReach
    <2> QED
      BY <1>4, <2>1, <2>2, <2>3
  <1> QED
    BY <1>2, <1>4, <1>5, <1>6

(* A recognition that ends without error has said every unit once, in its  *)
(* segments and its text, in the order of their starts, and with ranges    *)
(* that reach over each speaker's segments (parse_result).                 *)
THEOREM ResultIsWhole == Spec => []ResultWhole
  <1>1. LoopIInv /\ SpeakerIInv /\ ResultIInv => ResultWhole
    BY InvIsWhole
  <1> QED
    BY <1>1, ResultInvariant, PTL

=============================================================================
