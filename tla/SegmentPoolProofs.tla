------------------------- MODULE SegmentPoolProofs -------------------------
(* Proofs about SegmentPool, for every set of recognitions and models. *)
EXTENDS SegmentPool, FiniteSetTheorems, TLAPS

\* The initial state satisfies the inductive invariant.
LEMMA InitIInv == Init => IInv
  <1> SUFFICES ASSUME Init PROVE IInv
    OBVIOUS
  <1> USE PoolAssumption DEF Init
  <1>1. TypeOK
    BY DEF TypeOK, Of, Ended, Indices
  <1>2. ModelsExact
    BY DEF ModelsExact, Indices
  <1>3. NothingRunsOn
    BY DEF NothingRunsOn, Ended
  <1>4. \A r \in Recognitions : ToSet(decodes[r]) = {} /\ Len(decodes[r]) = 0
    BY DEF ToSet
  <1> QED
    BY <1>1, <1>2, <1>3, <1>4, FS_EmptySet DEF IInv, Consistent, Of

----------------------------------------------------------------------------
\* The results of a longer list: those before and the new one.
LEMMA Appended ==
  ASSUME NEW S, NEW list \in Seq(S), NEW x \in S
  PROVE  ToSet(Append(list, x)) = ToSet(list) \cup {x}
  <1>1. DOMAIN Append(list, x) = DOMAIN list \cup {Len(list) + 1}
    OBVIOUS
  <1>2. /\ \A k \in DOMAIN list : Append(list, x)[k] = list[k]
        /\ Append(list, x)[Len(list) + 1] = x
    OBVIOUS
  <1> QED
    BY <1>1, <1>2 DEF ToSet

\* The collected segments of a recognition are finitely many.
LEMMA Collected ==
  ASSUME TypeOK, NEW r \in Recognitions, Consistent(r)
  PROVE  IsFiniteSet(ToSet(decodes[r]))
  <1>1. count[r] \in Nat
    BY PoolAssumption DEF TypeOK
  <1>2. IsFiniteSet(1 .. count[r])
    BY <1>1, FS_Interval
  <1>3. ToSet(decodes[r]) \in SUBSET (1 .. count[r])
    BY DEF Consistent, Of
  <1> QED
    BY <1>2, <1>3, FS_Subset

\* A segment that is not finished moves on: its recognition has not ended and
\* has not collected it, so what is known of the recognitions stays true.
LEMMA SegmentMoves ==
  ASSUME IInv, NEW r \in Recognitions, NEW i \in Indices,
         seg'[r][i] \in {"waiting", "decoding", "decoded", "raised"},
         seg[r][i] \in {"queued", "waiting", "decoding"},
         seg' = [seg EXCEPT ![r][i] = seg'[r][i]],
         UNCHANGED <<at, count, decodes, text>>
  PROVE  /\ seg' \in [Recognitions -> [Indices ->
               {"none", "queued", "waiting", "decoding", "decoded", "raised"}]]
         /\ \A q \in Recognitions : \A j \in Indices :
              ~(q = r /\ j = i) => seg'[q][j] = seg[q][j]
         /\ \A q \in Recognitions : \A j \in Indices :
              j \notin Of(q)' => seg'[q][j] = "none"
         /\ NothingRunsOn'
         /\ \A q \in Recognitions : Consistent(q)'
  <1>1. seg \in [Recognitions -> [Indices ->
          {"none", "queued", "waiting", "decoding", "decoded", "raised"}]]
    BY DEF IInv, TypeOK
  <1>2. seg' \in [Recognitions -> [Indices ->
          {"none", "queued", "waiting", "decoding", "decoded", "raised"}]]
    BY <1>1
  <1>3. \A q \in Recognitions : \A j \in Indices :
          seg'[q][j] = IF q = r /\ j = i THEN seg'[r][i] ELSE seg[q][j]
    BY <1>1
  <1>4. \A q \in Recognitions : Of(q)' = Of(q) /\ Of(q) \subseteq Indices
    BY PoolAssumption DEF IInv, TypeOK, Of, Indices
  <1>5. i \in Of(r)
    BY DEF IInv, TypeOK
  <1>6. \A q \in Recognitions : \A j \in Indices :
          j \notin Of(q)' => seg'[q][j] = "none"
    <2>1. \A q \in Recognitions : \A j \in Indices :
            j \notin Of(q) => seg[q][j] = "none"
      BY DEF IInv, TypeOK
    <2> QED
      BY <1>3, <1>4, <1>5, <2>1
  <1>7. \A q \in Recognitions : \A j \in Of(q) :
          seg[q][j] = "decoded" => seg'[q][j] = "decoded"
    BY <1>3, <1>4
  <1>8. NothingRunsOn'
    <2>1. at[r] \notin Ended
      BY <1>5 DEF IInv, NothingRunsOn
    <2>2. ASSUME NEW q \in Recognitions, at'[q] \in Ended, NEW j \in Of(q)'
          PROVE  seg'[q][j] \in {"decoded", "raised"}
      <3>1. q # r /\ at[q] \in Ended /\ j \in Of(q) /\ j \in Indices
        BY <1>4, <2>1, <2>2
      <3>2. seg'[q][j] = seg[q][j]
        BY <1>3, <3>1
      <3> QED
        BY <3>1, <3>2 DEF IInv, NothingRunsOn
    <2> QED
      BY <2>2 DEF NothingRunsOn, Ended
  <1>9. ASSUME NEW q \in Recognitions PROVE Consistent(q)'
    <2>1. /\ at'[q] = at[q] /\ count'[q] = count[q]
          /\ decodes'[q] = decodes[q] /\ text'[q] = text[q]
          /\ Of(q)' = Of(q)
      BY <1>4
    <2>2. Consistent(q)
      BY DEF IInv
    <2> QED
      BY <1>7, <2>1, <2>2 DEF Consistent
  <1> QED
    BY <1>2, <1>3, <1>6, <1>8, <1>9

\* A recognition goes on to another place with all else as it was: the place
\* asks for what the invariant says of it.
LEMMA PlaceChanges ==
  ASSUME IInv, NEW r \in Recognitions,
         NEW place \in {"new", "load", "vad", "asr", "closing",
                        "combined", "punc", "speaker"} \cup Ended,
         at' = [at EXCEPT ![r] = place],
         UNCHANGED <<count, seg, decodes, text, user>>,
         vadLock' \in Recognitions \cup {NoOne},
         puncLock' \in Recognitions \cup {NoOne},
         place \in {"new", "load", "vad"} => count[r] = 0,
         place \in Ended => \A i \in Of(r) : seg[r][i] \in {"decoded", "raised"},
         place \in {"combined", "punc", "speaker", "done"} =>
            /\ \A i \in Of(r) : seg[r][i] = "decoded"
            /\ text[r] = [i \in Of(r) |-> i]
  PROVE  IInv'
  <1>1. \A q \in Recognitions :
          /\ at'[q] = IF q = r THEN place ELSE at[q]
          /\ Of(q)' = Of(q)
    BY DEF IInv, TypeOK, Of
  <1>2. at' \in [Recognitions -> {"new", "load", "vad", "asr", "closing",
                 "combined", "punc", "speaker"} \cup Ended]
    BY DEF IInv, TypeOK
  <1>3. TypeOK'
    <2>1. \A q \in Recognitions : \A i \in Indices :
            i \notin Of(q)' => seg'[q][i] = "none"
      BY <1>1 DEF IInv, TypeOK
    <2> QED
      BY <1>2, <2>1 DEF IInv, TypeOK
  <1>4. ModelsExact'
    <2>1. ModelsExact /\ UNCHANGED <<seg, user>>
      BY DEF IInv
    <2> QED
      BY <2>1 DEF ModelsExact
  <1>5. NothingRunsOn'
    <2>1. ASSUME NEW q \in Recognitions, at'[q] \in Ended, NEW i \in Of(q)
          PROVE  seg[q][i] \in {"decoded", "raised"}
      BY <1>1, <2>1 DEF IInv, NothingRunsOn
    <2> QED
      BY <1>1, <2>1 DEF NothingRunsOn, Ended
  <1>6. ASSUME NEW q \in Recognitions PROVE Consistent(q)'
    <2>1. Consistent(q)
      BY DEF IInv
    <2>2. CASE q = r
      BY <1>1, <2>1, <2>2 DEF Consistent
    <2>3. CASE q # r
      BY <1>1, <2>1, <2>3 DEF Consistent
    <2> QED
      BY <2>2, <2>3
  <1> QED
    BY <1>3, <1>4, <1>5, <1>6 DEF IInv

----------------------------------------------------------------------------
\* One lemma for each action: it preserves the inductive invariant.

\* Nothing is submitted yet.
LEMMA BeginIInv ==
  ASSUME IInv, NEW r \in Recognitions, Begin(r)
  PROVE  IInv'
  <1>1. PICK place \in {"load", "failed"} : at' = [at EXCEPT ![r] = place]
    BY DEF Begin, Go
  <1>2. vadLock \in Recognitions \cup {NoOne} /\ puncLock \in Recognitions \cup {NoOne}
    BY DEF IInv, TypeOK
  <1>3. count[r] = 0
    BY DEF Begin, IInv, Consistent
  <1>4. Of(r) = {}
    BY <1>3 DEF Of
  <1> QED
    BY <1>1, <1>2, <1>3, <1>4, PlaceChanges DEF Begin, Ended

\* Nothing is submitted yet.
LEMMA EnterVadIInv ==
  ASSUME IInv, NEW r \in Recognitions, EnterVad(r)
  PROVE  IInv'
  <1>1. PICK place \in {"vad"} : at' = [at EXCEPT ![r] = place]
    BY DEF EnterVad, Go
  <1>2. vadLock \in Recognitions \cup {NoOne} /\ puncLock \in Recognitions \cup {NoOne}
    BY DEF IInv, TypeOK
  <1>3. count[r] = 0
    BY DEF EnterVad, IInv, Consistent
  <1> QED
    BY <1>1, <1>2, <1>3, PlaceChanges DEF EnterVad, Ended

\* No result was collected before.
LEMMA LeaveVadIInv ==
  ASSUME IInv, NEW r \in Recognitions, LeaveVad(r)
  PROVE  IInv'
  <1> DEFINE new(n) == [j \in Indices |-> IF j <= n THEN "queued" ELSE "none"]
  <1>1. CASE /\ Go(r, "failed")
             /\ UNCHANGED <<count, seg>>
    <2>0. count[r] = 0
      BY DEF LeaveVad, IInv, Consistent
    <2>1. Of(r) = {}
      BY <2>0 DEF Of
    <2>2. at' = [at EXCEPT ![r] = "failed"]
      BY <1>1 DEF Go
    <2>3. puncLock \in Recognitions \cup {NoOne}
      BY DEF IInv, TypeOK
    <2> QED
      BY <1>1, <2>0, <2>1, <2>2, <2>3, PlaceChanges DEF LeaveVad, Ended
  <1>2. ASSUME Go(r, "asr"),
               NEW n \in Indices,
               count' = [count EXCEPT ![r] = n],
               seg' = [seg EXCEPT ![r] = new(n)]
        PROVE  IInv'
    <2> USE PoolAssumption DEF IInv
    <2>1. /\ n \in 1 .. MaxSegments
          /\ at[r] = "vad" /\ at' = [at EXCEPT ![r] = "asr"]
          /\ vadLock' = NoOne
          /\ UNCHANGED <<decodes, text, user, puncLock>>
      BY <1>2 DEF LeaveVad, Go, Indices
    <2>2. /\ count[r] = 0 /\ Of(r) = {}
          /\ \A j \in Indices : seg[r][j] = "none"
      BY <2>1 DEF Consistent, Of, TypeOK
    <2>3. ToSet(decodes[r]) = {}
      BY <2>2 DEF Consistent
    <2>4. \A q \in Recognitions :
            /\ count'[q] = IF q = r THEN n ELSE count[q]
            /\ seg'[q] = IF q = r THEN new(n) ELSE seg[q]
            /\ at'[q] = IF q = r THEN "asr" ELSE at[q]
      BY <1>2, <2>1 DEF TypeOK
    <2>5. \A q \in Recognitions : \A j \in Indices :
            seg'[q][j] = IF q = r THEN (IF j <= n THEN "queued" ELSE "none")
                                  ELSE seg[q][j]
      BY <2>4
    <2>6. \A q \in Recognitions :
            Of(q)' = IF q = r THEN 1 .. n ELSE Of(q)
      BY <2>4 DEF Of
    <2>7. TypeOK'
      <3>1. seg' \in [Recognitions -> [Indices ->
              {"none", "queued", "waiting", "decoding", "decoded", "raised"}]]
        BY <1>2 DEF TypeOK
      <3>2. \A q \in Recognitions : \A j \in Indices :
              j \notin Of(q)' => seg'[q][j] = "none"
        <4>1. ASSUME NEW q \in Recognitions, NEW j \in Indices, j \notin Of(q)'
              PROVE  seg'[q][j] = "none"
          <5>1. CASE q = r
            BY <2>1, <2>5, <2>6, <4>1, <5>1 DEF Indices
          <5>2. CASE q # r
            BY <2>5, <2>6, <4>1, <5>2 DEF TypeOK
          <5> QED
            BY <5>1, <5>2
        <4> QED
          BY <4>1
      <3>3. count' \in [Recognitions -> 0 .. MaxSegments]
        BY <1>2, <2>1 DEF TypeOK
      <3>4. at' \in [Recognitions -> {"new", "load", "vad", "asr", "closing",
                     "combined", "punc", "speaker"} \cup Ended]
        BY <2>1 DEF TypeOK
      <3> QED
        BY <2>1, <3>1, <3>2, <3>3, <3>4 DEF TypeOK
    <2>8. ModelsExact'
      <3>1. \A q \in Recognitions : \A j \in Indices :
              seg'[q][j] = "decoding" <=> seg[q][j] = "decoding"
        BY <2>2, <2>5
      <3> QED
        BY <2>1, <3>1 DEF ModelsExact
    <2>9. NothingRunsOn'
      <3>1. ASSUME NEW q \in Recognitions, at'[q] \in Ended
            PROVE  \A j \in Of(q)' : seg'[q][j] \in {"decoded", "raised"}
        <4>1. q # r
          BY <2>4, <3>1 DEF Ended
        <4> QED
          BY <2>4, <2>6, <3>1, <4>1 DEF NothingRunsOn
      <3> QED
        BY <3>1 DEF NothingRunsOn, Ended
    <2>10. ASSUME NEW q \in Recognitions PROVE Consistent(q)'
      <3>1. CASE q = r
        <4>1. at'[r] = "asr" /\ decodes'[r] = decodes[r]
          BY <2>1, <2>4
        <4> QED
          BY <2>3, <3>1, <4>1 DEF Consistent
      <3>2. CASE q # r
        <4>1. /\ at'[q] = at[q] /\ count'[q] = count[q] /\ seg'[q] = seg[q]
              /\ decodes'[q] = decodes[q] /\ text'[q] = text[q]
              /\ Of(q)' = Of(q)
          BY <2>1, <2>4, <2>6, <3>2
        <4> QED
          BY <4>1 DEF Consistent
      <3> QED
        BY <3>1, <3>2
    <2> QED
      BY <2>7, <2>8, <2>9, <2>10
  <1> QED
    BY <1>1, <1>2 DEF LeaveVad

\* A queued segment belongs to no recognition that has ended.
LEMMA StartSegmentIInv ==
  ASSUME IInv, NEW r \in Recognitions, NEW i \in Indices, StartSegment(r, i)
  PROVE  IInv'
  <1>1. /\ seg[r][i] = "queued"
        /\ UNCHANGED <<at, count, decodes, text, user, vadLock, puncLock>>
    BY DEF StartSegment
  <1>2. /\ seg'[r][i] \in {"waiting", "decoded"}
        /\ seg' = [seg EXCEPT ![r][i] = seg'[r][i]]
    <2>1. PICK s \in {"waiting", "decoded"} : seg' = [seg EXCEPT ![r][i] = s]
      BY DEF StartSegment, SetSeg
    <2>2. seg \in [Recognitions -> [Indices ->
            {"none", "queued", "waiting", "decoding", "decoded", "raised"}]]
      BY DEF IInv, TypeOK
    <2>3. seg'[r][i] = s
      BY <2>1, <2>2
    <2> QED
      BY <2>1, <2>3
  <1>3. /\ seg' \in [Recognitions -> [Indices ->
             {"none", "queued", "waiting", "decoding", "decoded", "raised"}]]
        /\ \A q \in Recognitions : \A j \in Indices :
             ~(q = r /\ j = i) => seg'[q][j] = seg[q][j]
        /\ \A q \in Recognitions : \A j \in Indices :
             j \notin Of(q)' => seg'[q][j] = "none"
        /\ NothingRunsOn'
        /\ \A q \in Recognitions : Consistent(q)'
    BY <1>1, <1>2, SegmentMoves
  <1>4. TypeOK'
    BY <1>1, <1>3 DEF IInv, TypeOK
  <1>5. ModelsExact'
    <2>1. \A q \in Recognitions : \A j \in Indices :
            seg'[q][j] = "decoding" <=> seg[q][j] = "decoding"
      BY <1>1, <1>2, <1>3
    <2> QED
      BY <1>1, <2>1 DEF IInv, ModelsExact
  <1> QED
    BY <1>3, <1>4, <1>5 DEF IInv

\* The model was free, so the segment is its only user.
LEMMA TakeModelIInv ==
  ASSUME IInv, NEW r \in Recognitions, NEW i \in Indices, NEW m \in Models,
         TakeModel(r, i, m)
  PROVE  IInv'
  <1>1. /\ seg[r][i] = "waiting" /\ user[m] = NoOne
        /\ user' = [user EXCEPT ![m] = <<r, i>>]
        /\ UNCHANGED <<at, count, decodes, text, vadLock, puncLock>>
    BY DEF TakeModel
  <1>2. /\ seg'[r][i] = "decoding"
        /\ seg' = [seg EXCEPT ![r][i] = seg'[r][i]]
    BY DEF TakeModel, SetSeg, IInv, TypeOK
  <1>3. /\ seg' \in [Recognitions -> [Indices ->
             {"none", "queued", "waiting", "decoding", "decoded", "raised"}]]
        /\ \A q \in Recognitions : \A j \in Indices :
             ~(q = r /\ j = i) => seg'[q][j] = seg[q][j]
        /\ \A q \in Recognitions : \A j \in Indices :
             j \notin Of(q)' => seg'[q][j] = "none"
        /\ NothingRunsOn'
        /\ \A q \in Recognitions : Consistent(q)'
    BY <1>1, <1>2, SegmentMoves
  <1> USE PoolAssumption DEF IInv
  <1>4. TypeOK'
    BY <1>1, <1>3 DEF TypeOK
  <1>5. \A n \in Models : user'[n] = IF n = m THEN <<r, i>> ELSE user[n]
    BY <1>1 DEF TypeOK
  <1>6. ModelsExact'
    <2>1. \A n \in Models : user[n] # <<r, i>>
      BY <1>1 DEF ModelsExact
    <2>2. ASSUME NEW q \in Recognitions, NEW j \in Indices
          PROVE  seg'[q][j] = "decoding" <=>
                   \E n \in Models : user'[n] = <<q, j>>
      <3>1. CASE q = r /\ j = i
        BY <1>2, <1>5, <3>1
      <3>2. CASE ~(q = r /\ j = i)
        <4>1. <<q, j>> # <<r, i>> /\ <<q, j>> # NoOne
          BY <3>2 DEF Indices
        <4>2. \A n \in Models : user'[n] = <<q, j>> <=> user[n] = <<q, j>>
          BY <1>1, <1>5, <4>1
        <4>3. seg'[q][j] = seg[q][j]
          BY <1>3, <3>2
        <4>4. seg[q][j] = "decoding" <=> \E n \in Models : user[n] = <<q, j>>
          BY DEF ModelsExact
        <4> QED
          BY <4>2, <4>3, <4>4
      <3> QED
        BY <3>1, <3>2
    <2>3. \A n, o \in Models :
            user'[n] = user'[o] /\ user'[n] # NoOne => n = o
      BY <1>5, <2>1 DEF ModelsExact
    <2> QED
      BY <2>2, <2>3 DEF ModelsExact
  <1> QED
    BY <1>3, <1>4, <1>6

\* The segment decodes, so it held no other model.
LEMMA ReturnModelIInv ==
  ASSUME IInv, NEW r \in Recognitions, NEW i \in Indices, NEW m \in Models,
         ReturnModel(r, i, m)
  PROVE  IInv'
  <1>1. /\ user[m] = <<r, i>>
        /\ user' = [user EXCEPT ![m] = NoOne]
        /\ UNCHANGED <<at, count, decodes, text, vadLock, puncLock>>
    BY DEF ReturnModel
  <1>2. /\ seg'[r][i] \in {"decoded", "raised"}
        /\ seg' = [seg EXCEPT ![r][i] = seg'[r][i]]
    <2>1. PICK s \in {"decoded", "raised"} : seg' = [seg EXCEPT ![r][i] = s]
      BY DEF ReturnModel, SetSeg
    <2>2. seg \in [Recognitions -> [Indices ->
            {"none", "queued", "waiting", "decoding", "decoded", "raised"}]]
      BY DEF IInv, TypeOK
    <2>3. seg'[r][i] = s
      BY <2>1, <2>2
    <2> QED
      BY <2>1, <2>3
  <1>3. seg[r][i] = "decoding"
    BY <1>1 DEF IInv, ModelsExact
  <1>4. /\ seg' \in [Recognitions -> [Indices ->
             {"none", "queued", "waiting", "decoding", "decoded", "raised"}]]
        /\ \A q \in Recognitions : \A j \in Indices :
             ~(q = r /\ j = i) => seg'[q][j] = seg[q][j]
        /\ \A q \in Recognitions : \A j \in Indices :
             j \notin Of(q)' => seg'[q][j] = "none"
        /\ NothingRunsOn'
        /\ \A q \in Recognitions : Consistent(q)'
    BY <1>1, <1>2, <1>3, SegmentMoves
  <1> USE PoolAssumption DEF IInv
  <1>5. TypeOK'
    BY <1>1, <1>4 DEF TypeOK
  <1>6. \A n \in Models : user'[n] = IF n = m THEN NoOne ELSE user[n]
    BY <1>1 DEF TypeOK
  <1>7. ModelsExact'
    <2>1. <<r, i>> # NoOne
      BY DEF Indices
    <2>2. \A n \in Models \ {m} : user[n] # <<r, i>>
      BY <1>1, <2>1 DEF ModelsExact
    <2>3. ASSUME NEW q \in Recognitions, NEW j \in Indices
          PROVE  seg'[q][j] = "decoding" <=>
                   \E n \in Models : user'[n] = <<q, j>>
      <3>1. <<q, j>> # NoOne
        BY DEF Indices
      <3>2. CASE q = r /\ j = i
        BY <1>2, <1>6, <2>1, <2>2, <3>2
      <3>3. CASE ~(q = r /\ j = i)
        <4>1. <<q, j>> # <<r, i>>
          BY <3>3
        <4>2. \A n \in Models : user'[n] = <<q, j>> <=> user[n] = <<q, j>>
          BY <1>1, <1>6, <3>1, <4>1
        <4>3. seg'[q][j] = seg[q][j]
          BY <1>4, <3>3
        <4>4. seg[q][j] = "decoding" <=> \E n \in Models : user[n] = <<q, j>>
          BY DEF ModelsExact
        <4> QED
          BY <4>2, <4>3, <4>4
      <3> QED
        BY <3>2, <3>3
    <2>4. \A n, o \in Models :
            user'[n] = user'[o] /\ user'[n] # NoOne => n = o
      BY <1>6 DEF ModelsExact
    <2> QED
      BY <2>3, <2>4 DEF ModelsExact
  <1> QED
    BY <1>4, <1>5, <1>7

\* The segment is new among the results.
LEMMA CollectIInv ==
  ASSUME IInv, NEW r \in Recognitions, NEW i \in Indices, Collect(r, i)
  PROVE  IInv'
  <1>1. /\ at[r] = "asr"
        /\ i \in Of(r) /\ i \notin ToSet(decodes[r])
        /\ UNCHANGED <<count, seg, text, user, vadLock, puncLock>>
    BY DEF Collect, Finished
  <1>2. ModelsExact'
    BY <1>1 DEF IInv, ModelsExact
  <1>3. CASE Go(r, "closing") /\ UNCHANGED decodes
    <2>1. at' = [at EXCEPT ![r] = "closing"]
      BY <1>3 DEF Go
    <2>2. vadLock \in Recognitions \cup {NoOne} /\ puncLock \in Recognitions \cup {NoOne}
      BY DEF IInv, TypeOK
    <2> QED
      BY <1>1, <1>3, <2>1, <2>2, PlaceChanges DEF Ended
  <1>4. CASE /\ seg[r][i] = "decoded"
             /\ decodes' = [decodes EXCEPT ![r] = Append(@, i)]
             /\ UNCHANGED at
    <2> USE PoolAssumption DEF IInv
    <2>1. decodes[r] \in Seq(Indices)
      BY DEF TypeOK
    <2>2. ToSet(Append(decodes[r], i)) = ToSet(decodes[r]) \cup {i}
      BY <2>1, Appended
    <2>3. \A q \in Recognitions :
            decodes'[q] = IF q = r THEN Append(decodes[r], i) ELSE decodes[q]
      BY <1>4 DEF TypeOK
    <2>4. TypeOK'
      BY <1>1, <1>4, <2>1 DEF TypeOK, Of
    <2>5. NothingRunsOn'
      BY <1>1, <1>4 DEF NothingRunsOn, Of
    <2>6. ASSUME NEW q \in Recognitions PROVE Consistent(q)'
      <3>1. CASE q # r
        BY <1>1, <1>4, <2>3, <3>1 DEF Consistent, Of
      <3>2. CASE q = r
        <4>1. ToSet(decodes'[r]) = ToSet(decodes[r]) \cup {i}
          BY <2>2, <2>3
        <4>2. \A j \in ToSet(decodes'[r]) : j \in Of(r)' /\ seg'[r][j] = "decoded"
          BY <1>1, <1>4, <4>1 DEF Consistent, Of
        <4>3. Len(decodes'[r]) = Len(decodes[r]) + 1
          <5>1. decodes'[r] = Append(decodes[r], i)
            BY <2>3
          <5>2. Len(Append(decodes[r], i)) = Len(decodes[r]) + 1
            BY <2>1
          <5> QED
            BY <5>1, <5>2
        <4>4. IsFiniteSet(ToSet(decodes[r]))
          BY <2>1, Collected DEF Consistent
        <4>5. Cardinality(ToSet(decodes'[r])) = Cardinality(ToSet(decodes[r])) + 1
          BY <1>1, <4>1, <4>4, FS_AddElement
        <4>6. Cardinality(ToSet(decodes'[r])) = Len(decodes'[r])
          BY <4>3, <4>5 DEF Consistent
        <4> QED
          BY <1>1, <1>4, <3>2, <4>2, <4>6 DEF Consistent
      <3> QED
        BY <3>1, <3>2
    <2> QED
      BY <1>2, <2>4, <2>5, <2>6
  <1> QED
    BY <1>3, <1>4 DEF Collect

\* All the futures are finished.
LEMMA FailAfterThreadsIInv ==
  ASSUME IInv, NEW r \in Recognitions, FailAfterThreads(r)
  PROVE  IInv'
  <1>1. PICK place \in {"failed"} : at' = [at EXCEPT ![r] = place]
    BY DEF FailAfterThreads, Go
  <1>2. vadLock \in Recognitions \cup {NoOne} /\ puncLock \in Recognitions \cup {NoOne}
    BY DEF IInv, TypeOK
  <1>3. \A i \in Of(r) : seg[r][i] \in {"decoded", "raised"}
    BY DEF FailAfterThreads, IInv, Consistent, Finished
  <1> QED
    BY <1>1, <1>2, <1>3, PlaceChanges DEF FailAfterThreads, Ended

\* All the segments are among the results.
LEMMA CombinedIInv ==
  ASSUME IInv, NEW r \in Recognitions, Combined(r)
  PROVE  IInv'
  <1> USE PoolAssumption DEF IInv
  <1>1. PICK place \in {"combined", "speaker"} :
          /\ at[r] = "asr" /\ Len(decodes[r]) = count[r]
          /\ at' = [at EXCEPT ![r] = place]
          /\ text' = [text EXCEPT ![r] = Combine(decodes[r], count[r])]
          /\ UNCHANGED <<count, seg, decodes, user, vadLock, puncLock>>
    BY DEF Combined, Go
  <1>2. ToSet(decodes[r]) = Of(r)
    <2>1. count[r] \in Nat
      BY DEF TypeOK
    <2>2. IsFiniteSet(Of(r)) /\ Cardinality(Of(r)) = count[r]
      BY <2>1, FS_Interval DEF Of
    <2>3. /\ ToSet(decodes[r]) \in SUBSET Of(r)
          /\ Cardinality(ToSet(decodes[r])) = Cardinality(Of(r))
      BY <1>1, <2>2 DEF Consistent
    <2> QED
      BY <2>2, <2>3, FS_Subset
  <1>3. Combine(decodes[r], count[r]) = [j \in Of(r) |-> j]
    BY <1>2 DEF Combine, Of
  <1>4. /\ text'[r] = [j \in Of(r) |-> j]
        /\ \A q \in Recognitions \ {r} : text'[q] = text[q]
        /\ \A q \in Recognitions : at'[q] = IF q = r THEN place ELSE at[q]
    BY <1>1, <1>3 DEF TypeOK
  <1>5. TypeOK'
    <2>1. [j \in Of(r) |-> j] \in Seq(0 .. MaxSegments)
      BY DEF TypeOK, Of
    <2>2. text' \in [Recognitions -> Seq(0 .. MaxSegments)]
      BY <1>1, <1>3, <2>1 DEF TypeOK
    <2> QED
      BY <1>1, <2>2 DEF TypeOK, Of
  <1>6. ModelsExact'
    BY <1>1 DEF ModelsExact
  <1>7. NothingRunsOn'
    BY <1>1, <1>4 DEF NothingRunsOn, Of, Ended
  <1>8. ASSUME NEW q \in Recognitions PROVE Consistent(q)'
    <2>1. Of(q)' = Of(q)
      BY <1>1 DEF Of
    <2>2. CASE q = r
      BY <1>1, <1>2, <1>4, <2>1, <2>2 DEF Consistent
    <2>3. CASE q # r
      BY <1>1, <1>4, <2>1, <2>3 DEF Consistent
    <2> QED
      BY <2>2, <2>3
  <1> QED
    BY <1>5, <1>6, <1>7, <1>8

\* All the segments are decoded.
LEMMA EnterPuncIInv ==
  ASSUME IInv, NEW r \in Recognitions, EnterPunc(r)
  PROVE  IInv'
  <1>1. PICK place \in {"punc"} : at' = [at EXCEPT ![r] = place]
    BY DEF EnterPunc, Go
  <1>2. vadLock \in Recognitions \cup {NoOne} /\ puncLock \in Recognitions \cup {NoOne}
    BY DEF IInv, TypeOK
  <1>3. /\ \A i \in Of(r) : seg[r][i] = "decoded"
        /\ text[r] = [i \in Of(r) |-> i]
    BY DEF EnterPunc, IInv, Consistent
  <1> QED
    BY <1>1, <1>2, <1>3, PlaceChanges DEF EnterPunc, Ended

\* All the segments are decoded.
LEMMA LeavePuncIInv ==
  ASSUME IInv, NEW r \in Recognitions, LeavePunc(r)
  PROVE  IInv'
  <1>1. PICK place \in {"speaker", "failed"} : at' = [at EXCEPT ![r] = place]
    BY DEF LeavePunc, Go
  <1>2. vadLock \in Recognitions \cup {NoOne} /\ puncLock \in Recognitions \cup {NoOne}
    BY DEF IInv, TypeOK
  <1>3. /\ \A i \in Of(r) : seg[r][i] = "decoded"
        /\ text[r] = [i \in Of(r) |-> i]
    BY DEF LeavePunc, IInv, Consistent
  <1> QED
    BY <1>1, <1>2, <1>3, PlaceChanges DEF LeavePunc, Ended

\* All the segments are decoded.
LEMMA EndIInv ==
  ASSUME IInv, NEW r \in Recognitions, End(r)
  PROVE  IInv'
  <1>1. PICK place \in {"done", "failed"} : at' = [at EXCEPT ![r] = place]
    BY DEF End, Go
  <1>2. vadLock \in Recognitions \cup {NoOne} /\ puncLock \in Recognitions \cup {NoOne}
    BY DEF IInv, TypeOK
  <1>3. /\ \A i \in Of(r) : seg[r][i] = "decoded"
        /\ text[r] = [i \in Of(r) |-> i]
    BY DEF End, IInv, Consistent
  <1> QED
    BY <1>1, <1>2, <1>3, PlaceChanges DEF End, Ended

\* Every step preserves the inductive invariant.
LEMMA NextIInv == IInv /\ [Next]_vars => IInv'
  <1> SUFFICES ASSUME IInv, [Next]_vars PROVE IInv'
    OBVIOUS
  <1>1. CASE UNCHANGED vars
    <2> USE <1>1 DEF vars, IInv
    <2>1. TypeOK' /\ ModelsExact'
      BY DEF TypeOK, ModelsExact, Of
    <2>2. NothingRunsOn'
      BY DEF NothingRunsOn, Of
    <2>3. \A r \in Recognitions : Consistent(r)'
      BY DEF Consistent, Of
    <2> QED
      BY <2>1, <2>2, <2>3
  <1>2. ASSUME NEW r \in Recognitions, Caller(r) PROVE IInv'
    BY <1>2, BeginIInv, EnterVadIInv, LeaveVadIInv, CollectIInv,
       FailAfterThreadsIInv, CombinedIInv, EnterPuncIInv, LeavePuncIInv, EndIInv
       DEF Caller
  <1>3. ASSUME NEW r \in Recognitions, NEW i \in Indices, Thread(r, i)
        PROVE  IInv'
    BY <1>3, StartSegmentIInv, TakeModelIInv, ReturnModelIInv DEF Thread
  <1> QED
    BY <1>1, <1>2, <1>3 DEF Next

\* The inductive invariant holds in every reachable state.
THEOREM PoolInvariant == Spec => []IInv
  BY InitIInv, NextIInv, PTL DEF Spec

\* Type correctness of the bundle and its calls.
THEOREM PoolTypeCorrect == Spec => []TypeOK
  <1>1. IInv => TypeOK
    BY DEF IInv
  <1> QED
    BY <1>1, PoolInvariant, PTL

\* A model is never lost and never used by two segments, whatever raises
\* (recognizer.py:146-161).
THEOREM ModelsAreExact == Spec => []ModelsExact
  <1>1. IInv => ModelsExact
    BY DEF IInv
  <1> QED
    BY <1>1, PoolInvariant, PTL

\* The text keeps the order of the audio (helpers.py:78-87).
THEOREM TextKeepsOrder == Spec => []TextInOrder
  <1>1. IInv => TextInOrder
    BY DEF IInv, Consistent, TextInOrder
  <1> QED
    BY <1>1, PoolInvariant, PTL

\* A recognition ends after all of its threads (recognizer.py:164).
THEOREM NothingRunsOnAfterEnd == Spec => []NothingRunsOn
  <1>1. IInv => NothingRunsOn
    BY DEF IInv
  <1> QED
    BY <1>1, PoolInvariant, PTL

\* A failed segment fails its recognition (recognizer.py:170).
THEOREM FailuresSurface == Spec => []FailureSurfaces
  <1>1. ASSUME IInv, NEW r \in Recognitions,
               NEW i \in Of(r), seg[r][i] = "raised"
        PROVE  at[r] \in {"asr", "closing", "failed"}
    <2>1. at[r] \notin {"combined", "punc", "speaker", "done"}
      BY <1>1 DEF IInv, Consistent
    <2>2. at[r] \notin {"new", "load", "vad"}
      <3>1. SUFFICES ASSUME at[r] \in {"new", "load", "vad"} PROVE FALSE
        OBVIOUS
      <3>2. count[r] = 0
        BY <1>1, <3>1 DEF IInv, Consistent
      <3>3. i \in 1 .. 0
        BY <1>1, <3>2 DEF Of
      <3> QED
        BY <3>3
    <2> QED
      BY <1>1, <2>1, <2>2 DEF IInv, TypeOK, Ended
  <1>2. IInv => FailureSurfaces
    BY <1>1 DEF FailureSurfaces
  <1> QED
    BY <1>2, PoolInvariant, PTL

=============================================================================
