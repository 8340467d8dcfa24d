----------------------- MODULE RealtimeSessionProofs -----------------------
(* The session keeps the audio it needs and finalises in order, for any    *)
(* sizes of messages, windows, paddings and gaps.                          *)
EXTENDS RealtimeSession, SequenceTheorems, SequenceFacts

(* Numbers.                                                                *)
LEMMA MsType == \A n \in Nat : Ms(n) \in Nat
  BY SessionAssumption DEF Ms

LEMMA MsGrows == \A m, n \in Nat : m <= n => Ms(m) <= Ms(n)
  BY SessionAssumption DEF Ms

LEMMA RateGrows == \A m, n \in Nat : m <= n => m * Rate <= n * Rate /\ m * Rate \in Nat
  BY SessionAssumption

(* Lists: what is left without the first element, and with one more.       *)
LEMMA TailElements ==
  ASSUME NEW T, NEW s \in Seq(T), s # <<>>
  PROVE  /\ Tail(s) \in Seq(T) /\ Head(s) = s[1] /\ Head(s) \in T /\ 1 \in DOMAIN s
         /\ \A i \in DOMAIN Tail(s) : i + 1 \in DOMAIN s /\ i \in Nat /\ i >= 1
                                      /\ Tail(s)[i] = s[i + 1]
  OBVIOUS

LEMMA AppendElements ==
  ASSUME NEW T, NEW s \in Seq(T), NEW e \in T
  PROVE  /\ Append(s, e) \in Seq(T) /\ DOMAIN s = 1..Len(s) /\ Len(s) \in Nat
         /\ DOMAIN Append(s, e) = DOMAIN s \cup {Len(s) + 1}
         /\ \A i \in DOMAIN s : Append(s, e)[i] = s[i]
         /\ Append(s, e)[Len(s) + 1] = e
  OBVIOUS

LEMMA SpanFields == \A s \in Span : s.start \in Nat /\ s.end \in Nat
  BY DEF Span

LEMMA SegmentFields ==
  \A s, e \in Nat : Segment(s, e) \in Span /\ Segment(s, e).start = s /\ Segment(s, e).end = e
  BY DEF Segment, Span

(* The segments of a list lie between two times.                           *)
Within(segs, low, high) ==
    \A i \in DOMAIN segs : low <= segs[i].start /\ segs[i].end <= high

NoneEmpty(segs) == \A i \in DOMAIN segs : segs[i].start < segs[i].end

Apart(segs) == \A i, j \in DOMAIN segs : i < j => segs[i].end < segs[j].start

(* A segment that begins where the pending ones have ended is joined to the*)
(* last of them or follows it.                                             *)
LEMMA EnqueuedKeeps ==
  ASSUME NEW pend \in Seq(Span), NEW seg \in Span, Normal(seg),
         NoneEmpty(pend), Apart(pend), NEW low \in Nat,
         Within(pend, low, seg.start), low <= seg.start
  PROVE  LET q == Enqueued(pend, seg)
         IN  /\ q \in Seq(Span)
             /\ NoneEmpty(q) /\ Apart(q) /\ Within(q, low, seg.end)
  <1> USE DEF NoneEmpty, Apart, Within
  <1>0. seg.start \in Nat /\ seg.end \in Nat /\ seg.start < seg.end
    BY SpanFields DEF Normal
  <1>1. /\ DOMAIN pend = 1..Len(pend) /\ Len(pend) \in Nat
        /\ \A i \in DOMAIN pend : pend[i] \in Span /\ pend[i].start \in Nat /\ pend[i].end \in Nat
    BY SpanFields
  <1>2. CASE pend # <<>> /\ seg.start - Last(pend).end <= EffectiveGap
    <2> DEFINE n == Len(pend)
               new == Segment(Smaller(pend[n].start, seg.start), Larger(pend[n].end, seg.end))
               q == [pend EXCEPT ![n] = new]
    <2>1. n \in DOMAIN pend /\ Enqueued(pend, seg) = q
      BY <1>1, <1>2 DEF Enqueued, Last, ReplaceAt
    <2>2. new \in Span /\ new.start = pend[n].start /\ new.end = seg.end
      BY <1>0, <1>1, <2>1, SegmentFields DEF Smaller, Larger
    <2> HIDE DEF new
    <2>3. q \in Seq(Span) /\ DOMAIN q = DOMAIN pend /\ q[n] = new
          /\ \A i \in DOMAIN pend : i # n => q[i] = pend[i]
      BY <1>1, <2>1, <2>2
    <2> HIDE DEF q
    <2>4. NoneEmpty(q) /\ Within(q, low, seg.end)
      <3> SUFFICES ASSUME NEW i \in DOMAIN pend
                   PROVE  q[i].start < q[i].end /\ low <= q[i].start /\ q[i].end <= seg.end
        BY <2>3
      <3>1. pend[i].start < pend[i].end /\ low <= pend[i].start /\ pend[i].end <= seg.start
        OBVIOUS
      <3> QED
        BY <1>0, <1>1, <2>2, <2>3, <3>1
    <2>5. Apart(q)
      BY <1>0, <1>1, <2>1, <2>2, <2>3
    <2> QED
      BY <2>1, <2>3, <2>4, <2>5
  <1>3. CASE ~(pend # <<>> /\ seg.start - Last(pend).end <= EffectiveGap)
    <2>1. Enqueued(pend, seg) = Append(pend, seg)
      BY <1>3 DEF Enqueued
    <2> DEFINE q == Append(pend, seg)
    <2>2. /\ q \in Seq(Span) /\ DOMAIN q = DOMAIN pend \cup {Len(pend) + 1}
          /\ \A i \in DOMAIN pend : q[i] = pend[i]
          /\ q[Len(pend) + 1] = seg
      BY AppendElements
    <2> HIDE DEF q
    <2>3. EffectiveGap >= 0 /\ EffectiveGap \in Int
      BY SessionAssumption DEF EffectiveGap
    <2>4. \A i \in DOMAIN pend : pend[i].end < seg.start
      <3> SUFFICES ASSUME NEW i \in DOMAIN pend PROVE pend[i].end < seg.start
        OBVIOUS
      <3>1. pend # <<>> /\ Len(pend) \in DOMAIN pend /\ Last(pend) = pend[Len(pend)]
        BY <1>1 DEF Last
      <3>2. pend[Len(pend)].end < seg.start
        BY <1>0, <1>1, <1>3, <2>3, <3>1
      <3>3. i = Len(pend) \/ pend[i].end < pend[Len(pend)].start
        BY <1>1, <3>1
      <3> QED
        BY <1>0, <1>1, <3>1, <3>2, <3>3
    <2>5. NoneEmpty(q) /\ Within(q, low, seg.end)
      BY <1>0, <1>1, <2>2, <2>4
    <2>6. Apart(q)
      BY <1>0, <1>1, <2>2, <2>4
    <2> QED
      BY <2>1, <2>2, <2>5, <2>6 DEF q
  <1> QED
    BY <1>2, <1>3

(* Where the buffer is trimmed to.                                         *)
LEMMA KeepFromIsLeast ==
  ASSUME NEW last \in Nat, NEW pend \in Seq(Span), vadFed \in Nat,
         speech \in Nat \cup {NoSpeech}
  PROVE  /\ KeepFrom(last, pend) \in Nat
         /\ KeepFrom(last, pend) <= last /\ KeepFrom(last, pend) <= vadFed
         /\ \A s \in Starts(pend) \cup ({speech} \ {NoSpeech}) :
               KeepFrom(last, pend) <= Larger(0, (s - PrePad) * Rate)
  <1> DEFINE open == IF speech = NoSpeech THEN {} ELSE {speech}
             padded == {Larger(0, (s - PrePad) * Rate) : s \in Starts(pend) \cup open}
             K == {last, vadFed} \cup padded
  <1>1. Starts(pend) \cup open \subseteq Nat
    BY SpanFields DEF Starts
  <1>2. \A s \in Nat : Larger(0, (s - PrePad) * Rate) \in Nat
    BY SessionAssumption DEF Larger
  <1>3. K \subseteq Nat /\ K # {}
    BY <1>1, <1>2
  <1>4. \E m \in K : \A k \in K : m <= k
    BY <1>3, LeastExists
  <1>5. KeepFrom(last, pend) = CHOOSE m \in K : \A k \in K : m <= k
    BY DEF KeepFrom
  <1> HIDE DEF K
  <1>6. KeepFrom(last, pend) \in K /\ \A k \in K : KeepFrom(last, pend) <= k
    BY <1>4, <1>5
  <1>7. {speech} \ {NoSpeech} = open
    OBVIOUS
  <1>8. /\ last \in K /\ vadFed \in K
        /\ \A s \in Starts(pend) \cup open : Larger(0, (s - PrePad) * Rate) \in K
    BY DEF K
  <1> HIDE DEF open
  <1> QED
    BY <1>3, <1>6, <1>7, <1>8

----------------------------------------------------------------------------
LEMMA Typed ==
  ASSUME TypeOK
  PROVE  /\ total \in Nat /\ bufStart \in Nat /\ vadFed \in Nat /\ lastStream \in Nat
         /\ partialStart \in Nat /\ vadAt \in Nat /\ before \in Nat /\ Ms(total) \in Nat
         /\ \A i \in DOMAIN pending : pending[i].start \in Nat /\ pending[i].end \in Nat
         /\ \A i \in DOMAIN confirmed : confirmed[i].start \in Nat /\ confirmed[i].end \in Nat
         /\ \A i \in DOMAIN sentences : sentences[i].start \in Nat /\ sentences[i].end \in Nat
         /\ NoSpeech \notin Nat
  <1>1. /\ \A i \in DOMAIN pending : pending[i] \in Span
        /\ \A i \in DOMAIN confirmed : confirmed[i] \in Span
        /\ \A i \in DOMAIN sentences : sentences[i] \in Sentence
    BY DEF TypeOK
  <1>2. \A s \in Sentence : s.start \in Nat /\ s.end \in Nat
    BY DEF Sentence
  <1>3. total \in Nat /\ NoSpeech \notin Nat
    BY SessionAssumption DEF TypeOK
  <1> QED
    BY <1>1, <1>2, <1>3, SpanFields, MsType DEF TypeOK

(* A decision of the VAD keeps its decisions in order, after what is pending.*)
LEMMA VadDecidesInOrder ==
  ASSUME TypeOK, VadExact, PendingExact, pc # "done", after \notin {"close", "tail"},
         NEW upto \in Nat, upto <= total, VadDecides(upto)
  PROVE  /\ confirmed' \in Seq(Span) /\ speech' \in Nat \cup {NoSpeech} /\ vadAt' \in Nat
         /\ vadAt <= vadAt' /\ vadAt' <= Ms(total)
         /\ speech' # NoSpeech => speech' = vadAt'
         /\ \A i \in DOMAIN confirmed' : /\ confirmed'[i].start <= confirmed'[i].end
                                          /\ confirmed'[i].end <= vadAt'
                                          /\ partialStart <= confirmed'[i].start
                                          /\ \A j \in DOMAIN pending :
                                                pending[j].end <= confirmed'[i].start
         /\ Ordered(confirmed')
  <1>0. /\ total \in Nat /\ vadAt \in Nat /\ partialStart \in Nat /\ NoSpeech \notin Nat
        /\ Ms(total) \in Nat /\ Ms(upto) \in Nat /\ Ms(upto) <= Ms(total)
        /\ confirmed \in Seq(Span) /\ speech \in Nat \cup {NoSpeech}
        /\ \A i \in DOMAIN confirmed : confirmed[i].start \in Nat /\ confirmed[i].end \in Nat
        /\ \A i \in DOMAIN pending : pending[i].start \in Nat /\ pending[i].end \in Nat
    BY Typed, MsType, MsGrows DEF TypeOK
  <1>1. /\ vadAt <= Ms(total)
        /\ speech # NoSpeech => speech = vadAt
        /\ \A i \in DOMAIN confirmed : /\ confirmed[i].start <= confirmed[i].end
                                        /\ confirmed[i].end <= vadAt
        /\ Ordered(confirmed)
    BY DEF VadExact
  <1>2. /\ partialStart <= vadAt
        /\ \A i \in DOMAIN pending : pending[i].end <= vadAt
        /\ \A i \in DOMAIN confirmed : /\ partialStart <= confirmed[i].start
                                        /\ \A j \in DOMAIN pending :
                                              pending[j].end <= confirmed[i].start
    BY DEF PendingExact
  <1>3. CASE confirmed' = confirmed /\ UNCHANGED vad
    BY <1>0, <1>1, <1>2, <1>3 DEF vad, Ordered
  <1>4. CASE /\ speech = NoSpeech /\ speech' \in vadAt .. Ms(upto)
             /\ vadAt' = speech' /\ confirmed' = confirmed
    <2>1. speech' \in Nat /\ vadAt <= speech' /\ speech' <= Ms(total)
      BY <1>0, <1>4
    <2>2. \A i \in DOMAIN confirmed : confirmed[i].end <= vadAt'
      BY <1>0, <1>1, <1>4, <2>1
    <2> QED
      BY <1>0, <1>1, <1>2, <1>4, <2>1, <2>2
  <1>5. CASE \E a \in (IF speech = NoSpeech THEN vadAt .. Ms(upto) ELSE {speech}) :
               \E e \in (a .. Ms(upto)) \ {a} :
                 /\ confirmed' = Append(confirmed, Segment(a, e))
                 /\ \/ speech' = NoSpeech /\ vadAt' = e
                    \/ speech' \in e .. Ms(upto) /\ vadAt' = speech'
    <2>1. PICK a \in (IF speech = NoSpeech THEN vadAt .. Ms(upto) ELSE {speech}) :
               \E e \in (a .. Ms(upto)) \ {a} :
                 /\ confirmed' = Append(confirmed, Segment(a, e))
                 /\ \/ speech' = NoSpeech /\ vadAt' = e
                    \/ speech' \in e .. Ms(upto) /\ vadAt' = speech'
      BY <1>5
    <2>2. a \in Nat /\ vadAt <= a
      <3>1. CASE speech = NoSpeech
        BY <1>0, <3>1
      <3>2. CASE speech # NoSpeech
        BY <1>0, <1>1, <3>2
      <3> QED
        BY <3>1, <3>2
    <2>3. PICK e \in (a .. Ms(upto)) \ {a} :
                 /\ confirmed' = Append(confirmed, Segment(a, e))
                 /\ \/ speech' = NoSpeech /\ vadAt' = e
                    \/ speech' \in e .. Ms(upto) /\ vadAt' = speech'
      BY <2>1
    <2>4. e \in Nat /\ a < e /\ e <= Ms(total)
      BY <1>0, <2>2
    <2>5. /\ vadAt' \in Nat /\ e <= vadAt' /\ vadAt <= vadAt' /\ vadAt' <= Ms(total)
          /\ speech' \in Nat \cup {NoSpeech}
          /\ speech' # NoSpeech => speech' = vadAt'
      BY <1>0, <2>2, <2>3, <2>4
    <2> DEFINE new == Segment(a, e)
               q == Append(confirmed, new)
    <2>6. new \in Span /\ new.start = a /\ new.end = e
      BY <2>2, <2>4, SegmentFields
    <2> HIDE DEF new
    <2>7. /\ q \in Seq(Span) /\ DOMAIN q = DOMAIN confirmed \cup {Len(confirmed) + 1}
          /\ \A i \in DOMAIN confirmed : q[i] = confirmed[i]
          /\ q[Len(confirmed) + 1] = new
          /\ DOMAIN confirmed = 1..Len(confirmed) /\ Len(confirmed) \in Nat
      BY <1>0, <2>6, AppendElements
    <2> HIDE DEF q
    <2>8. \A i \in DOMAIN q : /\ q[i].start <= q[i].end /\ q[i].end <= vadAt'
                              /\ partialStart <= q[i].start
                              /\ \A j \in DOMAIN pending : pending[j].end <= q[i].start
      <3>1. \A i \in DOMAIN confirmed : confirmed[i].end <= vadAt'
        BY <1>0, <1>1, <2>5
      <3>2. /\ a <= e /\ partialStart <= a
            /\ \A j \in DOMAIN pending : pending[j].end <= a
        BY <1>0, <1>2, <2>2, <2>4
      <3> QED
        BY <1>1, <1>2, <2>5, <2>6, <2>7, <3>1, <3>2
    <2>9. Ordered(q)
      BY <1>0, <1>1, <2>2, <2>6, <2>7, SMTT(30) DEF Ordered
    <2>10. confirmed' = q
      BY <2>3 DEF q, new
    <2> QED
      BY <2>5, <2>7, <2>8, <2>9, <2>10 DEF Ordered
  <1>6. \/ confirmed' = confirmed /\ UNCHANGED vad
        \/ /\ speech = NoSpeech /\ speech' \in vadAt .. Ms(upto)
           /\ vadAt' = speech' /\ confirmed' = confirmed
        \/ \E a \in (IF speech = NoSpeech THEN vadAt .. Ms(upto) ELSE {speech}) :
               \E e \in (a .. Ms(upto)) \ {a} :
                 /\ confirmed' = Append(confirmed, Segment(a, e))
                 /\ \/ speech' = NoSpeech /\ vadAt' = e
                    \/ speech' \in e .. Ms(upto) /\ vadAt' = speech'
    BY DEF VadDecides
  <1> QED
    BY <1>3, <1>4, <1>5, <1>6

(* Up to where pending segments may reach.                                 *)
Reach == IF after = "close" \/ after = "tail" THEN Ms(total) ELSE vadAt

LEMMA InitIInv == Init => IInv
  <1> SUFFICES ASSUME Init PROVE IInv
    OBVIOUS
  <1> USE DEF Init
  <1>1. TypeOK
    <2>1. pending \in Seq(Span) /\ confirmed \in Seq(Span) /\ sentences \in Seq(Sentence)
      BY EmptySeq
    <2>2. \A i \in DOMAIN pending : pending[i].start < pending[i].end
      OBVIOUS
    <2>3. {total, bufStart, vadFed, lastStream, partialStart, vadAt, before} \subseteq Nat
      OBVIOUS
    <2>4. firstDone \in BOOLEAN
      OBVIOUS
    <2> QED
      BY <2>1, <2>2, <2>3, <2>4 DEF TypeOK
  <1>2. Ms(total) \in Nat
    BY MsType
  <1>3. CallExact
    BY DEF CallExact
  <1>4. VadExact
    BY <1>2 DEF VadExact, Ordered
  <1>5. PendingExact
    BY DEF PendingExact
  <1>6. LockedExact
    BY SessionAssumption DEF LockedExact
  <1>7. SegmentsOrdered
    BY DEF SegmentsOrdered
  <1> QED
    BY <1>1, <1>3, <1>4, <1>5, <1>6, <1>7 DEF IInv

(* Steps of a call that neither hear, confirm nor lock anything.           *)
LEMMA QuietIInv ==
  ASSUME IInv, TypeOK', CallExact', pc # "done",
         UNCHANGED <<total, bufStart, vadFed, partialStart, pending, sentences, vadAt>>,
         speech' \in {speech, NoSpeech}, confirmed' \in {confirmed, <<>>},
         lastStream <= lastStream', lastStream' <= total,
         after \in {"close", "tail"} => after' \in {"close", "tail"},
         confirmed' # <<>> => after' = after
  PROVE  IInv'
  <1>0. /\ TypeOK /\ VadExact /\ PendingExact /\ LockedExact /\ SegmentsOrdered
        /\ bufStart <= lastStream /\ bufStart <= vadFed
    BY DEF IInv
  <1>1. /\ Ms(total)' = Ms(total) /\ Ms(total) \in Nat /\ vadAt \in Nat /\ vadAt <= Ms(total)
        /\ \A i \in DOMAIN pending : pending[i].end \in Nat
        /\ lastStream \in Nat /\ lastStream' \in Nat /\ bufStart \in Nat /\ total \in Nat
        /\ partialStart \in Nat
    BY <1>0, Typed DEF TypeOK, Ms, VadExact
  <1>2. VadExact'
    <2>1. CASE confirmed' = <<>>
      BY <1>0, <1>1, <2>1 DEF VadExact, Ordered
    <2>2. CASE confirmed' # <<>>
      BY <1>0, <1>1, <2>2 DEF VadExact, Ordered
    <2> QED
      BY <2>1, <2>2
  <1>3. PendingExact'
    <2>1. \A j \in DOMAIN confirmed' : j \in DOMAIN confirmed /\ confirmed'[j] = confirmed[j]
      OBVIOUS
    <2>2. Reach \in Nat /\ Reach' \in Nat /\ Reach <= Reach'
      BY <1>1 DEF Reach
    <2>3. \A x \in Nat : x <= Reach => x <= Reach'
      BY <2>2
    <2>4. /\ \A i \in DOMAIN pending : pending[i].end <= Reach
          /\ partialStart <= Reach
      BY <1>0 DEF PendingExact, Reach
    <2>5. /\ \A i \in DOMAIN pending : pending[i].end <= Reach'
          /\ partialStart <= Reach'
      BY <1>1, <2>3, <2>4
    <2> QED
      BY <1>0, <2>1, <2>5 DEF PendingExact, Reach
  <1>4. LockedExact'
    BY <1>0 DEF LockedExact
  <1>5. SegmentsOrdered'
    BY <1>0, <1>1 DEF SegmentsOrdered
  <1>6. bufStart' <= lastStream' /\ lastStream' <= total' /\ bufStart' <= vadFed'
    BY <1>0, <1>1
  <1> QED
    BY <1>2, <1>3, <1>4, <1>5, <1>6 DEF IInv

LEMMA QuietStepsIInv ==
  ASSUME IInv, FeedFails \/ ConfirmDone \/ FlushDone \/ NoPartial \/ Finish
               \/ FinishClose \/ DecodePartial
  PROVE  IInv'
  <1>0. TypeOK /\ CallExact /\ lastStream \in Nat /\ total \in Nat /\ lastStream <= total
        /\ Len(sentences) \in Nat
    BY DEF IInv, TypeOK
  <1>1. CASE FeedFails
    <2> USE <1>1 DEF FeedFails, audio, stream, vad
    <2>1. TypeOK'
      BY <1>0, EmptySeq DEF TypeOK
    <2>2. CallExact'
      BY <1>0 DEF CallExact
    <2> QED
      BY <1>0, <2>1, <2>2, QuietIInv
  <1>2. CASE ConfirmDone
    <2> USE <1>2 DEF ConfirmDone, audio, stream, vad
    <2>1. TypeOK'
      BY <1>0, EmptySeq DEF TypeOK
    <2>2. CallExact'
      BY <1>0 DEF CallExact
    <2> QED
      BY <1>0, <2>1, <2>2, QuietIInv
  <1>3. CASE FlushDone
    <2> USE <1>3 DEF FlushDone, audio, stream, vad
    <2>1. TypeOK'
      BY <1>0, EmptySeq DEF TypeOK
    <2>2. CallExact'
      BY <1>0 DEF CallExact, TypeOK
    <2> QED
      BY <1>0, <2>1, <2>2, QuietIInv
  <1>4. CASE NoPartial
    <2> USE <1>4 DEF NoPartial, audio, stream, vad
    <2>1. TypeOK'
      BY <1>0, EmptySeq DEF TypeOK
    <2>2. CallExact'
      BY <1>0 DEF CallExact
    <2> QED
      BY <1>0, <2>1, <2>2, QuietIInv
  <1>5. CASE Finish
    <2> USE <1>5 DEF Finish, audio, stream, vad
    <2>1. TypeOK'
      BY <1>0, EmptySeq DEF TypeOK
    <2>2. CallExact'
      BY <1>0 DEF CallExact
    <2> QED
      BY <1>0, <2>1, <2>2, QuietIInv
  <1>6. CASE FinishClose
    <2> USE <1>6 DEF FinishClose, audio, stream
    <2>1. TypeOK'
      BY <1>0 DEF TypeOK
    <2>2. CallExact'
      BY <1>0 DEF CallExact
    <2> QED
      BY <1>0, <2>1, <2>2, QuietIInv DEF CallExact
  <1>7. CASE DecodePartial
    <2> USE <1>7 DEF DecodePartial, audio, vad
    <2>0. lastStream <= lastStream' /\ lastStream' <= total /\ lastStream' \in Nat
      <3>1. Threshold \in Nat
        BY SessionAssumption DEF Threshold
      <3>2. lastStream' = Smaller(lastStream + Threshold, total)
        OBVIOUS
      <3> HIDE <1>7
      <3> QED
        BY <1>0, <3>1, <3>2 DEF Smaller
    <2>1. TypeOK'
      BY <1>0, <2>0 DEF TypeOK
    <2>2. CallExact'
      BY <1>0 DEF CallExact
    <2> QED
      BY <1>0, <2>0, <2>1, <2>2, QuietIInv
  <1> QED
    BY <1>1, <1>2, <1>3, <1>4, <1>5, <1>6, <1>7

LEMMA ResetIInv == ASSUME Reset, backend \in Backends PROVE IInv'
  <1> USE DEF Reset
  <1>1. TypeOK'
    <2>1. pending' \in Seq(Span) /\ confirmed' \in Seq(Span) /\ sentences' \in Seq(Sentence)
      BY EmptySeq
    <2>2. \A i \in DOMAIN pending' : pending'[i].start < pending'[i].end
      OBVIOUS
    <2>3. {total, bufStart, vadFed, lastStream, partialStart, vadAt, before}' \subseteq Nat
      OBVIOUS
    <2>4. firstDone' \in BOOLEAN
      OBVIOUS
    <2> QED
      BY <2>1, <2>2, <2>3, <2>4 DEF TypeOK
  <1>2. Ms(total)' \in Nat
    BY MsType DEF Ms
  <1>3. CallExact'
    BY DEF CallExact
  <1>4. VadExact'
    BY <1>2 DEF VadExact, Ordered
  <1>5. PendingExact'
    BY DEF PendingExact
  <1>6. LockedExact'
    BY SessionAssumption DEF LockedExact
  <1>7. SegmentsOrdered'
    BY DEF SegmentsOrdered
  <1> QED
    BY <1>1, <1>3, <1>4, <1>5, <1>6, <1>7 DEF IInv

(* More audio arrives: everything known lies before it.                    *)
LEMMA AddAudioIInv == ASSUME IInv, NEW n \in Sizes, AddAudio(n) PROVE IInv'
  <1> USE DEF AddAudio, stream, vad
  <1>0. /\ TypeOK /\ CallExact /\ VadExact /\ PendingExact /\ LockedExact /\ SegmentsOrdered
        /\ bufStart <= lastStream /\ lastStream <= total /\ bufStart <= vadFed
    BY DEF IInv
  <1>1. /\ n \in Nat /\ total \in Nat /\ total' \in Nat /\ total <= total'
        /\ Ms(total) \in Nat /\ Ms(total)' \in Nat /\ Ms(total) <= Ms(total)'
        /\ vadFed \in Nat /\ VadChunk \in Nat /\ lastStream \in Nat /\ vadAt \in Nat
        /\ \A i \in DOMAIN sentences : sentences[i].end \in Nat
        /\ vadFed <= total /\ confirmed = <<>>
    <2>1. n \in Nat /\ total \in Nat /\ total' = total + n /\ VadChunk \in Nat
      BY <1>0, Typed, SessionAssumption
    <2>2. total' \in Nat /\ total <= total' /\ Ms(total)' = Ms(total')
      BY <2>1 DEF Ms
    <2> QED
      BY <1>0, <2>1, <2>2, Typed, MsType, MsGrows DEF CallExact, VadExact
  <1>2. TypeOK'
    BY <1>0, <1>1 DEF TypeOK
  <1>3. CallExact'
    BY <1>0, <1>1 DEF CallExact
  <1>4. VadExact'
    BY <1>0, <1>1 DEF VadExact, Ordered
  <1>5. PendingExact'
    <2>1. after \notin {"close", "tail"} /\ after' = "partial"
      BY <1>0 DEF CallExact
    <2> QED
      BY <1>0, <1>1, <2>1 DEF PendingExact
  <1>6. LockedExact'
    BY <1>0 DEF LockedExact
  <1>7. SegmentsOrdered'
    BY <1>0, <1>1 DEF SegmentsOrdered
  <1> QED
    BY <1>0, <1>1, <1>2, <1>3, <1>4, <1>5, <1>6, <1>7 DEF IInv

(* The VAD hears more.                                                     *)
LEMMA HearsIInv ==
  ASSUME IInv, TypeOK', CallExact', pc # "done", after \notin {"close", "tail"},
         after' \notin {"close", "tail"}, pc' # "done",
         UNCHANGED <<backend, total, bufStart, stream, pending, sentences>>,
         vadFed' \in Nat, vadFed <= vadFed', vadFed' <= total,
         NEW upto \in Nat, upto <= total, VadDecides(upto)
  PROVE  IInv'
  <1>0. /\ TypeOK /\ VadExact /\ PendingExact /\ LockedExact /\ SegmentsOrdered
        /\ bufStart <= lastStream /\ lastStream <= total /\ bufStart <= vadFed
    BY DEF IInv
  <1>1. /\ Ms(total)' = Ms(total) /\ Ms(total) \in Nat /\ vadAt \in Nat
        /\ vadFed \in Nat /\ bufStart \in Nat /\ partialStart \in Nat
        /\ \A i \in DOMAIN pending : pending[i].end \in Nat
    BY <1>0, Typed DEF Ms
  <1>2. /\ vadAt' \in Nat /\ vadAt <= vadAt' /\ vadAt' <= Ms(total)
        /\ speech' # NoSpeech => speech' = vadAt'
        /\ \A i \in DOMAIN confirmed' : /\ confirmed'[i].start <= confirmed'[i].end
                                         /\ confirmed'[i].end <= vadAt'
                                         /\ partialStart <= confirmed'[i].start
                                         /\ \A j \in DOMAIN pending :
                                               pending[j].end <= confirmed'[i].start
        /\ Ordered(confirmed')
    BY <1>0, VadDecidesInOrder
  <1>3. VadExact'
    BY <1>1, <1>2 DEF VadExact, Ordered
  <1>4. PendingExact'
    <2>1. /\ \A i \in DOMAIN pending : pending[i].end <= vadAt
          /\ partialStart <= vadAt
      BY <1>0 DEF PendingExact
    <2>2. /\ \A i \in DOMAIN pending : pending[i].end <= vadAt'
          /\ partialStart <= vadAt'
      BY <1>1, <1>2, <2>1
    <2> QED
      BY <1>0, <1>2, <2>2 DEF PendingExact, stream
  <1>5. LockedExact' /\ SegmentsOrdered'
    BY <1>0, <1>1 DEF LockedExact, SegmentsOrdered, stream
  <1> QED
    BY <1>0, <1>1, <1>3, <1>4, <1>5 DEF IInv, stream

LEMMA FeedsIInv ==
  ASSUME IInv, Feed \/ FinalFeed \/ LastFeed
  PROVE  IInv'
  <1>0. /\ TypeOK /\ CallExact /\ VadExact /\ PendingExact /\ vadFed <= total
        /\ total \in Nat /\ vadFed \in Nat /\ VadChunk \in Nat
    BY Typed, SessionAssumption DEF IInv, VadExact
  <1>1. ASSUME pc # "done", after \notin {"close", "tail"}, NEW upto \in Nat,
               upto <= total, VadDecides(upto)
        PROVE  confirmed' \in Seq(Span) /\ speech' \in Nat \cup {NoSpeech} /\ vadAt' \in Nat
    BY <1>0, <1>1, VadDecidesInOrder
  <1>2. CASE Feed
    <2> USE <1>2 DEF Feed, stream
    <2>0. vadFed' \in Nat /\ vadFed <= vadFed' /\ vadFed' <= total
      <3>1. CASE backend = "onnx"
        BY <1>0, <3>1 DEF CallExact
      <3>2. CASE backend # "onnx"
        BY <1>0, <3>2
      <3> QED
        BY <3>1, <3>2
    <2>1. pc # "done" /\ after = "partial" /\ VadDecides(vadFed')
      BY <1>0 DEF CallExact
    <2>2. TypeOK'
      BY <1>0, <1>1, <2>0, <2>1 DEF TypeOK
    <2>3. CallExact'
      <3>1. pc' = "feed" /\ backend' = "onnx" => vadFed' + VadChunk <= total'
        BY <1>0, <2>0
      <3> QED
        BY <1>0, <2>1, <3>1 DEF CallExact
    <2> QED
      BY <1>0, <2>0, <2>1, <2>2, <2>3, HearsIInv
  <1>3. CASE FinalFeed
    <2> USE <1>3 DEF FinalFeed, stream
    <2>1. pc # "done" /\ after \in {"idle", "partial"}
      BY <1>0 DEF CallExact
    <2>2. TypeOK'
      BY <1>0, <1>1, <2>1 DEF TypeOK
    <2>3. CallExact'
      BY <1>0, <2>1 DEF CallExact
    <2> QED
      BY <1>0, <2>1, <2>2, <2>3, HearsIInv
  <1>4. CASE LastFeed
    <2> USE <1>4 DEF LastFeed, stream, audio
    <2>1. pc # "done" /\ after \in {"idle", "partial"}
      BY <1>0 DEF CallExact
    <2>2. TypeOK'
      BY <1>0, <1>1, <2>1 DEF TypeOK
    <2>3. CallExact'
      BY <1>0, <2>1 DEF CallExact
    <2> QED
      BY <1>0, <2>1, <2>2, <2>3, HearsIInv
  <1> QED
    BY <1>2, <1>3, <1>4

(* The first confirmed segment becomes pending, before those after it.     *)
LEMMA ConfirmIInv == ASSUME IInv, Confirm PROVE IInv'
  <1> USE DEF Confirm, audio, stream, vad
  <1>0. /\ TypeOK /\ CallExact /\ VadExact /\ PendingExact /\ LockedExact /\ SegmentsOrdered
        /\ bufStart <= lastStream /\ lastStream <= total /\ bufStart <= vadFed
    BY DEF IInv
  <1> DEFINE seg == Head(confirmed)
  <1>1. /\ Tail(confirmed) \in Seq(Span) /\ seg = confirmed[1] /\ seg \in Span
        /\ 1 \in DOMAIN confirmed
        /\ \A i \in DOMAIN Tail(confirmed) : /\ i + 1 \in DOMAIN confirmed /\ i \in Nat /\ i >= 1
                                              /\ Tail(confirmed)[i] = confirmed[i + 1]
    BY <1>0, TailElements DEF TypeOK
  <1>2. /\ pending \in Seq(Span) /\ partialStart \in Nat /\ seg.start \in Nat /\ seg.end \in Nat
        /\ Ms(total)' = Ms(total) /\ Ms(total) \in Nat /\ vadAt \in Nat
        /\ \A i \in DOMAIN pending : pending[i].start \in Nat /\ pending[i].end \in Nat
        /\ \A i \in DOMAIN confirmed : confirmed[i].start \in Nat /\ confirmed[i].end \in Nat
    BY <1>0, <1>1, Typed, SpanFields DEF TypeOK, Ms
  <1>3. /\ \A i \in DOMAIN pending : pending[i].end <= seg.start
        /\ partialStart <= seg.start /\ seg.start <= seg.end
        /\ \A i \in DOMAIN Tail(confirmed) : seg.end <= Tail(confirmed)[i].start
    BY <1>0, <1>1 DEF PendingExact, VadExact, Ordered
  <1>4. seg.end <= Reach /\ Reach \in Nat
    <2>1. after # "tail"
      BY <1>0 DEF CallExact
    <2> QED
      BY <1>0, <1>1, <1>2, <2>1 DEF VadExact, Reach
  <1>5. /\ pending' \in Seq(Span) /\ NoneEmpty(pending') /\ Apart(pending')
        /\ Within(pending', partialStart, seg.end)
    <2>1. /\ NoneEmpty(pending) /\ Apart(pending)
          /\ Within(pending, partialStart, seg.start)
      BY <1>0, <1>3 DEF TypeOK, PendingExact, NoneEmpty, Apart, Within
    <2>2. CASE Normal(seg)
      BY <1>1, <1>2, <1>3, <2>1, <2>2, EnqueuedKeeps
    <2>3. CASE ~Normal(seg)
      <3>1. pending' = pending
        BY <2>3
      <3>2. Within(pending, partialStart, seg.end)
        BY <1>2, <1>3, <2>1 DEF Within
      <3> QED
        BY <1>2, <2>1, <3>1, <3>2
    <2> QED
      BY <2>2, <2>3
  <1> HIDE DEF seg
  <1>6. confirmed' = Tail(confirmed) /\ after' = after /\ pc' = pc /\ UNCHANGED vad
    OBVIOUS
  <1>7. TypeOK'
    BY <1>0, <1>1, <1>5 DEF TypeOK, NoneEmpty
  <1>8. CallExact'
    BY <1>0 DEF CallExact
  <1>9. VadExact'
    BY <1>0, <1>1, <1>2, <1>6, SMTT(30) DEF VadExact, Ordered
  <1>10. PendingExact'
    <2>1. \A i \in DOMAIN pending' : pending'[i].start \in Nat /\ pending'[i].end \in Nat
      BY <1>5, SpanFields
    <2>2. Reach' = Reach
      BY <1>2, <1>6 DEF Reach
    <2>3. \A i \in DOMAIN pending' :
             /\ partialStart <= pending'[i].start /\ pending'[i].end <= Reach
             /\ \A j \in DOMAIN confirmed' : pending'[i].end <= confirmed'[j].start
      <3> SUFFICES ASSUME NEW i \in DOMAIN pending'
                   PROVE  /\ partialStart <= pending'[i].start /\ pending'[i].end <= Reach
                          /\ \A j \in DOMAIN confirmed' : pending'[i].end <= confirmed'[j].start
        OBVIOUS
      <3>1. partialStart <= pending'[i].start /\ pending'[i].end <= seg.end
        BY <1>5 DEF Within
      <3>2. \A j \in DOMAIN confirmed' : confirmed'[j].start \in Nat /\ seg.end <= confirmed'[j].start
        BY <1>1, <1>2, <1>3, <1>6
      <3> QED
        BY <1>2, <1>4, <2>1, <3>1, <3>2
    <2>4. /\ \A j \in DOMAIN confirmed' : partialStart <= confirmed'[j].start
          /\ partialStart <= Reach
      BY <1>0, <1>1, <1>6 DEF PendingExact, Reach
    <2> QED
      BY <1>5, <2>2, <2>3, <2>4 DEF PendingExact, Apart, Reach
  <1>11. LockedExact' /\ SegmentsOrdered'
    BY <1>0, <1>2 DEF LockedExact, SegmentsOrdered
  <1> QED
    BY <1>0, <1>7, <1>8, <1>9, <1>10, <1>11 DEF IInv

(* Open speech begins where the VAD has last decided, after what is pending. *)
LEMMA FinishOpenIInv == ASSUME IInv, FinishOpen PROVE IInv'
  <1> USE DEF FinishOpen, audio, stream, vad
  <1>0. /\ TypeOK /\ CallExact /\ VadExact /\ PendingExact /\ LockedExact /\ SegmentsOrdered
        /\ bufStart <= lastStream /\ lastStream <= total /\ bufStart <= vadFed
        /\ lastStream \in Nat
    BY DEF IInv, TypeOK
  <1>1. CASE speech = NoSpeech
    <2>1. TypeOK'
      BY <1>0, <1>1 DEF TypeOK
    <2>2. CallExact'
      BY <1>0, <1>1 DEF CallExact
    <2> QED
      BY <1>0, <1>1, <2>1, <2>2, QuietIInv
  <1>2. CASE speech # NoSpeech
    <2> DEFINE new == Segment(speech, Ms(total))
    <2>1. /\ speech \in Nat /\ speech = vadAt /\ Ms(total) \in Nat /\ vadAt <= Ms(total)
          /\ partialStart \in Nat /\ Ms(total)' = Ms(total)
          /\ \A i \in DOMAIN pending : pending[i].end \in Nat
      BY <1>0, <1>2, Typed DEF TypeOK, VadExact, Ms
    <2>2. new \in Span /\ new.start = speech /\ new.end = Ms(total)
      BY <2>1, SegmentFields
    <2> HIDE DEF new
    <2>3. /\ confirmed' \in Seq(Span) /\ DOMAIN confirmed' = {1} /\ confirmed'[1] = new
          /\ after' = "close" /\ after = "open"
      <3>1. confirmed' = <<new>> /\ after' = "close"
        BY <1>2 DEF new
      <3> QED
        BY <1>0, <2>2, <3>1 DEF CallExact
    <2>4. TypeOK'
      BY <1>0, <1>2, <2>3 DEF TypeOK
    <2>5. CallExact'
      BY <1>0, <1>2 DEF CallExact
    <2>6. VadExact'
      BY <1>0, <2>1, <2>2, <2>3 DEF VadExact, Ordered
    <2>7. PendingExact'
      <3>1. /\ partialStart <= vadAt
            /\ \A i \in DOMAIN pending : /\ pending[i].end <= vadAt
                                          /\ partialStart <= pending[i].start
        BY <1>0, <2>3 DEF PendingExact
      <3>2. /\ partialStart <= Ms(total)
            /\ \A i \in DOMAIN pending : pending[i].end <= Ms(total)
        BY <2>1, <3>1
      <3> QED
        BY <1>0, <2>1, <2>2, <2>3, <3>1, <3>2 DEF PendingExact
    <2>8. LockedExact' /\ SegmentsOrdered'
      BY <1>0, <2>1 DEF LockedExact, SegmentsOrdered
    <2> QED
      BY <1>0, <2>4, <2>5, <2>6, <2>7, <2>8 DEF IInv
  <1> QED
    BY <1>1, <1>2

(* A sentence more, after those before.                                    *)
LEMMA LockedOneMore ==
  ASSUME TypeOK, LockedExact, SegmentsOrdered, pc # "done",
         NEW start \in Nat, NEW end \in Nat, partialStart <= start, start <= end,
         end <= Ms(total), total' = total, NEW source \in {"segment", "forced"},
         sentences' \in Decoded(start, end, source)
  PROVE  /\ sentences' \in Seq(Sentence) /\ SegmentsOrdered'
         /\ \A i \in DOMAIN sentences' : /\ sentences'[i].source # "tail"
                                          /\ sentences'[i].end <= end
  <1> DEFINE new == [start |-> start, end |-> end, source |-> source]
  <1>1. /\ new \in Sentence /\ new.start = start /\ new.end = end /\ new.source # "tail"
    BY DEF Sentence
  <1>2. /\ partialStart \in Nat /\ Ms(total) \in Nat /\ Ms(total)' = Ms(total)
        /\ \A i \in DOMAIN sentences : sentences[i].start \in Nat /\ sentences[i].end \in Nat
        /\ sentences \in Seq(Sentence)
    BY Typed DEF TypeOK, Ms
  <1>3. \A i \in DOMAIN sentences : /\ sentences[i].source # "tail"
                                    /\ sentences[i].end <= start /\ sentences[i].end <= end
    BY <1>2 DEF LockedExact
  <1>4. sentences' = sentences \/ sentences' = Append(sentences, new)
    BY DEF Decoded
  <1> HIDE DEF new
  <1>5. CASE sentences' = sentences
    BY <1>2, <1>3, <1>5 DEF SegmentsOrdered
  <1>6. CASE sentences' = Append(sentences, new)
    <2> DEFINE q == Append(sentences, new)
    <2>1. /\ q \in Seq(Sentence) /\ DOMAIN q = DOMAIN sentences \cup {Len(sentences) + 1}
          /\ \A i \in DOMAIN sentences : q[i] = sentences[i]
          /\ q[Len(sentences) + 1] = new
          /\ DOMAIN sentences = 1..Len(sentences) /\ Len(sentences) \in Nat
      BY <1>1, <1>2, AppendElements
    <2> HIDE DEF q
    <2>2. \A i \in DOMAIN q : q[i].source # "tail" /\ q[i].end <= end /\ q[i].end <= Ms(total)
      BY <1>1, <1>2, <1>3, <2>1
    <2>3. \A i, j \in DOMAIN q : i < j => q[i].end <= q[j].start
      <3>1. \A i, j \in DOMAIN sentences : i < j => sentences[i].end <= sentences[j].start
        BY <1>3 DEF SegmentsOrdered
      <3> QED
        BY <1>1, <1>2, <1>3, <2>1, <3>1
    <2>4. sentences' = q
      BY <1>6 DEF q
    <2> QED
      BY <1>2, <2>1, <2>2, <2>3, <2>4 DEF SegmentsOrdered
  <1> QED
    BY <1>4, <1>5, <1>6

(* What FlushOne does to the positions.                                    *)
LEMMA FlushedPositions ==
  ASSUME IInv, FlushOne
  PROVE  LET seg == Head(pending)
         IN  /\ pc = "flush" /\ confirmed = <<>> /\ seg = pending[1] /\ 1 \in DOMAIN pending
             /\ pending' \in Seq(Span) /\ seg.start \in Nat /\ seg.end \in Nat
             /\ partialStart <= seg.start /\ seg.start < seg.end
             /\ \A i \in DOMAIN pending' : /\ i + 1 \in DOMAIN pending /\ i \in Nat /\ i >= 1
                                            /\ pending'[i] = pending[i + 1]
             /\ lastStream' \in Nat /\ lastStream' <= total
             /\ bufStart' \in Nat /\ bufStart' <= lastStream' /\ bufStart' <= vadFed
             /\ bufStart' <= seg.end * Rate
             /\ bufStart' > bufStart =>
                   \A s \in Starts(pending') \cup ({speech} \ {NoSpeech}) :
                      bufStart' <= Larger(0, (s - PrePad) * Rate)
  <1> DEFINE seg == Head(pending)
             K == KeepFrom(lastStream', pending')
  <1>0. /\ TypeOK /\ CallExact /\ PendingExact /\ LockedExact /\ VadExact
        /\ bufStart <= lastStream /\ lastStream <= total /\ bufStart <= vadFed
    BY DEF IInv
  <1>1. /\ pc = "flush" /\ confirmed = <<>> /\ pending # <<>> /\ pending' = Tail(pending)
        /\ lastStream' = Smaller(seg.end * Rate, total) /\ bufStart' = Trimmed(K)
    BY <1>0 DEF FlushOne, Flushing, Finalize, CallExact
  <1>2. /\ pending' \in Seq(Span) /\ seg = pending[1] /\ seg \in Span /\ 1 \in DOMAIN pending
        /\ \A i \in DOMAIN pending' : /\ i + 1 \in DOMAIN pending /\ i \in Nat /\ i >= 1
                                       /\ pending'[i] = pending[i + 1]
    BY <1>0, <1>1, TailElements DEF TypeOK
  <1>3. /\ seg.start \in Nat /\ seg.end \in Nat /\ partialStart \in Nat
        /\ partialStart <= seg.start /\ seg.start < seg.end
    BY <1>0, <1>1, <1>2, SpanFields DEF TypeOK, PendingExact
  <1> HIDE DEF seg
  <1>4. /\ total \in Nat /\ bufStart \in Nat /\ vadFed \in Nat /\ lastStream \in Nat
        /\ partialStart * Rate <= seg.end * Rate /\ seg.end * Rate \in Nat
        /\ partialStart * Rate \in Nat
    BY <1>0, <1>3, Typed, RateGrows
  <1>5. bufStart <= seg.end * Rate /\ lastStream' \in Nat /\ lastStream' <= total
        /\ lastStream' <= seg.end * Rate /\ bufStart <= lastStream'
    <2>1. bufStart <= partialStart * Rate
      BY <1>0, <1>1 DEF LockedExact
    <2> QED
      BY <1>0, <1>1, <1>4, <2>1 DEF Smaller
  <1>6. /\ K \in Nat /\ K <= lastStream' /\ K <= vadFed
        /\ \A s \in Starts(pending') \cup ({speech} \ {NoSpeech}) :
              K <= Larger(0, (s - PrePad) * Rate)
    BY <1>0, <1>2, <1>5, KeepFromIsLeast DEF TypeOK
  <1> HIDE DEF K
  <1>7. /\ bufStart' \in Nat /\ bufStart' <= lastStream' /\ bufStart' <= vadFed
        /\ bufStart' > bufStart => bufStart' <= K
    BY <1>0, <1>1, <1>4, <1>5, <1>6 DEF Trimmed, Larger, Smaller
  <1>8. bufStart' <= seg.end * Rate
    BY <1>4, <1>5, <1>7
  <1>9. ASSUME bufStart' > bufStart, NEW s \in Starts(pending') \cup ({speech} \ {NoSpeech})
        PROVE  bufStart' <= Larger(0, (s - PrePad) * Rate)
    <2>1. s \in Nat
      BY <1>0, <1>2, SpanFields, SMTT(30) DEF Starts, TypeOK
    <2>2. Larger(0, (s - PrePad) * Rate) \in Nat
      BY <2>1, SessionAssumption DEF Larger
    <2> QED
      BY <1>6, <1>7, <1>9, <2>2
  <1> QED
    BY <1>1, <1>2, <1>3, <1>5, <1>7, <1>8, <1>9 DEF seg

(* One segment is finalised: what is left begins after it.                 *)
LEMMA FlushOneIInv == ASSUME IInv, FlushOne PROVE IInv'
  <1> DEFINE seg == Head(pending)
  <1>0. /\ TypeOK /\ CallExact /\ VadExact /\ PendingExact /\ LockedExact /\ SegmentsOrdered
    BY DEF IInv
  <1>1. /\ pc = "flush" /\ confirmed = <<>> /\ seg = pending[1] /\ 1 \in DOMAIN pending
        /\ pending' \in Seq(Span) /\ seg.start \in Nat /\ seg.end \in Nat
        /\ partialStart <= seg.start /\ seg.start < seg.end
        /\ \A i \in DOMAIN pending' : /\ i + 1 \in DOMAIN pending /\ i \in Nat /\ i >= 1
                                       /\ pending'[i] = pending[i + 1]
        /\ lastStream' \in Nat /\ lastStream' <= total
        /\ bufStart' \in Nat /\ bufStart' <= lastStream' /\ bufStart' <= vadFed
        /\ bufStart' <= seg.end * Rate
    BY FlushedPositions
  <1>2. /\ UNCHANGED <<backend, total, vadFed, speech, vadAt, confirmed, before, pc, after>>
        /\ sentences' \in Decoded(seg.start, seg.end, "segment")
        /\ partialStart' = seg.end /\ firstDone' = FALSE
    BY DEF FlushOne, Finalize, vad, call
  <1> HIDE DEF seg
  <1>3. /\ Ms(total) \in Nat /\ Ms(total)' = Ms(total) /\ vadAt \in Nat /\ vadAt <= Ms(total)
        /\ Reach \in Nat /\ Reach' = Reach /\ Reach <= Ms(total)
        /\ \A i \in DOMAIN pending : pending[i].start \in Nat /\ pending[i].end \in Nat
    BY <1>0, <1>2, Typed DEF Ms, Reach, VadExact
  <1>4. /\ \A i \in DOMAIN pending : pending[i].end <= Reach
        /\ \A i, j \in DOMAIN pending : i < j => pending[i].end < pending[j].start
    BY <1>0, <1>1 DEF PendingExact, Reach
  <1>5. seg.end <= Reach /\ seg.end <= Ms(total) /\ seg.start <= seg.end
    BY <1>1, <1>3, <1>4
  <1>6. /\ sentences' \in Seq(Sentence) /\ SegmentsOrdered'
        /\ \A i \in DOMAIN sentences' : /\ sentences'[i].source # "tail"
                                         /\ sentences'[i].end <= seg.end
    BY <1>0, <1>1, <1>2, <1>5, LockedOneMore
  <1>7. TypeOK'
    <2>1. \A i \in DOMAIN pending' : pending'[i].start < pending'[i].end
      BY <1>0, <1>1 DEF TypeOK
    <2> QED
      BY <1>0, <1>1, <1>2, <1>6, <2>1, ZenonT(60) DEF TypeOK
  <1>8. CallExact'
    BY <1>0, <1>1, <1>2 DEF CallExact
  <1>9. VadExact'
    BY <1>0, <1>1, <1>2, <1>3 DEF VadExact, Ordered
  <1>10. PendingExact'
    <2>1. \A i \in DOMAIN pending' : /\ seg.end <= pending'[i].start
                                     /\ pending'[i].end <= Reach
      <3> SUFFICES ASSUME NEW i \in DOMAIN pending'
                   PROVE  seg.end <= pending'[i].start /\ pending'[i].end <= Reach
        OBVIOUS
      <3>1. /\ i + 1 \in DOMAIN pending /\ 1 < i + 1 /\ pending'[i] = pending[i + 1]
        BY <1>1
      <3> QED
        BY <1>1, <1>3, <1>4, <3>1
    <2>2. ASSUME NEW i \in DOMAIN pending', NEW j \in DOMAIN pending', i < j
          PROVE  pending'[i].end < pending'[j].start
      <3>1. /\ i + 1 \in DOMAIN pending /\ j + 1 \in DOMAIN pending /\ i + 1 < j + 1
            /\ pending'[i] = pending[i + 1] /\ pending'[j] = pending[j + 1]
        BY <1>1, <2>2
      <3> QED
        BY <1>4, <3>1
    <2> QED
      BY <1>1, <1>2, <1>3, <1>5, <2>1, <2>2 DEF PendingExact, Reach
  <1>11. LockedExact'
    BY <1>1, <1>2, <1>6 DEF LockedExact
  <1> QED
    BY <1>1, <1>2, <1>6, <1>7, <1>8, <1>9, <1>10, <1>11 DEF IInv

(* The end of finish(): at most one sentence more, up to the end.          *)
LEMMA LockTailIInv == ASSUME IInv, FlushTail \/ LockTail PROVE IInv'
  <1>0. /\ TypeOK /\ CallExact /\ VadExact /\ PendingExact /\ LockedExact /\ SegmentsOrdered
        /\ bufStart <= lastStream /\ lastStream <= total /\ bufStart <= vadFed
        /\ lastStream \in Nat /\ total \in Nat /\ bufStart \in Nat /\ partialStart \in Nat
        /\ Ms(total) \in Nat
    BY Typed DEF IInv, TypeOK
  <1>1. /\ pc = "tail" /\ pc' = "done" /\ partialStart' = 0 /\ confirmed = <<>>
        /\ UNCHANGED <<backend, total, bufStart, vadFed, firstDone, pending, speech, vadAt,
                       confirmed, before, after>>
        /\ lastStream' \in {lastStream, total}
    BY <1>0 DEF FlushTail, LockTail, Finished, audio, vad, CallExact
  <1>2. Ms(total)' = Ms(total)
    BY <1>1 DEF Ms
  <1>3. sentences' \in Seq(Sentence) /\ SegmentsOrdered'
    <2>1. CASE FlushTail
      <3> DEFINE duration == Ms(total - bufStart)
                 new == [start |-> Smaller(partialStart, duration), end |-> duration,
                         source |-> "tail"]
                 q == Append(sentences, new)
      <3>1. total - bufStart \in Nat
        BY <1>0
      <3>2. duration \in Nat
        BY <3>1, MsType
      <3> HIDE DEF duration
      <3>3. new \in Sentence /\ new.source = "tail"
        BY <1>0, <3>2 DEF Sentence, Smaller
      <3> HIDE DEF new
      <3>4. /\ q \in Seq(Sentence) /\ DOMAIN q = DOMAIN sentences \cup {Len(sentences) + 1}
            /\ \A i \in DOMAIN sentences : q[i] = sentences[i]
            /\ q[Len(sentences) + 1] = new
        BY <1>0, <3>3, AppendElements DEF TypeOK
      <3>5. sentences' = q
        BY <2>1 DEF FlushTail, new, duration
      <3> HIDE DEF q
      <3> QED
        BY <1>0, <1>2, <3>3, <3>4, <3>5 DEF SegmentsOrdered
    <2>2. CASE LockTail /\ partialStart < Ms(total) /\ Len(sentences) = before
      BY <1>0, <1>1, <2>2, LockedOneMore DEF LockTail
    <2>3. CASE LockTail /\ ~(partialStart < Ms(total) /\ Len(sentences) = before)
      <3>1. sentences' = sentences
        BY <2>3 DEF LockTail
      <3> QED
        BY <1>0, <1>2, <3>1 DEF SegmentsOrdered, TypeOK
    <2> QED
      BY <2>1, <2>2, <2>3
  <1>4. TypeOK'
    BY <1>0, <1>1, <1>3 DEF TypeOK
  <1>5. CallExact'
    BY <1>0, <1>1 DEF CallExact
  <1>6. VadExact'
    BY <1>0, <1>1, <1>2 DEF VadExact, Ordered
  <1>7. PendingExact' /\ LockedExact'
    BY <1>1 DEF PendingExact, LockedExact
  <1> QED
    BY <1>0, <1>1, <1>3, <1>4, <1>5, <1>6, <1>7 DEF IInv

----------------------------------------------------------------------------
(* The inductive invariant of the session.                                 *)
THEOREM SessionInvariant == Spec => []IInv
  <1>1. IInv /\ [Next]_vars => IInv'
    <2> SUFFICES ASSUME IInv, [Next]_vars PROVE IInv'
      OBVIOUS
    <2>1. CASE UNCHANGED vars
      BY <2>1 DEF vars, audio, stream, vad, call, IInv, TypeOK, CallExact, VadExact,
                  PendingExact, LockedExact, SegmentsOrdered, Ordered, Ms
    <2>2. CASE Reset
      BY <2>2, ResetIInv DEF IInv, TypeOK
    <2>3. CASE \E n \in Sizes : AddAudio(n)
      BY <2>3, AddAudioIInv
    <2>4. CASE Feed \/ FinalFeed \/ LastFeed
      BY <2>4, FeedsIInv
    <2>5. CASE \/ FeedFails \/ ConfirmDone \/ FlushDone \/ NoPartial \/ Finish
               \/ FinishClose \/ DecodePartial
      BY <2>5, QuietStepsIInv
    <2>6. CASE Confirm
      BY <2>6, ConfirmIInv
    <2>7. CASE FinishOpen
      BY <2>7, FinishOpenIInv
    <2>8. CASE FlushOne
      BY <2>8, FlushOneIInv
    <2>9. CASE FlushTail \/ LockTail
      BY <2>9, LockTailIInv
    <2> QED
      BY <2>1, <2>2, <2>3, <2>4, <2>5, <2>6, <2>7, <2>8, <2>9 DEF Next
  <1> QED
    BY <1>1, InitIInv, PTL DEF Spec

(* The variables of a session have their types, and no pending segment is  *)
(* empty (_normalize_vad_segment, _enqueue_pending_final_segment).         *)
THEOREM SessionTypeCorrect == Spec => []TypeOK
  <1>1. IInv => TypeOK
    BY DEF IInv
  <1> QED
    BY <1>1, SessionInvariant, PTL

(* Segments are finalised in the order of the audio, none twice, whatever  *)
(* the VAD decides and whichever call fails (_flush_pending_final_segments).*)
THEOREM SegmentsFinaliseInOrder == Spec => []InOrder
  <1>1. IInv => InOrder
    <2> SUFFICES ASSUME IInv, pc # "done" PROVE InOrder
      BY DEF InOrder
    <2>0. TypeOK /\ VadExact /\ PendingExact /\ CallExact
      BY DEF IInv
    <2>1. /\ partialStart \in Nat /\ vadAt \in Nat /\ Ms(total) \in Nat /\ vadAt <= Ms(total)
          /\ speech # NoSpeech => speech = vadAt
          /\ after = "tail" => speech = NoSpeech
      BY <2>0, Typed DEF VadExact, CallExact
    <2>2. /\ \A i, j \in DOMAIN pending : i < j => pending[i].end < pending[j].start
          /\ \A s \in Starts(pending) \cup Starts(confirmed) : partialStart <= s
      BY <2>0 DEF PendingExact, Starts
    <2>3. partialStart <= IF after = "close" \/ after = "tail" THEN Ms(total) ELSE vadAt
      BY <2>0 DEF PendingExact
    <2> QED
      BY <2>1, <2>2, <2>3 DEF InOrder
  <1> QED
    BY <1>1, SessionInvariant, PTL

(* Locked sentences but a streaming tail follow one another and end where  *)
(* audio was received (_append_locked_sentence).                           *)
THEOREM LockedInOrder == Spec => []SegmentsOrdered
  <1>1. IInv => SegmentsOrdered
    BY DEF IInv
  <1> QED
    BY <1>1, SessionInvariant, PTL

(* No trimming removes what the VAD, the streaming model or a known segment*)
(* still needs (_trim_audio_buffer, audio_trim_keep_from_sample).          *)
THEOREM NeededAudioIsKept == Spec => AudioKept
  <1> DEFINE Covers == /\ bufStart <= lastStream /\ lastStream <= total
                       /\ bufStart <= vadFed /\ vadFed <= total
             Trims == bufStart' > bufStart =>
                         \A s \in Starts(pending') \cup ({speech'} \ {NoSpeech}) :
                            bufStart' <= Larger(0, s - PrePad) * Rate
  <1>1. IInv => Covers
    BY DEF IInv, VadExact
  <1>2. IInv /\ [Next]_vars => [Trims]_vars
    <2> SUFFICES ASSUME IInv, Next, bufStart' > bufStart PROVE Trims
      OBVIOUS
    <2>1. bufStart \in Nat
      BY DEF IInv, TypeOK
    <2>2. CASE FlushOne
      <3>1. speech' = speech /\ speech \in Nat \cup {NoSpeech}
        BY <2>2 DEF FlushOne, vad, IInv, TypeOK
      <3>2. \A s \in Starts(pending') \cup ({speech} \ {NoSpeech}) :
               s \in Nat /\ bufStart' <= Larger(0, (s - PrePad) * Rate)
        BY <2>2, <3>1, FlushedPositions, SpanFields DEF Starts
      <3>3. \A s \in Nat : Larger(0, (s - PrePad) * Rate) = Larger(0, s - PrePad) * Rate
        BY SessionAssumption DEF Larger
      <3> QED
        BY <3>1, <3>2, <3>3
    <2>3. CASE ~FlushOne
      <3>1. bufStart' = bufStart \/ bufStart' = 0
        BY <2>3 DEF Next, Reset, AddAudio, Feed, FeedFails, Confirm, ConfirmDone, FlushDone,
                    DecodePartial, NoPartial, Finish, FinalFeed, LastFeed, FinishOpen,
                    FinishClose, FlushTail, LockTail, Finished, audio
      <3> QED
        BY <2>1, <3>1
    <2> QED
      BY <2>2, <2>3
  <1> QED
    BY <1>1, <1>2, SessionInvariant, PTL DEF Spec, AudioKept
=============================================================================
