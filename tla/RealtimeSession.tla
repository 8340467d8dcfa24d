-------------------------- MODULE RealtimeSession --------------------------
(***************************************************************************)
(* The realtime session of one ONLINE connection: OnlineRealtimeSession    *)
(* (realtime_session.py) and its ONNX subclass (onnx/session.py), with the *)
(* trimmed audio buffer (audio_buffer.py) and the rules for pending        *)
(* segments (session_policy.py).                                           *)
(*                                                                         *)
(* The runtime calls the session under its lock (module OnlineStream), so  *)
(* calls do not overlap; a step is the code between two awaits of one      *)
(* call.  Texts are abstracted to whether a decoder returned one.          *)
(***************************************************************************)
EXTENDS Integers, SequencesExt

CONSTANTS
    Backends,     \* "pt" and "onnx": the session classes
    Rate,         \* samples per millisecond
    Sizes,        \* samples in an audio message
    VadChunk,     \* vad_chunk_samples, the windows the ONNX session feeds
    FirstDecode,  \* first_decode_samples
    Chunk,        \* chunk_samples
    MinDecode,    \* samples below which a segment is not decoded
    PrePad,       \* vad_pre_padding_ms
    PostPad,      \* vad_post_padding_ms
    MergeGap,     \* vad_merge_gap_ms
    MinFinal,     \* vad_min_final_ms
    MaxFinal,     \* vad_max_final_ms
    NoSpeech,     \* vad.current_speech_start is None
    MaxTotal      \* bound: samples in one session

ASSUME SessionAssumption ==
    /\ Backends \subseteq {"pt", "onnx"}
    /\ {Rate, VadChunk, FirstDecode, Chunk, MinFinal} \subseteq Nat \ {0}
    /\ {MinDecode, PrePad, PostPad, MergeGap, MaxTotal} \subseteq Nat
    /\ Sizes \subseteq Nat \ {0}
    /\ MaxFinal \in Nat /\ MaxFinal >= MinFinal
    /\ NoSpeech \notin Int

VARIABLES
    backend,      \* the class of the session
    total,        \* _audio.total_samples
    bufStart,     \* _audio.start_sample
    vadFed,       \* vad_fed_samples
    lastStream,   \* last_stream_samples
    firstDone,    \* first_decode_done
    partialStart, \* partial_start_ms
    pending,      \* pending_final_segments
    sentences,    \* locked_sentences: their times and source
    speech,       \* vad.current_speech_start
    vadAt,        \* the VAD has decided up to here (in its cache)
    confirmed,    \* confirmed_segments of the running call
    before,       \* locked sentences when the running call began
    pc,           \* where the running call is
    after         \* where it goes on after the flush loop

audio  == <<total, bufStart, vadFed>>
stream == <<lastStream, firstDone, partialStart>>
vad    == <<speech, vadAt>>
call   == <<confirmed, before, pc, after>>
vars   == <<backend, audio, stream, pending, sentences, vad, call>>

----------------------------------------------------------------------------
Larger(a, b)  == IF a < b THEN b ELSE a
Smaller(a, b) == IF a < b THEN a ELSE b

Segment(s, e) == [start |-> s, end |-> e]
Starts(segs)  == {segs[i].start : i \in DOMAIN segs}

\* int(samples * 1000 / sample_rate)
Ms(samples) == samples \div Rate

\* Samples of a slice [from, to) that the buffer still holds.
Held(from, to) == Larger(0, Smaller(to, total) - Larger(from, bufStart))

\* effective_segment_merge_gap_ms
EffectiveGap == MergeGap + PostPad

\* Mutant: empty segments are not dropped.
AnySegment(seg) == TRUE

\* _normalize_vad_segment: an empty segment is dropped.
Normal(seg) == seg.start < seg.end

\* _enqueue_pending_final_segment: joined to the last one or appended.
Enqueued(pend, seg) ==
    IF pend # <<>> /\ seg.start - Last(pend).end <= EffectiveGap
    THEN ReplaceAt(pend, Len(pend),
             Segment(Smaller(Last(pend).start, seg.start),
                     Larger(Last(pend).end, seg.end)))
    ELSE Append(pend, seg)

\* should_flush_pending_segment without force
ShouldFlush(seg) ==
    LET duration == seg.end - seg.start
        tailGap  == Larger(0, Ms(total) - seg.end)
    IN  \/ duration >= MaxFinal
        \/ /\ speech # NoSpeech => speech - seg.end > EffectiveGap
           /\ tailGap >= Larger(EffectiveGap, MinFinal - duration)

\* Mutant: open and pending segments are forgotten.
KeepForStream(last, pend) == Smaller(last, vadFed)

\* audio_trim_keep_from_sample
KeepFrom(last, pend) ==
    LET open   == IF speech = NoSpeech THEN {} ELSE {speech}
        padded == {Larger(0, (s - PrePad) * Rate) : s \in Starts(pend) \cup open}
    IN  CHOOSE k \in {last, vadFed} \cup padded :
            \A j \in {last, vadFed} \cup padded : k <= j

\* ChunkedAudioBuffer.drop_before
Trimmed(keep) == Larger(bufStart, Smaller(keep, total))

\* Whether _decode_final_segment may return a text: it gets enough audio.
MayDecode(s, e) ==
    Held(Larger(0, s - PrePad) * Rate, Smaller(Ms(total), e + PostPad) * Rate)
        >= MinDecode

\* The list of sentences after a decoding of [s, e] that may yield no text.
Decoded(s, e, source) ==
    {sentences} \cup
    IF MayDecode(s, e)
    THEN {Append(sentences, [start |-> s, end |-> e, source |-> source])}
    ELSE {}

----------------------------------------------------------------------------
Init ==
    /\ backend \in Backends
    /\ total = 0 /\ bufStart = 0 /\ vadFed = 0
    /\ lastStream = 0 /\ firstDone = FALSE /\ partialStart = 0
    /\ pending = <<>> /\ sentences = <<>>
    /\ speech = NoSpeech /\ vadAt = 0
    /\ confirmed = <<>> /\ before = 0 /\ pc = "idle" /\ after = "idle"

\* START resets the session, also while it is active.
Reset ==
    /\ pc \in {"idle", "done"}
    /\ pc = "done" \/ total # 0
    /\ total' = 0 /\ bufStart' = 0 /\ vadFed' = 0
    /\ lastStream' = 0 /\ firstDone' = FALSE /\ partialStart' = 0
    /\ pending' = <<>> /\ sentences' = <<>>
    /\ speech' = NoSpeech /\ vadAt' = 0
    /\ confirmed' = <<>> /\ before' = 0 /\ pc' = "idle" /\ after' = "idle"
    /\ UNCHANGED backend

\* add_audio up to the VAD.  The ONNX session waits for a whole window.
AddAudio(n) ==
    /\ pc = "idle"
    /\ total + n <= MaxTotal
    /\ total' = total + n
    /\ before' = Len(sentences)
    /\ after' = "partial"
    /\ pc' = IF backend = "onnx" /\ total' - vadFed < VadChunk
             THEN "flush" ELSE "feed"
    /\ UNCHANGED <<backend, bufStart, vadFed, stream, pending, sentences, vad, confirmed>>

\* What the VAD may decide when it has heard `upto` samples: nothing, a start,
\* an end or a whole segment, later than its last decision.  After one client
\* message the PT model may also report an end and the next start.
VadDecides(upto) ==
    LET at(from) == from .. Ms(upto)
        open == IF speech = NoSpeech THEN at(vadAt) ELSE {speech}
    IN  \/ /\ confirmed' = confirmed
           /\ UNCHANGED vad
        \/ /\ speech = NoSpeech
           /\ speech' \in at(vadAt)
           /\ vadAt' = speech'
           /\ confirmed' = confirmed
        \/ \E s \in open : \E e \in at(s) \ {s} :
              /\ confirmed' = Append(confirmed, Segment(s, e))
              /\ \/ speech' = NoSpeech /\ vadAt' = e
                 \/ /\ backend = "pt"
                    /\ speech' \in at(e)
                    /\ vadAt' = speech'

\* vad.feed inside add_audio: everything at once (PT), or window by window.
Feed ==
    /\ pc = "feed"
    /\ vadFed' = IF backend = "onnx" THEN vadFed + VadChunk ELSE total
    /\ VadDecides(vadFed')
    /\ pc' = IF backend = "onnx" /\ total - vadFed' >= VadChunk
             THEN "feed" ELSE "confirm"
    /\ UNCHANGED <<backend, total, bufStart, stream, pending, sentences, before, after>>

\* vad.feed raises: the call ends, with it the segments it had gathered; of
\* finish() the stream does not survive it.
FeedFails ==
    /\ pc \in {"feed", "finalFeed", "lastFeed"}
    /\ pc' = IF pc = "feed" THEN "idle" ELSE "done"
    /\ confirmed' = <<>>
    /\ UNCHANGED <<backend, audio, stream, pending, sentences, vad, before, after>>

\* One round of the loop of _lock_confirmed_segments
Confirm ==
    /\ pc = "confirm"
    /\ confirmed # <<>>
    /\ pending' = IF Normal(Head(confirmed)) THEN Enqueued(pending, Head(confirmed))
                                             ELSE pending
    /\ confirmed' = Tail(confirmed)
    /\ UNCHANGED <<backend, audio, stream, sentences, vad, before, pc, after>>

\* After that loop the flush loop begins.
ConfirmDone ==
    /\ pc = "confirm"
    /\ confirmed = <<>>
    /\ pc' = "flush"
    /\ UNCHANGED <<backend, audio, stream, pending, sentences, vad, confirmed, before, after>>

Flushing == /\ pc = "flush"
            /\ pending # <<>>
            /\ after = "tail" \/ ShouldFlush(Head(pending))

\* What _finalize_pending_segment does to the stream after decoding `seg`.
Finalize(seg) ==
    /\ sentences' \in Decoded(seg.start, seg.end, "segment")
    /\ lastStream' = Smaller(seg.end * Rate, total)
    /\ partialStart' = seg.end
    /\ firstDone' = FALSE
    /\ bufStart' = Trimmed(KeepFrom(lastStream', pending'))

\* Mutant: the newest segment is finalised first.
FlushLast ==
    /\ Flushing
    /\ pending' = Front(pending)
    /\ Finalize(Last(pending))
    /\ UNCHANGED <<backend, total, vadFed, vad, call>>

\* One round of _flush_pending_final_segments
FlushOne ==
    /\ Flushing
    /\ pending' = Tail(pending)
    /\ Finalize(Head(pending))
    /\ UNCHANGED <<backend, total, vadFed, vad, call>>

\* The end of the loop.  After a locked sentence no partial is decoded.
FlushDone ==
    /\ pc = "flush"
    /\ ~Flushing
    /\ pc' = IF after = "partial" /\ Len(sentences) > before
             THEN "idle" ELSE after
    /\ UNCHANGED <<backend, audio, stream, pending, sentences, vad, confirmed, before, after>>

Threshold == IF firstDone THEN Chunk ELSE FirstDecode

\* should_decode and decode_partial; the text may be empty.
DecodePartial ==
    /\ pc = "partial"
    /\ total - lastStream >= Threshold
    /\ Held(lastStream, lastStream + Threshold) >= Threshold
    /\ lastStream' = Smaller(lastStream + Threshold, total)
    /\ firstDone' \in {firstDone, TRUE}
    /\ pc' = "idle"
    /\ UNCHANGED <<backend, audio, partialStart, pending, sentences, vad, confirmed, before, after>>

\* Not due yet, too little audio, or the streaming model raised.
NoPartial ==
    /\ pc = "partial"
    /\ pc' = "idle"
    /\ UNCHANGED <<backend, audio, stream, pending, sentences, vad, confirmed, before, after>>

\* finish: what the VAD has not heard, then its final flush.
Finish ==
    /\ pc = "idle"
    /\ pc' = IF Held(vadFed, total) > 0 THEN "finalFeed" ELSE "lastFeed"
    /\ before' = Len(sentences)
    /\ UNCHANGED <<backend, audio, stream, pending, sentences, vad, confirmed, after>>

FinalFeed ==
    /\ pc = "finalFeed"
    /\ vadFed' = total
    /\ VadDecides(total)
    /\ pc' = "lastFeed"
    /\ UNCHANGED <<backend, total, bufStart, stream, pending, sentences, before, after>>

LastFeed ==
    /\ pc = "lastFeed"
    /\ VadDecides(total)
    /\ pc' = "confirm"
    /\ after' = "open"
    /\ UNCHANGED <<backend, audio, stream, pending, sentences, before>>

\* Speech the VAD still has open becomes a segment up to the end.
FinishOpen ==
    /\ pc = "open"
    /\ IF speech = NoSpeech
       THEN pc' = "close" /\ UNCHANGED <<confirmed, after>>
       ELSE /\ confirmed' = <<Segment(speech, Ms(total))>>
            /\ pc' = "confirm"
            /\ after' = "close"
    /\ UNCHANGED <<backend, audio, stream, pending, sentences, vad, before>>

\* current_speech_start is cleared, then every pending segment is flushed.
FinishClose ==
    /\ pc = "close"
    /\ speech' = NoSpeech
    /\ pc' = "flush"
    /\ after' = "tail"
    /\ UNCHANGED <<backend, audio, stream, pending, sentences, vadAt, confirmed, before>>

\* The end of finish: partial_start_ms = 0.
Finished ==
    /\ partialStart' = 0
    /\ pc' = "done"
    /\ UNCHANGED <<backend, audio, firstDone, pending, vad, confirmed, before, after>>

\* _flush_streaming_tail returned a text and nothing was locked by finish().
FlushTail ==
    /\ pc = "tail"
    /\ backend = "pt"
    /\ Held(lastStream, total) > 0
    /\ Len(sentences) = before
    /\ LET duration == Ms(total - bufStart)
       IN  sentences' = Append(sentences,
               [start |-> Smaller(partialStart, duration), end |-> duration,
                source |-> "tail"])
    /\ lastStream' = total
    /\ Finished

\* Mutant: the forced tail starts at the beginning.
LockTailFromZero ==
    /\ pc = "tail"
    /\ lastStream' \in IF backend = "pt" THEN {lastStream, total} ELSE {lastStream}
    /\ IF Len(sentences) = before /\ 0 < Ms(total)
       THEN sentences' \in Decoded(0, Ms(total), "forced")
       ELSE UNCHANGED sentences
    /\ Finished

\* There is no such text, or it is not wanted; _force_lock_tail if nothing was
\* locked.
LockTail ==
    /\ pc = "tail"
    /\ lastStream' \in IF backend = "pt" THEN {lastStream, total} ELSE {lastStream}
    /\ IF Len(sentences) = before /\ partialStart < Ms(total)
       THEN sentences' \in Decoded(partialStart, Ms(total), "forced")
       ELSE UNCHANGED sentences
    /\ Finished

Next ==
    \/ Reset
    \/ \E n \in Sizes : AddAudio(n)
    \/ Feed \/ FeedFails \/ Confirm \/ ConfirmDone
    \/ FlushOne \/ FlushDone
    \/ DecodePartial \/ NoPartial
    \/ Finish \/ FinalFeed \/ LastFeed \/ FinishOpen \/ FinishClose
    \/ FlushTail \/ LockTail

Spec == Init /\ [][Next]_vars

----------------------------------------------------------------------------
Span     == [start : Nat, end : Nat]
Sentence == [start : Nat, end : Nat, source : {"segment", "forced", "tail"}]

\* Types, and that a pending segment is never empty (realtime_session.py:93).
TypeOK ==
    /\ backend \in Backends
    /\ {total, bufStart, vadFed, lastStream, partialStart, vadAt, before} \subseteq Nat
    /\ firstDone \in BOOLEAN
    /\ pending \in Seq(Span) /\ confirmed \in Seq(Span) /\ sentences \in Seq(Sentence)
    /\ \A i \in DOMAIN pending : pending[i].start < pending[i].end
    /\ speech \in Nat \cup {NoSpeech}
    /\ pc \in {"idle", "feed", "confirm", "flush", "partial", "finalFeed",
               "lastFeed", "open", "close", "tail", "done"}
    /\ after \in {"idle", "partial", "open", "close", "tail"}

\* Trimming leaves everything that a later decoding or the VAD will ask for:
\* the slices taken from last_stream_samples and vad_fed_samples are whole
\* (session_policy.py:57), a shorter one would stop partials for good.  Nor
\* does it remove audio that a segment known by then needs, padding included:
\* neither a pending one nor the one the VAD has open (session_policy.py:68).
AudioKept ==
    /\ [](/\ bufStart <= lastStream /\ lastStream <= total
          /\ bufStart <= vadFed /\ vadFed <= total)
    /\ [][bufStart' > bufStart =>
             \A s \in Starts(pending') \cup ({speech'} \ {NoSpeech}) :
                 bufStart' <= Larger(0, s - PrePad) * Rate]_vars

\* Segments are finalised in the order of the audio and none twice: what is
\* pending, confirmed or open begins after what was finalised last.
InOrder ==
    pc # "done" =>
    /\ \A i, j \in DOMAIN pending : i < j => pending[i].end < pending[j].start
    /\ \A s \in Starts(pending) \cup Starts(confirmed) : partialStart <= s
    /\ speech # NoSpeech /\ after # "close" => partialStart <= speech
    /\ partialStart <= Ms(total)

Ordered(segs) ==
    \A i, j \in DOMAIN segs : i < j => segs[i].end <= segs[j].start

\* Locked sentences follow one another in time.
SentencesOrdered == Ordered(sentences)

\* The same for those whose times come from segments or from a forced tail
\* (realtime_session.py:514), and they end where audio was received.
SegmentsOrdered ==
    LET timed == {i \in DOMAIN sentences : sentences[i].source # "tail"}
    IN  /\ \A i, j \in timed : i < j => sentences[i].end <= sentences[j].start
        /\ \A i \in timed : sentences[i].end <= Ms(total)

(* What makes these inductive.  Where a call goes on depends on what it is. *)
CallExact ==
    /\ pc \in {"confirm", "flush"} => after # "idle"
    /\ pc \in {"finalFeed", "lastFeed", "idle", "feed", "partial"} => after \in {"idle", "partial"}
    /\ pc = "feed" => after = "partial"
    /\ pc = "open" => after = "open"
    /\ pc = "close" => after \in {"open", "close"}
    /\ pc = "tail" => after = "tail"
    /\ after = "tail" => speech = NoSpeech /\ pc \in {"flush", "tail", "done"}
    /\ pc \notin {"feed", "finalFeed", "lastFeed", "confirm"} => confirmed = <<>>
    /\ pc = "feed" /\ backend = "onnx" => vadFed + VadChunk <= total

(* The VAD has decided on what it was fed, in order: an open segment begins *)
(* at its last decision, and confirmed ones follow each other before it.    *)
VadExact ==
    /\ vadFed <= total
    /\ vadAt <= Ms(total)
    /\ speech # NoSpeech => speech = vadAt
    /\ \A i \in DOMAIN confirmed :
          /\ confirmed[i].start <= confirmed[i].end
          /\ confirmed[i].end <= IF after = "close" THEN Ms(total) ELSE vadAt
    /\ Ordered(confirmed)

(* Pending segments end before what is confirmed or open begins.            *)
PendingExact ==
    pc # "done" =>
    /\ \A i, j \in DOMAIN pending : i < j => pending[i].end < pending[j].start
    /\ \A i \in DOMAIN pending :
          /\ partialStart <= pending[i].start
          /\ pending[i].end <= IF after = "close" \/ after = "tail" THEN Ms(total) ELSE vadAt
          /\ \A j \in DOMAIN confirmed : pending[i].end <= confirmed[j].start
    /\ \A j \in DOMAIN confirmed : partialStart <= confirmed[j].start
    /\ partialStart <= IF after = "close" \/ after = "tail" THEN Ms(total) ELSE vadAt

(* The buffer begins before the time up to which sentences were finalised,  *)
(* and these end there.                                                     *)
LockedExact ==
    pc # "done" =>
    /\ bufStart <= partialStart * Rate
    /\ \A i \in DOMAIN sentences : /\ sentences[i].source # "tail"
                                    /\ sentences[i].end <= partialStart

IInv ==
    /\ TypeOK /\ CallExact /\ VadExact /\ PendingExact /\ LockedExact /\ SegmentsOrdered
    /\ bufStart <= lastStream /\ lastStream <= total /\ bufStart <= vadFed

=============================================================================
