---------------------------- MODULE OfflineResult ----------------------------
(***************************************************************************)
(* One OFFLINE recognition from the audio to its RecognitionResult: the    *)
(* windows of the VAD, their texts and timestamps, the speaker recognition *)
(* and the merge of both, for the ONNX and the PT recognizer               *)
(* (offline/onnx/recognizer.py, offline/pt/recognizer.py, offline/base.py).*)
(*                                                                         *)
(* Recognised units of text are numbered 1, 2, ... in the order of the raw *)
(* text; punctuation and separators are left out.  A piece is a segment    *)
(* (ONNX) or a sentence (PT) with the units from..to.  The texts of the    *)
(* ONNX segments are joined without a separator and divided into words     *)
(* again; a word is one unit, or several at the borders of segments.  The  *)
(* models are external: what they return is free.                          *)
(***************************************************************************)
EXTENDS SpeakerMerge

CONSTANTS
    Duration,      \* ticks of audio
    Padding,       \* vad_padding_ms
    Slack,         \* tolerance of maybe_offset_timestamps (50 ms)
    MaxUnits,      \* bound on the units of a piece
    MaxPieces,     \* bound on the sentences of PT
    VadOutputs,    \* sequences of intervals the VAD may return
    Diarizations   \* sequences of segments the speaker model may return

Times == [start : Int, end : Int]

ASSUME ResultAssumption ==
    /\ {Duration, Padding, Slack, MaxUnits, MaxPieces} \subseteq Nat
    /\ VadOutputs \subseteq Seq(Times)
    /\ Diarizations \subseteq Seq([start : Int, end : Int, spk : Nat])

VARIABLES
    phase,     \* where recognize() stands
    backend,   \* "pt" or "onnx"
    verify,    \* offline_spk_verification_enabled
    windows,   \* VAD segments yet to be decoded
    spoken,    \* spoken[n]: when unit n was said, what the models heard
    pieces,    \* asr_segments, or sentence_info
    words,     \* the first unit of each word of the joined text of ONNX
    exact,     \* every piece has one timestamp for each unit
    speaker,   \* the speaker recognition: "none", "ok" or "failed"
    result     \* the RecognitionResult

vars == <<mergeVars, phase, backend, verify, windows, spoken, pieces, words,
          exact, speaker, result>>

Interval(a, b) == [start |-> a, end |-> b]

(* Utterances of at most n units, one after the other, between a and b.    *)
Utterances(a, b, n) ==
    {u \in SeqOf({v \in [start : a..b, end : a..b] : v.start < v.end}, n) :
        \A i \in 2..Len(u) : u[i - 1].end <= u[i].start}

(* The timestamps a model returns for an utterance: all, none, or without  *)
(* the last.                                                               *)
Stamps(u) == IF u = <<>> THEN {u} ELSE {u, <<>>, Front(u)}

Shift(stamps, by) == [i \in DOMAIN stamps |-> Interval(stamps[i].start + by, stamps[i].end + by)]

NoResult == [error |-> FALSE, segments |-> <<>>, lines |-> <<>>, ranges |-> {}]
ErrorResult == [NoResult EXCEPT !.error = TRUE]

Init ==
    /\ MergeIdle
    /\ phase = "loading"
    /\ backend \in {"pt", "onnx"} /\ verify \in BOOLEAN
    /\ windows = <<>> /\ spoken = <<>> /\ pieces = <<>> /\ words = <<>> /\ exact = TRUE
    /\ speaker = "none" /\ result = NoResult

(* recognize() turns every exception into an error result.                 *)
Fail ==
    /\ phase' = "done"
    /\ result' = ErrorResult
    /\ UNCHANGED <<mergeVars, backend, verify, windows, spoken, pieces, words, exact>>

(* The model cannot be loaded, or the recognition raises.                  *)
ModelFails ==
    /\ phase = "loading"
    /\ Fail /\ UNCHANGED speaker

(* The segments of a model's answer that have a length.                    *)
Valid(out) == {i \in DOMAIN out : out[i].end > out[i].start}

(* The valid segments of the VAD in order, or else the whole audio.        *)
VadSegments(out) ==
    LET usable == {i \in Valid(out) : out[i].start >= 0}
    IN  IF usable = {} THEN <<Interval(0, Duration)>> ELSE SortedAt(out, usable)

DetectSpeech ==
    /\ phase = "loading" /\ backend = "onnx"
    /\ \E out \in VadOutputs : windows' = VadSegments(out)
    /\ phase' = "asr"
    /\ UNCHANGED <<mergeVars, backend, verify, spoken, pieces, words, exact, speaker, result>>

\* Mutant: the offset of the timestamps is the segment's start.
SliceAtStart(v) ==
    [from |-> Max({0, v.start - Padding}), to |-> Min({Duration, v.end + Padding}),
     offset |-> v.start]

(* slice_audio_by_ms: the audio with padding on both sides, and where it   *)
(* begins.                                                                 *)
Slice(v) ==
    [from |-> Max({0, v.start - Padding}), to |-> Min({Duration, v.end + Padding}),
     offset |-> Max({0, v.start - Padding})]

Units == Len(spoken)

EndOfSpeech == IF Units = 0 THEN 0 ELSE Last(spoken).end

(* The units of a piece and the timestamps it carries become known.        *)
AddPiece(utterance, stamps, start, end, label) ==
    /\ spoken' = spoken \o utterance
    /\ pieces' = Append(pieces, [from |-> Units + 1, to |-> Units + Len(utterance),
                                 start |-> start, end |-> end, stamps |-> stamps, spk |-> label])
    /\ exact'  = (exact /\ Len(stamps) = Len(utterance))

(* combine_asr_segment_decodes joins the texts without a separator: where a*)
(* text ends in an ASCII word and the next begins with one, which is free  *)
(* here, the two become one word.                                          *)
JoinText(utterance) ==
    \E fused \in IF Units > 0 /\ utterance # <<>> THEN {0, 1} ELSE {0} :
        words' = words \o [i \in 1 .. Len(utterance) - fused |-> Units + fused + i]

(* One segment is decoded: the model's times count from the beginning of   *)
(* its audio.  An empty slice has no text.                                 *)
DecodeSegment ==
    /\ phase = "asr" /\ windows # <<>>
    /\ LET v == Head(windows)
           w == Slice(v)
       IN  \E u \in IF w.from < w.to THEN Utterances(w.from, w.to, MaxUnits) ELSE {<<>>} :
             /\ \E s \in Stamps(Shift(u, -w.from)) :
                   AddPiece(u, Shift(s, w.offset), v.start, v.end, 0)
             /\ JoinText(u)
    /\ windows' = Tail(windows)
    /\ UNCHANGED <<mergeVars, phase, backend, verify, speaker, result>>

(* The next sentence of the PT model, after those before, with the speaker *)
(* the model itself found.  Its timestamps are absolute, or count from its *)
(* own start.                                                              *)
Sentence ==
    /\ phase = "loading" /\ backend = "pt" /\ Len(pieces) < MaxPieces
    /\ \E u \in Utterances(EndOfSpeech, Duration, MaxUnits) \ {<<>>} :
          \E s \in Stamps(u) \cup Stamps(Shift(u, -u[1].start)) :
             \E label \in {0, 1} : AddPiece(u, s, u[1].start, Last(u).end, label)
    /\ UNCHANGED <<mergeVars, phase, backend, verify, windows, words, speaker, result>>

(* A sentence of spaces only.                                              *)
BlankSentence ==
    /\ phase = "loading" /\ backend = "pt" /\ Len(pieces) < MaxPieces
    /\ AddPiece(<<>>, <<>>, EndOfSpeech, EndOfSpeech, 0)
    /\ UNCHANGED <<mergeVars, phase, backend, verify, windows, words, speaker, result>>

AllStamps == FlattenSeq([i \in DOMAIN pieces |-> pieces[i].stamps])

(* Whether the shared speaker recognition is asked: PT needs a timestamp.  *)
NeedsSpeaker == verify /\ (backend = "pt" => AllStamps # <<>>)

Transcribed ==
    \/ backend = "onnx" /\ phase = "asr" /\ windows = <<>>
    \/ backend = "pt" /\ phase = "loading"

Text(from, to) == [i \in 1 .. to - from + 1 |-> from + i - 1]

\* Mutant: units without a timestamp of their own are forgotten.
AlignDrops(firsts, to, stamps) ==
    [i \in 1..Min({Len(firsts), Len(stamps)}) |->
        [from |-> firsts[i], to |-> firsts[i], start |-> stamps[i].start, end |-> stamps[i].end]]

(* align_text_to_timestamps pairs the words of a text, each given by its   *)
(* first unit, with the timestamps by position; words that are left over   *)
(* join the last token, timestamps are ignored.                            *)
Align(firsts, to, stamps) ==
    LET n == Min({Len(firsts), Len(stamps)})
    IN  [i \in 1..n |-> [from |-> firsts[i], to |-> IF i < n THEN firsts[i + 1] - 1 ELSE to,
                         start |-> stamps[i].start, end |-> stamps[i].end]]

(* maybe_offset_timestamps guesses that timestamps are relative when they  *)
(* fit into the length of the sentence.                                    *)
MaybeOffset(p) ==
    IF /\ p.stamps # <<>> /\ p.start > 0 /\ p.end > p.start
       /\ Max({p.stamps[i].end : i \in DOMAIN p.stamps}) <= p.end - p.start + Slack
    THEN Shift(p.stamps, p.start) ELSE p.stamps

Whole(p) == [from |-> p.from, to |-> p.to, start |-> p.start, end |-> p.end]

(* build_timed_units: a sentence without usable timestamps is one unit.    *)
UnitsOfSentence(p) ==
    LET tokens == Align(Text(p.from, p.to), p.to, MaybeOffset(p))
    IN  IF tokens # <<>> THEN tokens ELSE <<Whole(p)>>

(* What the merge loop runs over; nothing for ONNX means the fallback.     *)
TimedUnits ==
    IF backend = "onnx" THEN Align(words, Units, AllStamps)
    ELSE FlattenSeq([i \in DOMAIN pieces |-> UnitsOfSentence(pieces[i])])

(* normalize_speaker_result and speaker_segments_from_result               *)
SpeakerSegments(out) == SortedAt(out, Valid(out))

(* The speaker recognition answers and the merge begins.                   *)
SpeakerAnswers ==
    /\ Transcribed /\ NeedsSpeaker
    /\ \E out \in Diarizations :
          /\ SpeakerSegments(out) # <<>>
          /\ MergeBegins(TimedUnits, SpeakerSegments(out))
    /\ speaker' = "ok"
    /\ phase' = "merging"
    /\ UNCHANGED <<backend, verify, windows, spoken, pieces, words, exact, result>>

(* It raises, reports an error, or finds no valid segment; the runner makes*)
(* each of these a result, which _raise_if_speaker_unusable refuses.       *)
SpeakerFails ==
    /\ Transcribed /\ NeedsSpeaker
    /\ speaker' = "failed"
    /\ Fail

(* The verification is off, or PT has no timestamps: there is nothing to   *)
(* merge, and the loop counts as ended.                                    *)
SpeakerSkipped ==
    /\ Transcribed /\ ~NeedsSpeaker
    /\ phase' = "merging"
    /\ next' = Len(units) + 2
    /\ UNCHANGED <<units, speakers, merged, current, backend, verify, windows,
                   spoken, pieces, words, exact, speaker, result>>

Merge ==
    /\ phase = "merging"
    /\ MergeUnit \/ MergeEnds
    /\ UNCHANGED <<phase, backend, verify, windows, spoken, pieces, words, exact, speaker, result>>

SegmentOfGroup(g) ==
    [text |-> FlattenSeq([i \in 1 .. g.to - g.from + 1 |->
                             LET u == units[g.from + i - 1] IN Text(u.from, u.to)]),
     start |-> units[g.from].start, end |-> units[g.to].end, spk |-> g.spk]

SegmentOfPiece(p, spk) ==
    [text |-> Text(p.from, p.to), start |-> p.start, end |-> p.end, spk |-> spk]

(* The merged groups; without a timestamp the speaker of each ONNX segment *)
(* that has a text; without speakers those segments with speaker 0, or the *)
(* sentences of PT with their own.                                         *)
Segments ==
    IF units # <<>> THEN [k \in DOMAIN merged |-> SegmentOfGroup(merged[k])]
    ELSE FlattenSeq([i \in DOMAIN pieces |->
            LET p == pieces[i]
            IN  IF backend = "onnx" /\ p.from > p.to THEN <<>>
                ELSE <<SegmentOfPiece(p, IF speaker = "ok" THEN SpeakerFor(Whole(p), speakers)
                                         ELSE p.spk)>>])

(* build_full_text_with_speaker: a line for each run of one speaker.       *)
Lines(segs) ==
    LET lines[n \in 0..Len(segs)] ==
            IF n = 0 THEN <<>>
            ELSE LET s == segs[n]
                     before == lines[n - 1]
                 IN  IF before # <<>> /\ Last(before).spk = s.spk
                     THEN [before EXCEPT ![Len(before)].text = @ \o s.text]
                     ELSE Append(before, [spk |-> s.spk, text |-> s.text])
    IN  lines[Len(segs)]

(* _speaker_ranges_from_segments                                           *)
Ranges(segs) ==
    {LET of == {k \in DOMAIN segs : segs[k].spk = s}
     IN  [spk |-> s, start |-> Min({segs[k].start : k \in of}),
          end |-> Max({segs[k].end : k \in of})] :
     s \in {segs[k].spk : k \in DOMAIN segs}}

(* parse_result and normalize_recognition_result; the skipped verification *)
(* of ONNX leaves the plain text.                                          *)
Parsed ==
    [error |-> FALSE, segments |-> Segments, ranges |-> Ranges(Segments),
     lines |-> IF backend = "onnx" /\ speaker = "none" /\ Units > 0
               THEN <<[spk |-> 0, text |-> Text(1, Units)]>> ELSE Lines(Segments)]

Parse ==
    /\ phase = "merging" /\ next = Len(units) + 2
    /\ result' = Parsed
    /\ phase' = "done"
    /\ UNCHANGED <<mergeVars, backend, verify, windows, spoken, pieces, words, exact, speaker>>

Done == phase = "done" /\ UNCHANGED vars

Next ==
    \/ ModelFails \/ DetectSpeech \/ DecodeSegment \/ Sentence \/ BlankSentence
    \/ SpeakerAnswers \/ SpeakerFails \/ SpeakerSkipped \/ Merge \/ Parse \/ Done

Spec == Init /\ [][Next]_vars

----------------------------------------------------------------------------
(* A result without error has every recognised unit exactly once, in its   *)
(* segments and in its full text alike, its segments are in the order of   *)
(* their starts, and the range of a speaker covers every segment of it.    *)
ResultWhole ==
    phase = "done" /\ ~result.error =>
        LET said(parts) == FlattenSeq([k \in DOMAIN parts |-> parts[k].text])
        IN  /\ ToSet(said(result.segments)) = 1..Units /\ Len(said(result.segments)) = Units
            /\ ToSet(said(result.lines)) = 1..Units /\ Len(said(result.lines)) = Units
            /\ \A k \in DOMAIN result.segments :
                  /\ k > 1 => result.segments[k - 1].start <= result.segments[k].start
                  /\ \E r \in result.ranges :
                        /\ r.spk = result.segments[k].spk
                        /\ r.start <= result.segments[k].start
                        /\ result.segments[k].end <= r.end

\* How many words of the joined text begin up to unit n.
WordsUpTo(n) == Cardinality({m \in ToSet(words) : m <= n})

(* When the models give one timestamp for each unit, every unit is merged  *)
(* at the time it was said: exactly for ONNX, whose windows are padded,    *)
(* until two words fuse at the border of segments; from there a word has   *)
(* the time of the unit that lies as many units before it as words have    *)
(* fused.  For PT within the tolerance, since it guesses whether the       *)
(* timestamps of a sentence are absolute.                                  *)
TimesTrue ==
    exact => \A i \in DOMAIN units : units[i].from <= units[i].to =>
        LET u == units[i]
        IN  IF backend = "onnx"
            THEN /\ (u.from .. u.to) \cap ToSet(words) = {u.from}
                 /\ u.start = spoken[WordsUpTo(u.from)].start
                 /\ u.end   = spoken[WordsUpTo(u.from)].end
            ELSE /\ u.from = u.to
                 /\ Distance(u.start, spoken[u.from].start) <= Slack
                 /\ Distance(u.end, spoken[u.from].end) <= Slack

(* Claimed by docs/offline-onnx-call-chain.md: when the speaker recognition*)
(* fails, the text of the ASR is kept.                                     *)
SpeakerFailureDegrades ==
    phase = "done" /\ backend = "onnx" /\ speaker = "failed" => ~result.error

(* What makes the properties inductive: the pieces divide the units among  *)
(* them and follow each other; a timestamp is the time its unit was said   *)
(* at, for PT perhaps counted from the start of the sentence; and the loop *)
(* and the result are made of just these pieces.                           *)
Piece == [from : Nat, to : Nat, start : Int, end : Int, stamps : Seq(Times), spk : Nat]

Typed ==
    /\ phase \in {"loading", "asr", "merging", "done"}
    /\ backend \in {"pt", "onnx"}
    /\ windows \in Seq(Times) /\ spoken \in Seq(Times) /\ pieces \in Seq(Piece)

Divided ==
    /\ \A k \in 1..Len(pieces) : pieces[k].from \in 1 .. pieces[k].to + 1 /\ pieces[k].to <= Units
    /\ \A j, k \in 1..Len(pieces) : j < k => pieces[j].to < pieces[k].from
    /\ \A i \in 1..Units : \E k \in 1..Len(pieces) : i \in pieces[k].from .. pieces[k].to

\* The words follow each other and reach over all units.
WordsApart ==
    /\ words \in Seq(Nat)
    /\ \A k \in 1..Len(words) : words[k] \in k..Units
    /\ \A j, k \in 1..Len(words) : j < k => words[j] < words[k]
    /\ backend = "onnx" => \A n \in 1..Units : \E k \in 1..Len(words) :
                              words[k] <= n /\ (k < Len(words) => n < words[k + 1])

PiecesOrdered ==
    /\ backend = "pt" => windows = <<>> /\ EndOfSpeech \in Nat
    /\ backend = "onnx" /\ phase = "loading" => pieces = <<>>
    /\ \A k \in 1..Len(pieces) :
          /\ \A j \in 1..k : pieces[j].start <= pieces[k].start
          /\ backend = "pt" => pieces[k].start <= EndOfSpeech
          /\ \A i \in 1..Len(windows) : pieces[k].start <= windows[i].start
    /\ \A i, j \in 1..Len(windows) : i <= j => windows[i].start <= windows[j].start

Earlier(p, i, by) ==
    Interval(spoken[p.from + i - 1].start - by, spoken[p.from + i - 1].end - by)

SaidIn(p) ==
    /\ Len(p.stamps) = p.to - p.from + 1
    /\ p.start \in Nat
    /\ p.from <= p.to => p.start < p.end /\ p.end = spoken[p.to].end
    /\ \A i \in p.from .. p.to : spoken[i].end <= p.end
    /\ \E by \in {0, p.start} : \A i \in 1..Len(p.stamps) : p.stamps[i] = Earlier(p, i, by)

StampsTrue ==
    exact => /\ backend = "onnx" => AllStamps = spoken
             /\ backend = "pt"   => \A k \in 1..Len(pieces) : SaidIn(pieces[k])

Built ==
    /\ phase \in {"loading", "asr"} => MergeIdle /\ speaker = "none"
    /\ units # <<>> => units = Sorted(TimedUnits)
    /\ phase = "done" /\ ~result.error => next = Len(units) + 2 /\ result = Parsed

ResultIInv == Typed /\ Divided /\ WordsApart /\ PiecesOrdered /\ StampsTrue /\ Built

=============================================================================
