---------------------------- MODULE SegmentPool ----------------------------
(***************************************************************************)
(* OFFLINE recognition with the ONNX bundle: OfflineONNXModelBundle and    *)
(* OfflineONNXRecognizer (offline/onnx/recognizer.py).                     *)
(*                                                                         *)
(* The recognitions of concurrent tasks share one bundle.  Each runs in a  *)
(* thread of its own, splits its audio at the VAD's segments and decodes   *)
(* them in a ThreadPoolExecutor of its own; the threads of all of them     *)
(* take the ASR models from one queue.  A step is what a thread does       *)
(* between two operations that other threads see.                          *)
(***************************************************************************)
EXTENDS Integers, SequencesExt

CONSTANTS
    Recognitions,   \* calls of generate() in the life of the bundle
    Models,         \* asr_models
    MaxSegments,    \* bound: segments the VAD finds in one audio
    NoOne           \* nobody holds the model or the lock

ASSUME PoolAssumption ==
    /\ Models # {}
    /\ MaxSegments \in Nat \ {0}
    /\ NoOne \notin Recognitions
    /\ NoOne \notin Recognitions \X (1 .. MaxSegments)

VARIABLES
    at,         \* [Recognitions -> where the call is]
    count,      \* [Recognitions -> number of segments]
    seg,        \* [Recognitions -> [segment -> state of its future]]
    decodes,    \* [Recognitions -> segments in the order of as_completed]
    text,       \* [Recognitions -> segments in the order of the result]
    user,       \* [Models -> the segment that took it from _asr_model_pool]
    vadLock,    \* holder of _vad_lock
    puncLock    \* holder of _punc_lock

vars == <<at, count, seg, decodes, text, user, vadLock, puncLock>>

Indices == 1 .. MaxSegments
Of(r)   == 1 .. count[r]

\* Threads of one executor are busy with these.
Busy(r) == {i \in Of(r) : seg[r][i] \in {"waiting", "decoding"}}

\* Futures as_completed may yield.
Finished(r) == {i \in Of(r) : seg[r][i] \in {"decoded", "raised"}}

SetSeg(r, i, s) == seg' = [seg EXCEPT ![r][i] = s]
Go(r, place)    == at' = [at EXCEPT ![r] = place]

----------------------------------------------------------------------------
\* A bundle is built only if all of its models were loaded.
Init ==
    /\ at = [r \in Recognitions |-> "new"]
    /\ count = [r \in Recognitions |-> 0]
    /\ seg = [r \in Recognitions |-> [i \in Indices |-> "none"]]
    /\ decodes = [r \in Recognitions |-> <<>>]
    /\ text = [r \in Recognitions |-> <<>>]
    /\ user = [m \in Models |-> NoOne]
    /\ vadLock = NoOne
    /\ puncLock = NoOne

\* generate: the audio is loaded, or that fails.
Begin(r) ==
    /\ at[r] = "new"
    /\ \E place \in {"load", "failed"} : Go(r, place)
    /\ UNCHANGED <<count, seg, decodes, text, user, vadLock, puncLock>>

EnterVad(r) ==
    /\ at[r] = "load"
    /\ vadLock = NoOne
    /\ vadLock' = r
    /\ Go(r, "vad")
    /\ UNCHANGED <<count, seg, decodes, text, user, puncLock>>

\* Mutant: the lock is not released when the VAD raises.
LeaveVadLocked(r) ==
    /\ at[r] = "vad"
    /\ \/ /\ vadLock' = NoOne
          /\ Go(r, "asr")
          /\ \E n \in Indices :
               /\ count' = [count EXCEPT ![r] = n]
               /\ seg' = [seg EXCEPT ![r] =
                     [i \in Indices |-> IF i <= n THEN "queued" ELSE "none"]]
       \/ /\ Go(r, "failed")
          /\ UNCHANGED <<count, seg, vadLock>>
    /\ UNCHANGED <<decodes, text, user, puncLock>>

\* The segments, one if the VAD finds none, are submitted to the executor.
LeaveVad(r) ==
    /\ at[r] = "vad"
    /\ vadLock' = NoOne
    /\ \/ /\ Go(r, "asr")
          /\ \E n \in Indices :
               /\ count' = [count EXCEPT ![r] = n]
               /\ seg' = [seg EXCEPT ![r] =
                     [i \in Indices |-> IF i <= n THEN "queued" ELSE "none"]]
       \/ /\ Go(r, "failed")
          /\ UNCHANGED <<count, seg>>
    /\ UNCHANGED <<decodes, text, user, puncLock>>

\* A thread of the executor starts the next segment; one without audio is
\* decoded to an empty text without a model.
StartSegment(r, i) ==
    /\ seg[r][i] = "queued"
    /\ \A j \in Of(r) : j < i => seg[r][j] # "queued"
    /\ Cardinality(Busy(r)) < Cardinality(Models)
    /\ \E s \in {"waiting", "decoded"} : SetSeg(r, i, s)
    /\ UNCHANGED <<at, count, decodes, text, user, vadLock, puncLock>>

\* Mutant: a model that is in use is handed out again.
TakeModelInUse(r, i, m) ==
    /\ seg[r][i] = "waiting"
    /\ SetSeg(r, i, "decoding")
    /\ user' = [user EXCEPT ![m] = <<r, i>>]
    /\ UNCHANGED <<at, count, decodes, text, vadLock, puncLock>>

\* _asr_model_pool.get() in decode_segment
TakeModel(r, i, m) ==
    /\ seg[r][i] = "waiting"
    /\ user[m] = NoOne
    /\ SetSeg(r, i, "decoding")
    /\ user' = [user EXCEPT ![m] = <<r, i>>]
    /\ UNCHANGED <<at, count, decodes, text, vadLock, puncLock>>

\* decode_segment returns or raises; the model goes back in either case.
ReturnModel(r, i, m) ==
    /\ user[m] = <<r, i>>
    /\ \E s \in {"decoded", "raised"} : SetSeg(r, i, s)
    /\ user' = [user EXCEPT ![m] = NoOne]
    /\ UNCHANGED <<at, count, decodes, text, vadLock, puncLock>>

\* Mutant: a failed segment passes for one without text.
CollectOrSkip(r, i) ==
    /\ at[r] = "asr"
    /\ i \in Finished(r) \ ToSet(decodes[r])
    /\ decodes' = [decodes EXCEPT ![r] = Append(@, i)]
    /\ UNCHANGED <<at, count, seg, text, user, vadLock, puncLock>>

\* The loop over as_completed takes the result of a finished future.
Collect(r, i) ==
    /\ at[r] = "asr"
    /\ i \in Finished(r) \ ToSet(decodes[r])
    /\ IF seg[r][i] = "decoded"
       THEN /\ decodes' = [decodes EXCEPT ![r] = Append(@, i)]
            /\ UNCHANGED at
       ELSE Go(r, "closing") /\ UNCHANGED decodes
    /\ UNCHANGED <<count, seg, text, user, vadLock, puncLock>>

\* Mutant: the exception does not wait for the other threads.
FailAtOnce(r) ==
    /\ at[r] = "closing"
    /\ Go(r, "failed")
    /\ UNCHANGED <<count, seg, decodes, text, user, vadLock, puncLock>>

\* The exception leaves the with block after all the threads have ended.
FailAfterThreads(r) ==
    /\ at[r] = "closing"
    /\ Finished(r) = Of(r)
    /\ Go(r, "failed")
    /\ UNCHANGED <<count, seg, decodes, text, user, vadLock, puncLock>>

\* Mutant: the parts are joined in the order in which they finished.
CombineAsCompleted(order, n) == order

\* combine_asr_segment_decodes: each part at the place of its index, and
\* nothing (0) at a place whose part is not there.
Combine(order, n) ==
    [i \in 1 .. n |-> IF i \in ToSet(order) THEN i ELSE 0]

\* All results are there.  Punctuation is left out if there is no text.
Combined(r) ==
    /\ at[r] = "asr"
    /\ Len(decodes[r]) = count[r]
    /\ text' = [text EXCEPT ![r] = Combine(decodes[r], count[r])]
    /\ \E place \in {"combined", "speaker"} : Go(r, place)
    /\ UNCHANGED <<count, seg, decodes, user, vadLock, puncLock>>

EnterPunc(r) ==
    /\ at[r] = "combined"
    /\ puncLock = NoOne
    /\ puncLock' = r
    /\ Go(r, "punc")
    /\ UNCHANGED <<count, seg, decodes, text, user, vadLock>>

LeavePunc(r) ==
    /\ at[r] = "punc"
    /\ puncLock' = NoOne
    /\ \E place \in {"speaker", "failed"} : Go(r, place)
    /\ UNCHANGED <<count, seg, decodes, text, user, vadLock>>

\* The second check of the speakers, or its omission, and the merge.
End(r) ==
    /\ at[r] = "speaker"
    /\ \E place \in {"done", "failed"} : Go(r, place)
    /\ UNCHANGED <<count, seg, decodes, text, user, vadLock, puncLock>>

Caller(r) ==
    \/ Begin(r) \/ EnterVad(r) \/ LeaveVad(r)
    \/ \E i \in Indices : Collect(r, i)
    \/ FailAfterThreads(r) \/ Combined(r)
    \/ EnterPunc(r) \/ LeavePunc(r) \/ End(r)

Thread(r, i) ==
    \/ StartSegment(r, i)
    \/ \E m \in Models : TakeModel(r, i, m) \/ ReturnModel(r, i, m)

Next ==
    \E r \in Recognitions : Caller(r) \/ \E i \in Indices : Thread(r, i)

Spec == Init /\ [][Next]_vars

\* Every thread is scheduled and the models return.  The recognitions are
\* finitely many, so a waiting thread is not overtaken for ever.
Fairness ==
    \A r \in Recognitions :
        WF_vars(Caller(r)) /\ \A i \in Indices : WF_vars(Thread(r, i))

FairSpec == Spec /\ Fairness

----------------------------------------------------------------------------
Ended == {"done", "failed"}

\* Types, and that futures exist for the submitted segments alone.
TypeOK ==
    /\ at \in [Recognitions -> {"new", "load", "vad", "asr", "closing",
                               "combined", "punc", "speaker"} \cup Ended]
    /\ count \in [Recognitions -> 0 .. MaxSegments]
    /\ seg \in [Recognitions -> [Indices ->
                  {"none", "queued", "waiting", "decoding", "decoded", "raised"}]]
    /\ \A r \in Recognitions : \A i \in Indices :
         i \notin Of(r) => seg[r][i] = "none"
    /\ decodes \in [Recognitions -> Seq(Indices)]
    /\ text \in [Recognitions -> Seq(0 .. MaxSegments)]
    /\ user \in [Models -> (Recognitions \X Indices) \cup {NoOne}]
    /\ vadLock \in Recognitions \cup {NoOne}
    /\ puncLock \in Recognitions \cup {NoOne}

\* Every model is in the pool or with exactly one segment that decodes with
\* it, also after an exception (recognizer.py:146-161).
ModelsExact ==
    /\ \A r \in Recognitions : \A i \in Indices :
         seg[r][i] = "decoding" <=> \E m \in Models : user[m] = <<r, i>>
    /\ \A m, n \in Models : user[m] = user[n] /\ user[m] # NoOne => m = n

\* The text has every segment, in the order of the audio, whatever the order
\* in which the threads finished (recognizer.py:163-172, helpers.py:72).
TextInOrder ==
    \A r \in Recognitions :
        at[r] \in {"combined", "punc", "speaker", "done"} =>
            text[r] = [i \in Of(r) |-> i]

\* A recognition that has ended has no thread left: none waits for a model or
\* holds one, also when an earlier segment raised (recognizer.py:164).
NothingRunsOn ==
    \A r \in Recognitions :
        at[r] \in Ended => \A i \in Of(r) : seg[r][i] \in {"decoded", "raised"}

\* A failed segment fails its recognition, and never passes for an empty one.
FailureSurfaces ==
    \A r \in Recognitions :
        (\E i \in Of(r) : seg[r][i] = "raised") =>
            at[r] \in {"asr", "closing", "failed"}

\* Before the segments are submitted there are none, the collected results are
\* distinct decoded segments, and past the loop over as_completed they are all.
Consistent(r) ==
    /\ at[r] \in {"new", "load", "vad"} => count[r] = 0
    /\ \A i \in ToSet(decodes[r]) : i \in Of(r) /\ seg[r][i] = "decoded"
    /\ Cardinality(ToSet(decodes[r])) = Len(decodes[r])
    /\ at[r] \in {"combined", "punc", "speaker", "done"} =>
         /\ \A i \in Of(r) : seg[r][i] = "decoded"
         /\ text[r] = [i \in Of(r) |-> i]

\* The inductive invariant: the models, the threads of ended recognitions and
\* each recognition by itself (recognizer.py:135-172).
IInv ==
    /\ TypeOK
    /\ ModelsExact
    /\ NothingRunsOn
    /\ \A r \in Recognitions : Consistent(r)

\* Every recognition ends, however the others fail (recognizer.py:100-125).
RecognitionEnds ==
    \A r \in Recognitions : at[r] = "new" ~> at[r] \in Ended

=============================================================================
