------------------------- MODULE OnlineStreamProofs -------------------------
(* The safety of one ONLINE stream for any queue, any number of STARTs and *)
(* chunks, with or without failing decoders and vanishing clients.  Each   *)
(* lemma is one action; its steps are the conjuncts of IInv.               *)
EXTENDS OnlineStream, SequenceTheorems, TLAPS

\* A START drains the queue; with a free lock it resets the session at once,
\* and else the worker that has the lock still holds an older chunk.
LEMMA StartSessionIInv == IInv /\ StartSession => IInv'
  <1> SUFFICES ASSUME IInv, StartSession PROVE IInv'
    OBVIOUS
  <1> USE StreamAssumption DEF IInv, StartSession, ResetFor, DrainQueue,
                               ResetOrWait, queueVars, sessionVars, clientVars
  <1>1. TypeOK'
    <2>1. audioQueue' \in Seq(1 .. MaxStarts) /\ Len(audioQueue') = 0
      OBVIOUS
    <2>2. unfinished' \in Nat /\ generation' \in 1 .. MaxStarts
      BY DEF TypeOK, ItemExact
    <2>3. cpc' \in {"sendStarted", "startLock"}
          /\ sessionGen' \in 0 .. MaxStarts
          /\ handled' \in 0 .. MaxChunks /\ active' \in BOOLEAN
      <3>1. CASE lock = "none"
        BY <2>2, <3>1 DEF TypeOK
      <3>2. CASE lock # "none"
        BY <2>2, <3>2 DEF TypeOK
      <3> QED
        BY <3>1, <3>2
    <2> QED
      BY <2>1, <2>2, <2>3 DEF TypeOK, ControllerSteps
  <1>2. LockExact'
    BY DEF LockExact
  <1>3. ItemExact'
    BY DEF ItemExact
  <1>4. SessionExact'
    BY DEF TypeOK, LockExact, SessionExact
  <1>5. CountExact'
    BY DEF TypeOK, LockExact, SessionExact, CountExact, Adding, InHand
  <1>6. ShownExact'
    BY DEF LockExact, SessionExact, ShownExact
  <1> QED
    BY <1>1, <1>2, <1>3, <1>4, <1>5, <1>6 DEF IInv

\* A STOP only begins to wait.
LEMMA StopSessionIInv == IInv /\ StopSession => IInv'
  <1> SUFFICES ASSUME IInv, StopSession PROVE IInv'
    OBVIOUS
  <1> USE StreamAssumption DEF IInv, StopSession, queueVars, sessionVars,
                               clientVars
  <1>1. TypeOK'
    BY DEF TypeOK, ControllerSteps
  <1>2. LockExact'
    BY DEF LockExact
  <1>3. ItemExact'
    BY DEF ItemExact
  <1>4. SessionExact'
    BY DEF SessionExact
  <1>5. CountExact'
    BY DEF CountExact, Adding, InHand
  <1>6. ShownExact'
    BY DEF ShownExact
  <1> QED
    BY <1>1, <1>2, <1>3, <1>4, <1>5, <1>6 DEF IInv

\* A queue of one generation stays one when a chunk of it joins.
LEMMA AppendSame ==
  ASSUME NEW S, NEW s \in Seq(S), NEW g \in S, \A i \in 1..Len(s) : s[i] = g
  PROVE  /\ Append(s, g) \in Seq(S) /\ Append(s, g) # <<>>
         /\ Len(Append(s, g)) = Len(s) + 1
         /\ \A i \in 1..Len(Append(s, g)) : Append(s, g)[i] = g
  <1>1. /\ Append(s, g) \in Seq(S) /\ Append(s, g) # <<>>
        /\ Len(Append(s, g)) = Len(s) + 1
        /\ \A i \in 1..Len(s) : Append(s, g)[i] = s[i]
        /\ Append(s, g)[Len(s) + 1] = g
    BY AppendProperties
  <1>2. \A i \in 1..Len(s) + 1 : i \in 1..Len(s) \/ i = Len(s) + 1
    OBVIOUS
  <1> QED
    BY <1>1, <1>2

\* A chunk joins the queue of an open session, or nothing but a notice follows.
LEMMA EnqueueAudioIInv == IInv /\ EnqueueAudio => IInv'
  <1> SUFFICES ASSUME IInv, EnqueueAudio PROVE IInv'
    OBVIOUS
  <1> USE StreamAssumption DEF IInv, EnqueueAudio, queueVars, sessionVars,
                               clientVars, TypeOK, LockExact, ItemExact,
                               SessionExact, ControllerSteps, WorkerSteps
  <1>1. CASE UNCHANGED <<queueVars, accepted>>
    <2>1. TypeOK' /\ LockExact' /\ ItemExact'
      BY <1>1
    <2>2. SessionExact' /\ CountExact' /\ ShownExact'
      BY <1>1 DEF CountExact, Adding, InHand, ShownExact
    <2> QED
      BY <2>1, <2>2
  <1>2. CASE audioQueue' = Append(audioQueue, generation)
    <2>1. /\ active /\ Len(audioQueue) < QueueMax
          /\ UNCHANGED cpc /\ cpc = "receive"
          /\ unfinished' = unfinished + 1 /\ accepted' = accepted + 1
          /\ chunks' = chunks + 1 /\ chunks < MaxChunks
      BY <1>2, AppendProperties
    <2>2. generation \in 1 .. MaxStarts /\ audioQueue \in Seq(1 .. MaxStarts)
      BY <2>1
    <2>3. /\ audioQueue' \in Seq(1 .. MaxStarts) /\ audioQueue' # <<>>
          /\ Len(audioQueue') = Len(audioQueue) + 1
          /\ \A i \in 1..Len(audioQueue') : audioQueue'[i] = generation
      <3>1. \A i \in 1..Len(audioQueue) : audioQueue[i] = generation
        BY <2>1
      <3> QED
        BY ONLY <1>2, <2>2, <3>1, AppendSame
    <2>4. TypeOK'
      <3>1. audioQueue' \in Seq(1 .. MaxStarts) /\ Len(audioQueue') <= QueueMax
        BY <2>1, <2>2, <2>3
      <3>2. unfinished' \in Nat
            /\ accepted' \in 0 .. MaxChunks /\ chunks' \in 0 .. MaxChunks
        BY <2>1 DEF CountExact
      <3> QED
        BY <2>1, <3>1, <3>2
    <2>5. LockExact' /\ ItemExact'
      BY <2>1, <2>2, <2>3
    <2>6. SessionExact'
      BY <2>1, <2>2, <2>3
    <2>7. CountExact'
      <3> DEFINE adding == Adding
                 waiting == Len(audioQueue)
      <3>1. /\ cpc' = "receive" /\ handled' = handled /\ Adding' = adding
            /\ Len(audioQueue') = waiting + 1
            /\ adding \in Nat /\ waiting \in Nat
            /\ handled \in Nat /\ accepted \in Nat /\ chunks \in Nat
        BY <2>1, <2>2, <2>3 DEF Adding, InHand
      <3>2. /\ accepted <= chunks /\ handled + adding <= chunks
            /\ handled + adding + waiting = accepted
        BY <2>1 DEF CountExact
      <3>3. accepted' = accepted + 1 /\ chunks' = chunks + 1
        BY <2>1
      <3> HIDE DEF adding, waiting
      <3> QED
        BY <3>1, <3>2, <3>3 DEF CountExact
    <2>8. ShownExact'
      BY <2>1, <2>3 DEF ShownExact
    <2> QED
      BY <2>4, <2>5, <2>6, <2>7, <2>8
  <1> QED
    BY <1>1, <1>2

\* The waiting START resets the session between two uses by the worker.
LEMMA StartGrantedIInv == IInv /\ StartGranted => IInv'
  <1> SUFFICES ASSUME IInv, StartGranted PROVE IInv'
    OBVIOUS
  <1> USE StreamAssumption DEF IInv, StartGranted, ResetFor, AfterCtl,
                               WrkWaits, queueVars, sessionVars, clientVars
  <1>1. TypeOK'
    BY DEF TypeOK, SessionExact, ControllerSteps
  <1>2. LockExact'
    BY DEF LockExact
  <1>3. ItemExact'
    BY DEF ItemExact
  <1>4. SessionExact'
    BY DEF TypeOK, LockExact, SessionExact
  <1>5. CountExact'
    BY DEF LockExact, SessionExact, CountExact, Adding, InHand
  <1>6. ShownExact'
    BY DEF LockExact, ShownExact
  <1> QED
    BY <1>1, <1>2, <1>3, <1>4, <1>5, <1>6 DEF IInv

\* No chunk of the new generation exists before this.
LEMMA SendStartedIInv == IInv /\ SendStarted => IInv'
  <1> SUFFICES ASSUME IInv, SendStarted PROVE IInv'
    OBVIOUS
  <1> USE StreamAssumption DEF IInv, SendStarted, queueVars, sessionVars,
                               clientVars
  <1>1. TypeOK'
    BY DEF TypeOK, SessionExact, ControllerSteps
  <1>2. LockExact'
    BY DEF LockExact
  <1>3. ItemExact'
    BY DEF ItemExact
  <1>4. SessionExact'
    BY DEF SessionExact
  <1>5. CountExact'
    BY DEF CountExact, Adding, InHand
  <1>6. ShownExact'
    BY DEF ShownExact
  <1> QED
    BY <1>1, <1>2, <1>3, <1>4, <1>5, <1>6 DEF IInv

\* With nothing unfinished the worker is idle and the lock free.
LEMMA JoinedIInv == IInv /\ Joined => IInv'
  <1> SUFFICES ASSUME IInv, Joined PROVE IInv'
    OBVIOUS
  <1> USE StreamAssumption DEF IInv, Joined, queueVars, sessionVars, clientVars
  <1>1. TypeOK'
    BY DEF TypeOK, ControllerSteps
  <1>2. LockExact'
    BY DEF TypeOK, ItemExact, LockExact
  <1>3. ItemExact'
    BY DEF ItemExact
  <1>4. SessionExact'
    BY DEF SessionExact
  <1>5. CountExact'
    BY DEF CountExact, Adding, InHand
  <1>6. ShownExact'
    BY DEF ItemExact, ShownExact
  <1> QED
    BY <1>1, <1>2, <1>3, <1>4, <1>5, <1>6 DEF IInv

\* The session closes with nothing queued or under way.
LEMMA FinishedIInv == IInv /\ Finished => IInv'
  <1> SUFFICES ASSUME IInv, Finished PROVE IInv'
    OBVIOUS
  <1> USE StreamAssumption DEF IInv, Finished, AfterCtl, WrkWaits, queueVars,
                               sessionVars, clientVars
  <1>1. TypeOK'
    BY DEF TypeOK, ControllerSteps
  <1>2. LockExact'
    BY DEF TypeOK, LockExact
  <1>3. ItemExact'
    BY DEF ItemExact
  <1>4. SessionExact'
    BY DEF ItemExact, SessionExact
  <1>5. CountExact'
    BY DEF CountExact, Adding, InHand
  <1>6. ShownExact'
    BY DEF ItemExact, ShownExact
  <1> QED
    BY <1>1, <1>2, <1>3, <1>4, <1>5, <1>6 DEF IInv

\* The decoder raised in finish(): the lock goes to a waiting worker or is free.
LEMMA FinishFailsIInv == IInv /\ FinishFails => IInv'
  <1> SUFFICES ASSUME IInv, FinishFails PROVE IInv'
    OBVIOUS
  <1> USE StreamAssumption DEF IInv, FinishFails, AfterCtl, WrkWaits,
                               queueVars, sessionVars, clientVars
  <1>1. TypeOK'
    BY DEF TypeOK, ControllerSteps
  <1>2. LockExact'
    BY DEF TypeOK, LockExact
  <1>3. ItemExact'
    BY DEF ItemExact
  <1>4. SessionExact'
    BY DEF SessionExact
  <1>5. CountExact'
    BY DEF CountExact, Adding, InHand
  <1>6. ShownExact'
    BY DEF ShownExact
  <1> QED
    BY <1>1, <1>2, <1>3, <1>4, <1>5, <1>6 DEF IInv

\* The final result is sent with the session closed.
LEMMA SendFinalIInv == IInv /\ SendFinal => IInv'
  <1> SUFFICES ASSUME IInv, SendFinal PROVE IInv'
    OBVIOUS
  <1> USE StreamAssumption DEF IInv, SendFinal, queueVars, sessionVars,
                               clientVars
  <1>1. TypeOK'
    BY DEF TypeOK, ControllerSteps
  <1>2. LockExact'
    BY DEF LockExact
  <1>3. ItemExact'
    BY DEF ItemExact
  <1>4. SessionExact'
    BY DEF SessionExact
  <1>5. CountExact'
    BY DEF CountExact, Adding, InHand
  <1>6. ShownExact'
    BY DEF ShownExact
  <1> QED
    BY <1>1, <1>2, <1>3, <1>4, <1>5, <1>6 DEF IInv

\* The "stopped" event ends what the client may see of the session.
LEMMA SendStoppedIInv == IInv /\ SendStopped => IInv'
  <1> SUFFICES ASSUME IInv, SendStopped PROVE IInv'
    OBVIOUS
  <1> USE StreamAssumption DEF IInv, SendStopped, queueVars, sessionVars,
                               clientVars
  <1>1. TypeOK'
    BY DEF TypeOK, ControllerSteps
  <1>2. LockExact'
    BY DEF LockExact
  <1>3. ItemExact'
    BY DEF ItemExact
  <1>4. SessionExact'
    BY DEF SessionExact
  <1>5. CountExact'
    BY DEF CountExact, Adding, InHand
  <1>6. ShownExact'
    BY DEF SessionExact, ShownExact
  <1> QED
    BY <1>1, <1>2, <1>3, <1>4, <1>5, <1>6 DEF IInv

\* A notice changes nothing but the controller.
LEMMA SendNoticeIInv == IInv /\ SendNotice => IInv'
  <1> SUFFICES ASSUME IInv, SendNotice PROVE IInv'
    OBVIOUS
  <1> USE StreamAssumption DEF IInv, SendNotice, queueVars, sessionVars,
                               clientVars
  <1>1. TypeOK'
    BY DEF TypeOK, ControllerSteps
  <1>2. LockExact'
    BY DEF LockExact
  <1>3. ItemExact'
    BY DEF ItemExact
  <1>4. SessionExact'
    BY DEF SessionExact
  <1>5. CountExact'
    BY DEF CountExact, Adding, InHand
  <1>6. ShownExact'
    BY DEF ShownExact
  <1> QED
    BY <1>1, <1>2, <1>3, <1>4, <1>5, <1>6 DEF IInv

\* A controller that cannot send only goes on to close.
LEMMA ControllerLeavesIInv == IInv /\ ControllerLeaves => IInv'
  <1> SUFFICES ASSUME IInv, ControllerLeaves PROVE IInv'
    OBVIOUS
  <1> USE StreamAssumption DEF IInv, ControllerLeaves, SendMayFail, queueVars,
                               sessionVars, clientVars
  <1>1. TypeOK'
    BY DEF TypeOK, ControllerSteps
  <1>2. LockExact'
    BY DEF LockExact
  <1>3. ItemExact'
    BY DEF ItemExact
  <1>4. SessionExact'
    BY DEF SessionExact
  <1>5. CountExact'
    BY DEF CountExact, Adding, InHand
  <1>6. ShownExact'
    BY DEF ShownExact
  <1> QED
    BY <1>1, <1>2, <1>3, <1>4, <1>5, <1>6 DEF IInv

\* Cancelling the worker gives back its lock and its chunk.
LEMMA CloseIInv == IInv /\ Close => IInv'
  <1> SUFFICES ASSUME IInv, Close PROVE IInv'
    OBVIOUS
  <1> USE StreamAssumption DEF IInv, Close, queueVars, sessionVars, clientVars
  <1>1. TypeOK'
    BY DEF TypeOK, ItemExact, SessionExact, ControllerSteps, WorkerSteps
  <1>2. LockExact'
    BY DEF LockExact
  <1>3. ItemExact'
    BY DEF ItemExact
  <1>4. SessionExact'
    BY DEF TypeOK, SessionExact
  <1>5. CountExact'
    BY DEF TypeOK, CountExact, Adding, InHand
  <1>6. ShownExact'
    BY DEF ShownExact
  <1> QED
    BY <1>1, <1>2, <1>3, <1>4, <1>5, <1>6 DEF IInv

\* What get() takes is of the session, for START drains the queue.
LEMMA TakeChunkIInv == IInv /\ TakeChunk => IInv'
  <1> SUFFICES ASSUME IInv, TakeChunk PROVE IInv'
    OBVIOUS
  <1> USE StreamAssumption DEF IInv, TakeChunk, queueVars, sessionVars,
                               clientVars
  <1>1. /\ Len(audioQueue') = Len(audioQueue) - 1
        /\ Len(audioQueue) \in Nat /\ Len(audioQueue) > 0
        /\ cpc # "closed" /\ unfinished # 0
    BY EmptySeq DEF TypeOK, ItemExact
  <1>2. item' = generation /\ active /\ generation = sessionGen
        /\ generation > 0 /\ generation <= MaxStarts
    <2>1. Head(audioQueue) = audioQueue[1] /\ 1 \in 1..Len(audioQueue)
      BY <1>1 DEF TypeOK
    <2>2. cpc # "startLock"
      BY DEF SessionExact
    <2> QED
      BY <1>1, <2>1, <2>2 DEF TypeOK, SessionExact
  <1>3. lock = "none" /\ cpc \notin {"startLock", "sendStarted", "finishing"}
    BY <1>1 DEF TypeOK, LockExact, ItemExact, SessionExact
  <1>4. TypeOK'
    BY <1>1, <1>2 DEF TypeOK, WorkerSteps
  <1>5. LockExact'
    BY <1>3 DEF LockExact
  <1>6. ItemExact'
    BY <1>1, <1>2 DEF TypeOK, ItemExact
  <1>7. SessionExact'
    <2>1. \A i \in 1..Len(audioQueue') : audioQueue'[i] = audioQueue[i + 1]
                                         /\ i + 1 \in 1..Len(audioQueue)
      BY <1>1 DEF TypeOK
    <2> QED
      BY <1>1, <1>2, <1>3, <2>1 DEF SessionExact
  <1>8. CountExact'
    <2>1. Adding = 0 /\ Adding' = 1
      BY <1>2 DEF Adding, InHand
    <2>2. /\ handled \in Nat /\ accepted \in Nat /\ chunks \in Nat
          /\ handled + Len(audioQueue) = accepted /\ accepted <= chunks
      BY <1>1, <1>3, <2>1 DEF TypeOK, CountExact
    <2> QED
      BY ONLY <1>1, <1>3, <2>1, <2>2,
              UNCHANGED <<cpc, handled, accepted, chunks>> DEF CountExact
  <1>9. ShownExact'
    BY <1>1, <1>2 DEF ItemExact, ShownExact
  <1> QED
    BY <1>4, <1>5, <1>6, <1>7, <1>8, <1>9 DEF IInv

\* The chunk the worker resumes with is added when no START came in between.
LEMMA ProcessAudioIInv == IInv /\ ProcessAudio => IInv'
  <1> SUFFICES ASSUME IInv, ProcessAudio PROVE IInv'
    OBVIOUS
  <1> USE StreamAssumption DEF IInv, ProcessAudio, Current, DoneWith, queueVars,
                               sessionVars, clientVars
  <1>1. TypeOK'
    BY DEF TypeOK, ItemExact, WorkerSteps
  <1>2. LockExact'
    BY DEF LockExact
  <1>3. ItemExact'
    BY DEF TypeOK, ItemExact
  <1>4. SessionExact'
    BY DEF TypeOK, ItemExact, LockExact, SessionExact
  <1>5. CountExact'
    BY DEF SessionExact, CountExact, Adding, InHand
  <1>6. ShownExact'
    BY DEF ItemExact, ShownExact
  <1> QED
    BY <1>1, <1>2, <1>3, <1>4, <1>5, <1>6 DEF IInv

\* The added chunk moves from being added to handled.
LEMMA AddedIInv == IInv /\ Added => IInv'
  <1> SUFFICES ASSUME IInv, Added PROVE IInv'
    OBVIOUS
  <1> USE StreamAssumption DEF IInv, Added, ToSend, NothingToSend, DoneWith,
                               AfterWrk, CtlWaits, queueVars, sessionVars,
                               clientVars
  <1>1. TypeOK'
    BY DEF TypeOK, ItemExact, CountExact, WorkerSteps, Adding, InHand
  <1>2. LockExact'
    BY DEF TypeOK, LockExact
  <1>3. ItemExact'
    BY DEF ItemExact
  <1>4. SessionExact'
    BY DEF TypeOK, SessionExact
  <1>5. CountExact'
    BY DEF CountExact, Adding, InHand, ControllerSteps
  <1>6. ShownExact'
    BY DEF ItemExact, ShownExact
  <1> QED
    BY <1>1, <1>2, <1>3, <1>4, <1>5, <1>6 DEF IInv

\* The decoded partial is sent, or the chunk is done.
LEMMA PartialDecodedIInv == IInv /\ PartialDecoded => IInv'
  <1> SUFFICES ASSUME IInv, PartialDecoded PROVE IInv'
    OBVIOUS
  <1> USE StreamAssumption DEF IInv, PartialDecoded, ToSend, NothingToSend,
                               DoneWith, AfterWrk, CtlWaits, queueVars,
                               sessionVars, clientVars
  <1>1. TypeOK'
    BY DEF TypeOK, ItemExact, WorkerSteps
  <1>2. LockExact'
    BY DEF TypeOK, LockExact
  <1>3. ItemExact'
    BY DEF ItemExact
  <1>4. SessionExact'
    BY DEF TypeOK, SessionExact
  <1>5. CountExact'
    BY DEF CountExact, Adding, InHand
  <1>6. ShownExact'
    BY DEF ItemExact, ShownExact
  <1> QED
    BY <1>1, <1>2, <1>3, <1>4, <1>5, <1>6 DEF IInv

\* A decoder that raises gives the lock back and keeps its chunk.
LEMMA DecodeFailsIInv == IInv /\ DecodeFails => IInv'
  <1> SUFFICES ASSUME IInv, DecodeFails PROVE IInv'
    OBVIOUS
  <1> USE StreamAssumption DEF IInv, DecodeFails, AfterWrk, CtlWaits,
                               queueVars, sessionVars, clientVars
  <1>1. TypeOK'
    BY DEF TypeOK, CountExact, WorkerSteps, Adding, InHand
  <1>2. LockExact'
    BY DEF TypeOK, LockExact
  <1>3. ItemExact'
    BY DEF ItemExact
  <1>4. SessionExact'
    BY DEF SessionExact
  <1>5. CountExact'
    BY DEF CountExact, Adding, InHand
  <1>6. ShownExact'
    BY DEF ShownExact
  <1> QED
    BY <1>1, <1>2, <1>3, <1>4, <1>5, <1>6 DEF IInv

\* Behind a START the chunk is of an older generation and is not sent.
LEMMA SendGrantedIInv == IInv /\ SendGranted => IInv'
  <1> SUFFICES ASSUME IInv, SendGranted PROVE IInv'
    OBVIOUS
  <1> USE StreamAssumption DEF IInv, SendGranted, NothingToSend, DoneWith,
                               AfterWrk, CtlWaits, queueVars, sessionVars,
                               clientVars
  <1>1. TypeOK'
    BY DEF TypeOK, ItemExact, WorkerSteps
  <1>2. LockExact'
    BY DEF LockExact
  <1>3. ItemExact'
    BY DEF ItemExact
  <1>4. SessionExact'
    BY DEF TypeOK, SessionExact
  <1>5. CountExact'
    BY DEF CountExact, Adding, InHand
  <1>6. ShownExact'
    BY DEF ItemExact, ShownExact
  <1> QED
    BY <1>1, <1>2, <1>3, <1>4, <1>5, <1>6 DEF IInv

\* A result is sent under the lock, hence in its own session.
LEMMA ResultSentIInv == IInv /\ ResultSent => IInv'
  <1> SUFFICES ASSUME IInv, ResultSent PROVE IInv'
    OBVIOUS
  <1> USE StreamAssumption DEF IInv, ResultSent, NothingToSend, DoneWith,
                               AfterWrk, CtlWaits, queueVars, sessionVars,
                               clientVars
  <1>1. TypeOK'
    BY DEF TypeOK, ItemExact, WorkerSteps
  <1>2. LockExact'
    BY DEF TypeOK, LockExact
  <1>3. ItemExact'
    BY DEF ItemExact
  <1>4. SessionExact'
    BY DEF TypeOK, SessionExact
  <1>5. CountExact'
    BY DEF CountExact, Adding, InHand
  <1>6. ShownExact'
    BY DEF ShownExact
  <1> QED
    BY <1>1, <1>2, <1>3, <1>4, <1>5, <1>6 DEF IInv

\* A result that cannot be sent leaves what the client has seen.
LEMMA ResultFailsIInv == IInv /\ ResultFails => IInv'
  <1> SUFFICES ASSUME IInv, ResultFails PROVE IInv'
    OBVIOUS
  <1> USE StreamAssumption DEF IInv, ResultFails, SendMayFail, AfterWrk,
                               CtlWaits, queueVars, sessionVars, clientVars
  <1>1. TypeOK'
    BY DEF TypeOK, WorkerSteps
  <1>2. LockExact'
    BY DEF TypeOK, LockExact
  <1>3. ItemExact'
    BY DEF ItemExact
  <1>4. SessionExact'
    BY DEF SessionExact
  <1>5. CountExact'
    BY DEF CountExact, Adding, InHand
  <1>6. ShownExact'
    BY DEF ShownExact
  <1> QED
    BY <1>1, <1>2, <1>3, <1>4, <1>5, <1>6 DEF IInv

\* After its error the chunk counts as done.
LEMMA ErrorSentIInv == IInv /\ ErrorSent => IInv'
  <1> SUFFICES ASSUME IInv, ErrorSent PROVE IInv'
    OBVIOUS
  <1> USE StreamAssumption DEF IInv, ErrorSent, DoneWith, queueVars,
                               sessionVars, clientVars
  <1>1. TypeOK'
    BY DEF TypeOK, ItemExact, WorkerSteps
  <1>2. LockExact'
    BY DEF LockExact
  <1>3. ItemExact'
    BY DEF ItemExact
  <1>4. SessionExact'
    BY DEF TypeOK, SessionExact
  <1>5. CountExact'
    BY DEF CountExact, Adding, InHand
  <1>6. ShownExact'
    BY DEF ShownExact
  <1> QED
    BY <1>1, <1>2, <1>3, <1>4, <1>5, <1>6 DEF IInv

\* The chunk counts as done although its error was not sent.
LEMMA ErrorFailsIInv == IInv /\ ErrorFails => IInv'
  <1> SUFFICES ASSUME IInv, ErrorFails PROVE IInv'
    OBVIOUS
  <1> USE StreamAssumption DEF IInv, ErrorFails, SendMayFail, DoneWith,
                               queueVars, sessionVars, clientVars
  <1>1. TypeOK'
    BY DEF TypeOK, ItemExact, WorkerSteps
  <1>2. LockExact'
    BY DEF LockExact
  <1>3. ItemExact'
    BY DEF ItemExact
  <1>4. SessionExact'
    BY DEF TypeOK, SessionExact
  <1>5. CountExact'
    BY DEF CountExact, Adding, InHand
  <1>6. ShownExact'
    BY DEF ShownExact
  <1> QED
    BY <1>1, <1>2, <1>3, <1>4, <1>5, <1>6 DEF IInv

\* That the client has gone changes nothing of the server.
LEMMA PeerLeavesIInv == IInv /\ PeerLeaves => IInv'
  <1> SUFFICES ASSUME IInv, PeerLeaves PROVE IInv'
    OBVIOUS
  <1> USE StreamAssumption DEF IInv, PeerLeaves, queueVars, sessionVars,
                               clientVars
  <1>1. TypeOK'
    BY DEF TypeOK
  <1>2. LockExact'
    BY DEF LockExact
  <1>3. ItemExact'
    BY DEF ItemExact
  <1>4. SessionExact'
    BY DEF SessionExact
  <1>5. CountExact'
    BY DEF CountExact, Adding, InHand
  <1>6. ShownExact'
    BY DEF ShownExact
  <1> QED
    BY <1>1, <1>2, <1>3, <1>4, <1>5, <1>6 DEF IInv

\* The inductive invariant of the stream.
THEOREM StreamInvariant == Spec => []IInv
  <1>1. Init => IInv
    <2> SUFFICES ASSUME Init PROVE IInv
      OBVIOUS
    <2> USE StreamAssumption DEF Init
    <2>1. audioQueue \in Seq(1 .. MaxStarts) /\ Len(audioQueue) = 0
      OBVIOUS
    <2>2. TypeOK
      <3>1. /\ generation \in 0 .. MaxStarts + 1 /\ item \in 0 .. MaxStarts
            /\ sessionGen \in 0 .. MaxStarts /\ shown \in 0 .. MaxStarts
            /\ accepted \in 0 .. MaxChunks /\ handled \in 0 .. MaxChunks
            /\ chunks \in 0 .. MaxChunks /\ unfinished \in Nat
        OBVIOUS
      <3>2. Len(audioQueue) <= QueueMax
        BY <2>1
      <3>3. active \in BOOLEAN
        OBVIOUS
      <3> QED
        BY <2>1, <3>1, <3>2, <3>3 DEF TypeOK, ControllerSteps, WorkerSteps
    <2>3. LockExact /\ ItemExact /\ SessionExact
      BY <2>1 DEF LockExact, ItemExact, SessionExact
    <2>4. CountExact /\ ShownExact
      BY <2>1 DEF CountExact, Adding, InHand, ShownExact
    <2> QED
      BY <2>2, <2>3, <2>4 DEF IInv
  <1>2. IInv /\ [Next]_vars => IInv'
    <2> SUFFICES ASSUME IInv, [Next]_vars PROVE IInv'
      OBVIOUS
    <2>1. CASE StartSession \/ StopSession \/ EnqueueAudio \/ PeerLeaves
      BY <2>1, StartSessionIInv, StopSessionIInv, EnqueueAudioIInv,
         PeerLeavesIInv
    <2>2. CASE Controller
      BY <2>2, StartGrantedIInv, SendStartedIInv, JoinedIInv, FinishedIInv,
         FinishFailsIInv, SendFinalIInv, SendStoppedIInv, SendNoticeIInv,
         ControllerLeavesIInv, CloseIInv
         DEF Controller
    <2>3. CASE Worker
      BY <2>3, TakeChunkIInv, ProcessAudioIInv, AddedIInv, PartialDecodedIInv,
         DecodeFailsIInv, SendGrantedIInv, ResultSentIInv, ResultFailsIInv,
         ErrorSentIInv, ErrorFailsIInv
         DEF Worker
    <2>4. CASE UNCHANGED vars
      BY <2>4 DEF IInv, TypeOK, LockExact, ItemExact, SessionExact, CountExact,
                  ShownExact, Adding, InHand, vars, queueVars, sessionVars,
                  clientVars
    <2> QED
      BY <2>1, <2>2, <2>3, <2>4 DEF Next
  <1> QED
    BY <1>1, <1>2, PTL DEF Spec

\* Type correctness of the stream.
THEOREM StreamTypeCorrect == Spec => []TypeOK
  <1>1. IInv => TypeOK
    BY DEF IInv
  <1> QED
    BY <1>1, StreamInvariant, PTL

\* join() counts exactly, and neither the worker that resumes with a chunk nor a
\* STOP whose join() returned ever waits for the lock.
THEOREM JoinCountsExactly == Spec => []JoinExact
  <1>1. IInv => JoinExact
    <2> SUFFICES ASSUME IInv PROVE JoinExact
      OBVIOUS
    <2>1. Len(audioQueue) \in Nat
      BY DEF IInv, TypeOK
    <2>2. wpc = "took" => lock = "none"
      BY DEF IInv, TypeOK, LockExact
    <2>3. cpc = "join" /\ unfinished = 0 => lock = "none"
      BY <2>1 DEF IInv, TypeOK, LockExact, ItemExact
    <2> QED
      BY <2>2, <2>3 DEF JoinExact, IInv, ItemExact
  <1> QED
    BY <1>1, StreamInvariant, PTL

\* The session decodes audio of its own generation only, also when START comes
\* between the dequeue of a chunk and the worker's use of it.
THEOREM AudioStaysInItsSession == Spec => []AudioInItsSession
  <1>1. IInv => AudioInItsSession
    BY DEF IInv, SessionExact, AudioInItsSession
  <1> QED
    BY <1>1, StreamInvariant, PTL

\* Results are sent between the "started" event and the final result of their
\* own session.
THEOREM ResultStaysInItsSession == Spec => []ResultInItsSession
  <1>1. IInv => ResultInItsSession
    BY DEF IInv, ItemExact, ShownExact, ResultInItsSession
  <1> QED
    BY <1>1, StreamInvariant, PTL

\* finish() runs when every accepted chunk of the session was handled.
THEOREM FinalIsComplete == Spec => []FinalCoversAccepted
  <1>1. IInv => FinalCoversAccepted
    BY EmptySeq DEF IInv, TypeOK, ItemExact, SessionExact, CountExact, Adding,
                    InHand, FinalCoversAccepted
  <1> QED
    BY <1>1, StreamInvariant, PTL
=============================================================================
