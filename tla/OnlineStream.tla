---------------------------- MODULE OnlineStream ----------------------------
(***************************************************************************)
(* One ONLINE recognition stream: the controller that reads the WebSocket  *)
(* (application/online_stream.py) and the recognition worker, with the     *)
(* bounded audio queue, the session lock and the generation counter they   *)
(* share (application/online_stream_runtime.py).                           *)
(*                                                                         *)
(* The recognition session is seen from outside: it holds the audio of one *)
(* generation, and its calls may fail or return a result.  asyncio.Lock    *)
(* hands itself to a waiter, so with two contenders a release passes it on.*)
(***************************************************************************)
EXTENDS Naturals, Sequences

CONSTANTS
    QueueMax,       \* queue_max_chunks
    DecodeMayFail,  \* session calls may raise
    PeerMayLeave,   \* the client may vanish; sends to it may then raise
    MaxStarts,      \* bound: START commands of the client
    MaxChunks       \* bound: audio messages of the client

ASSUME StreamAssumption ==
    /\ QueueMax \in Nat \ {0}
    /\ DecodeMayFail \in BOOLEAN /\ PeerMayLeave \in BOOLEAN
    /\ MaxStarts \in Nat /\ MaxChunks \in Nat

VARIABLES
    generation, \* _generation
    audioQueue, \* audio_queue: the generation of every chunk
    unfinished, \* what audio_queue.join() waits to become 0
    lock,       \* _session_lock: "none", or who holds it
    active,     \* session.is_active
    cpc,        \* where the controller is
    wpc,        \* where the worker is
    item,       \* generation of the chunk taken for the worker, 0 for none
    peer,       \* "up", or "gone" once the client vanished
    sessionGen, \* the generation the session was last reset for
    accepted,   \* chunks put into the queue since the last START
    handled,    \* chunks add_audio was done with since the session's reset
    shown,      \* the session the client sees open, 0 for none
    chunks      \* audio messages received

queueVars == <<audioQueue, unfinished>>
sessionVars == <<active, sessionGen, handled>>
clientVars == <<peer, shown, chunks>>
vars == <<generation, queueVars, lock, sessionVars, accepted, cpc, wpc, item,
          clientVars>>

Init ==
    /\ generation = 0
    /\ audioQueue = <<>> /\ unfinished = 0
    /\ lock = "none"
    /\ active = FALSE /\ sessionGen = 0 /\ accepted = 0 /\ handled = 0
    /\ cpc = "receive" /\ wpc = "get" /\ item = 0
    /\ peer = "up" /\ shown = 0 /\ chunks = 0

----------------------------------------------------------------------------
\* The session lock, between the controller "ctl" and the worker "wrk".  Only
\* START and the second lock of the worker, before it sends, ever wait for it:
\* JoinExact says so of STOP and of the first lock of the worker.

CtlWaits == cpc = "startLock"
WrkWaits == wpc = "sendLock"

\* What a release by the controller, or the worker, leaves of the lock.
AfterCtl == IF WrkWaits THEN "wrk" ELSE "none"
AfterWrk == IF CtlWaits THEN "ctl" ELSE "none"

\* A send to a vanished client may raise or be lost without notice.
SendMayFail == peer = "gone"

----------------------------------------------------------------------------
\* The controller.  What the client sent before it vanished is still read.

\* session.reset and is_active, under the lock.
ResetFor(g) ==
    /\ active' = TRUE
    /\ sessionGen' = g
    /\ handled' = 0

\* _drain_audio_queue
DrainQueue ==
    /\ audioQueue' = <<>>
    /\ unfinished' = unfinished - Len(audioQueue)

\* START enters the lock, or waits for it.
ResetOrWait(g) ==
    \/ /\ lock = "none"
       /\ ResetFor(g)
       /\ cpc' = "sendStarted"
    \/ /\ lock # "none"
       /\ cpc' = "startLock"
       /\ UNCHANGED sessionVars

\* START: a new generation, the queue drained, then the lock.
StartSession ==
    /\ cpc = "receive"
    /\ generation < MaxStarts
    /\ generation' = generation + 1
    /\ DrainQueue
    /\ accepted' = 0
    /\ ResetOrWait(generation')
    /\ UNCHANGED <<lock, wpc, item, clientVars>>

StartGranted ==
    /\ cpc = "startLock" /\ lock = "ctl"
    /\ ResetFor(generation)
    /\ cpc' = "sendStarted"
    /\ lock' = AfterCtl
    /\ UNCHANGED <<generation, queueVars, accepted, wpc, item, clientVars>>

SendStarted ==
    /\ cpc = "sendStarted"
    /\ cpc' = "receive"
    /\ shown' = generation
    /\ UNCHANGED <<generation, queueVars, lock, sessionVars, accepted, wpc,
                   item, peer, chunks>>

\* STOP: wait until every queued chunk is done with.
StopSession ==
    /\ cpc = "receive"
    /\ cpc' = "join"
    /\ UNCHANGED <<generation, queueVars, lock, sessionVars, accepted, wpc,
                   item, clientVars>>

\* Mutant: STOP does not wait for the queue.
FinishAtOnce ==
    /\ cpc = "join"
    /\ lock = "none"
    /\ lock' = IF active THEN "ctl" ELSE "none"
    /\ cpc' = IF active THEN "finishing" ELSE "sendStopped"
    /\ UNCHANGED <<generation, queueVars, sessionVars, accepted, wpc, item,
                   clientVars>>

\* join() returned: under the lock, an active session is finished.
Joined ==
    /\ cpc = "join"
    /\ unfinished = 0
    /\ lock = "none"
    /\ lock' = IF active THEN "ctl" ELSE "none"
    /\ cpc' = IF active THEN "finishing" ELSE "sendStopped"
    /\ UNCHANGED <<generation, queueVars, sessionVars, accepted, wpc, item,
                   clientVars>>

\* session.finish returned; there is a final result or none.
Finished ==
    /\ cpc = "finishing"
    /\ active' = FALSE
    /\ cpc' \in {"sendFinal", "sendStopped"}
    /\ lock' = AfterCtl
    /\ UNCHANGED <<generation, queueVars, sessionGen, handled, accepted, wpc,
                   item, clientVars>>

FinishFails ==
    /\ cpc = "finishing"
    /\ DecodeMayFail
    /\ cpc' = "close"
    /\ lock' = AfterCtl
    /\ UNCHANGED <<generation, queueVars, sessionVars, accepted, wpc, item,
                   clientVars>>

SendFinal ==
    /\ cpc = "sendFinal"
    /\ cpc' = "sendStopped"
    /\ UNCHANGED <<generation, queueVars, lock, sessionVars, accepted, wpc,
                   item, clientVars>>

SendStopped ==
    /\ cpc = "sendStopped"
    /\ cpc' = "receive"
    /\ shown' = 0
    /\ UNCHANGED <<generation, queueVars, lock, sessionVars, accepted, wpc,
                   item, peer, chunks>>

\* enqueue_audio: a chunk for the queue; a full queue drops it.  A notice for
\* an inactive session, or of backpressure unless one was just sent, follows.
EnqueueAudio ==
    /\ cpc = "receive"
    /\ chunks < MaxChunks
    /\ chunks' = chunks + 1
    /\ \/ /\ active /\ Len(audioQueue) < QueueMax
          /\ audioQueue' = Append(audioQueue, generation)
          /\ unfinished' = unfinished + 1
          /\ accepted' = accepted + 1
          /\ UNCHANGED cpc
       \/ /\ ~active
          /\ cpc' = "sendNotice"
          /\ UNCHANGED <<queueVars, accepted>>
       \/ /\ active /\ Len(audioQueue) = QueueMax
          /\ cpc' \in {"sendNotice", "receive"}
          /\ UNCHANGED <<queueVars, accepted>>
    /\ UNCHANGED <<generation, lock, sessionVars, wpc, item, peer, shown>>

SendNotice ==
    /\ cpc = "sendNotice"
    /\ cpc' = "receive"
    /\ UNCHANGED <<generation, queueVars, lock, sessionVars, accepted, wpc,
                   item, clientVars>>

\* A send of the controller raises, or receive() reports the disconnect.
ControllerLeaves ==
    /\ SendMayFail
    /\ cpc \in {"receive", "sendStarted", "sendFinal", "sendStopped", "sendNotice"}
    /\ cpc' = "close"
    /\ UNCHANGED <<generation, queueVars, lock, sessionVars, accepted, wpc,
                   item, clientVars>>

\* Mutant: close() counts a chunk as done with even if there is none.
CloseCountsAlways ==
    /\ cpc = "close"
    /\ cpc' = "closed"
    /\ generation' = generation + 1
    /\ wpc' = "dead"
    /\ item' = 0
    /\ unfinished' = unfinished - 1
    /\ lock' = "none"
    /\ UNCHANGED <<audioQueue, sessionVars, accepted, clientVars>>

\* close(): a worker that is not dead is cancelled wherever it waits, leaves
\* the lock and is done with its chunk.  One that was just given a chunk keeps
\* it: wait_for swallows the cancel, the new generation drops the chunk, and the
\* stop flag ends the loop, with nobody else to act in between.
Close ==
    /\ cpc = "close"
    /\ cpc' = "closed"
    /\ generation' = generation + 1
    /\ wpc' = "dead"
    /\ item' = 0
    /\ unfinished' = IF item = 0 THEN unfinished ELSE unfinished - 1
    /\ lock' = "none"
    /\ UNCHANGED <<audioQueue, sessionVars, accepted, clientVars>>

Controller ==
    \/ StartGranted \/ SendStarted
    \/ Joined \/ Finished \/ FinishFails
    \/ SendFinal \/ SendStopped \/ SendNotice
    \/ ControllerLeaves \/ Close

----------------------------------------------------------------------------
\* The worker.

\* Mutant: task_done is not called when the error event raised.
DoneUnlessDead(next) ==
    /\ unfinished' = IF next = "dead" THEN unfinished ELSE unfinished - 1
    /\ item' = 0
    /\ wpc' = next

\* task_done, and back to get() or, after a failed error event, dead.
DoneWith(next) ==
    /\ unfinished' = unfinished - 1
    /\ item' = 0
    /\ wpc' = next

\* Mutant: _process_audio does not check the generation.
CurrentUnchecked(g) == active

\* _process_audio: only the audio of the current, active session is added.
Current(g) == g = generation /\ active

\* get() takes a chunk, in the task wait_for runs it in; the worker resumes
\* later, also when the timeout of wait_for passes in between.
TakeChunk ==
    /\ wpc = "get" /\ audioQueue # <<>>
    /\ audioQueue' = Tail(audioQueue)
    /\ item' = Head(audioQueue)
    /\ wpc' = "took"
    /\ UNCHANGED <<generation, unfinished, lock, sessionVars, accepted, cpc,
                   clientVars>>

\* The worker resumes with the chunk, which START may have made stale.
ProcessAudio ==
    /\ wpc = "took"
    /\ lock = "none"
    /\ \/ /\ Current(item)
          /\ wpc' = "adding"
          /\ lock' = "wrk"
          /\ UNCHANGED <<item, unfinished>>
       \/ /\ ~Current(item)
          /\ DoneWith("get")
          /\ UNCHANGED lock
    /\ UNCHANGED <<generation, audioQueue, sessionVars, accepted, cpc, clientVars>>

\* A result to send: _process_audio releases the lock and _send_if_current
\* takes it again, behind a START that waits for it.
ToSend ==
    /\ \/ CtlWaits /\ wpc' = "sendLock" /\ lock' = "ctl"
       \/ ~CtlWaits /\ item = generation /\ wpc' = "sending" /\ UNCHANGED lock
    /\ UNCHANGED <<item, unfinished>>

NothingToSend == DoneWith("get") /\ lock' = AfterWrk

\* add_audio returned: locked text to send, nothing, or a partial to decode;
\* nothing for a session that was replaced meanwhile.
Added ==
    /\ wpc = "adding"
    /\ handled' = handled + 1
    /\ \/ item # generation /\ NothingToSend
       \/ /\ item = generation
          /\ \/ ToSend \/ NothingToSend
             \/ wpc' = "partial" /\ UNCHANGED <<item, unfinished, lock>>
    /\ UNCHANGED <<generation, audioQueue, active, sessionGen, accepted, cpc,
                   clientVars>>

PartialDecoded ==
    /\ wpc = "partial"
    /\ ToSend \/ NothingToSend
    /\ UNCHANGED <<generation, audioQueue, sessionVars, accepted, cpc, clientVars>>

\* Mutant: an exception leaves the session lock taken.
DecodeFailsLocked ==
    /\ DecodeMayFail
    /\ wpc \in {"adding", "partial"}
    /\ handled' = IF wpc = "adding" THEN handled + 1 ELSE handled
    /\ wpc' = "sendError"
    /\ UNCHANGED <<generation, queueVars, lock, active, sessionGen, accepted,
                   cpc, item, clientVars>>

DecodeFails ==
    /\ DecodeMayFail
    /\ wpc \in {"adding", "partial"}
    /\ handled' = IF wpc = "adding" THEN handled + 1 ELSE handled
    /\ wpc' = "sendError"
    /\ lock' = AfterWrk
    /\ UNCHANGED <<generation, queueVars, active, sessionGen, accepted, cpc,
                   item, clientVars>>

\* Mutant: the result is sent whatever the generation.
SendGrantedUnchecked ==
    /\ wpc = "sendLock" /\ lock = "wrk"
    /\ wpc' = "sending"
    /\ UNCHANGED <<generation, queueVars, lock, sessionVars, accepted, cpc,
                   item, clientVars>>

\* _send_if_current once it holds the lock.
SendGranted ==
    /\ wpc = "sendLock" /\ lock = "wrk"
    /\ \/ /\ item = generation
          /\ wpc' = "sending"
          /\ UNCHANGED <<item, unfinished, lock>>
       \/ /\ item # generation
          /\ NothingToSend
    /\ UNCHANGED <<generation, audioQueue, sessionVars, accepted, cpc, clientVars>>

ResultSent ==
    /\ wpc = "sending"
    /\ NothingToSend
    /\ UNCHANGED <<generation, audioQueue, sessionVars, accepted, cpc, clientVars>>

ResultFails ==
    /\ wpc = "sending" /\ SendMayFail
    /\ wpc' = "sendError"
    /\ lock' = AfterWrk
    /\ UNCHANGED <<generation, queueVars, sessionVars, accepted, cpc, item,
                   clientVars>>

\* Mutant: the worker ends after an error it could report.
ErrorSentEnds ==
    /\ wpc = "sendError"
    /\ DoneWith("dead")
    /\ UNCHANGED <<generation, audioQueue, lock, sessionVars, accepted, cpc,
                   clientVars>>

ErrorSent ==
    /\ wpc = "sendError"
    /\ DoneWith("get")
    /\ UNCHANGED <<generation, audioQueue, lock, sessionVars, accepted, cpc,
                   clientVars>>

\* The error event raises too, inside the handler: the worker task ends.
ErrorFails ==
    /\ wpc = "sendError" /\ SendMayFail
    /\ DoneWith("dead")
    /\ UNCHANGED <<generation, audioQueue, lock, sessionVars, accepted, cpc,
                   clientVars>>

Worker ==
    \/ TakeChunk \/ ProcessAudio
    \/ Added \/ PartialDecoded \/ DecodeFails
    \/ SendGranted \/ ResultSent \/ ResultFails \/ ErrorSent \/ ErrorFails

----------------------------------------------------------------------------
PeerLeaves ==
    /\ PeerMayLeave
    /\ peer = "up"
    /\ peer' = "gone"
    /\ UNCHANGED <<generation, queueVars, lock, sessionVars, accepted, cpc,
                   wpc, item, shown, chunks>>

Next ==
    \/ StartSession \/ StopSession \/ EnqueueAudio
    \/ Controller
    \/ Worker
    \/ PeerLeaves

Spec == Init /\ [][Next]_vars

\* The loop runs ready coroutines in turn, and session calls and sends return;
\* nothing makes the client send.
FairSpec == Spec /\ WF_vars(Controller) /\ WF_vars(Worker)

----------------------------------------------------------------------------
ControllerSteps ==
    {"receive", "startLock", "sendStarted", "join", "finishing", "sendFinal",
     "sendStopped", "sendNotice", "close", "closed"}

WorkerSteps ==
    {"get", "took", "adding", "partial", "sendLock", "sending", "sendError", "dead"}

\* Types of the variables.
TypeOK ==
    /\ generation \in 0 .. MaxStarts + 1
    /\ audioQueue \in Seq(1 .. MaxStarts) /\ Len(audioQueue) <= QueueMax
    /\ unfinished \in Nat
    /\ lock \in {"none", "ctl", "wrk"}
    /\ active \in BOOLEAN
    /\ cpc \in ControllerSteps /\ wpc \in WorkerSteps
    /\ item \in 0 .. MaxStarts
    /\ peer \in {"up", "gone"}
    /\ sessionGen \in 0 .. MaxStarts /\ shown \in 0 .. MaxStarts
    /\ accepted \in 0 .. MaxChunks /\ handled \in 0 .. MaxChunks
    /\ chunks \in 0 .. MaxChunks

\* join() counts exactly the chunks still queued and the one being worked on,
\* also after START drained the queue under a worker that has a chunk, and after
\* an error event that could not be sent (online_stream_runtime.py:151, 194-200).
\* Whenever the worker resumes with a chunk, stale or not, it finds the lock
\* free, and so does STOP once its join() returned: neither ever waits there
\* behind the other or behind a START.
JoinExact ==
    /\ unfinished = Len(audioQueue) + (IF item = 0 THEN 0 ELSE 1)
    /\ wpc = "took" => lock = "none"
    /\ (cpc = "join" /\ unfinished = 0) => lock = "none"

\* Audio and decoding of one session never reach the state of another: START
\* resets the session only between two uses of it by the worker, and a chunk
\* that START made stale after it was dequeued, when draining the queue no
\* longer reaches it, is not added (online_stream_runtime.py:80-86, 155-161).
AudioInItsSession ==
    wpc \in {"adding", "partial"} => item = sessionGen /\ active

\* A recognition result is sent only within the session it belongs to: after
\* its "started" event and before its final result, never into a later session
\* (online_stream_runtime.py:173-177).
ResultInItsSession ==
    wpc = "sending" => item = shown /\ cpc \notin {"sendFinal", "sendStopped"}

\* The final result covers every chunk that was accepted in the session: STOP
\* finishes it only when the worker is done with all of them
\* (online_stream_runtime.py:91-97).
FinalCoversAccepted ==
    cpc = "finishing" => handled = accepted /\ sessionGen = generation

\* STOP ends: the client is told, or the connection is closed, also when the
\* client left meanwhile (README.md:382).
StopEnds == cpc = "join" ~> cpc \in {"receive", "closed"}

\* While the client is connected STOP ends, whatever the decoder does
\* (online_stream_runtime.py:91-107).
StopEndsConnected ==
    cpc = "join" ~> cpc \in {"receive", "closed"} \/ peer = "gone"

\* A chunk that was accepted is not left in the queue of a live connection: no
\* failure of the decoder stops the worker (online_stream_runtime.py:142-150).
QueueDrains ==
    (audioQueue # <<>> /\ peer = "up") ~> (audioQueue = <<>> \/ peer = "gone")

----------------------------------------------------------------------------
\* What makes the four safety properties inductive.

\* Who has the lock, and who is handed it while it waits.
LockExact ==
    /\ lock = "none" => /\ wpc \notin {"adding", "partial", "sendLock", "sending"}
                        /\ cpc \notin {"startLock", "finishing"}
    /\ lock = "ctl"  => /\ cpc \in {"startLock", "finishing"}
                        /\ wpc \notin {"took", "adding", "partial", "sending"}
                        /\ cpc = "finishing" => wpc # "sendLock"
    /\ lock = "wrk"  => /\ wpc \in {"adding", "partial", "sendLock", "sending"}
                        /\ cpc # "finishing"

\* The worker has a chunk between get() and task_done, and join() counts it.
ItemExact ==
    /\ item = 0 <=> wpc \in {"get", "dead"}
    /\ unfinished = Len(audioQueue) + (IF item = 0 THEN 0 ELSE 1)
    /\ cpc = "finishing" => unfinished = 0
    /\ cpc = "closed" => wpc = "dead"

\* Which generation the session, the queued chunks and the taken one are of.
\* Until "started" is sent the chunks of the generation are still to come.
SessionExact ==
    /\ generation = IF cpc \in {"startLock", "closed"} THEN sessionGen + 1 ELSE sessionGen
    /\ active => sessionGen > 0
    /\ cpc # "closed" => generation <= MaxStarts
    /\ item <= sessionGen
    /\ cpc = "sendStarted" => item < generation
    /\ wpc \in {"adding", "partial"} => item = sessionGen /\ active
    /\ wpc = "took" /\ item = generation => active
    /\ cpc \in {"startLock", "sendStarted"} => audioQueue = <<>>
    /\ cpc # "closed" =>
          /\ \A i \in 1..Len(audioQueue) : audioQueue[i] = generation
          /\ audioQueue # <<>> => active

\* Every accepted chunk of the session was handled, is in hand to be added or
\* waits.
InHand == wpc = "adding" \/ (wpc = "took" /\ item = generation)

Adding == IF InHand THEN 1 ELSE 0

CountExact ==
    /\ accepted <= chunks /\ handled + Adding <= chunks
    /\ IF cpc = "startLock" THEN accepted = 0
       ELSE cpc # "closed" => handled + Adding + Len(audioQueue) = accepted

\* The client has seen the session open whose chunks and results are under way.
ShownExact ==
    /\ cpc \in {"receive", "join", "sendNotice", "finishing"} /\ active => shown = generation
    /\ cpc \in {"sendFinal", "sendStopped"} => ~active /\ item = 0
    /\ item = generation /\ item # 0 => shown = generation
    /\ audioQueue # <<>> /\ cpc # "closed" => shown = generation
    /\ wpc = "sending" => item = shown /\ (cpc # "startLock" => item = generation)

IInv == TypeOK /\ LockExact /\ ItemExact /\ SessionExact /\ CountExact /\ ShownExact

=============================================================================
