----------------------------- MODULE TaskSystem -----------------------------
(***************************************************************************)
(* The life of an OFFLINE or SPK task from its upload to its end: the      *)
(* submission workflow (application/tasks.py), the queue, seen through the *)
(* contract of TaskExecution, the task services the workers run            *)
(* (application/offline.py, speaker.py, task_queue/result_hooks.py), the   *)
(* archiving of the audio (application/postprocess.py) and the database    *)
(* rows (database/daos), with faults of each store, the cancellation of    *)
(* workers at shutdown, and crashes of the process.                        *)
(*                                                                         *)
(* A step is the code between two awaits; a call made with to_thread is    *)
(* one step, at the moment its effect lands.                               *)
(***************************************************************************)
EXTENDS TaskExecution, Naturals, FiniteSets

CONSTANTS
    Offline,        \* tasks of kind "offline"; the others are of kind "spk"
    Vip,            \* tasks submitted with vip
    Content,        \* [Keys -> contents]: what the audio of a task contains
    Notified,       \* tasks with an email, while notifications are enabled
    Faults,         \* what may fail: subset of {"db", "archive", "text", "model"}
    QuickRestart,   \* the process may restart before rows become stale
    PendingLimit,   \* pending_limit of recover_and_enqueue_tasks
    MaxCrashes      \* bound: how often the process ends and is started again

ASSUME SystemAssumption ==
    /\ IsFiniteSet(Keys)
    /\ Offline \subseteq Keys /\ Vip \subseteq Keys /\ Notified \subseteq Keys
    /\ NoKey \notin Keys
    /\ DOMAIN Content = Keys
    /\ QuickRestart \in BOOLEAN
    /\ PendingLimit \in Nat /\ MaxCrashes \in Nat

VARIABLES
    status,     \* [Keys -> status column of the row, "none" before it exists]
    rowKey,     \* [Keys -> s3_key column: the task whose object it names]
    audio,      \* tasks whose temporary audio file exists
    text,       \* tasks whose data/results/offline/{task_id}.txt was written
    archive,    \* tasks under whose name an object was archived
    index,      \* file index: the archived task recorded for a hash
    announced,  \* tasks whose completion message was sent
    sub,        \* [Keys -> progress of the submission]
    origin,     \* [Keys -> source task of a rerecognition]
    pc,         \* [Workers -> next step of process_task]
    object,     \* [Workers -> object the running task is archived as]
    crashes

rows == <<status, rowKey>>
stores == <<audio, text, archive, index, announced>>
request == <<sub, origin>>
local == <<pc, object>>
systemVars ==
    <<contractVars, rows, stores, request, local, crashes>>

Finished == {"completed", "failed"}

\* The operation may fail in the configuration.
MayFail(what) == what \in Faults

Hash == {Content[k] : k \in Keys}

----------------------------------------------------------------------------
Init ==
    /\ ContractInit
    /\ status = [k \in Keys |-> "none"]
    /\ rowKey = [k \in Keys |-> NoKey]
    /\ audio = {} /\ text = {} /\ archive = {} /\ announced = {}
    /\ index = [h \in Hash |-> NoKey]
    /\ sub = [k \in Keys |-> "idle"]
    /\ origin = [k \in Keys |-> NoKey]
    /\ pc = [w \in Workers |-> "idle"]
    /\ object = [w \in Workers |-> NoKey]
    /\ crashes = 0

----------------------------------------------------------------------------
\* Submission (application/tasks.py).

\* submit_*: the scheduler accepts, the upload is saved.  A save that fails
\* leaves a partial file for the compensation.
SaveUpload(k) ==
    /\ sub[k] = "idle"
    /\ life = "open"
    /\ audio' = audio \cup {k}
    /\ sub' \in {[sub EXCEPT ![k] = "saved"], [sub EXCEPT ![k] = "clean"]}
    /\ UNCHANGED <<contractVars, rows, text, archive, index, announced,
                   origin, local, crashes>>

\* rerecognize_*: a finished source task with an archived object, whose audio
\* is restored and verified under the name of the new task.
RestoreAudio(k, source) ==
    /\ sub[k] = "idle"
    /\ life = "open"
    /\ status[source] \in Finished
    /\ rowKey[source] \in archive
    /\ Content[rowKey[source]] = Content[k]
    /\ k \in Offline <=> source \in Offline
    /\ audio' = audio \cup {k}
    /\ origin' = [origin EXCEPT ![k] = source]
    /\ sub' = [sub EXCEPT ![k] = "saved"]
    /\ UNCHANGED <<contractVars, rows, text, archive, index, announced,
                   local, crashes>>

\* create_task: a pending row, with the source's s3_key for a rerecognition.
CreateRow(k) ==
    /\ sub[k] = "saved"
    /\ status' = [status EXCEPT ![k] = "pending"]
    /\ rowKey' = [rowKey EXCEPT ![k] =
                    IF origin[k] = NoKey THEN NoKey ELSE rowKey[origin[k]]]
    /\ sub' = [sub EXCEPT ![k] = "created"]
    /\ UNCHANGED <<contractVars, stores, origin, local, crashes>>

CreateRowFails(k) ==
    /\ sub[k] = "saved"
    /\ MayFail("db")
    /\ sub' = [sub EXCEPT ![k] = "clean"]
    /\ UNCHANGED <<contractVars, rows, stores, origin, local, crashes>>

\* enqueue while the queue still accepts: the client gets its task_id.
SubmitAccepted(k) ==
    /\ sub[k] = "created"
    /\ Accept(k)
    /\ sub' = [sub EXCEPT ![k] = "accepted"]
    /\ UNCHANGED <<rows, stores, origin, local, crashes>>

\* TaskSubmissionUnavailableError: the queue closed while the row was created.
SubmitRefused(k) ==
    /\ sub[k] = "created"
    /\ life # "open"
    /\ sub' = [sub EXCEPT ![k] = "undo"]
    /\ UNCHANGED <<contractVars, rows, stores, origin, local, crashes>>

\* _compensate_failed_submission: record the failure, then remove the file.
UndoRow(k) ==
    /\ sub[k] = "undo"
    /\ status' = [status EXCEPT ![k] = "failed"]
    /\ sub' = [sub EXCEPT ![k] = "clean"]
    /\ UNCHANGED <<contractVars, rowKey, stores, origin, local, crashes>>

\* Mutant: the file is removed although the row still says pending.
UndoRowFailsAndClean(k) ==
    /\ sub[k] = "undo"
    /\ MayFail("db")
    /\ sub' = [sub EXCEPT ![k] = "clean"]
    /\ UNCHANGED <<contractVars, rows, stores, origin, local, crashes>>

\* The failure could not be recorded: the file stays with the pending row.
UndoRowFails(k) ==
    /\ sub[k] = "undo"
    /\ MayFail("db")
    /\ sub' = [sub EXCEPT ![k] = "refused"]
    /\ UNCHANGED <<contractVars, rows, stores, origin, local, crashes>>

CleanUpload(k) ==
    /\ sub[k] = "clean"
    /\ audio' = audio \ {k}
    /\ sub' = [sub EXCEPT ![k] = "refused"]
    /\ UNCHANGED <<contractVars, rows, text, archive, index, announced,
                   origin, local, crashes>>

Submission(k) ==
    \/ SaveUpload(k)
    \/ \E source \in Keys : RestoreAudio(k, source)
    \/ CreateRow(k) \/ CreateRowFails(k)
    \/ SubmitAccepted(k) \/ SubmitRefused(k)
    \/ UndoRow(k) \/ UndoRowFails(k) \/ CleanUpload(k)

----------------------------------------------------------------------------
\* Start of the queue and recovery (recovery.py, database/daos).

\* get_pending_tasks: at most limit rows, vip rows first.
PendingRead(kind, pending) ==
    {P \in SUBSET (pending \cap kind) :
        /\ P = pending \cap kind \/ Cardinality(P) = PendingLimit
        /\ Cardinality(P) <= PendingLimit
        /\ \A k \in P, j \in (pending \cap kind) \ P : j \in Vip => k \in Vip}

\* Stale rows, made pending again.
Recovered(Stale) ==
    [k \in Keys |-> IF k \in Stale THEN "pending" ELSE status[k]]

WithStatus(column, value) == {k \in Keys : column[k] = value}

\* Mutants: the pending rows are read before the stale rows are recovered, or
\* no stale row is recovered at all.
StartQueueReadFirst ==
    /\ status' = Recovered(WithStatus(status, "processing"))
    /\ Open(WithStatus(status, "pending"))
    /\ UNCHANGED <<rowKey, stores, request, local, crashes>>

StartQueueNoStale ==
    /\ Open(WithStatus(status, "pending"))
    /\ UNCHANGED <<rows, stores, request, local, crashes>>

\* recover_stale_processing, then the pending rows of each kind are enqueued.
\* Either call may fail, which is logged and skipped.
StartQueue ==
    /\ \E Stale \in SUBSET WithStatus(status, "processing") :
         /\ \/ QuickRestart \/ MayFail("db")
            \/ Stale = WithStatus(status, "processing")
         /\ status' = Recovered(Stale)
    /\ LET pending == WithStatus(status', "pending")
           readable(kind) == PendingRead(kind, pending)
                               \cup (IF MayFail("db") THEN {{}} ELSE {})
       IN  \E P \in readable(Offline), Q \in readable(Keys \ Offline) :
             Open(P \cup Q)
    /\ UNCHANGED <<rowKey, stores, request, local, crashes>>

----------------------------------------------------------------------------
\* process_task, run by a worker for the key it holds.

Goto(w, step) == pc' = [pc EXCEPT ![w] = step]

TakeTask(w, k) ==
    /\ pc[w] = "idle"
    /\ Begin(w, k)
    /\ Goto(w, "load")
    /\ object' = [object EXCEPT ![w] = NoKey]
    /\ UNCHANGED <<rows, stores, request, crashes>>

\* The worker is at the step, working on its key.
At(w, step) == pc[w] = step /\ holds[w] # NoKey

\* load_task_file_ref, before the try of process_task.
Load(w) ==
    /\ At(w, "load")
    /\ Goto(w, IF holds[w] \in Offline THEN "mark" ELSE "require")
    /\ UNCHANGED <<contractVars, rows, stores, request, object, crashes>>

\* get_task raises: the exception leaves process_task and ends the item.
LoadFails(w) ==
    /\ At(w, "load")
    /\ MayFail("db")
    /\ End(w)
    /\ Goto(w, "idle")
    /\ UNCHANGED <<rows, stores, request, object, crashes>>

\* mark_task_processing
Mark(w) ==
    /\ At(w, "mark")
    /\ status' = [status EXCEPT ![holds[w]] = "processing"]
    /\ Goto(w, IF holds[w] \in Offline THEN "require" ELSE "recognize")
    /\ UNCHANGED <<contractVars, rowKey, stores, request, object, crashes>>

\* require_audio_file
Require(w) ==
    /\ At(w, "require")
    /\ Goto(w, IF holds[w] \notin audio THEN "fail"
               ELSE IF holds[w] \in Offline THEN "recognize" ELSE "mark")
    /\ UNCHANGED <<contractVars, rows, stores, request, object, crashes>>

\* recognize or diarize
Recognize(w) ==
    /\ At(w, "recognize")
    /\ Goto(w, "find")
    /\ UNCHANGED <<contractVars, rows, stores, request, object, crashes>>

\* FilePostProcessor.handle_complete: look the hash up.  A failing lookup
\* counts as no entry.
FindArchived(w) ==
    /\ At(w, "find")
    /\ LET found == index[Content[holds[w]]]
       IN  \/ /\ found # NoKey
              /\ object' = [object EXCEPT ![w] = found]
              /\ Goto(w, "notify")
           \/ /\ found = NoKey \/ MayFail("db")
              /\ Goto(w, "store")
              /\ UNCHANGED object
    /\ UNCHANGED <<contractVars, rows, stores, request, crashes>>

\* Mutants: the object is stored before its name is known; a failing store is
\* taken for a successful one and its object is indexed.
StoreUnnamed(w) ==
    /\ At(w, "store")
    /\ archive' = archive \cup {object[w]}
    /\ object' = [object EXCEPT ![w] = holds[w]]
    /\ Goto(w, "index")
    /\ UNCHANGED <<contractVars, rows, audio, text, index, announced, request,
                   crashes>>

StoreUnchecked(w) ==
    /\ At(w, "store")
    /\ archive' \in {archive, archive \cup {holds[w]}}
    /\ object' = [object EXCEPT ![w] = holds[w]]
    /\ Goto(w, "index")
    /\ UNCHANGED <<contractVars, rows, audio, text, index, announced, request,
                   crashes>>

\* ArchiveStorage.store
StoreAudio(w) ==
    /\ At(w, "store")
    /\ archive' = archive \cup {holds[w]}
    /\ object' = [object EXCEPT ![w] = holds[w]]
    /\ Goto(w, "index")
    /\ UNCHANGED <<contractVars, rows, audio, text, index, announced, request,
                   crashes>>

\* FileIndex.record: the hash is unique, and a failing insert is swallowed.
RecordIndex(w) ==
    /\ At(w, "index")
    /\ LET h == Content[holds[w]]
       IN  \/ /\ index[h] = NoKey
              /\ index' = [index EXCEPT ![h] = object[w]]
           \/ /\ index[h] # NoKey \/ MayFail("db")
              /\ UNCHANGED index
    /\ Goto(w, "notify")
    /\ UNCHANGED <<contractVars, rows, audio, text, archive, announced, request,
                   object, crashes>>

\* publish_completion; a failure to send is swallowed.
Notify(w) ==
    /\ At(w, "notify")
    /\ announced' \in {announced, announced \cup ({holds[w]} \cap Notified)}
    /\ Goto(w, IF holds[w] \in Offline THEN "fileinfo" ELSE "persist")
    /\ UNCHANGED <<contractVars, rows, audio, text, archive, index, request,
                   object, crashes>>

\* AudioBackupHook: record_file_info
RecordFileInfo(w) ==
    /\ At(w, "fileinfo")
    /\ rowKey' = [rowKey EXCEPT ![holds[w]] = object[w]]
    /\ Goto(w, "text")
    /\ UNCHANGED <<contractVars, status, stores, request, object, crashes>>

\* TextResultFileHook
WriteText(w) ==
    /\ At(w, "text")
    /\ text' = text \cup {holds[w]}
    /\ Goto(w, "persist")
    /\ UNCHANGED <<contractVars, rows, audio, archive, index, announced,
                   request, object, crashes>>

\* save_result of either repository; the SPK one also records the object.
Persist(w) ==
    /\ At(w, "persist")
    /\ status' = [status EXCEPT ![holds[w]] = "completed"]
    /\ rowKey' = IF holds[w] \in Offline THEN rowKey
                 ELSE [rowKey EXCEPT ![holds[w]] = object[w]]
    /\ Goto(w, "cleanup")
    /\ UNCHANGED <<contractVars, stores, request, object, crashes>>

\* temp_file_store.cleanup, which ignores errors.
Cleanup(w) ==
    /\ At(w, "cleanup")
    /\ audio' \in {audio, audio \ {holds[w]}}
    /\ Goto(w, "done")
    /\ UNCHANGED <<contractVars, rows, text, archive, index, announced, request,
                   object, crashes>>

\* What a failing step needs to be allowed to fail.
FaultOf(step) ==
    CASE step \in {"mark", "fileinfo", "persist"} -> "db"
      [] step = "recognize" -> "model"
      [] step = "store" -> "archive"
      [] step = "text" -> "text"

Fallible == {"mark", "recognize", "store", "fileinfo", "text", "persist"}

\* Mutant: an exception of the cleanup fails the task too.
StepOrCleanupFails(w) ==
    /\ holds[w] # NoKey
    /\ \/ pc[w] = "cleanup"
       \/ pc[w] \in Fallible /\ MayFail(FaultOf(pc[w]))
    /\ Goto(w, "fail")
    /\ UNCHANGED <<contractVars, rows, stores, request, object, crashes>>

\* An exception inside the try of process_task, or out of a critical hook.
StepFails(w) ==
    /\ pc[w] \in Fallible
    /\ holds[w] # NoKey
    /\ MayFail(FaultOf(pc[w]))
    /\ Goto(w, "fail")
    /\ UNCHANGED <<contractVars, rows, stores, request, object, crashes>>

\* handle_failure, or record_task_error for SPK.
RecordFailure(w) ==
    /\ At(w, "fail")
    /\ status' = [status EXCEPT ![holds[w]] = "failed"]
    /\ Goto(w, "done")
    /\ UNCHANGED <<contractVars, rowKey, stores, request, object, crashes>>

\* The failure cannot be recorded: swallowed for OFFLINE, logged by the
\* worker for SPK.
RecordFailureFails(w) ==
    /\ At(w, "fail")
    /\ MayFail("db")
    /\ Goto(w, "done")
    /\ UNCHANGED <<contractVars, rows, stores, request, object, crashes>>

EndTask(w) ==
    /\ At(w, "done")
    /\ End(w)
    /\ Goto(w, "idle")
    /\ UNCHANGED <<rows, stores, request, object, crashes>>

\* The shutdown timeout cancels a worker at whatever step it is.
CancelTask(w) ==
    /\ life = "closing"
    /\ End(w)
    /\ Goto(w, "idle")
    /\ UNCHANGED <<rows, stores, request, object, crashes>>

Processing(w) ==
    \/ \E k \in Keys : TakeTask(w, k)
    \/ Load(w) \/ LoadFails(w)
    \/ Mark(w) \/ Require(w) \/ Recognize(w)
    \/ FindArchived(w) \/ StoreAudio(w) \/ RecordIndex(w) \/ Notify(w)
    \/ RecordFileInfo(w) \/ WriteText(w) \/ Persist(w) \/ Cleanup(w)
    \/ StepFails(w) \/ RecordFailure(w) \/ RecordFailureFails(w)
    \/ EndTask(w)

----------------------------------------------------------------------------
\* Shutdown, the end of the process, and its next start.

StopQueue ==
    /\ Close \/ Discard
    /\ UNCHANGED <<rows, stores, request, local, crashes>>

\* The process ends, after stop() or at any moment, and is started again: the
\* rows and the files stay, the queue object and the requests are new.
Restart ==
    /\ crashes < MaxCrashes
    /\ crashes' = crashes + 1
    /\ life' = "new"
    /\ waiting' = {}
    /\ holds' = [e \in Executors |-> NoKey]
    /\ sub' = [k \in Keys |->
                 IF sub[k] \in {"saved", "created", "undo", "clean"}
                 THEN "lost" ELSE sub[k]]
    /\ pc' = [w \in Workers |-> "idle"]
    /\ UNCHANGED <<rows, stores, origin, object>>

Next ==
    \/ \E k \in Keys : Submission(k)
    \/ StartQueue
    \/ \E w \in Workers : Processing(w) \/ CancelTask(w)
    \/ StopQueue
    \/ Restart

Spec == Init /\ [][Next]_systemVars

----------------------------------------------------------------------------
\* Types of the variables.
TypeOK ==
    /\ ContractTypeOK
    /\ status \in [Keys -> {"none", "pending", "processing"} \cup Finished]
    /\ rowKey \in [Keys -> Keys \cup {NoKey}]
    /\ audio \subseteq Keys /\ text \subseteq Keys
    /\ archive \subseteq Keys /\ announced \subseteq Keys
    /\ index \in [Hash -> Keys \cup {NoKey}]
    /\ sub \in [Keys -> {"idle", "saved", "created", "accepted", "undo",
                         "clean", "refused", "lost"}]
    /\ origin \in [Keys -> Keys \cup {NoKey}]
    /\ pc \in [Workers -> {"idle", "load", "mark", "require", "recognize",
                 "find", "store", "index", "notify", "fileinfo", "text",
                 "persist", "cleanup", "fail", "done"}]
    /\ object \in [Workers -> Keys \cup {NoKey}]
    /\ crashes \in 0 .. MaxCrashes

\* A row that still has to be processed has its audio: no cleanup, of a failed
\* submission or of a finished task, comes before the row says so, whatever
\* fails and whenever the process ends (tasks.py:464-515, result_hooks.py:148).
\* A failed task keeps it too (README.md:195), unless it failed because its
\* submission was refused and the client was told so.
UncompletedHasAudio ==
    \A k \in Keys :
        \/ status[k] \in {"pending", "processing"}
        \/ status[k] = "failed" /\ sub[k] \notin {"clean", "refused"}
        => k \in audio

\* A completed row names an archived object with the content of its audio, and
\* a completed OFFLINE task has its text file: persistence is the last of the
\* critical hooks (hook_handlers.py:44-49).  The index, from which later tasks
\* with equal audio take the name, and a sent message, whatever becomes of its
\* task, rely on an archived object as well (postprocess.py:195-227).
CompletedIsWhole ==
    /\ \A k \in Keys : status[k] = "completed" =>
          /\ rowKey[k] \in archive
          /\ Content[rowKey[k]] = Content[k]
          /\ k \in Offline => k \in text
    /\ \A h \in Hash : index[h] # NoKey =>
          index[h] \in archive /\ Content[index[h]] = h
    /\ \A k \in announced : \E o \in archive : Content[o] = Content[k]

\* A finished task stays as it is: no late worker, recovery or compensation
\* rewrites its status.
FinishedIsFinal ==
    [][\A k \in Keys : status[k] \in Finished => status'[k] = status[k]]_systemVars

\* While the queue accepts tasks, every pending row waits in it or is held by
\* an executor, or its submission is about to enqueue it: no task is stored
\* that nobody will process (README.md:532).  A row in state processing is in
\* the hands of a worker.
UnfinishedTracked ==
    life = "open" =>
        \A k \in Keys :
            /\ status[k] = "pending" => Tracked(k) \/ sub[k] = "created"
            /\ status[k] = "processing" => k \in Executing

\* The loop runs every ready step in turn; recognition and the stores answer;
\* the queue is started after the process.
Fairness ==
    /\ WF_systemVars(StartQueue)
    /\ \A k \in Keys : WF_systemVars(CreateRow(k) \/ SubmitAccepted(k))
    /\ \A w \in Workers : WF_systemVars(Processing(w))

FairSpec == Spec /\ Fairness

\* A task the client was given an id for ends, unless the queue is stopped
\* (README.md:531-532).
AcceptedEnds ==
    \A k \in Keys :
        sub[k] = "accepted" ~>
            (status[k] \in Finished \/ life \in {"closing", "closed"})

----------------------------------------------------------------------------
\* What makes the safety properties inductive.

\* Workers hold different keys, none of which waits, and none while idle; a
\* new queue holds nothing.
HoldsExact ==
    /\ \A w \in Workers : /\ holds[w] = NoKey <=> pc[w] = "idle"
                          /\ holds[w] \notin waiting
    /\ \A v, w \in Workers : v # w /\ holds[v] = holds[w] => holds[v] = NoKey
    /\ life = "new" => waiting = {} /\ \A w \in Workers : holds[w] = NoKey

\* Until a submission is accepted or given up, nobody else has the task, and
\* its row is as the submission left it.
Submitting(k) == sub[k] \in {"saved", "created", "undo", "clean"}

SubmissionExact ==
    \A k \in Keys :
        /\ sub[k] \in {"idle", "saved"} => status[k] = "none"
        /\ sub[k] \in {"created", "undo"} => status[k] = "pending"
        /\ sub[k] = "clean" => status[k] \in {"none", "failed"}
        /\ sub[k] = "undo" => life # "open"
        /\ Submitting(k) => /\ k \in audio /\ life # "new"
                            /\ k \notin waiting /\ \A w \in Workers : holds[w] # k
        /\ k \in waiting => status[k] = "pending"

\* The row of a task under way is as its step found or left it.
StatusAt(step, k) ==
    CASE step \in {"load", "mark"} -> {"pending"}
      [] step = "require" -> IF k \in Offline THEN {"processing"} ELSE {"pending"}
      [] step = "fail"    -> {"pending", "processing"}
      [] step = "cleanup" -> {"completed"}
      [] step = "done"    -> {"pending", "processing"} \cup Finished
      [] OTHER            -> {"processing"}

\* What the task's archived object and files are once its step is reached.
WorkExact ==
    \A w \in Workers : pc[w] # "idle" =>
        /\ status[holds[w]] \in StatusAt(pc[w], holds[w])
        /\ pc[w] \in {"index", "notify", "fileinfo", "text", "persist"} =>
              object[w] \in archive /\ Content[object[w]] = Content[holds[w]]
        /\ pc[w] \in {"text", "persist"} /\ holds[w] \in Offline => rowKey[holds[w]] = object[w]
        /\ pc[w] = "persist" /\ holds[w] \in Offline => holds[w] \in text

IInv == /\ TypeOK /\ HoldsExact /\ SubmissionExact /\ WorkExact
        /\ UncompletedHasAudio /\ CompletedIsWhole

\* When recovery sees every row: the database answers, rows are stale by the
\* time the process is back, and no more rows are pending than are read.
RecoverySeesAll ==
    "db" \notin Faults /\ ~QuickRestart /\ Cardinality(Keys) <= PendingLimit

\* What makes UnfinishedTracked inductive then: a worker ends only a task whose
\* row is finished.
TrackedIInv ==
    /\ UnfinishedTracked
    /\ \A w \in Workers : pc[w] = "done" => status[holds[w]] \in Finished

=============================================================================
