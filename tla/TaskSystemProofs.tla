-------------------------- MODULE TaskSystemProofs --------------------------
(* The safety of the life of a task for any tasks, workers and contents,   *)
(* with any faults and any number of crashes.  Each lemma is one action;   *)
(* its steps are the conjuncts of IInv.                                    *)
EXTENDS TaskSystem, FiniteSetTheorems, TLAPS

\* An upload gives the submission its audio before it has a row.
LEMMA SaveUploadIInv ==
  ASSUME IInv, NEW k \in Keys, SaveUpload(k)
  PROVE  IInv'
  <1> USE SystemAssumption DEF IInv, SaveUpload, contractVars, rows, stores,
                               request, local
  <1>1. TypeOK'
    BY DEF TypeOK, ContractTypeOK, Executors, Finished
  <1>2. HoldsExact'
    BY DEF HoldsExact
  <1>3. SubmissionExact'
    BY DEF TypeOK, ContractTypeOK, Executors, Finished, HoldsExact,
           SubmissionExact, Submitting, WorkExact, StatusAt
  <1>4. WorkExact'
    BY DEF WorkExact, StatusAt
  <1>5. UncompletedHasAudio'
    BY DEF UncompletedHasAudio, TypeOK
  <1>6. CompletedIsWhole'
    BY DEF CompletedIsWhole
  <1> QED
    BY <1>1, <1>2, <1>3, <1>4, <1>5, <1>6 DEF IInv

\* A rerecognition begins like an upload; its source keeps its row.
LEMMA RestoreAudioIInv ==
  ASSUME IInv, NEW k \in Keys, NEW source \in Keys, RestoreAudio(k, source)
  PROVE  IInv'
  <1> USE SystemAssumption DEF IInv, RestoreAudio, contractVars, rows, stores,
                               request, local
  <1>1. TypeOK'
    BY DEF TypeOK, ContractTypeOK, Executors, Finished
  <1>2. HoldsExact'
    BY DEF HoldsExact
  <1>3. SubmissionExact'
    BY DEF TypeOK, ContractTypeOK, Executors, Finished, HoldsExact,
           SubmissionExact, Submitting, WorkExact, StatusAt
  <1>4. WorkExact'
    BY DEF WorkExact, StatusAt
  <1>5. UncompletedHasAudio'
    BY DEF UncompletedHasAudio
  <1>6. CompletedIsWhole'
    BY DEF CompletedIsWhole
  <1> QED
    BY <1>1, <1>2, <1>3, <1>4, <1>5, <1>6 DEF IInv

\* The pending row appears while its audio exists.
LEMMA CreateRowIInv ==
  ASSUME IInv, NEW k \in Keys, CreateRow(k)
  PROVE  IInv'
  <1> USE SystemAssumption DEF IInv, CreateRow, contractVars, rows, stores,
                               request, local
  <1>1. TypeOK'
    BY DEF TypeOK, ContractTypeOK, Executors, Finished
  <1>2. HoldsExact'
    BY DEF HoldsExact
  <1>3. SubmissionExact'
    BY DEF SubmissionExact, Submitting, TypeOK
  <1>4. WorkExact'
    BY DEF WorkExact, StatusAt, TypeOK, ContractTypeOK, Executors, HoldsExact,
           SubmissionExact, Submitting
  <1>5. UncompletedHasAudio'
    BY DEF UncompletedHasAudio, TypeOK, ContractTypeOK, Executors, HoldsExact,
           SubmissionExact, Submitting, WorkExact, StatusAt
  <1>6. CompletedIsWhole'
    BY DEF CompletedIsWhole, TypeOK
  <1> QED
    BY <1>1, <1>2, <1>3, <1>4, <1>5, <1>6 DEF IInv

\* Without a row the compensation may remove the audio.
LEMMA CreateRowFailsIInv ==
  ASSUME IInv, NEW k \in Keys, CreateRowFails(k)
  PROVE  IInv'
  <1> USE SystemAssumption DEF IInv, CreateRowFails, contractVars, rows,
                               stores, request, local
  <1>1. TypeOK'
    BY DEF TypeOK, ContractTypeOK, Executors, Finished
  <1>2. HoldsExact'
    BY DEF HoldsExact
  <1>3. SubmissionExact'
    BY DEF SubmissionExact, Submitting
  <1>4. WorkExact'
    BY DEF WorkExact, StatusAt
  <1>5. UncompletedHasAudio'
    BY DEF UncompletedHasAudio
  <1>6. CompletedIsWhole'
    BY DEF CompletedIsWhole
  <1> QED
    BY <1>1, <1>2, <1>3, <1>4, <1>5, <1>6 DEF IInv

\* The queue takes a pending key nobody else has.
LEMMA SubmitAcceptedIInv ==
  ASSUME IInv, NEW k \in Keys, SubmitAccepted(k)
  PROVE  IInv'
  <1> USE SystemAssumption DEF IInv, SubmitAccepted, Accept, Tracked,
                               Executing, Executors, contractVars, rows,
                               stores, request, local
  <1>1. TypeOK'
    BY DEF TypeOK, ContractTypeOK, Executors, Finished
  <1>2. HoldsExact'
    BY DEF HoldsExact
  <1>3. SubmissionExact'
    BY DEF SubmissionExact, Submitting, TypeOK
  <1>4. WorkExact'
    BY DEF WorkExact, StatusAt
  <1>5. UncompletedHasAudio'
    BY DEF UncompletedHasAudio
  <1>6. CompletedIsWhole'
    BY DEF CompletedIsWhole
  <1> QED
    BY <1>1, <1>2, <1>3, <1>4, <1>5, <1>6 DEF IInv

\* Only a queue that is not open refuses, and it will not open again.
LEMMA SubmitRefusedIInv ==
  ASSUME IInv, NEW k \in Keys, SubmitRefused(k)
  PROVE  IInv'
  <1> USE SystemAssumption DEF IInv, SubmitRefused, contractVars, rows, stores,
                               request, local
  <1>1. TypeOK'
    BY DEF TypeOK, ContractTypeOK, Executors, Finished
  <1>2. HoldsExact'
    BY DEF HoldsExact
  <1>3. SubmissionExact'
    BY DEF SubmissionExact, Submitting
  <1>4. WorkExact'
    BY DEF WorkExact, StatusAt
  <1>5. UncompletedHasAudio'
    BY DEF UncompletedHasAudio
  <1>6. CompletedIsWhole'
    BY DEF CompletedIsWhole
  <1> QED
    BY <1>1, <1>2, <1>3, <1>4, <1>5, <1>6 DEF IInv

\* The compensation fails a row nobody else has.
LEMMA UndoRowIInv ==
  ASSUME IInv, NEW k \in Keys, UndoRow(k)
  PROVE  IInv'
  <1> USE SystemAssumption DEF IInv, UndoRow, contractVars, rows, stores,
                               request, local
  <1>1. TypeOK'
    BY DEF TypeOK, ContractTypeOK, Executors, Finished
  <1>2. HoldsExact'
    BY DEF HoldsExact
  <1>3. SubmissionExact'
    BY DEF SubmissionExact, Submitting, TypeOK
  <1>4. WorkExact'
    BY DEF WorkExact, StatusAt, TypeOK, ContractTypeOK, Executors, HoldsExact,
           SubmissionExact, Submitting
  <1>5. UncompletedHasAudio'
    BY DEF UncompletedHasAudio, TypeOK
  <1>6. CompletedIsWhole'
    BY DEF CompletedIsWhole
  <1> QED
    BY <1>1, <1>2, <1>3, <1>4, <1>5, <1>6 DEF IInv

\* The row stays pending and its audio stays with it.
LEMMA UndoRowFailsIInv ==
  ASSUME IInv, NEW k \in Keys, UndoRowFails(k)
  PROVE  IInv'
  <1> USE SystemAssumption DEF IInv, UndoRowFails, contractVars, rows, stores,
                               request, local
  <1>1. TypeOK'
    BY DEF TypeOK, ContractTypeOK, Executors, Finished
  <1>2. HoldsExact'
    BY DEF HoldsExact
  <1>3. SubmissionExact'
    BY DEF SubmissionExact, Submitting
  <1>4. WorkExact'
    BY DEF WorkExact, StatusAt
  <1>5. UncompletedHasAudio'
    BY DEF UncompletedHasAudio
  <1>6. CompletedIsWhole'
    BY DEF CompletedIsWhole
  <1> QED
    BY <1>1, <1>2, <1>3, <1>4, <1>5, <1>6 DEF IInv

\* The audio goes only when the row says failed or does not exist.
LEMMA CleanUploadIInv ==
  ASSUME IInv, NEW k \in Keys, CleanUpload(k)
  PROVE  IInv'
  <1> USE SystemAssumption DEF IInv, CleanUpload, contractVars, rows, stores,
                               request, local
  <1>1. TypeOK'
    BY DEF TypeOK, ContractTypeOK, Executors, Finished
  <1>2. HoldsExact'
    BY DEF HoldsExact
  <1>3. SubmissionExact'
    BY DEF SubmissionExact, Submitting, TypeOK
  <1>4. WorkExact'
    BY DEF WorkExact, StatusAt
  <1>5. UncompletedHasAudio'
    BY DEF UncompletedHasAudio, TypeOK, SubmissionExact
  <1>6. CompletedIsWhole'
    BY DEF CompletedIsWhole
  <1> QED
    BY <1>1, <1>2, <1>3, <1>4, <1>5, <1>6 DEF IInv

\* A new queue finds no submission and no worker under way: the stale rows
\* become pending, and what is read from the pending rows waits.
LEMMA StartQueueIInv ==
  ASSUME IInv, StartQueue
  PROVE  IInv'
  <1> USE SystemAssumption
  <1>1. PICK Stale \in SUBSET WithStatus(status, "processing") :
            status' = Recovered(Stale)
    BY DEF StartQueue
  <1>2. PICK P \in SUBSET WithStatus(status', "pending") : Open(P)
    <2> DEFINE pending == WithStatus(status', "pending")
    <2>1. PICK P \in PendingRead(Offline, pending) \cup {{}},
               Q \in PendingRead(Keys \ Offline, pending) \cup {{}} :
              Open(P \cup Q)
      BY DEF StartQueue
    <2>2. P \cup Q \in SUBSET pending
      BY DEF PendingRead
    <2> QED
      BY <2>1, <2>2
  <1>3. UNCHANGED <<holds, rowKey, audio, text, archive, index, announced, sub,
                    origin, pc, object, crashes>>
    BY <1>2 DEF StartQueue, Open, stores, request, local
  <1>4. life = "new" /\ life' = "open" /\ waiting = {} /\ waiting' \subseteq P
    BY <1>2 DEF Open, IInv, HoldsExact
  <1>5. \A w \in Workers : holds[w] = NoKey /\ pc[w] = "idle"
    BY <1>4 DEF IInv, HoldsExact
  <1>6. \A k \in Keys : ~Submitting(k)
    BY <1>4 DEF IInv, SubmissionExact
  <1>7. \A k \in Keys : /\ status[k] # "processing" => status'[k] = status[k]
                        /\ status[k] = "processing" =>
                              status'[k] \in {"pending", "processing"}
                        /\ k \in waiting' => status'[k] = "pending"
    <2> SUFFICES ASSUME NEW k \in Keys
                 PROVE  /\ status[k] # "processing" => status'[k] = status[k]
                        /\ status[k] = "processing" =>
                              status'[k] \in {"pending", "processing"}
                        /\ k \in waiting' => status'[k] = "pending"
      OBVIOUS
    <2>1. status'[k] = IF k \in Stale THEN "pending" ELSE status[k]
      BY <1>1 DEF Recovered
    <2>2. k \in waiting' => status'[k] = "pending"
      BY <1>4, <1>2 DEF WithStatus
    <2> QED
      BY <2>1, <2>2, <1>1 DEF WithStatus
  <1>8. status' \in [Keys -> {"none", "pending", "processing"} \cup Finished]
    BY <1>1 DEF Recovered, IInv, TypeOK, Finished
  <1>9. TypeOK'
    BY <1>2, <1>3, <1>4, <1>8 DEF IInv, TypeOK, ContractTypeOK, Executors,
                                  WithStatus
  <1>10. HoldsExact'
    BY <1>2, <1>3, <1>4, <1>5 DEF HoldsExact, WithStatus
  <1>11. SubmissionExact'
    <2> SUFFICES ASSUME NEW k \in Keys
                 PROVE  /\ sub[k] = "idle" => status'[k] = "none"
                        /\ k \in waiting' => status'[k] = "pending"
      BY <1>3, <1>6 DEF SubmissionExact, Submitting
    <2> QED
      BY <1>7 DEF IInv, SubmissionExact
  <1>12. WorkExact'
    BY <1>3, <1>5 DEF WorkExact
  <1>13. UncompletedHasAudio'
    BY <1>3, <1>7 DEF IInv, TypeOK, UncompletedHasAudio, Finished
  <1>14. CompletedIsWhole'
    BY <1>3, <1>7 DEF IInv, CompletedIsWhole
  <1> QED
    BY <1>9, <1>10, <1>11, <1>12, <1>13, <1>14 DEF IInv

\* A waiting key has a pending row, and nobody holds it.
LEMMA TakeTaskIInv ==
  ASSUME IInv, NEW w \in Workers, NEW k \in Keys, TakeTask(w, k)
  PROVE  IInv'
  <1> USE SystemAssumption DEF IInv, TakeTask, Begin, Executing, Executors,
                               Goto, contractVars, rows, stores, request, local
  <1>1. TypeOK'
    BY DEF TypeOK, ContractTypeOK, Executors, Finished
  <1>2. HoldsExact'
    BY DEF HoldsExact, ContractTypeOK, TypeOK
  <1>3. SubmissionExact'
    BY DEF SubmissionExact, Submitting
  <1>4. WorkExact'
    BY DEF WorkExact, StatusAt, TypeOK, ContractTypeOK, Executors, HoldsExact,
           SubmissionExact, Submitting
  <1>5. UncompletedHasAudio'
    BY DEF UncompletedHasAudio
  <1>6. CompletedIsWhole'
    BY DEF CompletedIsWhole
  <1> QED
    BY <1>1, <1>2, <1>3, <1>4, <1>5, <1>6 DEF IInv

\* Loading leaves the row as it is.
LEMMA LoadIInv ==
  ASSUME IInv, NEW w \in Workers, Load(w)
  PROVE  IInv'
  <1> USE SystemAssumption DEF IInv, Load, At, Goto, contractVars, rows,
                               stores, request, local
  <1>1. TypeOK'
    BY DEF TypeOK, ContractTypeOK, Executors, Finished
  <1>2. HoldsExact'
    BY DEF HoldsExact
  <1>3. SubmissionExact'
    BY DEF SubmissionExact, Submitting
  <1>4. WorkExact'
    BY DEF WorkExact, StatusAt
  <1>5. UncompletedHasAudio'
    BY DEF UncompletedHasAudio
  <1>6. CompletedIsWhole'
    BY DEF CompletedIsWhole
  <1> QED
    BY <1>1, <1>2, <1>3, <1>4, <1>5, <1>6 DEF IInv

\* The worker lets go of a task that stays pending.
LEMMA LoadFailsIInv ==
  ASSUME IInv, NEW w \in Workers, LoadFails(w)
  PROVE  IInv'
  <1> USE SystemAssumption DEF IInv, LoadFails, At, End, Goto, Executors,
                               contractVars, rows, stores, request, local
  <1>1. TypeOK'
    BY DEF TypeOK, ContractTypeOK, Executors, Finished
  <1>2. HoldsExact'
    BY DEF HoldsExact, ContractTypeOK, TypeOK
  <1>3. SubmissionExact'
    BY DEF SubmissionExact, Submitting
  <1>4. WorkExact'
    BY DEF WorkExact, StatusAt, TypeOK
  <1>5. UncompletedHasAudio'
    BY DEF UncompletedHasAudio
  <1>6. CompletedIsWhole'
    BY DEF CompletedIsWhole
  <1> QED
    BY <1>1, <1>2, <1>3, <1>4, <1>5, <1>6 DEF IInv

\* The row of the held task becomes processing.
LEMMA MarkIInv ==
  ASSUME IInv, NEW w \in Workers, Mark(w)
  PROVE  IInv'
  <1> USE SystemAssumption DEF IInv, Mark, At, Goto, contractVars, rows,
                               stores, request, local
  <1>1. TypeOK'
    BY DEF TypeOK, ContractTypeOK, Executors, Finished
  <1>2. HoldsExact'
    BY DEF HoldsExact
  <1>3. SubmissionExact'
    BY DEF SubmissionExact, Submitting, TypeOK, ContractTypeOK, Executors,
           HoldsExact, WorkExact, StatusAt
  <1>4. WorkExact'
    BY DEF WorkExact, StatusAt, TypeOK, ContractTypeOK, Executors, HoldsExact
  <1>5. UncompletedHasAudio'
    BY DEF UncompletedHasAudio, TypeOK, WorkExact, StatusAt
  <1>6. CompletedIsWhole'
    BY DEF CompletedIsWhole
  <1> QED
    BY <1>1, <1>2, <1>3, <1>4, <1>5, <1>6 DEF IInv

\* A missing file sends the task to its failure.
LEMMA RequireIInv ==
  ASSUME IInv, NEW w \in Workers, Require(w)
  PROVE  IInv'
  <1> USE SystemAssumption DEF IInv, Require, At, Goto, contractVars, rows,
                               stores, request, local
  <1>1. TypeOK'
    BY DEF TypeOK, ContractTypeOK, Executors, Finished
  <1>2. HoldsExact'
    BY DEF HoldsExact
  <1>3. SubmissionExact'
    BY DEF SubmissionExact, Submitting
  <1>4. WorkExact'
    BY DEF WorkExact, StatusAt
  <1>5. UncompletedHasAudio'
    BY DEF UncompletedHasAudio
  <1>6. CompletedIsWhole'
    BY DEF CompletedIsWhole
  <1> QED
    BY <1>1, <1>2, <1>3, <1>4, <1>5, <1>6 DEF IInv

\* Recognition changes no store.
LEMMA RecognizeIInv ==
  ASSUME IInv, NEW w \in Workers, Recognize(w)
  PROVE  IInv'
  <1> USE SystemAssumption DEF IInv, Recognize, At, Goto, contractVars, rows,
                               stores, request, local
  <1>1. TypeOK'
    BY DEF TypeOK, ContractTypeOK, Executors, Finished
  <1>2. HoldsExact'
    BY DEF HoldsExact
  <1>3. SubmissionExact'
    BY DEF SubmissionExact, Submitting
  <1>4. WorkExact'
    BY DEF WorkExact, StatusAt
  <1>5. UncompletedHasAudio'
    BY DEF UncompletedHasAudio
  <1>6. CompletedIsWhole'
    BY DEF CompletedIsWhole
  <1> QED
    BY <1>1, <1>2, <1>3, <1>4, <1>5, <1>6 DEF IInv

\* The index names an archived object of equal content.
LEMMA FindArchivedIInv ==
  ASSUME IInv, NEW w \in Workers, FindArchived(w)
  PROVE  IInv'
  <1> USE SystemAssumption DEF IInv, FindArchived, At, Goto, contractVars,
                               rows, stores, request, local
  <1>1. TypeOK'
    <2>1. Content[holds[w]] \in Hash
      BY DEF TypeOK, ContractTypeOK, Executors, Hash
    <2>2. index[Content[holds[w]]] \in Keys \cup {NoKey}
      BY <2>1 DEF TypeOK
    <2> QED
      BY <2>2 DEF TypeOK, ContractTypeOK, Executors
  <1>2. HoldsExact'
    BY DEF HoldsExact, ContractTypeOK, TypeOK
  <1>3. SubmissionExact'
    BY DEF SubmissionExact, Submitting
  <1>4. WorkExact'
    BY DEF WorkExact, StatusAt, TypeOK, ContractTypeOK, Executors, HoldsExact,
           SubmissionExact, Submitting, CompletedIsWhole, Hash
  <1>5. UncompletedHasAudio'
    BY DEF UncompletedHasAudio
  <1>6. CompletedIsWhole'
    BY DEF CompletedIsWhole
  <1> QED
    BY <1>1, <1>2, <1>3, <1>4, <1>5, <1>6 DEF IInv

\* The task's own object has its content.
LEMMA StoreAudioIInv ==
  ASSUME IInv, NEW w \in Workers, StoreAudio(w)
  PROVE  IInv'
  <1> USE SystemAssumption DEF IInv, StoreAudio, At, Goto, contractVars, rows,
                               stores, request, local
  <1>1. TypeOK'
    BY DEF TypeOK, ContractTypeOK, Executors, Finished
  <1>2. HoldsExact'
    BY DEF HoldsExact
  <1>3. SubmissionExact'
    BY DEF SubmissionExact, Submitting
  <1>4. WorkExact'
    BY DEF WorkExact, StatusAt, TypeOK
  <1>5. UncompletedHasAudio'
    BY DEF UncompletedHasAudio
  <1>6. CompletedIsWhole'
    BY DEF CompletedIsWhole
  <1> QED
    BY <1>1, <1>2, <1>3, <1>4, <1>5, <1>6 DEF IInv

\* An entry of the index is the object the task stored.
LEMMA RecordIndexIInv ==
  ASSUME IInv, NEW w \in Workers, RecordIndex(w)
  PROVE  IInv'
  <1> USE SystemAssumption DEF IInv, RecordIndex, At, Goto, contractVars, rows,
                               stores, request, local
  <1>1. TypeOK'
    BY DEF TypeOK, ContractTypeOK, Executors, Finished
  <1>2. HoldsExact'
    BY DEF HoldsExact
  <1>3. SubmissionExact'
    BY DEF SubmissionExact, Submitting
  <1>4. WorkExact'
    BY DEF WorkExact, StatusAt
  <1>5. UncompletedHasAudio'
    BY DEF UncompletedHasAudio
  <1>6. CompletedIsWhole'
    BY DEF CompletedIsWhole, TypeOK, WorkExact
  <1> QED
    BY <1>1, <1>2, <1>3, <1>4, <1>5, <1>6 DEF IInv

\* A message is sent once the object is archived.
LEMMA NotifyIInv ==
  ASSUME IInv, NEW w \in Workers, Notify(w)
  PROVE  IInv'
  <1> USE SystemAssumption DEF IInv, Notify, At, Goto, contractVars, rows,
                               stores, request, local
  <1>1. TypeOK'
    BY DEF TypeOK, ContractTypeOK, Executors, Finished
  <1>2. HoldsExact'
    BY DEF HoldsExact
  <1>3. SubmissionExact'
    BY DEF SubmissionExact, Submitting
  <1>4. WorkExact'
    BY DEF WorkExact, StatusAt
  <1>5. UncompletedHasAudio'
    BY DEF UncompletedHasAudio
  <1>6. CompletedIsWhole'
    BY DEF CompletedIsWhole, TypeOK, WorkExact
  <1> QED
    BY <1>1, <1>2, <1>3, <1>4, <1>5, <1>6 DEF IInv

\* The row names the object before it says completed.
LEMMA RecordFileInfoIInv ==
  ASSUME IInv, NEW w \in Workers, RecordFileInfo(w)
  PROVE  IInv'
  <1> USE SystemAssumption DEF IInv, RecordFileInfo, At, Goto, contractVars,
                               rows, stores, request, local
  <1>1. TypeOK'
    BY DEF TypeOK, ContractTypeOK, Executors, Finished
  <1>2. HoldsExact'
    BY DEF HoldsExact
  <1>3. SubmissionExact'
    BY DEF SubmissionExact, Submitting
  <1>4. WorkExact'
    BY DEF WorkExact, StatusAt, TypeOK, ContractTypeOK, Executors, HoldsExact
  <1>5. UncompletedHasAudio'
    BY DEF UncompletedHasAudio
  <1>6. CompletedIsWhole'
    BY DEF CompletedIsWhole, TypeOK, WorkExact
  <1> QED
    BY <1>1, <1>2, <1>3, <1>4, <1>5, <1>6 DEF IInv

\* The text exists before the row says completed.
LEMMA WriteTextIInv ==
  ASSUME IInv, NEW w \in Workers, WriteText(w)
  PROVE  IInv'
  <1> USE SystemAssumption DEF IInv, WriteText, At, Goto, contractVars, rows,
                               stores, request, local
  <1>1. TypeOK'
    BY DEF TypeOK, ContractTypeOK, Executors, Finished
  <1>2. HoldsExact'
    BY DEF HoldsExact
  <1>3. SubmissionExact'
    BY DEF SubmissionExact, Submitting
  <1>4. WorkExact'
    BY DEF WorkExact, StatusAt
  <1>5. UncompletedHasAudio'
    BY DEF UncompletedHasAudio
  <1>6. CompletedIsWhole'
    BY DEF CompletedIsWhole
  <1> QED
    BY <1>1, <1>2, <1>3, <1>4, <1>5, <1>6 DEF IInv

\* Everything a completed row promises is there by now.
LEMMA PersistIInv ==
  ASSUME IInv, NEW w \in Workers, Persist(w)
  PROVE  IInv'
  <1> USE SystemAssumption DEF IInv, Persist, At, Goto, contractVars, rows,
                               stores, request, local
  <1>1. TypeOK'
    BY DEF TypeOK, ContractTypeOK, Executors, Finished
  <1>2. HoldsExact'
    BY DEF HoldsExact
  <1>3. SubmissionExact'
    BY DEF SubmissionExact, Submitting, TypeOK, ContractTypeOK, Executors,
           HoldsExact, WorkExact, StatusAt
  <1>4. WorkExact'
    BY DEF WorkExact, StatusAt, TypeOK, ContractTypeOK, Executors, HoldsExact
  <1>5. UncompletedHasAudio'
    BY DEF UncompletedHasAudio
  <1>6. CompletedIsWhole'
    BY DEF CompletedIsWhole, TypeOK, WorkExact
  <1> QED
    BY <1>1, <1>2, <1>3, <1>4, <1>5, <1>6 DEF IInv

\* The audio goes once the row says completed.
LEMMA CleanupIInv ==
  ASSUME IInv, NEW w \in Workers, Cleanup(w)
  PROVE  IInv'
  <1> USE SystemAssumption DEF IInv, Cleanup, At, Goto, contractVars, rows,
                               stores, request, local
  <1>1. TypeOK'
    BY DEF TypeOK, ContractTypeOK, Executors, Finished
  <1>2. HoldsExact'
    BY DEF HoldsExact
  <1>3. SubmissionExact'
    BY DEF SubmissionExact, Submitting
  <1>4. WorkExact'
    BY DEF WorkExact, StatusAt, TypeOK, ContractTypeOK, Executors
  <1>5. UncompletedHasAudio'
    BY DEF UncompletedHasAudio, TypeOK, WorkExact, StatusAt
  <1>6. CompletedIsWhole'
    BY DEF CompletedIsWhole
  <1> QED
    BY <1>1, <1>2, <1>3, <1>4, <1>5, <1>6 DEF IInv

\* A failing step leaves the row as that step found it.
LEMMA StepFailsIInv ==
  ASSUME IInv, NEW w \in Workers, StepFails(w)
  PROVE  IInv'
  <1> USE SystemAssumption DEF IInv, StepFails, Fallible, Goto, contractVars,
                               rows, stores, request, local
  <1>1. TypeOK'
    BY DEF TypeOK, ContractTypeOK, Executors, Finished
  <1>2. HoldsExact'
    BY DEF HoldsExact
  <1>3. SubmissionExact'
    BY DEF SubmissionExact, Submitting
  <1>4. WorkExact'
    BY DEF WorkExact, StatusAt
  <1>5. UncompletedHasAudio'
    BY DEF UncompletedHasAudio
  <1>6. CompletedIsWhole'
    BY DEF CompletedIsWhole
  <1> QED
    BY <1>1, <1>2, <1>3, <1>4, <1>5, <1>6 DEF IInv

\* The row of the held task becomes failed, and its audio stays.
LEMMA RecordFailureIInv ==
  ASSUME IInv, NEW w \in Workers, RecordFailure(w)
  PROVE  IInv'
  <1> USE SystemAssumption DEF IInv, RecordFailure, At, Goto, contractVars,
                               rows, stores, request, local
  <1>1. TypeOK'
    BY DEF TypeOK, ContractTypeOK, Executors, Finished
  <1>2. HoldsExact'
    BY DEF HoldsExact
  <1>3. SubmissionExact'
    BY DEF SubmissionExact, Submitting, TypeOK, ContractTypeOK, Executors,
           HoldsExact, WorkExact, StatusAt
  <1>4. WorkExact'
    BY DEF TypeOK, ContractTypeOK, Executors, Finished, HoldsExact,
           SubmissionExact, Submitting, WorkExact, StatusAt, CompletedIsWhole,
           Hash
  <1>5. UncompletedHasAudio'
    BY DEF UncompletedHasAudio, TypeOK, WorkExact, StatusAt
  <1>6. CompletedIsWhole'
    BY DEF CompletedIsWhole
  <1> QED
    BY <1>1, <1>2, <1>3, <1>4, <1>5, <1>6 DEF IInv

\* The row stays unfinished and its audio stays.
LEMMA RecordFailureFailsIInv ==
  ASSUME IInv, NEW w \in Workers, RecordFailureFails(w)
  PROVE  IInv'
  <1> USE SystemAssumption DEF IInv, RecordFailureFails, At, Goto,
                               contractVars, rows, stores, request, local
  <1>1. TypeOK'
    BY DEF TypeOK, ContractTypeOK, Executors, Finished
  <1>2. HoldsExact'
    BY DEF HoldsExact
  <1>3. SubmissionExact'
    BY DEF SubmissionExact, Submitting
  <1>4. WorkExact'
    BY DEF WorkExact, StatusAt
  <1>5. UncompletedHasAudio'
    BY DEF UncompletedHasAudio
  <1>6. CompletedIsWhole'
    BY DEF CompletedIsWhole
  <1> QED
    BY <1>1, <1>2, <1>3, <1>4, <1>5, <1>6 DEF IInv

\* The worker lets go of the task.
LEMMA EndTaskIInv ==
  ASSUME IInv, NEW w \in Workers, EndTask(w)
  PROVE  IInv'
  <1> USE SystemAssumption DEF IInv, EndTask, At, End, Goto, Executors,
                               contractVars, rows, stores, request, local
  <1>1. TypeOK'
    BY DEF TypeOK, ContractTypeOK, Executors, Finished
  <1>2. HoldsExact'
    BY DEF HoldsExact, ContractTypeOK, TypeOK
  <1>3. SubmissionExact'
    BY DEF SubmissionExact, Submitting
  <1>4. WorkExact'
    BY DEF WorkExact, StatusAt, TypeOK
  <1>5. UncompletedHasAudio'
    BY DEF UncompletedHasAudio
  <1>6. CompletedIsWhole'
    BY DEF CompletedIsWhole
  <1> QED
    BY <1>1, <1>2, <1>3, <1>4, <1>5, <1>6 DEF IInv

\* A cancelled worker leaves row and files where its step found them.
LEMMA CancelTaskIInv ==
  ASSUME IInv, NEW w \in Workers, CancelTask(w)
  PROVE  IInv'
  <1> USE SystemAssumption DEF IInv, CancelTask, End, Goto, Executors,
                               contractVars, rows, stores, request, local
  <1>1. TypeOK'
    BY DEF TypeOK, ContractTypeOK, Executors, Finished
  <1>2. HoldsExact'
    BY DEF HoldsExact, ContractTypeOK, TypeOK
  <1>3. SubmissionExact'
    BY DEF SubmissionExact, Submitting
  <1>4. WorkExact'
    BY DEF WorkExact, StatusAt, TypeOK
  <1>5. UncompletedHasAudio'
    BY DEF UncompletedHasAudio
  <1>6. CompletedIsWhole'
    BY DEF CompletedIsWhole
  <1> QED
    BY <1>1, <1>2, <1>3, <1>4, <1>5, <1>6 DEF IInv

\* A queue that closes drops what waits; rows and files stay.
LEMMA StopQueueIInv ==
  ASSUME IInv, StopQueue
  PROVE  IInv'
  <1> USE SystemAssumption DEF IInv, StopQueue, Close, Discard, Executors,
                               contractVars, rows, stores, request, local
  <1>1. TypeOK'
    BY DEF TypeOK, ContractTypeOK, Executors, Finished
  <1>2. HoldsExact'
    BY DEF HoldsExact
  <1>3. SubmissionExact'
    BY DEF SubmissionExact, Submitting
  <1>4. WorkExact'
    BY DEF WorkExact, StatusAt
  <1>5. UncompletedHasAudio'
    BY DEF UncompletedHasAudio
  <1>6. CompletedIsWhole'
    BY DEF CompletedIsWhole
  <1> QED
    BY <1>1, <1>2, <1>3, <1>4, <1>5, <1>6 DEF IInv

\* Rows and files outlive the process; a submission under way is lost.
LEMMA RestartIInv ==
  ASSUME IInv, Restart
  PROVE  IInv'
  <1> USE SystemAssumption DEF IInv, Restart, Executors, contractVars, rows,
                               stores, request, local
  <1>1. TypeOK'
    BY DEF TypeOK, ContractTypeOK, Executors, Finished
  <1>2. HoldsExact'
    BY DEF HoldsExact
  <1>3. SubmissionExact'
    BY DEF SubmissionExact, Submitting
  <1>4. WorkExact'
    BY DEF WorkExact, StatusAt
  <1>5. UncompletedHasAudio'
    BY DEF UncompletedHasAudio, TypeOK, ContractTypeOK, Executors, HoldsExact,
           SubmissionExact, Submitting, WorkExact, StatusAt
  <1>6. CompletedIsWhole'
    BY DEF CompletedIsWhole
  <1> QED
    BY <1>1, <1>2, <1>3, <1>4, <1>5, <1>6 DEF IInv

\* Nothing exists at first.
LEMMA InitIInv == Init => IInv
  <1> SUFFICES ASSUME Init PROVE IInv
    OBVIOUS
  <1> USE SystemAssumption DEF Init, ContractInit
  <1>1. TypeOK
    BY DEF TypeOK, ContractTypeOK, Executors, Hash
  <1>2. HoldsExact
    BY DEF HoldsExact, Executors
  <1>3. SubmissionExact
    BY DEF SubmissionExact, Submitting
  <1>4. WorkExact
    BY DEF WorkExact
  <1>5. UncompletedHasAudio
    BY DEF UncompletedHasAudio
  <1>6. CompletedIsWhole
    BY DEF CompletedIsWhole
  <1> QED
    BY <1>1, <1>2, <1>3, <1>4, <1>5, <1>6 DEF IInv

\* Every step of a submission.
LEMMA SubmissionIInv ==
  ASSUME IInv, NEW k \in Keys, Submission(k)
  PROVE  IInv'
  BY SaveUploadIInv, CreateRowIInv, CreateRowFailsIInv, SubmitAcceptedIInv,
     SubmitRefusedIInv, UndoRowIInv, UndoRowFailsIInv, CleanUploadIInv,
     RestoreAudioIInv
     DEF Submission

\* Every step of a worker.
LEMMA ProcessingIInv ==
  ASSUME IInv, NEW w \in Workers, Processing(w)
  PROVE  IInv'
  BY TakeTaskIInv, LoadIInv, LoadFailsIInv, MarkIInv, RequireIInv,
     RecognizeIInv, FindArchivedIInv, StoreAudioIInv, RecordIndexIInv,
     NotifyIInv, RecordFileInfoIInv, WriteTextIInv, PersistIInv, CleanupIInv,
     StepFailsIInv, RecordFailureIInv, RecordFailureFailsIInv, EndTaskIInv
     DEF Processing

\* No step at all.
LEMMA StutterIInv ==
  ASSUME IInv, UNCHANGED systemVars
  PROVE  IInv'
  <1> USE DEF IInv, systemVars, contractVars, rows, stores, request, local
  <1>1. TypeOK'
    BY DEF TypeOK, ContractTypeOK, Executors, Finished
  <1>2. HoldsExact'
    BY DEF HoldsExact
  <1>3. SubmissionExact'
    BY DEF SubmissionExact, Submitting
  <1>4. WorkExact'
    BY DEF WorkExact, StatusAt
  <1>5. UncompletedHasAudio'
    BY DEF UncompletedHasAudio
  <1>6. CompletedIsWhole'
    BY DEF CompletedIsWhole
  <1> QED
    BY <1>1, <1>2, <1>3, <1>4, <1>5, <1>6

\* Every step of the system.
LEMMA NextIInv == IInv /\ [Next]_systemVars => IInv'
  BY SubmissionIInv, StartQueueIInv, ProcessingIInv, CancelTaskIInv,
     StopQueueIInv, RestartIInv, StutterIInv DEF Next

\* The inductive invariant of the system.
THEOREM SystemInvariant == Spec => []IInv
  BY InitIInv, NextIInv, PTL DEF Spec

\* Type correctness of the system.
THEOREM SystemTypeCorrect == Spec => []TypeOK
  <1>1. IInv => TypeOK
    BY DEF IInv
  <1> QED
    BY <1>1, SystemInvariant, PTL

\* A row that still has to be processed, or that failed in processing, has
\* its audio file.
THEOREM UncompletedKeepAudio == Spec => []UncompletedHasAudio
  <1>1. IInv => UncompletedHasAudio
    BY DEF IInv
  <1> QED
    BY <1>1, SystemInvariant, PTL

\* A completed row, the file index and a sent message rely on an archived
\* object with the right content, and a completed OFFLINE task has its text.
THEOREM CompletedAreWhole == Spec => []CompletedIsWhole
  <1>1. IInv => CompletedIsWhole
    BY DEF IInv
  <1> QED
    BY <1>1, SystemInvariant, PTL

\* Recovery makes only processing rows pending.
LEMMA FinishedKeptByStart ==
  ASSUME IInv, StartQueue, NEW k \in Keys, status[k] \in Finished
  PROVE  status'[k] = status[k]
  <1>1. PICK Stale \in SUBSET WithStatus(status, "processing") :
            status' = Recovered(Stale)
    BY DEF StartQueue
  <1>2. k \notin Stale
    BY <1>1 DEF WithStatus, Finished
  <1> QED
    BY <1>1, <1>2 DEF Recovered

\* A submission writes only the row it has to itself.
LEMMA FinishedKeptBySubmission ==
  ASSUME IInv, NEW j \in Keys, Submission(j),
         NEW k \in Keys, status[k] \in Finished
  PROVE  status'[k] = status[k]
  <1> USE DEF rows
  <1>1. CASE CreateRow(j)
    BY <1>1 DEF CreateRow, IInv, TypeOK, SubmissionExact, Finished
  <1>2. CASE UndoRow(j)
    BY <1>2 DEF UndoRow, IInv, TypeOK, SubmissionExact, Finished
  <1>3. CASE \/ SaveUpload(j) \/ \E source \in Keys : RestoreAudio(j, source)
             \/ CreateRowFails(j) \/ SubmitAccepted(j) \/ SubmitRefused(j)
             \/ UndoRowFails(j) \/ CleanUpload(j)
    BY <1>3 DEF SaveUpload, RestoreAudio, CreateRowFails, SubmitAccepted,
                SubmitRefused, UndoRowFails, CleanUpload
  <1> QED
    BY <1>1, <1>2, <1>3 DEF Submission

\* A worker writes only the row it holds, and no step that writes finds it
\* finished.
LEMMA FinishedKeptByProcessing ==
  ASSUME IInv, NEW w \in Workers, Processing(w),
         NEW k \in Keys, status[k] \in Finished
  PROVE  status'[k] = status[k]
  <1> USE DEF rows
  <1>1. CASE Mark(w) \/ Persist(w) \/ RecordFailure(w)
    <2>1. At(w, "mark") \/ At(w, "persist") \/ At(w, "fail")
      BY <1>1 DEF Mark, Persist, RecordFailure
    <2>2. status[holds[w]] \in {"pending", "processing"}
      BY <2>1 DEF At, IInv, WorkExact, StatusAt
    <2>3. k # holds[w]
      BY <2>2 DEF Finished
    <2> QED
      BY <1>1, <2>3 DEF Mark, Persist, RecordFailure, IInv, TypeOK
  <1>2. CASE \/ \E j \in Keys : TakeTask(w, j)
             \/ Load(w) \/ LoadFails(w) \/ Require(w) \/ Recognize(w)
             \/ FindArchived(w) \/ StoreAudio(w) \/ RecordIndex(w) \/ Notify(w)
             \/ RecordFileInfo(w) \/ WriteText(w) \/ Cleanup(w)
             \/ StepFails(w) \/ RecordFailureFails(w) \/ EndTask(w)
    BY <1>2 DEF TakeTask, Load, LoadFails, Require, Recognize, FindArchived,
                StoreAudio, RecordIndex, Notify, RecordFileInfo, WriteText,
                Cleanup, StepFails, RecordFailureFails, EndTask
  <1> QED
    BY <1>1, <1>2 DEF Processing

\* No step rewrites the status of a finished task.
THEOREM FinishedStaysFinished == Spec => FinishedIsFinal
  <1>1. ASSUME IInv, [Next]_systemVars, NEW k \in Keys, status[k] \in Finished
        PROVE  status'[k] = status[k]
    <2>1. CASE \E j \in Keys : Submission(j)
      BY <1>1, <2>1, FinishedKeptBySubmission
    <2>2. CASE StartQueue
      BY <1>1, <2>2, FinishedKeptByStart
    <2>3. CASE \E w \in Workers : Processing(w)
      BY <1>1, <2>3, FinishedKeptByProcessing
    <2>4. CASE (\E w \in Workers : CancelTask(w)) \/ StopQueue \/ Restart
      BY <2>4 DEF CancelTask, StopQueue, Restart, rows
    <2>5. CASE UNCHANGED systemVars
      BY <2>5 DEF systemVars, rows
    <2> QED
      BY <1>1, <2>1, <2>2, <2>3, <2>4, <2>5 DEF Next
  <1>2. IInv /\ [Next]_systemVars =>
            [\A k \in Keys :
                status[k] \in Finished => status'[k] = status[k]]_systemVars
    BY <1>1
  <1> QED
    BY <1>2, SystemInvariant, PTL DEF Spec, FinishedIsFinal

\* A submission leaves no pending row behind while the queue is open.
LEMMA TrackedBySubmission ==
  ASSUME IInv, TrackedIInv, RecoverySeesAll, NEW j \in Keys, Submission(j)
  PROVE  TrackedIInv'
  <1> USE DEF TrackedIInv, UnfinishedTracked, Tracked, Executing, contractVars,
              rows, stores, request, local, IInv, TypeOK, Finished
  <1>1. CASE SaveUpload(j)
    BY <1>1 DEF SaveUpload
  <1>2. CASE \E source \in Keys : RestoreAudio(j, source)
    BY <1>2 DEF RestoreAudio
  <1>3. CASE CreateRow(j)
    BY <1>3 DEF CreateRow, SubmissionExact, WorkExact, StatusAt, HoldsExact
  <1>4. CASE CreateRowFails(j)
    BY <1>4 DEF CreateRowFails
  <1>5. CASE SubmitAccepted(j)
    BY <1>5 DEF SubmitAccepted, Accept
  <1>6. CASE SubmitRefused(j)
    BY <1>6 DEF SubmitRefused
  <1>7. CASE UndoRow(j)
    BY <1>7 DEF UndoRow, SubmissionExact, WorkExact
  <1>8. CASE UndoRowFails(j)
    BY <1>8 DEF UndoRowFails, MayFail, RecoverySeesAll
  <1>9. CASE CleanUpload(j)
    BY <1>9 DEF CleanUpload
  <1> QED
    BY <1>1, <1>2, <1>3, <1>4, <1>5, <1>6, <1>7, <1>8, <1>9 DEF Submission

\* A queue that starts takes every row that is not finished.
LEMMA TrackedByStart ==
  ASSUME IInv, TrackedIInv, RecoverySeesAll, StartQueue
  PROVE  TrackedIInv'
  <1> USE SystemAssumption
  <1> DEFINE pending == WithStatus(status', "pending")
  <1>1. ~MayFail("db") /\ ~QuickRestart
    BY DEF RecoverySeesAll, MayFail
  <1>2. status' = Recovered(WithStatus(status, "processing"))
    BY <1>1 DEF StartQueue
  <1>3. ASSUME NEW kind \in SUBSET Keys, NEW P \in PendingRead(kind, pending)
        PROVE  P = pending \cap kind
    <2> DEFINE all == pending \cap kind
    <2>1. all \in SUBSET Keys /\ P \in SUBSET all
      BY <1>3 DEF PendingRead, WithStatus
    <2> HIDE DEF all, pending
    <2>2. IsFiniteSet(all) /\ Cardinality(all) <= Cardinality(Keys)
      BY <2>1, FS_Subset DEF SystemAssumption
    <2>3. IsFiniteSet(P) /\ Cardinality(P) <= Cardinality(all)
      BY <2>1, <2>2, FS_Subset
    <2>4. /\ Cardinality(Keys) \in Nat
          /\ Cardinality(all) \in Nat
          /\ Cardinality(P) \in Nat
      BY <2>2, <2>3, FS_CardinalityType DEF SystemAssumption
    <2>5. CASE Cardinality(P) = PendingLimit
      <3>1. Cardinality(P) = Cardinality(all)
        BY <2>2, <2>3, <2>4, <2>5 DEF RecoverySeesAll, SystemAssumption
      <3> QED
        BY <2>1, <2>2, <3>1, FS_Subset DEF all
    <2> QED
      BY <1>3, <2>5 DEF PendingRead, all
  <1>4. Open(pending)
    <2>1. PICK P \in PendingRead(Offline, pending),
               Q \in PendingRead(Keys \ Offline, pending) : Open(P \cup Q)
      BY <1>1 DEF StartQueue
    <2>2. P = pending \cap Offline /\ Q = pending \cap (Keys \ Offline)
      BY <1>3, <2>1 DEF SystemAssumption
    <2>3. P \cup Q = pending
      BY <2>2 DEF WithStatus
    <2> QED
      BY <2>1, <2>3
  <1>5. \A k \in Keys : status'[k] # "processing"
                        /\ (status'[k] = "pending" => k \in pending)
    BY <1>2 DEF Recovered, WithStatus
  <1>6. UnfinishedTracked'
    BY <1>4, <1>5 DEF UnfinishedTracked, Open, Tracked, Executing
  <1>7. \A w \in Workers : pc'[w] = "idle"
    BY <1>4 DEF StartQueue, Open, local, IInv, HoldsExact
  <1> QED
    BY <1>6, <1>7 DEF TrackedIInv

\* A worker lets go of a task only when its row is finished.
LEMMA TrackedByProcessing ==
  ASSUME IInv, TrackedIInv, RecoverySeesAll, NEW w \in Workers, Processing(w)
  PROVE  TrackedIInv'
  <1> USE DEF TrackedIInv, UnfinishedTracked, Tracked, Executing, Executors,
              contractVars, rows, stores, request, local, IInv, TypeOK,
              ContractTypeOK, Finished, HoldsExact, WorkExact, StatusAt, At,
              Goto
  <1>1. CASE \E k \in Keys : TakeTask(w, k)
    BY <1>1 DEF TakeTask, Begin
  <1>2. CASE LoadFails(w) \/ RecordFailureFails(w)
    BY <1>2 DEF LoadFails, RecordFailureFails, MayFail, RecoverySeesAll
  <1>3. CASE Load(w)
    BY <1>3 DEF Load
  <1>4. CASE Mark(w)
    BY <1>4 DEF Mark
  <1>5. CASE Require(w)
    BY <1>5 DEF Require
  <1>6. CASE Recognize(w)
    BY <1>6 DEF Recognize
  <1>7. CASE FindArchived(w)
    BY <1>7 DEF FindArchived
  <1>8. CASE StoreAudio(w)
    BY <1>8 DEF StoreAudio
  <1>9. CASE RecordIndex(w)
    BY <1>9 DEF RecordIndex
  <1>10. CASE Notify(w)
    BY <1>10 DEF Notify
  <1>11. CASE RecordFileInfo(w)
    BY <1>11 DEF RecordFileInfo
  <1>12. CASE WriteText(w)
    BY <1>12 DEF WriteText
  <1>13. CASE Persist(w)
    BY <1>13 DEF Persist
  <1>14. CASE Cleanup(w)
    BY <1>14 DEF Cleanup
  <1>15. CASE StepFails(w)
    BY <1>15 DEF StepFails, Fallible
  <1>16. CASE RecordFailure(w)
    BY <1>16 DEF RecordFailure
  <1>17. CASE EndTask(w)
    BY <1>17 DEF EndTask, End
  <1> QED
    BY <1>1, <1>2, <1>3, <1>4, <1>5, <1>6, <1>7, <1>8, <1>9, <1>10,
       <1>11, <1>12, <1>13, <1>14, <1>15, <1>16, <1>17 DEF Processing

\* While the database answers, rows are stale when the process is back, and
\* recovery reads every row, an open queue forgets no task.
THEOREM NoTaskForgotten ==
  ASSUME RecoverySeesAll
  PROVE  Spec => []UnfinishedTracked
  <1>1. Init => TrackedIInv
    BY DEF Init, ContractInit, TrackedIInv, UnfinishedTracked
  <1>2. IInv /\ TrackedIInv /\ [Next]_systemVars => TrackedIInv'
    <2> SUFFICES ASSUME IInv, TrackedIInv, [Next]_systemVars
                 PROVE  TrackedIInv'
      OBVIOUS
    <2>1. CASE \E k \in Keys : Submission(k)
      BY <2>1, TrackedBySubmission
    <2>2. CASE StartQueue
      BY <2>2, TrackedByStart
    <2>3. CASE \E w \in Workers : Processing(w)
      BY <2>3, TrackedByProcessing
    <2>4. CASE \E w \in Workers : CancelTask(w)
      BY <2>4 DEF CancelTask, End, Goto, rows, stores, request, TrackedIInv,
                  UnfinishedTracked, IInv, TypeOK, HoldsExact
    <2>5. CASE StopQueue
      BY <2>5 DEF StopQueue, Close, Discard, Executors, rows, stores, request,
                  local, TrackedIInv, UnfinishedTracked, IInv, HoldsExact
    <2>6. CASE Restart
      BY <2>6 DEF Restart, TrackedIInv, UnfinishedTracked
    <2>7. CASE UNCHANGED systemVars
      BY <2>7 DEF systemVars, contractVars, rows, stores, request, local,
                  TrackedIInv, UnfinishedTracked, Tracked, Executing
    <2> QED
      BY <2>1, <2>2, <2>3, <2>4, <2>5, <2>6, <2>7 DEF Next
  <1>3. TrackedIInv => UnfinishedTracked
    BY DEF TrackedIInv
  <1> QED
    BY <1>1, <1>2, <1>3, SystemInvariant, PTL DEF Spec

=============================================================================
