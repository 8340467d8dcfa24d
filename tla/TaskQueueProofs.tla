-------------------------- MODULE TaskQueueProofs --------------------------
(* Proofs about TaskQueue, for every set of tasks, workers and batches. *)
EXTENDS TaskQueue, FiniteSetTheorems, TLAPS

\* The initial state satisfies the inductive invariant.
LEMMA InitIInv == Init => IInv
  <1> SUFFICES ASSUME Init PROVE IInv
    OBVIOUS
  <1> USE DEF Init
  <1>1. TypeOK
    BY DEF TypeOK, Executors
  <1>2. Executing = {}
    BY DEF Executing
  <1>3. RegistryExact
    BY <1>2 DEF RegistryExact
  <1>4. OneExecutor /\ EntriesExact /\ SentinelPerWorker
    BY DEF OneExecutor, EntriesExact, SentinelPerWorker, Executors
  <1>5. PhaseExact
    BY DEF PhaseExact, Executors
  <1> QED
    BY <1>1, <1>3, <1>4, <1>5 DEF IInv

\* In "stopping" a live worker implies a sentinel, which precedes every task.
LEMMA SentinelFirst ==
  ASSUME IInv, phase = "stopping",
         NEW w \in Workers, loop[w] = "live",
         NEW e \in queue, IsHead(e)
  PROVE  e.key = Stop
  <1>1. IsFiniteSet(Live) /\ w \in Live
    BY QueueAssumption, FS_Subset DEF Live
  <1>2. Cardinality(Live) # 0
    BY <1>1, FS_EmptySet
  <1>3. Sentinels # {}
    BY <1>2, FS_EmptySet DEF IInv, SentinelPerWorker
  <1>4. PICK f \in queue : f.key = Stop
    BY <1>3 DEF Sentinels
  <1>5. f.prio = -1
    BY <1>4 DEF IInv, EntriesExact
  <1>6. SUFFICES ASSUME e.key # Stop PROVE FALSE
    OBVIOUS
  <1>7. e.prio \in {0, 1}
    BY <1>6 DEF IInv, EntriesExact, PriorityFor
  <1>8. Before(e, f)
    BY <1>4, <1>6 DEF IsHead
  <1> QED
    BY <1>5, <1>7, <1>8 DEF Before

----------------------------------------------------------------------------
\* One lemma for each action: it preserves the inductive invariant.

\* Recovery at start enqueues each pending key once, under orders of its own.
LEMMA StartIInv ==
  ASSUME IInv, Start PROVE IInv'
  <1> USE DEF IInv
  <1>1. PICK Pending \in SUBSET Keys :
          LET fresh == {k \in Pending : ~IsTracked(k)}
              past  == counter + Cardinality(fresh)
          IN  \E rank \in [fresh -> counter .. past - 1] :
                /\ RecoveryOrder(rank, fresh)
                /\ queue' = queue \cup {TaskEntry(k, rank[k]) : k \in fresh}
                /\ queued' = queued \cup fresh
                /\ counter' = past
    BY DEF Start
  <1> DEFINE fresh == {k \in Pending : ~IsTracked(k)}
             past  == counter + Cardinality(fresh)
  <1>2. PICK rank \in [fresh -> counter .. past - 1] :
          /\ RecoveryOrder(rank, fresh)
          /\ queue' = queue \cup {TaskEntry(k, rank[k]) : k \in fresh}
          /\ queued' = queued \cup fresh
          /\ counter' = past
    BY <1>1
  <1>3. fresh \subseteq Keys /\ Cardinality(fresh) \in Nat
    BY QueueAssumption, FS_Subset, FS_CardinalityType
  <1>4. \A j, k \in fresh : rank[j] = rank[k] => j = k
    BY <1>2 DEF RecoveryOrder
  <1>5. /\ phase = "new" /\ phase' = "running"
        /\ loop' = [w \in Workers |-> "live"]
        /\ UNCHANGED <<inflight, held>>
        /\ queue = {} /\ queued = {}
    BY DEF Start, PhaseExact, RegistryExact
  <1>6. past \in Nat /\ \A k \in fresh : rank[k] \in Nat /\ rank[k] < past
    <2>1. counter \in Nat
      BY DEF TypeOK
    <2>2. past \in Nat
      BY <2>1, <1>3
    <2>3. \A k \in fresh : rank[k] \in counter .. past - 1
      BY <1>2
    <2> HIDE DEF fresh, past
    <2> QED
      BY <2>1, <2>2, <2>3
  <1>7. queue' = {TaskEntry(k, rank[k]) : k \in fresh}
    BY <1>2, <1>5
  <1>8. \A k \in fresh : k # Stop /\ k \notin inflight
    BY <1>3, QueueAssumption DEF IsTracked
  <1> HIDE DEF fresh, past
  <1>9. TypeOK'
    <2>1. queue' \subseteq [prio : {-1, 0, 1}, order : Nat, key : Keys \cup {Stop}]
      BY <1>3, <1>6, <1>7 DEF TaskEntry, PriorityFor
    <2> QED
      BY <2>1, <1>2, <1>3, <1>5, <1>6 DEF TypeOK
  <1>8a. /\ \A e \in queue' : \E k \in fresh :
              /\ e = TaskEntry(k, rank[k])
              /\ e.key = k /\ e.order = rank[k] /\ e.prio = PriorityFor(k)
        /\ \A k \in fresh : \E e \in queue' : e.key = k
    <2>1. \A k \in fresh : TaskEntry(k, rank[k]) \in queue'
      BY <1>7
    <2>2. \A k : /\ TaskEntry(k, rank[k]).key = k
                 /\ TaskEntry(k, rank[k]).order = rank[k]
                 /\ TaskEntry(k, rank[k]).prio = PriorityFor(k)
      BY DEF TaskEntry
    <2>3. \A e \in queue' : \E k \in fresh : e = TaskEntry(k, rank[k])
      BY <1>7
    <2> HIDE DEF TaskEntry
    <2> QED
      BY <2>1, <2>2, <2>3
  <1>10. EntriesExact'
    <2>1. \A e \in queue' : e.order < counter'
      BY <1>8a, <1>2, <1>6
    <2>2. \A e \in queue' :
            e.prio = (IF e.key = Stop THEN -1 ELSE PriorityFor(e.key))
      BY <1>8a, <1>8
    <2>3. \A e, f \in queue' : e.order = f.order => e = f
      BY <1>8a, <1>4
    <2> QED
      BY <2>1, <2>2, <2>3 DEF EntriesExact, PriorityFor
  <1>11. RegistryExact'
    <2>1. queued' = fresh
      BY <1>2, <1>5
    <2>2. queued' = {e.key : e \in queue'} \ {Stop}
      BY <2>1, <1>8a, <1>8
    <2>3. \A e, f \in queue' : e.key = f.key /\ e.key # Stop => e = f
      BY <1>8a
    <2>4. Executing' = Executing /\ inflight = Executing
      BY <1>5 DEF Executing, RegistryExact
    <2> QED
      BY <2>1, <2>2, <2>3, <2>4, <1>5, <1>8 DEF RegistryExact
  <1>12. OneExecutor'
    BY <1>5 DEF OneExecutor
  <1>13. PhaseExact' /\ SentinelPerWorker'
    BY <1>5, <1>7, <1>8 DEF PhaseExact, SentinelPerWorker, TaskEntry, TypeOK
  <1> QED
    BY <1>9, <1>10, <1>11, <1>12, <1>13

\* A submission adds one entry for a key that nothing tracks.
LEMMA EnqueueIInv ==
  ASSUME IInv, NEW k \in Keys, Enqueue(k) PROVE IInv'
  <1> USE DEF IInv
  <1> DEFINE new == TaskEntry(k, counter)
  <1>1. /\ phase = "running"
        /\ k \notin queued /\ k \notin inflight
        /\ queued' = queued \cup {k}
        /\ queue' = queue \cup {new}
        /\ counter' = counter + 1
        /\ UNCHANGED <<phase, inflight, loop, held>>
    BY DEF Enqueue, IsTracked
  <1>2. new.key = k /\ new.order = counter /\ new.prio = PriorityFor(k) /\ k # Stop
    BY QueueAssumption DEF TaskEntry
  <1>3. new \in [prio : {-1, 0, 1}, order : Nat, key : Keys \cup {Stop}]
    BY DEF TaskEntry, PriorityFor, TypeOK
  <1>4. \A e \in queue : e.key # k
    BY <1>1, <1>2 DEF RegistryExact
  <1> HIDE DEF new
  <1>5. TypeOK'
    BY <1>1, <1>3 DEF TypeOK
  <1>6. EntriesExact'
    <2>1. \A e \in queue : e.order \in Nat /\ e.order < counter /\ counter \in Nat
      BY DEF EntriesExact, TypeOK
    <2>2. \A e \in queue' : e.order < counter'
      BY <2>1, <1>1, <1>2, <1>5 DEF TypeOK
    <2>3. \A e, f \in queue' : e.order = f.order => e = f
      BY <2>1, <1>1, <1>2 DEF EntriesExact
    <2> QED
      BY <2>2, <2>3, <1>1, <1>2 DEF EntriesExact, PriorityFor
  <1>7. RegistryExact'
    <2>1. queued' = {e.key : e \in queue'} \ {Stop}
      BY <1>1, <1>2 DEF RegistryExact
    <2>2. \A e, f \in queue' : e.key = f.key /\ e.key # Stop => e = f
      BY <1>1, <1>2, <1>4 DEF RegistryExact
    <2>3. Executing' = Executing
      BY <1>1 DEF Executing
    <2> QED
      BY <2>1, <2>2, <2>3, <1>1 DEF RegistryExact
  <1>8. OneExecutor' /\ PhaseExact' /\ SentinelPerWorker'
    BY <1>1, <1>2 DEF OneExecutor, PhaseExact, SentinelPerWorker
  <1> QED
    BY <1>5, <1>6, <1>7, <1>8

\* Taking the head moves its key from _queued to _inflight.
LEMMA WorkerTakeIInv ==
  ASSUME IInv, NEW w \in Workers, WorkerTake(w) PROVE IInv'
  <1> USE DEF IInv
  <1>1. PICK e \in queue :
          /\ IsHead(e) /\ e.key # Stop
          /\ queue' = queue \ {e}
          /\ queued' = queued \ {e.key}
          /\ inflight' = inflight \cup {e.key}
          /\ held' = [held EXCEPT ![w] = e.key]
    BY DEF WorkerTake, BeginQueued
  <1>2. /\ UNCHANGED <<phase, counter, loop>>
        /\ loop[w] = "live" /\ held[w] = NoKey /\ phase # "cancelling"
    BY DEF WorkerTake, AtGet
  <1>3. phase = "running"
    BY <1>1, <1>2, SentinelFirst DEF PhaseExact, TypeOK
  <1>4. e.key \in Keys /\ e.key # NoKey /\ e.key \in queued
    BY <1>1, QueueAssumption DEF TypeOK, RegistryExact
  <1>5. e.key \notin inflight /\ inflight = Executing
    BY <1>3, <1>4 DEF RegistryExact
  <1>6. \A x \in Executors : held[x] # e.key
    BY <1>4, <1>5 DEF Executing
  <1>7. /\ held \in [Executors -> Keys \cup {NoKey}] /\ w \in Executors
        /\ \A x \in Executors : held'[x] = IF x = w THEN e.key ELSE held[x]
    BY <1>1 DEF TypeOK, Executors
  <1>8. TypeOK'
    BY <1>1, <1>2, <1>4, <1>7 DEF TypeOK
  <1>9. EntriesExact'
    BY <1>1, <1>2 DEF EntriesExact, PriorityFor
  <1>10. RegistryExact'
    <2>1. queued' = {f.key : f \in queue'} \ {Stop}
      BY <1>1 DEF RegistryExact
    <2>2. Executing' = Executing \cup {e.key}
      BY <1>2, <1>4, <1>7 DEF Executing
    <2> QED
      BY <2>1, <2>2, <1>1, <1>2, <1>3, <1>5 DEF RegistryExact
  <1>11. OneExecutor'
    BY <1>2, <1>3, <1>6, <1>7 DEF OneExecutor
  <1>12. PhaseExact' /\ SentinelPerWorker'
    BY <1>1, <1>2, <1>3, <1>7 DEF PhaseExact, SentinelPerWorker, Executors
  <1> QED
    BY <1>8, <1>9, <1>10, <1>11, <1>12

\* What finish(key) leaves of the registry, whoever calls it.
LEMMA FinishRegistry ==
  ASSUME IInv, NEW x \in Executors, Finish(x),
         UNCHANGED <<phase, queue, queued>>
  PROVE  /\ RegistryExact' /\ OneExecutor'
         /\ inflight' \subseteq Keys
         /\ held' \in [Executors -> Keys \cup {NoKey}]
         /\ \A y \in Executors : held'[y] = IF y = x THEN NoKey ELSE held[y]
  <1> USE DEF IInv
  <1>1. /\ inflight' = inflight \ {held[x]}
        /\ held' \in [Executors -> Keys \cup {NoKey}]
        /\ \A y \in Executors : held'[y] = IF y = x THEN NoKey ELSE held[y]
    BY DEF Finish, TypeOK
  <1>2. OneExecutor'
    BY <1>1 DEF OneExecutor
  <1>3. RegistryExact'
    <2>1. ASSUME phase # "stopped" PROVE Executing' = Executing \ {held[x]}
      <3>1. \A y \in Executors : y # x /\ held[y] = held[x] => held[y] = NoKey
        BY <2>1 DEF OneExecutor
      <3> QED
        BY <3>1, <1>1 DEF Executing
    <2>2. phase' # "stopped" => inflight' = Executing'
      BY <2>1, <1>1 DEF RegistryExact
    <2>3. queued' \cap inflight' = {}
      BY <1>1 DEF RegistryExact
    <2> QED
      BY <2>2, <2>3 DEF RegistryExact
  <1> QED
    BY <1>1, <1>2, <1>3 DEF TypeOK

\* The end of a task, by return or exception, releases its key alone.
LEMMA WorkerFinishIInv ==
  ASSUME IInv, NEW w \in Workers, WorkerFinish(w) PROVE IInv'
  <1> USE DEF IInv
  <1>1. Finish(w) /\ UNCHANGED <<phase, queue, counter, queued, loop>> /\ w \in Executors
    BY DEF WorkerFinish, Executors
  <1>2. /\ RegistryExact' /\ OneExecutor'
        /\ inflight' \subseteq Keys
        /\ held' \in [Executors -> Keys \cup {NoKey}]
        /\ \A y \in Executors : held'[y] = IF y = w THEN NoKey ELSE held[y]
    BY <1>1, FinishRegistry
  <1>3. TypeOK' /\ EntriesExact' /\ SentinelPerWorker'
    BY <1>1, <1>2 DEF TypeOK, EntriesExact, SentinelPerWorker, PriorityFor, Sentinels, Live
  <1>4. PhaseExact'
    BY <1>1, <1>2 DEF PhaseExact, Executors
  <1> QED
    BY <1>2, <1>3, <1>4

\* The end of a batch item releases its key alone.
LEMMA BatchFinishIInv ==
  ASSUME IInv, NEW b \in Batches, BatchFinish(b) PROVE IInv'
  <1> USE DEF IInv
  <1>1. Finish(b) /\ UNCHANGED <<phase, queue, counter, queued, loop>> /\ b \in Executors
    BY DEF BatchFinish, Executors
  <1>2. /\ RegistryExact' /\ OneExecutor'
        /\ inflight' \subseteq Keys
        /\ held' \in [Executors -> Keys \cup {NoKey}]
        /\ \A y \in Executors : held'[y] = IF y = b THEN NoKey ELSE held[y]
    BY <1>1, FinishRegistry
  <1>3. TypeOK' /\ EntriesExact' /\ SentinelPerWorker'
    BY <1>1, <1>2 DEF TypeOK, EntriesExact, SentinelPerWorker, PriorityFor, Sentinels, Live
  <1>4. PhaseExact'
    BY <1>1, <1>2 DEF PhaseExact, Executors
  <1> QED
    BY <1>2, <1>3, <1>4

\* A cancelled worker releases its key and is done.
LEMMA WorkerCancelledIInv ==
  ASSUME IInv, NEW w \in Workers, WorkerCancelled(w) PROVE IInv'
  <1> USE DEF IInv
  <1>1. /\ Finish(w) /\ UNCHANGED <<phase, queue, counter, queued>>
        /\ phase = "cancelling" /\ w \in Executors
        /\ loop' = [loop EXCEPT ![w] = "done"]
    BY DEF WorkerCancelled, Executors
  <1>2. /\ RegistryExact' /\ OneExecutor'
        /\ inflight' \subseteq Keys
        /\ held' \in [Executors -> Keys \cup {NoKey}]
        /\ \A y \in Executors : held'[y] = IF y = w THEN NoKey ELSE held[y]
    BY <1>1, FinishRegistry
  <1>3. TypeOK' /\ EntriesExact' /\ SentinelPerWorker'
    BY <1>1, <1>2 DEF TypeOK, EntriesExact, SentinelPerWorker, PriorityFor
  <1>4. PhaseExact'
    BY <1>1, <1>2 DEF PhaseExact, Executors, TypeOK
  <1> QED
    BY <1>2, <1>3, <1>4

\* A worker that takes a sentinel ends, and one sentinel with it.
LEMMA WorkerExitIInv ==
  ASSUME IInv, NEW w \in Workers, WorkerExit(w) PROVE IInv'
  <1> USE DEF IInv
  <1>1. PICK e \in queue : e.key = Stop /\ queue' = queue \ {e}
    BY DEF WorkerExit
  <1>2. /\ UNCHANGED <<phase, counter, queued, inflight, held>>
        /\ loop[w] = "live" /\ held[w] = NoKey /\ phase # "cancelling"
        /\ loop' = [loop EXCEPT ![w] = "done"]
    BY DEF WorkerExit, AtGet
  <1>3. phase = "stopping"
    BY <1>1, <1>2 DEF PhaseExact
  <1>4. TypeOK' /\ EntriesExact' /\ OneExecutor'
    BY <1>1, <1>2 DEF TypeOK, EntriesExact, OneExecutor, PriorityFor
  <1>5. RegistryExact'
    <2>1. queued' = {f.key : f \in queue'} \ {Stop}
      BY <1>1, <1>2 DEF RegistryExact
    <2>2. Executing' = Executing
      BY <1>2 DEF Executing
    <2> QED
      BY <2>1, <2>2, <1>1, <1>2 DEF RegistryExact
  <1>6. PhaseExact'
    BY <1>1, <1>2, <1>3 DEF PhaseExact, TypeOK
  <1>7. SentinelPerWorker'
    <2>1. Sentinels' = Sentinels \ {e.order} /\ e.order \in Sentinels
      BY <1>1 DEF Sentinels, EntriesExact
    <2>2. Live' = Live \ {w} /\ w \in Live
      BY <1>2 DEF Live, TypeOK
    <2>3. IsFiniteSet(Live) /\ IsFiniteSet(Sentinels)
      BY <1>3, QueueAssumption, FS_Subset DEF Live, SentinelPerWorker
    <2>4. Cardinality(Live) = Cardinality(Sentinels)
      BY <1>3 DEF SentinelPerWorker
    <2>5. IsFiniteSet(Sentinels') /\ Cardinality(Sentinels') = Cardinality(Sentinels) - 1
      BY <2>1, <2>3, FS_RemoveElement
    <2>6. Cardinality(Live') = Cardinality(Live) - 1
      BY <2>2, <2>3, FS_RemoveElement
    <2> QED
      BY <2>4, <2>5, <2>6 DEF SentinelPerWorker
  <1> QED
    BY <1>4, <1>5, <1>6, <1>7

\* A batch begins a key only if neither set of the registry has it.
LEMMA BatchBeginIInv ==
  ASSUME IInv, NEW b \in Batches, NEW k \in Keys, BatchBegin(b, k) PROVE IInv'
  <1> USE DEF IInv
  <1>1. /\ UNCHANGED <<phase, queue, counter, queued, loop>>
        /\ k \notin queued /\ k \notin inflight /\ k # NoKey
        /\ inflight' = inflight \cup {k}
        /\ b \in Executors /\ b \notin Workers
        /\ held[b] = NoKey
        /\ held' \in [Executors -> Keys \cup {NoKey}]
        /\ \A x \in Executors : held'[x] = IF x = b THEN k ELSE held[x]
    BY QueueAssumption DEF BatchBegin, IsTracked, TypeOK, Executors
  <1>2. TypeOK' /\ EntriesExact' /\ SentinelPerWorker'
    BY <1>1 DEF TypeOK, EntriesExact, SentinelPerWorker, PriorityFor, Sentinels, Live
  <1>3. PhaseExact'
    BY <1>1 DEF PhaseExact, Executors
  <1>4. RegistryExact'
    <2>1. Executing' = Executing \cup {k}
      BY <1>1 DEF Executing
    <2> QED
      BY <2>1, <1>1 DEF RegistryExact
  <1>5. OneExecutor'
    <2>1. phase # "stopped" => \A x \in Executors : held[x] # k
      BY <1>1 DEF RegistryExact, Executing
    <2> QED
      BY <2>1, <1>1 DEF OneExecutor
  <1> QED
    BY <1>2, <1>3, <1>4, <1>5

\* stop() adds as many sentinels as there are live workers.
LEMMA StopCallIInv ==
  ASSUME IInv, StopCall PROVE IInv'
  <1> USE DEF IInv
  <1> DEFINE n == Cardinality(Workers)
  <1>1. /\ phase = "running" /\ phase' = "stopping"
        /\ queue' = queue \cup StopEntries
        /\ counter' = counter + n
        /\ UNCHANGED <<queued, inflight, loop, held>>
    BY DEF StopCall
  <1>2. n \in Nat /\ counter \in Nat
    BY QueueAssumption, FS_CardinalityType DEF TypeOK
  <1>3. /\ \A e \in StopEntries : e.prio = -1 /\ e.key = Stop
        /\ \A e \in StopEntries : e.order \in Nat /\ counter <= e.order /\ e.order < counter + n
        /\ \A e, f \in StopEntries : e.order = f.order => e = f
    BY <1>2 DEF StopEntries, StopOrders
  <1>4. {e.order : e \in StopEntries} = counter .. counter + n - 1
    <2>1. \A o \in counter .. counter + n - 1 :
            \E e \in StopEntries : e.order = o
      <3> SUFFICES ASSUME NEW o \in counter .. counter + n - 1
                   PROVE  \E e \in StopEntries : e.order = o
        OBVIOUS
      <3>1. [prio |-> -1, order |-> o, key |-> Stop] \in StopEntries
        BY DEF StopEntries, StopOrders
      <3> QED
        BY <3>1
    <2>2. \A e \in StopEntries : e.order \in counter .. counter + n - 1
      BY DEF StopEntries, StopOrders
    <2> QED
      BY <2>1, <2>2
  <1>5. \A e \in queue : e.key # Stop /\ e.order \in Nat /\ e.order < counter
    BY <1>1 DEF PhaseExact, EntriesExact, TypeOK
  <1>6. StopEntries \subseteq [prio : {-1, 0, 1}, order : Nat, key : Keys \cup {Stop}]
    BY <1>2 DEF StopEntries, StopOrders
  <1> HIDE DEF n
  <1>7. TypeOK'
    BY <1>1, <1>2, <1>6 DEF TypeOK
  <1>8. EntriesExact'
    <2>1. \A e \in queue' : e.order < counter'
      BY <1>1, <1>2, <1>3, <1>5
    <2>2. \A e, f \in queue' : e.order = f.order => e = f
      <3>1. \A e \in queue, f \in StopEntries : e.order # f.order
        BY <1>2, <1>3, <1>5
      <3> QED
        BY <3>1, <1>1, <1>3 DEF EntriesExact
    <2>3. \A e \in queue' :
            e.prio = (IF e.key = Stop THEN -1 ELSE PriorityFor(e.key))
      BY <1>1, <1>3 DEF EntriesExact
    <2> QED
      BY <2>1, <2>2, <2>3 DEF EntriesExact, PriorityFor
  <1>9. RegistryExact'
    <2>1. queued' = {f.key : f \in queue'} \ {Stop}
      BY <1>1, <1>3 DEF RegistryExact
    <2>2. Executing' = Executing
      BY <1>1 DEF Executing
    <2> QED
      BY <2>1, <2>2, <1>1, <1>3 DEF RegistryExact
  <1>10. OneExecutor' /\ PhaseExact'
    BY <1>1, <1>3 DEF OneExecutor, PhaseExact
  <1>11. SentinelPerWorker'
    <2>1. {f \in queue' : f.key = Stop} = StopEntries
      BY <1>1, <1>3, <1>5
    <2>2. Sentinels' = counter .. counter + n - 1
      BY <2>1, <1>4 DEF Sentinels
    <2>3. IsFiniteSet(Sentinels') /\ Cardinality(Sentinels') = n
      BY <2>2, <1>2, FS_Interval
    <2>4. Live' = Workers
      BY <1>1 DEF Live, PhaseExact
    <2> QED
      BY <2>3, <2>4 DEF SentinelPerWorker, n
  <1> QED
    BY <1>7, <1>8, <1>9, <1>10, <1>11

\* The shutdown timer only moves to cancellation.
LEMMA StopTimeoutIInv ==
  ASSUME IInv, StopTimeout PROVE IInv'
  <1> USE DEF IInv
  <1>1. /\ phase = "stopping" /\ phase' = "cancelling"
        /\ UNCHANGED <<queue, counter, queued, inflight, loop, held>>
    BY DEF StopTimeout
  <1>2. Executing' = Executing
    BY <1>1 DEF Executing
  <1>3. TypeOK' /\ EntriesExact' /\ OneExecutor' /\ PhaseExact' /\ SentinelPerWorker'
    BY <1>1 DEF TypeOK, EntriesExact, OneExecutor, PhaseExact, SentinelPerWorker, PriorityFor
  <1>4. RegistryExact'
    BY <1>1, <1>2 DEF RegistryExact
  <1> QED
    BY <1>3, <1>4

\* The end of stop() leaves an empty queue and an empty registry.
LEMMA StopFinishIInv ==
  ASSUME IInv, StopFinish PROVE IInv'
  <1> USE DEF IInv
  <1>1. /\ phase' = "stopped" /\ queue' = {} /\ queued' = {} /\ inflight' = {}
        /\ \A w \in Workers : loop[w] = "done"
        /\ UNCHANGED <<counter, loop, held>>
    BY DEF StopFinish
  <1>2. TypeOK' /\ EntriesExact' /\ RegistryExact' /\ OneExecutor' /\ SentinelPerWorker'
    BY <1>1 DEF TypeOK, EntriesExact, RegistryExact, OneExecutor, SentinelPerWorker
  <1>3. PhaseExact'
    BY <1>1 DEF PhaseExact
  <1> QED
    BY <1>2, <1>3

----------------------------------------------------------------------------
\* Every step, a stuttering one included, preserves the invariant.
LEMMA NextIInv ==
  ASSUME IInv, [Next]_vars PROVE IInv'
  <1>1. CASE Start
    BY <1>1, StartIInv
  <1>2. ASSUME NEW k \in Keys, Enqueue(k) PROVE IInv'
    BY <1>2, EnqueueIInv
  <1>3. ASSUME NEW w \in Workers, WorkerStep(w) PROVE IInv'
    BY <1>3, WorkerTakeIInv, WorkerFinishIInv, WorkerExitIInv,
       WorkerCancelledIInv DEF WorkerStep
  <1>4. ASSUME NEW b \in Batches, BatchStep(b) PROVE IInv'
    BY <1>4, BatchBeginIInv, BatchFinishIInv DEF BatchStep
  <1>5. CASE StopCall
    BY <1>5, StopCallIInv
  <1>6. CASE StopTimeout
    BY <1>6, StopTimeoutIInv
  <1>7. CASE StopFinish
    BY <1>7, StopFinishIInv
  <1>8. CASE UNCHANGED vars
    <2>1. Executing' = Executing
      BY <1>8 DEF vars, Executing
    <2>2. Sentinels' = Sentinels /\ Live' = Live
      BY <1>8 DEF vars, Sentinels, Live
    <2> QED
      BY <1>8, <2>1, <2>2 DEF IInv, vars, TypeOK, EntriesExact, RegistryExact,
         OneExecutor, PhaseExact, SentinelPerWorker, PriorityFor
  <1> QED
    BY <1>1, <1>2, <1>3, <1>4, <1>5, <1>6, <1>7, <1>8 DEF Next

\* The inductive invariant holds in every reachable state of the queue.
THEOREM InvariantHolds == Spec => []IInv
  <1> QED
    BY InitIInv, NextIInv, PTL DEF Spec

\* The variables keep their types (workers.py:35-39, execution.py:15-16).
THEOREM TypeCorrect == Spec => []TypeOK
  <1>1. IInv => TypeOK
    BY DEF IInv
  <1> QED
    BY <1>1, InvariantHolds, PTL

\* The registry of execution.py always agrees with the queue's entries and
\* with what the executors work on.
THEOREM RegistryIsExact == Spec => []RegistryExact
  <1>1. IInv => RegistryExact
    BY DEF IInv
  <1> QED
    BY <1>1, InvariantHolds, PTL

\* No task is executed twice at a time, by workers or by immediate batches.
THEOREM ExecutedOnceAtATime == Spec => []OneExecutor
  <1>1. IInv => OneExecutor
    BY DEF IInv
  <1> QED
    BY <1>1, InvariantHolds, PTL

\* After stop() was called no worker begins a task (workers.py:52-61).
THEOREM NoStartOnceStopped == Spec => NoStartAfterStop
  <1> DEFINE Kept == \A w \in Workers : phase # "running" /\ held[w] = NoKey
                         => held'[w] = NoKey
  <1>1. ASSUME IInv, [Next]_vars PROVE [Kept]_vars
    <2> SUFFICES ASSUME NEW v \in Workers, phase # "running", held[v] = NoKey,
                        Next
                 PROVE  held'[v] = NoKey
      BY <1>1
    <2>1. held \in [Executors -> Keys \cup {NoKey}] /\ v \in Executors
      BY <1>1 DEF IInv, TypeOK, Executors
    <2>2. CASE Start
      BY <2>2 DEF Start
    <2>3. ASSUME NEW k \in Keys, Enqueue(k) PROVE held'[v] = NoKey
      BY <2>3 DEF Enqueue
    <2>4. ASSUME NEW w \in Workers, WorkerStep(w) PROVE held'[v] = NoKey
      <3>1. CASE WorkerTake(w)
        <4>1. PICK e \in queue : IsHead(e) /\ e.key # Stop
          BY <3>1 DEF WorkerTake
        <4>2. loop[w] = "live" /\ phase # "cancelling"
          BY <3>1 DEF WorkerTake, AtGet
        <4>3. phase = "stopping"
          BY <4>2, <1>1 DEF IInv, PhaseExact, TypeOK
        <4> QED
          BY <4>1, <4>2, <4>3, <1>1, SentinelFirst
      <3>2. CASE WorkerFinish(w) \/ WorkerCancelled(w)
        BY <3>2, <2>1 DEF WorkerFinish, WorkerCancelled, Finish
      <3>3. CASE WorkerExit(w)
        BY <3>3 DEF WorkerExit
      <3> QED
        BY <2>4, <3>1, <3>2, <3>3 DEF WorkerStep
    <2>5. ASSUME NEW b \in Batches, BatchStep(b) PROVE held'[v] = NoKey
      BY <2>5, <2>1, QueueAssumption DEF BatchStep, BatchBegin, BatchFinish, Finish
    <2>6. CASE StopCall \/ StopTimeout \/ StopFinish
      BY <2>6 DEF StopCall, StopTimeout, StopFinish
    <2> QED
      BY <2>2, <2>3, <2>4, <2>5, <2>6 DEF Next
  <1> QED
    BY <1>1, InvariantHolds, PTL DEF Spec, NoStartAfterStop

\* VIP tasks leave the queue before normal ones, and tasks of one class in the
\* order they were enqueued (policy.py:10, workers.py:81-83).
THEOREM DispatchInOrder == Spec => DispatchOrder
  <1> DEFINE Ordered(e, f) ==
               e.key # Stop /\ f.key # Stop =>
                 /\ f.key \in Vip => e.key \in Vip
                 /\ (f.key \in Vip <=> e.key \in Vip) => e.order < f.order
             Kept == \A e \in queue \ queue', f \in queue' : Ordered(e, f)
  <1>1. ASSUME IInv, [Next]_vars PROVE [Kept]_vars
    <2> SUFFICES ASSUME NEW e \in queue \ queue', NEW f \in queue',
                        e.key # Stop, f.key # Stop, Next
                 PROVE  Ordered(e, f)
      BY <1>1
    <2>1. PICK w \in Workers : WorkerTake(w)
      <3>1. ASSUME NEW w \in Workers, WorkerExit(w) PROVE FALSE
        BY <3>1 DEF WorkerExit
      <3>2. ASSUME NEW w \in Workers, WorkerStep(w) PROVE WorkerTake(w)
        BY <3>1, <3>2 DEF WorkerStep, WorkerFinish, WorkerCancelled
      <3>3. ASSUME NEW b \in Batches, BatchStep(b) PROVE FALSE
        BY <3>3 DEF BatchStep, BatchBegin, BatchFinish
      <3> QED
        BY <3>2, <3>3 DEF Next, Start, Enqueue, StopCall, StopTimeout, StopFinish
    <2>2. IsHead(e) /\ f \in queue /\ f # e
      BY <2>1 DEF WorkerTake
    <2>3. Before(e, f)
      BY <2>2 DEF IsHead
    <2>4. e.prio = PriorityFor(e.key) /\ f.prio = PriorityFor(f.key)
      BY <1>1, <2>2 DEF IInv, EntriesExact
    <2> QED
      BY <2>3, <2>4 DEF Before, PriorityFor
  <1> QED
    BY <1>1, InvariantHolds, PTL DEF Spec, DispatchOrder

----------------------------------------------------------------------------
\* The queue implements the contract of TaskExecution.

\* A key is tracked by the registry iff the contract tracks it.
LEMMA TrackedAgrees ==
  ASSUME IInv, phase # "stopped", NEW k \in Keys
  PROVE  Contract!Tracked(k) <=> IsTracked(k)
  <1>1. inflight = Executing
    BY DEF IInv, RegistryExact
  <1> QED
    BY <1>1 DEF Contract!Tracked, Contract!Executing, Contract!Executors,
       IsTracked, Executing, Executors

\* Initial states map to initial states.
LEMMA InitRefines == Init => Contract!ContractInit
  BY DEF Init, Contract!ContractInit, Contract!Executors, Executors

\* Every step of the queue is a step of the contract or leaves it unchanged.
LEMMA StepRefines ==
  ASSUME IInv, IInv', [Next]_vars
  PROVE  [Contract!ContractNext]_(Contract!contractVars)
  <1> USE DEF Contract!ContractNext, Contract!contractVars
  <1>1. CASE Start
    <2>1. PICK Pending \in SUBSET Keys :
            queued' = queued \cup {k \in Pending : ~IsTracked(k)}
      BY <1>1 DEF Start
    <2>2. phase = "new" /\ phase' = "running" /\ UNCHANGED held
      BY <1>1 DEF Start
    <2>3. \A k \in Pending : Contract!Tracked(k) <=> IsTracked(k)
      BY <2>1, <2>2, TrackedAgrees
    <2>4. Contract!Open(Pending)
      BY <2>1, <2>2, <2>3 DEF Contract!Open
    <2> QED
      BY <2>1, <2>4
  <1>2. ASSUME NEW k \in Keys, Enqueue(k) PROVE Contract!Accept(k)
    BY <1>2, TrackedAgrees DEF Enqueue, Contract!Accept
  <1>3. ASSUME NEW w \in Workers, WorkerStep(w)
        PROVE  [Contract!ContractNext]_(Contract!contractVars)
    <2>0. /\ w \in Executors /\ w \in Contract!Executors
          /\ held \in [Executors -> Keys \cup {NoKey}]
      BY DEF Executors, Contract!Executors, IInv, TypeOK
    <2>1. CASE WorkerTake(w)
      <3>1. PICK e \in queue :
              /\ IsHead(e) /\ e.key # Stop
              /\ queued' = queued \ {e.key}
              /\ held' = [held EXCEPT ![w] = e.key]
        BY <2>1 DEF WorkerTake, BeginQueued
      <3>2. /\ UNCHANGED phase
            /\ loop[w] = "live" /\ held[w] = NoKey /\ phase # "cancelling"
        BY <2>1 DEF WorkerTake, AtGet
      <3>3. phase = "running"
        BY <3>1, <3>2, SentinelFirst DEF IInv, PhaseExact, TypeOK
      <3>4. e.key \in Keys /\ e.key \in queued /\ e.key \notin Executing
        BY <3>1, <3>3 DEF IInv, TypeOK, RegistryExact
      <3>5. e.key \notin Contract!Executing
        BY <3>3, <3>4 DEF Contract!Executing, Contract!Executors, Executing, Executors
      <3>6. Contract!Begin(w, e.key)
        BY <3>1, <3>2, <3>3, <3>4, <3>5 DEF Contract!Begin
      <3> QED
        BY <3>4, <3>6
    <2>2. CASE WorkerFinish(w)
      <3>1. /\ UNCHANGED <<phase, queued>> /\ held[w] # NoKey
            /\ held' = [held EXCEPT ![w] = NoKey] /\ loop[w] = "live"
        BY <2>2 DEF WorkerFinish, Finish
      <3>2. phase # "stopped"
        BY <3>1 DEF IInv, PhaseExact
      <3>3. Contract!End(w)
        BY <3>1, <3>2 DEF Contract!End
      <3> QED
        BY <2>0, <3>3
    <2>3. CASE WorkerExit(w)
      BY <2>3 DEF WorkerExit
    <2>4. CASE WorkerCancelled(w)
      <3>1. /\ UNCHANGED <<phase, queued>> /\ phase = "cancelling"
            /\ held' = [held EXCEPT ![w] = NoKey]
        BY <2>4 DEF WorkerCancelled, Finish
      <3>2. CASE held[w] = NoKey
        BY <3>1, <3>2, <2>0
      <3>3. CASE held[w] # NoKey
        <4>1. Contract!End(w)
          BY <3>1, <3>3 DEF Contract!End
        <4> QED
          BY <2>0, <4>1
      <3> QED
        BY <3>2, <3>3
    <2> QED
      BY <1>3, <2>1, <2>2, <2>3, <2>4 DEF WorkerStep
  <1>4. ASSUME NEW b \in Batches, BatchStep(b)
        PROVE  [Contract!ContractNext]_(Contract!contractVars)
    <2>0. b \in Contract!Executors
      BY DEF Contract!Executors
    <2>1. UNCHANGED <<phase, queued>>
      BY <1>4 DEF BatchStep, BatchBegin, BatchFinish
    <2>2. CASE phase = "stopped"
      BY <2>1, <2>2
    <2>3. CASE phase # "stopped"
      <3>1. ASSUME NEW k \in Keys, BatchBegin(b, k)
            PROVE  Contract!BeginExternal(b, k)
        <4>1. /\ held[b] = NoKey /\ ~IsTracked(k)
              /\ held' = [held EXCEPT ![b] = k]
          BY <3>1 DEF BatchBegin
        <4>2. ~Contract!Tracked(k)
          BY <4>1, <2>3, TrackedAgrees
        <4> QED
          BY <4>1, <4>2, <2>1, <2>3 DEF Contract!BeginExternal
      <3>2. CASE BatchFinish(b)
        <4>1. Contract!End(b)
          BY <3>2, <2>1, <2>3 DEF BatchFinish, Finish, Contract!End
        <4> QED
          BY <4>1, <2>0
      <3> QED
        BY <1>4, <3>1, <3>2 DEF BatchStep
    <2> QED
      BY <2>2, <2>3
  <1>5. CASE StopCall
    <2>1. Contract!Close
      BY <1>5 DEF StopCall, Contract!Close
    <2> QED
      BY <2>1
  <1>6. CASE StopTimeout
    BY <1>6 DEF StopTimeout
  <1>7. CASE StopFinish
    <2>1. \A w \in Workers : held[w] = NoKey
      BY <1>7 DEF StopFinish, IInv, PhaseExact
    <2>2. Contract!Discard
      BY <1>7, <2>1 DEF StopFinish, Contract!Discard, Contract!Executors, Executors
    <2> QED
      BY <2>2
  <1>8. CASE UNCHANGED vars
    BY <1>8 DEF vars
  <1> QED
    BY <1>1, <1>2, <1>3, <1>4, <1>5, <1>6, <1>7, <1>8 DEF Next

\* Every behaviour of the queue is one the contract allows, so whatever is
\* shown of programs built on the contract holds with this queue.
THEOREM QueueImplementsContract == Spec => ImplementsContract
  <1> QED
    BY InitRefines, NextIInv, StepRefines, InvariantHolds, PTL
       DEF Spec, ImplementsContract, Contract!ContractSpec

=============================================================================
