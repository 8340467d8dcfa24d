----------------------------- MODULE TaskQueue -----------------------------
(***************************************************************************)
(* The OFFLINE/SPK task queue: OfflineTaskQueue (queue.py) over            *)
(* QueueWorkerRuntime (workers.py), TaskExecutionRegistry (execution.py),  *)
(* the recovery of pending rows at start (recovery.py) and the immediate   *)
(* batches that share the registry (batch.py).                             *)
(*                                                                         *)
(* All of it runs on one asyncio loop, so a step is the code between two   *)
(* awaits.  The module follows one queue object: ApplicationLifecycle      *)
(* builds a new one for every start (lifecycle.py:38) and starts it once.  *)
(***************************************************************************)
EXTENDS Integers, FiniteSets

CONSTANTS
    Keys,       \* task keys, the pairs (kind, task_id) of execution.py:8
    Offline,    \* the keys of kind "offline"; the others are of kind "spk"
    Vip,        \* the keys whose row has vip set
    Workers,    \* the worker tasks start() creates
    Batches,    \* concurrent callers of process_batch_now
    NoKey,      \* what an executor holds when it executes nothing
    Stop,       \* stands for the "__stop__" entry of the queue
    MaxOrder    \* bound: keys are enqueued while the counter is below it

ASSUME QueueAssumption ==
    /\ IsFiniteSet(Keys) /\ IsFiniteSet(Workers)
    /\ Workers # {}
    /\ Offline \subseteq Keys /\ Vip \subseteq Keys
    /\ NoKey \notin Keys /\ Stop \notin Keys
    /\ Workers \cap Batches = {}
    /\ MaxOrder \in Nat

VARIABLES
    phase,      \* life of the object; `running` is phase = "running"
    queue,      \* entries of the asyncio.PriorityQueue
    counter,    \* next value of itertools.count()
    queued,     \* registry._queued
    inflight,   \* registry._inflight
    loop,       \* [Workers -> state of its _worker_loop]
    held        \* [Executors -> key in process_task, or NoKey]

vars == <<phase, queue, counter, queued, inflight, loop, held>>

Executors == Workers \cup Batches

----------------------------------------------------------------------------
\* The priority queue: tuples (priority, counter, kind, task_id) compared
\* in that order, so the counter decides between equal priorities.

\* queue_priority_for
PriorityFor(k) == IF k \in Vip THEN 0 ELSE 1

TaskEntry(k, order) == [prio |-> PriorityFor(k), order |-> order, key |-> k]

\* Mutant: the priority is dropped from the comparison.
BeforeByOrder(e, f) == e.order < f.order

Before(e, f) == e.prio < f.prio \/ (e.prio = f.prio /\ e.order < f.order)

\* The entry get() returns.
IsHead(e) == e \in queue /\ \A f \in queue \ {e} : Before(e, f)

StopOrders == counter .. counter + Cardinality(Workers) - 1

\* Mutant: the sentinels are put behind the tasks.
StopEntriesLast ==
    {[prio |-> 2, order |-> o, key |-> Stop] : o \in StopOrders}

\* stop() puts one sentinel per worker, ahead of every task.
StopEntries ==
    {[prio |-> -1, order |-> o, key |-> Stop] : o \in StopOrders}

----------------------------------------------------------------------------
\* The registry.

\* Mutants: one of the two sets is not asked.
IsQueued(k) == k \in queued
IsInflight(k) == k \in inflight

IsTracked(k) == k \in queued \/ k \in inflight

\* Mutant: the key is not discarded from _queued.
BeginStillQueued(k) ==
    /\ inflight' = inflight \cup {k}
    /\ UNCHANGED queued

\* begin_queued
BeginQueued(k) ==
    /\ queued' = queued \ {k}
    /\ inflight' = inflight \cup {k}

\* finish, and the executor no longer holds its key.
Finish(e) ==
    /\ inflight' = inflight \ {held[e]}
    /\ held' = [held EXCEPT ![e] = NoKey]

----------------------------------------------------------------------------
Init ==
    /\ phase = "new"
    /\ queue = {}
    /\ counter = 0
    /\ queued = {}
    /\ inflight = {}
    /\ loop = [w \in Workers |-> "absent"]
    /\ held = [e \in Executors |-> NoKey]

\* The order in which recovery enqueues the pending rows: OFFLINE rows, then
\* SPK rows, each kind ordered by vip and then by creation time.
RecoveryOrder(rank, rows) ==
    \A j, k \in rows :
        /\ j # k => rank[j] # rank[k]
        /\ j \in Offline /\ k \notin Offline => rank[j] < rank[k]
        /\ (j \in Offline <=> k \in Offline) /\ j \in Vip /\ k \notin Vip
               => rank[j] < rank[k]

\* OfflineTaskQueue.start: recovery, then the workers, without an await.
\* Pending is what get_pending_tasks returned; a failing read returns less.
Start ==
    /\ phase = "new"
    /\ phase' = "running"
    /\ \E Pending \in SUBSET Keys :
         LET fresh == {k \in Pending : ~IsTracked(k)}
             past  == counter + Cardinality(fresh)
         IN  \E rank \in [fresh -> counter .. past - 1] :
               /\ RecoveryOrder(rank, fresh)
               /\ queue' = queue \cup {TaskEntry(k, rank[k]) : k \in fresh}
               /\ queued' = queued \cup fresh
               /\ counter' = past
    /\ loop' = [w \in Workers |-> "live"]
    /\ UNCHANGED <<inflight, held>>

\* _enqueue from a submission.  It raises unless the queue is running, and a
\* tracked key changes nothing.
Enqueue(k) ==
    /\ phase = "running"
    /\ ~IsTracked(k)
    /\ counter < MaxOrder
    /\ queued' = queued \cup {k}
    /\ queue' = queue \cup {TaskEntry(k, counter)}
    /\ counter' = counter + 1
    /\ UNCHANGED <<phase, inflight, loop, held>>

\* A live worker whose cancellation has not been requested waits in get().
AtGet(w) == loop[w] = "live" /\ held[w] = NoKey /\ phase # "cancelling"

WorkerTake(w) ==
    /\ AtGet(w)
    /\ \E e \in queue :
         /\ IsHead(e)
         /\ e.key # Stop
         /\ queue' = queue \ {e}
         /\ BeginQueued(e.key)
         /\ held' = [held EXCEPT ![w] = e.key]
    /\ UNCHANGED <<phase, counter, loop>>

\* Mutant: an exception of process_task ends the worker.
WorkerFinishOrDie(w) ==
    /\ loop[w] = "live" /\ held[w] # NoKey /\ phase # "cancelling"
    /\ Finish(w)
    /\ loop' \in {loop, [loop EXCEPT ![w] = "done"]}
    /\ UNCHANGED <<phase, queue, counter, queued>>

\* process_task returned or raised an exception; both only end the item.
WorkerFinish(w) ==
    /\ loop[w] = "live" /\ held[w] # NoKey /\ phase # "cancelling"
    /\ Finish(w)
    /\ UNCHANGED <<phase, queue, counter, queued, loop>>

WorkerExit(w) ==
    /\ AtGet(w)
    /\ \E e \in queue :
         /\ IsHead(e)
         /\ e.key = Stop
         /\ queue' = queue \ {e}
    /\ loop' = [loop EXCEPT ![w] = "done"]
    /\ UNCHANGED <<phase, counter, queued, inflight, held>>

\* Mutant: the handler of process_task swallows the cancellation as well.
WorkerSurvivesCancel(w) ==
    /\ phase = "cancelling"
    /\ loop[w] = "live"
    /\ Finish(w)
    /\ UNCHANGED <<phase, queue, counter, queued, loop>>

\* CancelledError leaves process_task, or get(), and ends the worker.
WorkerCancelled(w) ==
    /\ phase = "cancelling"
    /\ loop[w] = "live"
    /\ Finish(w)
    /\ loop' = [loop EXCEPT ![w] = "done"]
    /\ UNCHANGED <<phase, queue, counter, queued>>

\* ImmediateBatchProcessor._process_one after its row lookup; nothing asks
\* whether the queue is running.
BatchBegin(b, k) ==
    /\ held[b] = NoKey
    /\ k \in Offline
    /\ ~IsTracked(k)
    /\ inflight' = inflight \cup {k}
    /\ held' = [held EXCEPT ![b] = k]
    /\ UNCHANGED <<phase, queue, counter, queued, loop>>

BatchFinish(b) ==
    /\ held[b] # NoKey
    /\ Finish(b)
    /\ UNCHANGED <<phase, queue, counter, queued, loop>>

\* QueueWorkerRuntime.stop up to its wait for the workers.
StopCall ==
    /\ phase = "running"
    /\ phase' = "stopping"
    /\ queue' = queue \cup StopEntries
    /\ counter' = counter + Cardinality(Workers)
    /\ UNCHANGED <<queued, inflight, loop, held>>

\* shutdown_timeout_seconds passed: every worker is cancelled.
StopTimeout ==
    /\ phase = "stopping"
    /\ \E w \in Workers : loop[w] = "live"
    /\ phase' = "cancelling"
    /\ UNCHANGED <<queue, counter, queued, inflight, loop, held>>

\* The end of stop(): a new queue, a cleared registry.
StopFinish ==
    /\ phase \in {"stopping", "cancelling"}
    /\ \A w \in Workers : loop[w] = "done"
    /\ phase' = "stopped"
    /\ queue' = {}
    /\ queued' = {}
    /\ inflight' = {}
    /\ UNCHANGED <<counter, loop, held>>

WorkerStep(w) ==
    WorkerTake(w) \/ WorkerFinish(w) \/ WorkerExit(w) \/ WorkerCancelled(w)

BatchStep(b) == (\E k \in Keys : BatchBegin(b, k)) \/ BatchFinish(b)

Next ==
    \/ Start
    \/ \E k \in Keys : Enqueue(k)
    \/ \E w \in Workers : WorkerStep(w)
    \/ \E b \in Batches : BatchStep(b)
    \/ StopCall
    \/ StopTimeout
    \/ StopFinish

Spec == Init /\ [][Next]_vars

\* The loop runs every ready task in turn, recognition of one file ends, and
\* the shutdown timer fires: what the liveness properties rest on.
Fairness ==
    /\ \A w \in Workers : WF_vars(WorkerStep(w))
    /\ WF_vars(StopTimeout)
    /\ WF_vars(StopFinish)

FairSpec == Spec /\ Fairness

----------------------------------------------------------------------------
\* Types of the variables (workers.py:35-39, execution.py:15-16).
TypeOK ==
    /\ phase \in {"new", "running", "stopping", "cancelling", "stopped"}
    /\ queue \subseteq [prio : {-1, 0, 1}, order : Nat, key : Keys \cup {Stop}]
    /\ counter \in Nat
    /\ queued \subseteq Keys
    /\ inflight \subseteq Keys
    /\ loop \in [Workers -> {"absent", "live", "done"}]
    /\ held \in [Executors -> Keys \cup {NoKey}]

Executing == {held[e] : e \in Executors} \ {NoKey}

\* The registry knows exactly what it guards until stop() clears it: a key is
\* in _queued iff one entry of the queue carries it, in _inflight iff an
\* executor works on it, and never in both (execution.py:11-42).
RegistryExact ==
    /\ queued = {e.key : e \in queue} \ {Stop}
    /\ \A e, f \in queue : e.key = f.key /\ e.key # Stop => e = f
    /\ phase # "stopped" => inflight = Executing
    /\ queued \cap inflight = {}

\* A task is executed once at a time, whether workers or immediate batches
\* pick it up (batch.py:75, workers.py:94); a stopped queue has forgotten
\* which batches still run, and no longer guards them.
OneExecutor ==
    phase # "stopped" =>
        \A e, f \in Executors : e # f /\ held[e] = held[f] => held[e] = NoKey

\* Once stop() was called no worker begins another task, however many wait:
\* each worker finds a sentinel first (workers.py:58-61).
NoStartAfterStop ==
    [][\A w \in Workers : phase # "running" /\ held[w] = NoKey
           => held'[w] = NoKey]_vars

\* A task leaves the queue before every normal task if it is a VIP task, and
\* before every task of its class that was enqueued later (workers.py:81-83).
DispatchOrder ==
    [][\A e \in queue \ queue', f \in queue' :
          e.key # Stop /\ f.key # Stop =>
              /\ f.key \in Vip => e.key \in Vip
              /\ (f.key \in Vip <=> e.key \in Vip) => e.order < f.order]_vars

\* stop() returns, also when a recognition outlives the shutdown timeout
\* (workers.py:52-75).
StopTerminates == phase = "stopping" ~> phase = "stopped"

\* A waiting task is taken while the queue runs, whatever the tasks before it
\* do, an exception in process_task included (workers.py:94-114): a VIP task
\* always, a normal one if the workers are not at VIP tasks again and again.
\* The priority is strict, so VIP submissions that never end starve it.
QueuedServed ==
    \A k \in Keys :
        k \in Vip \/ <>[](\A w \in Workers : held[w] \notin Vip)
            => (k \in queued ~> (k \in inflight \/ phase # "running"))

----------------------------------------------------------------------------
\* The strengthening that makes the invariants above inductive.

\* No two entries carry the same order, and an entry's priority is its key's.
EntriesExact ==
    /\ \A e \in queue : e.order < counter
    /\ \A e \in queue :
         e.prio = (IF e.key = Stop THEN -1 ELSE PriorityFor(e.key))
    /\ \A e, f \in queue : e.order = f.order => e = f

\* What the workers and the sentinels may be in each phase.
PhaseExact ==
    /\ \A w \in Workers : loop[w] # "live" => held[w] = NoKey
    /\ phase = "new" => queue = {} /\ \A w \in Workers : loop[w] = "absent"
    /\ phase = "running" => \A w \in Workers : loop[w] = "live"
    /\ phase \in {"stopping", "cancelling"} =>
          \A w \in Workers : loop[w] # "absent"
    /\ phase = "stopped" => queue = {} /\ \A w \in Workers : loop[w] = "done"
    /\ \A e \in queue : e.key = Stop => phase \in {"stopping", "cancelling"}

Sentinels == {e.order : e \in {f \in queue : f.key = Stop}}
Live == {w \in Workers : loop[w] = "live"}

\* While stop() waits, there is a sentinel for each worker still to end.
SentinelPerWorker ==
    phase = "stopping" =>
        IsFiniteSet(Sentinels) /\ Cardinality(Sentinels) = Cardinality(Live)

\* The inductive invariant of the queue (workers.py, execution.py): the
\* registry, the entries, the workers and the sentinels agree in every phase.
IInv ==
    /\ TypeOK
    /\ EntriesExact
    /\ RegistryExact
    /\ OneExecutor
    /\ PhaseExact
    /\ SentinelPerWorker

----------------------------------------------------------------------------
\* The contract this queue implements.  stop() ends the contract: a batch
\* that still runs after it is no longer seen.
Contract == INSTANCE TaskExecution WITH
    life    <- IF phase = "new" THEN "new"
               ELSE IF phase = "running" THEN "open"
               ELSE IF phase = "stopped" THEN "closed"
               ELSE "closing",
    waiting <- queued,
    holds   <- IF phase = "stopped" THEN [e \in Executors |-> NoKey] ELSE held

\* Every behaviour of the queue is one the contract allows.
ImplementsContract == Contract!ContractSpec

=============================================================================
