--------------------------- MODULE TaskExecution ---------------------------
(***************************************************************************)
(* What the task queue of src/task_queue promises to the rest of the       *)
(* program, without its priority queue, counters, sentinels and registry:  *)
(* a task key waits at most once, is executed by at most one executor at a *)
(* time, and no worker begins a task once the queue has begun to close.    *)
(*                                                                         *)
(* TaskQueue is the detailed specification that implements this one;       *)
(* TaskSystem builds the life of a task on top of it.                      *)
(***************************************************************************)

CONSTANTS
    Keys,       \* task keys, the pairs (kind, task_id) of execution.py:8
    Workers,    \* queue workers (processing.max_concurrent_tasks of them)
    Batches,    \* concurrent callers of process_batch_now
    NoKey       \* what an executor holds when it executes nothing

VARIABLES
    life,       \* life of one OfflineTaskQueue object
    waiting,    \* keys accepted and not yet taken
    holds       \* [Workers \cup Batches -> Keys \cup {NoKey}]

contractVars == <<life, waiting, holds>>

Executors == Workers \cup Batches

ContractTypeOK ==
    /\ life \in {"new", "open", "closing", "closed"}
    /\ waiting \subseteq Keys
    /\ holds \in [Executors -> Keys \cup {NoKey}]

Executing == {holds[e] : e \in Executors} \ {NoKey}

\* is_tracked: the key waits or is executed.
Tracked(k) == k \in waiting \cup Executing

ContractInit ==
    /\ life = "new"
    /\ waiting = {}
    /\ holds = [e \in Executors |-> NoKey]

\* OfflineTaskQueue.start with the pending rows P that recovery read.
Open(P) ==
    /\ life = "new"
    /\ life' = "open"
    /\ waiting' = waiting \cup {k \in P : ~Tracked(k)}
    /\ UNCHANGED holds

\* _enqueue of a key that is not tracked; a tracked key is refused without
\* a change of state.
Accept(k) ==
    /\ life = "open"
    /\ ~Tracked(k)
    /\ waiting' = waiting \cup {k}
    /\ UNCHANGED <<life, holds>>

Begin(w, k) ==
    /\ life = "open"
    /\ k \in waiting
    /\ k \notin Executing
    /\ holds[w] = NoKey
    /\ waiting' = waiting \ {k}
    /\ holds' = [holds EXCEPT ![w] = k]
    /\ UNCHANGED life

\* An immediate batch executes a key outside the queue.
BeginExternal(b, k) ==
    /\ life # "closed"
    /\ ~Tracked(k)
    /\ holds[b] = NoKey
    /\ holds' = [holds EXCEPT ![b] = k]
    /\ UNCHANGED <<life, waiting>>

\* The executor is done with its key, or was cancelled.
End(e) ==
    /\ holds[e] # NoKey
    /\ holds' = [holds EXCEPT ![e] = NoKey]
    /\ UNCHANGED <<life, waiting>>

Close ==
    /\ life = "open"
    /\ life' = "closing"
    /\ UNCHANGED <<waiting, holds>>

\* stop() has seen every worker end: what still waits is dropped and every
\* key is forgotten, the keys of running batches included.
Discard ==
    /\ life = "closing"
    /\ \A w \in Workers : holds[w] = NoKey
    /\ life' = "closed"
    /\ waiting' = {}
    /\ holds' = [e \in Executors |-> NoKey]

ContractNext ==
    \/ \E P \in SUBSET Keys : Open(P)
    \/ \E k \in Keys : Accept(k)
    \/ \E w \in Workers, k \in Keys : Begin(w, k)
    \/ \E b \in Batches, k \in Keys : BeginExternal(b, k)
    \/ \E e \in Executors : End(e)
    \/ Close
    \/ Discard

ContractSpec == ContractInit /\ [][ContractNext]_contractVars

=============================================================================
