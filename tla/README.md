# funasr-api: a TLA+ model of the service

TLA+ modules, TLC configurations and TLAPS proofs about the program in `src/`:
a FastAPI service that recognises speech in uploaded files (OFFLINE), live
streams (ONLINE) and tells speakers apart (SPK), on FunASR models in PyTorch
(PT) or ONNX. Paths below are relative to `src/src/`.

## 1. The system

### Components, state, operations

| Component | State | Operations | Code |
|---|---|---|---|
| Task queue | asyncio `PriorityQueue` of (priority, counter, kind, id), `_running`, worker tasks | `start` with recovery, `enqueue_*`, worker loop, `stop` | `task_queue/queue.py`, `workers.py`, `policy.py`, `recovery.py` |
| Execution registry | sets `_queued`, `_inflight` | `try_enqueue`, `begin_queued`, `try_begin_external`, `finish`, `clear` | `task_queue/execution.py` |
| Immediate batches | none of their own; share the registry | `process_batch_now` | `task_queue/batch.py` |
| Submission | uploaded file, task row | upload, rerecognition, compensation of a failure | `application/tasks.py`, `core/infrastructure_adapters/temp_files.py` |
| Task services and hooks | row status, text files | `process_task` of OFFLINE and SPK, hooks on success and failure | `application/offline.py`, `speaker.py`, `task_flow.py`, `task_queue/result_hooks.py`, `hook_*.py` |
| Archiving | archive store, file index by hash, completion message | `handle_complete`, `store`, `record`, `publish_completion` | `application/postprocess.py`, `file_processing.py`, `core/infrastructure_adapters/audio_backup.py` |
| Task rows | tables of OFFLINE and SPK tasks and of file hashes | create, status, result, error, recovery queries | `database/` |
| ONLINE stream | generation, session lock, bounded audio queue | START, STOP, audio, worker, close | `application/online_stream.py`, `online_stream_runtime.py` |
| ONLINE session | trimmed audio buffer, VAD state, pending segments, locked sentences | `reset`, `add_audio`, `decode_partial`, `finish` | `engine_runtime/engines/online/` |
| OFFLINE ONNX bundle | queue of ASR models, VAD and punctuation locks | `generate` in threads | `engine_runtime/engines/offline/onnx/` |
| Runtime services | service instances, mode availability, model caches | preload, health, `get_*`, unload, setters | `application/runtime.py`, `engine_runtime/services/`, `model_provider.py`, `state.py` |
| Lifecycle | application services | startup, diagnostics, shutdown | `application/lifecycle.py`, `startup_diagnostics.py` |
| Result merging | none (pure functions) | timestamps, sentences, speakers, text repair | `engine_runtime/engines/offline/*_utils.py`, `*/speaker_merge.py`, `online/text_boundary.py` |
| Hotwords, configuration, routes, logging | files and a table; no state that changes while serving | load, precedence, translate requests | `core/`, `api/` |

### How they interact

A route saves the upload, creates a row in state `pending` and hands the key of
the task to the queue. A worker of the queue takes the key, marks the row
`processing`, has the audio recognised in a thread, and runs the success hooks
in order: archive the audio (with deduplication by hash and the completion
message), write the text file, persist the result (`completed`), delete the
temporary audio. An exception runs the failure path, which records `failed`.
At a start the queue makes stale `processing` rows `pending` again and enqueues
the pending rows. All of this runs on one asyncio loop; database, file and
model calls run in threads while the coroutine awaits them.

An ONLINE WebSocket has a controller coroutine that reads messages and a worker
coroutine that decodes. They share the audio queue, a generation number and the
session lock; the session object is called only under that lock.

Concurrent OFFLINE recognitions share one model bundle. With ONNX each call
starts threads for its segments, and all threads draw models from one queue.

### What is hard, and the properties that make it correct

* **Queue.** Workers, submissions, recovery, batches and `stop()` interleave at
  every await. No task may run twice at a time or start after `stop()`, none may
  be forgotten, the order must be VIP first and then by arrival, and `stop()`
  must return.
* **Task life.** Every store may fail, a worker may be cancelled and the process
  may end between any two steps. No unfinished task may lose its audio, a
  completed row must be whole, an ended task must stay as it is, and an accepted
  task must end.
* **Stream.** START may replace a session whose chunks are queued or being
  decoded, the queue overflows, decoding fails and clients vanish. Audio and
  results must stay in their session, the final result must cover all accepted
  audio, `join()` must count exactly and STOP must end.
* **Session.** Positions are kept in absolute samples over a buffer that is
  trimmed, and in milliseconds. Nothing that is still needed may be trimmed, and
  segments must be finalised once and in order.
* **Model pool.** Any thread may raise. A model may be neither lost nor shared,
  and the text must keep the order of the audio.
* **Availability and caches.** Any probe, builder or model may fail, and models
  can be unloaded and loaders replaced while others are cached. A mode may be
  offered only with all the services it requires, no request that is admitted may
  wait for a first load, no stale model may be served, and a stop must release what
  a start, failed or not, has built.
* **Merging.** Units, timestamps and speakers come from different models and
  disagree in their counts and their order. No recognised unit may be lost,
  duplicated, moved, or given to a speaker who was not heard then.

`PROJECT.json` lists the places in the code where these can go wrong, as
"hazards", with the properties that watch each.

## 2. Modules

| Module | Models | Role |
|---|---|---|
| `TaskExecution` | what callers of the queue rely on | abstract specification: a key waits or is held by one executor |
| `TaskQueue` | queue, workers, registry, batches, `stop()` | implements `TaskExecution` (`ImplementsContract`) |
| `TaskQueueProofs` | | proofs about `TaskQueue` |
| `TaskSystem` | submission, processing, hooks, stores, crashes | composes with the queue: EXTENDS its contract |
| `TaskSystemProofs` | | proofs about `TaskSystem` |
| `OnlineStream` | controller and worker of one connection | sees the session from outside |
| `OnlineStreamProofs` | | proofs about `OnlineStream` |
| `RealtimeSession` | the session both backends share | one call at a time, as the stream's lock ensures |
| `RealtimeSessionProofs` | | proofs about `RealtimeSession` |
| `SegmentPool` | concurrent recognitions on one ONNX bundle | |
| `SegmentPoolProofs` | | proofs about `SegmentPool` |
| `ModelCache` | loaders, bundle cache, downloader | one load at a time, on the event loop |
| `Startup` | lifecycle, probes, preload, availability, admission | composes with the caches: EXTENDS `ModelCache` |
| `StartupProofs` | | proofs about the two |
| `SpeakerMerge` | the speaker of a unit, and the loop that merges units | |
| `OfflineResult` | one OFFLINE recognition, from the models' answers to its result | composes with the loop: EXTENDS `SpeakerMerge` |
| `OfflineResultProofs` | | proofs about the loop and the recognition |
| `SequenceFacts` | | lemmas about loops, sorting and flattening for the proofs of others |
| `MC...` | | values of the constants for TLC |

Conventions: a definition has the name of the method it stands for where it
stands for one; a step of a coroutine is the code between two awaits; an
operator marked *Mutant* is a plausible wrong form of the definition after it
and is used by no specification.

### TaskQueue

`queue` holds the entries, `queued` and `inflight` are the sets of the registry,
`loop[w]` says whether a worker task is absent, live or done and `held[e]` what
an executor has in `process_task`. `Start` is `start()`, which has no await:
recovery enqueues some pending keys, in the order of `get_pending_tasks`, and
the workers begin. `Enqueue` is `_enqueue`; `WorkerTake`, `WorkerFinish`,
`WorkerExit` and `WorkerCancelled` are the worker loop; `BatchBegin` and
`BatchFinish` are one task of an immediate batch; `StopCall`, `StopTimeout` and
`StopFinish` are the three parts of `stop()`, which the shutdown timeout splits.
The module follows one queue object from its construction: the lifecycle builds
a new one at every start (`lifecycle.py:38`).

### TaskSystem

`status` and `rowKey` are columns of the rows; `audio`, `text`, `archive`,
`index` and `announced` are the stores; `sub[k]` and `pc[w]` are where a
submission and a worker are. The actions from `SaveUpload` to `CleanUpload` are
the submission with its compensation, `TakeTask` to `EndTask` the processing,
`CancelTask` the cancellation at the shutdown timeout, `Restart` the end of the
process at any moment and its next start. `Faults` says which stores may fail.
The queue is seen through `TaskExecution`, which `TaskQueue` is proved to
implement, so its internal states are not multiplied in. Batches run the same
`process_task`; the configurations leave them out here.

### OnlineStream

`audioQueue` keeps the generation of each chunk; `unfinished` is the counter of
`join()`; `lock` is the session lock. `asyncio.Lock` hands itself to its waiter,
which `AfterCtl` and `AfterWrk` model. `cpc` and `wpc` say at which await the
controller and the worker are. On Python 3.10 and 3.11 `wait_for` runs `get()` in a
task of its own, so a chunk is dequeued in one step (`TakeChunk`) and the worker
resumes with it in a later one (`ProcessAudio`), before which a START may have made it
stale. `wait_for` returns a chunk that was dequeued although its timeout passed or the
worker was cancelled meanwhile. What a client sent before it vanished is still read.
The session's calls are free to return a result, return none or raise.

### RealtimeSession

Samples are counted, not stored. A call goes from `idle` through feeding the VAD
(`Feed`, once a message for PT, in windows for ONNX), the loop over the confirmed
segments (`Confirm` is one round, `ConfirmDone` its end), the flush loop
(`FlushOne`, `FlushDone`) and the partial (`DecodePartial`, `NoPartial`); `finish`
adds `FinalFeed`, `LastFeed`, `FinishOpen`, `FinishClose`, `FlushTail` and
`LockTail`. The VAD is external: it decides at any time, in the order of the
audio, where speech begins and ends, and at most once in an ONNX window. Whether
a decoder returns a text is free, so the effects of quality checks and of the
collapsing of repeated phrases, which may drop a text, are included.

### SegmentPool

`at[r]` is where a call of `generate` is, `seg[r]` the states of its futures,
`decodes[r]` what the loop over `as_completed` has appended, `user[m]` who took
model `m` from the queue. A `ThreadPoolExecutor` starts futures in the order of
submission, at most one per model at a time, and leaves its `with` block when all
have ended, also after an exception.

### ModelCache and Startup

`disk` and `known` are the model directories and what the downloader found by its
last scan; `loader` holds the object each loader's dictionary has under a key,
`bundle` what `RuntimeModelCache` returns. `loading` is the load in progress:
`BeginGet` is `get_or_create`, `LoadHit`, `LoadBuilds`, `Download` and `LoadFails`
are one model each, so that a later model of a service may fail after earlier ones
were kept. `Invalidated` is `_invalidate_bundle_cache`, `UnloadModel` and
`ReplaceLoader` drop objects and clear bundles.

`phase` follows `ApplicationLifecycle`: `Compose` (or `ContainerFails`,
`CompositionFails`), the three probes of `run_startup_diagnostics` with their
timeout, `Diagnose`, the preload (`Get("preload")`, the load, `Preloaded`), `Serve`
with the availability and the queue, a raise anywhere between the two (`StartFails`),
and `StopServices`. While it serves, routes admit tasks and streams (`Submit`,
`OpenStream`), workers take tasks, and users of the manager get models; `Crash` and
`Start` end and begin a process on the same disk and rows. `config` is what an
operator wrote in the configuration; the two starts may have different ones.

A worker takes every queued task, also a recovered one of a mode whose preload failed:
`recognize`, `diarize` and `create_realtime_session` preload a service that is not
loaded and go on to its model without an await, so the model has one load for the two,
and `LoadedOnUse` notes its outcome in the service. The availability of the modes is
not derived again. `job[k]` lists what a recognition asks the manager for, in its
order; with the verification on, OFFLINE asks for the speaker model itself and leaves
the status of the speaker's service alone. `StopServices` ends the running
recognitions with the queue's workers in one step: how `stop()` ends those is the
subject of `TaskQueue`. Keys of `unload_model` are the names of models and bundles;
the empty key is left out. The statuses of the connection checks are those the code
yields; `tests/test_startup_diagnostics.py` (lines 115-165) expects more, a `degraded`
database and a diagnosis that goes on without S3, and the code has neither: a failed
database or storage ends the start.

### SpeakerMerge and OfflineResult

Recognised units are numbered in the order of the raw text; times are ticks.
`SpeakerFor` is `speaker_for_time_range_with_boundary` with its rule for short tokens across a
change of speakers; `MergeUnit` and `MergeEnds` are one round and the end of the
merge loop, which keeps a group as the first and last position of its units.
`OfflineResult` runs `recognize()` of either backend: the VAD's segments, their
padded slices and the timestamps of each (ONNX), or the sentences and their
timestamps (PT), the speaker recognition with its failures, the alignment, the
merge, and `Parse`, which builds the segments, the lines and the speakers' ranges of
the `RecognitionResult`. What the models return is free: all timestamps, none, or
one too few, absolute or relative. ONNX aligns the joined text of all segments, PT each
sentence by itself. `combine_asr_segment_decodes` joins the segments with nothing
between them, so an ASCII word that ends one and an ASCII word that begins the next are
a single word for the alignment: `words` has the first unit of each word of the joined
text, and `JoinText` lets any border fuse (which characters stand there is not modelled).

## 3. Runs

| Run | Instance | Shows |
|---|---|---|
| `queue` | 3 keys (2 OFFLINE, 1 VIP), 2 workers, 2 batches, orders up to 6 | registry exact, one executor, order, no start after stop, contract implemented, `stop()` ends, waiting tasks are taken unless VIP tasks go on for ever |
| `system_faults` | an OFFLINE and an SPK task of equal audio, 2 workers, all faults, 1 restart, limit 1 | audio of every task kept until it is completed, completed and announced rows whole with a sound index, ended is final |
| `system_progress` | 2 OFFLINE tasks, 2 workers, faults but those of the database, 1 restart after rows are stale | unfinished rows are in hands, accepted tasks end |
| `stream` | 3 STARTs, 5 chunks, queue of 2, failing decoder, vanishing client | sessions never mix, final covers accepted, join and lock exact, STOP and queue progress |
| `session` | 13 samples of 2 per ms, messages of 2 or 3, both backends | buffer and segments, deadlock checked |
| `startup` | 5 configurations, 2 starts, 2 builds of a model, 1 dropped | bundles current, serving only when ready, admitted tasks have their models, no first load for an admitted request, a stop releases, a start ends; deadlock checked |
| `result` | 5 ticks of audio, up to 2 units a piece and 3 sentences, 4 VAD outputs, 5 diarizations, both backends | merge exact, speakers heard, result whole, times true but for fused words; deadlock checked |
| `pool` | 2 recognitions, up to 3 segments, 2 models | models exact, order kept, failures surface, every call ends |

Four runs are *expected to be violated*. Each states what a document, docstring or
test says and shows that the code does otherwise:

| Run | Property | What happens |
|---|---|---|
| `system_restart` | `AcceptedEnds` | after a restart within the timeout a `processing` row is not stale yet and is not looked at again |
| `stream_hang` | `StopEnds` | an error event that cannot be sent ends the worker with a chunk queued; a STOP read just before that or later waits in `join()` for ever |
| `session_tail` | `SentencesOrdered` | `finish()` times a streaming tail by the length of the trimmed buffer, so it lies before earlier sentences |
| `result_speaker` | `SpeakerFailureDegrades` | a speaker recognition that fails turns the whole ONNX recognition into an error (`offline/base.py:71`); the document says the text is kept |

What else the models show and the code leaves so, without a claim to the contrary
in a document: a row that cannot be read when a worker takes its key
(`task_flow.py:28`, outside the `try`) stays pending until the next start; the
completion message precedes critical hooks that may still fail the task; two workers
with equal audio that look it up at the same time both archive it; a start recovers
at most the limit of rows; a queue that starts for one of OFFLINE and SPK recovers
the rows of both, and a task of the unavailable one loads its models while the
process serves, on the event loop; a container is left open
when the model manager raises after it (`bootstrap.py:20`); a model directory that
lacks files passes for complete and is never downloaded again; VIP submissions that never
end keep a normal task waiting for ever; and where two ASCII words fuse at the border of
ONNX segments, every later word takes the time of an earlier unit. The properties are
stated so that they hold beside these, and the hazards name them.

### Why the bounds are enough

Two executors of each kind and three keys give every conflict between two
executors and a third waiting task, of both kinds and both classes. Two tasks
with equal audio are the smallest case of deduplication; one restart separates
what happened before from what is recovered after. The stream's queue of two
overflows with a chunk in work and two waiting, and three STARTs give a
replaced session, its replacement and a stale chunk of each. Thirteen samples
hold two whole segments with padding, an open one and a streaming tail, with
trimming between, and with two samples per millisecond the truncation to
milliseconds loses one. Five ticks of audio hold two padded windows that overlap and
three sentences with a gap, and with a short token of two ticks a unit can lie across
a change of speakers, in a gap or beside one; scaled to the code's 250 ms of a short
token, 300 ms of padding and 50 ms of tolerance a tick is about a padding. The five
configurations differ in the modes, their order, the backends, the verification,
downloading, the queue and the notifications; a model that is dropped is built a
second time, and a second start meets the partial directories, pending rows and
changed configuration of the first. Three segments on two models leave one queued in its
executor while another recognition competes for the models.

`MaxOrder`, `MaxCrashes`, `MaxStarts`, `MaxChunks`, `MaxTotal`, `MaxSegments`,
`MaxBuilds`, `MaxDropped`, `MaxLives`, `MaxUnits` and `MaxPieces` bound counters; no other bound is built in.
A bound of submissions also ends them, which matters to liveness: `MaxOrder` is why no
behaviour of the run submits VIP tasks for ever. `QueuedServed` does not rest on that. It
claims of a normal task only that it is taken if from some time on no worker is at a VIP
task, and of a VIP task that it is always taken; the run checks the first where VIP tasks
come to an end and the second for the submissions the bound allows. `CHECK_DEADLOCK FALSE` stands where
the modelled object ends: a stopped queue, ended tasks, a closed connection, no
recognition left. Symmetry between workers is used in the system runs without
liveness properties only.

### Fairness

* `TaskQueue`: weak fairness of each worker's steps, of the shutdown timeout and
  of the end of `stop()`. `TaskSystem`: of each worker's processing, of the start
  of the queue and of a submission under way. An asyncio loop runs every ready
  callback in turn; recognition and the stores are assumed to answer. Nothing
  makes a client submit, a batch run or an operator stop the queue.
* `OnlineStream`: weak fairness of the controller's own steps and of the worker.
  Nothing makes the client send, and nothing keeps it connected.
* `SegmentPool`: weak fairness of each calling thread and of each segment.
  Threads are scheduled and the models return. A lock or a queue of Python does
  not promise order among waiters; weak fairness suffices because there are
  finitely many recognitions.
* `Startup`: weak fairness of the steps of `start()` and `stop()` that do not wait
  (`Compose`, `Diagnose`, `Serve`, `StopServices`), of each probe's timeout, which
  `wait_for` keeps whatever the thread does, and of the preload and its loads.
  No probe has to answer, nobody has to shut down, and a crash is never promised.
* `OfflineResult`: none; that a recognition ends follows as for the next.
* `RealtimeSession`: none. That a call ends follows from the absence of deadlock
  and from the progress of every step in the audio.

## 4. Proofs

All theorems hold for every value of the constants that meets the named
assumptions (`QueueAssumption`, `SystemAssumption`, `StreamAssumption`, `SessionAssumption`,
`PoolAssumption`, `CacheAssumption`, `LifeAssumption`, `TokenAssumption`,
`ResultAssumption`), which every run checks for its own values. They say that bounds,
lengths and times are numbers and that lists are sequences, and no more: a VAD, for
instance, may return any intervals of integers in any order. Every safety invariant
and every action property of a passing run is the conclusion of a theorem.

**TaskQueueProofs.** `InvariantHolds` proves `Spec => []IInv`. The registry
invariants are not inductive alone: that a worker which takes the head of the
queue after `stop()` takes a sentinel needs one sentinel per live worker
(`SentinelPerWorker`), that sentinels come before tasks needs the priorities of
entries to be those of their keys and orders to be distinct (`EntriesExact`), and
what workers and entries may be differs with the phase of the queue
(`PhaseExact`). `IInv` is the conjunction of these with `TypeOK`,
`RegistryExact` and `OneExecutor`. There is one lemma per action.
`NoStartOnceStopped` and `DispatchInOrder` are action properties proved from
`IInv`, with `SentinelFirst` for the first. `QueueImplementsContract` maps each
step to a step of `TaskExecution` or a stutter.

**TaskSystemProofs.** `SystemInvariant` proves `Spec => []IInv`, with any subset
of the stores failing and any number of crashes. Beside the types and the two
invariants of the run, `IInv` says that workers hold different keys none of which
waits (`HoldsExact`, the only place where the contract of the queue is used); that
until a submission is accepted or given up its task is in nobody else's hands and
its row as the submission left it (`SubmissionExact`); and, for each step of
`process_task`, which status the row can have and what the archived object, the
row's `s3_key` and the text file are by then (`WorkExact`). That an idle key has no
worker is not stated but follows from the last two, which is why they are proved
together. `UncompletedKeepAudio` and `CompletedAreWhole` are conjuncts;
`FinishedStaysFinished` is the action property: the steps that write a status find
the row of a held task unfinished. `NoTaskForgotten` proves `UnfinishedTracked`
from `IInv` under `RecoverySeesAll` (the database answers, rows are stale by the
time the process is back, at most `PendingLimit` tasks): without any one of the
three the code does forget tasks until the next start, as `system_restart` shows
for the second.

**OnlineStreamProofs.** `StreamInvariant` proves `Spec => []IInv`. `LockExact` says
who has the lock or will be handed it, `ItemExact` that `join()` counts the queued
chunks and the taken one, `SessionExact` which generation the session, the queued
chunks and the taken one are of, while a START waits for the lock too, `CountExact`
that each accepted chunk of the session was handled, is in hand to be added or waits,
and `ShownExact` between which events the client is. None is inductive alone: a queued
chunk is current because START drains the queue, one that was dequeued may be stale and
is dropped by the check under the lock, and that the final result covers every chunk
rests on `unfinished` being exact.
`JoinCountsExactly`, `AudioStaysInItsSession`, `ResultStaysInItsSession` and
`FinalIsComplete` follow for any queue size, number of STARTs and chunks, with or
without failing decoders and clients that vanish.

**SegmentPoolProofs.** `PoolInvariant` proves `Spec => []IInv`. Beside the models
and the ended recognitions, `IInv` says of each recognition (`Consistent`) that
the collected results are *distinct decoded* segments: as many of them as there
are segments are then all of them (`CombinedIInv`, by cardinality), so the text
is complete and in order. Two lemmas carry most actions: `PlaceChanges` for a
call that goes on with all else as it was, `SegmentMoves` for an unfinished
segment that moves on. `ModelsAreExact`, `TextKeepsOrder`,
`NothingRunsOnAfterEnd` and `FailuresSurface` follow.

**RealtimeSessionProofs.** `SessionInvariant` proves `Spec => []IInv` for both backends
and any rate, message sizes, windows, paddings and gaps. Beside `TypeOK` and
`SegmentsOrdered`, `IInv` says where a call goes on by what it is (`CallExact`), that
the VAD's decisions are in the order of the audio it was fed, an open segment
beginning at the last (`VadExact`), that pending segments lie between what was
finalised and what is confirmed or open (`PendingExact`), and that the buffer begins
before, and all locked sentences end at, the time up to which audio was finalised
(`LockedExact`). `InOrder` alone is not inductive: a confirmed segment may join the
last pending one or follow it, and only the order of the decisions keeps it from
reaching before the segments already finalised. The theorems are
`SegmentsFinaliseInOrder`, `LockedInOrder`, `SessionTypeCorrect` and
`NeededAudioIsKept`, whose action part goes through the steps that trim and shows
that each keeps the padding of every segment known by then.

**StartupProofs.** `BundleIsCurrent` becomes inductive when the load in progress is
part of it: what a load has gathered is what the loaders hold (`LoadExact`), and a
cached bundle is empty or complete (`BundleExact`). A load only adds to the loaders;
`ReleaseIInv` reduces every unload and replaced loader to one condition: no bundle
that stays has a part that goes. On this `AppIInv` rests, which says in which phase
whose load may run, that the required probes had answered before the preload began,
and that the services of an available mode stay loaded while the process serves.
`ServingIsReady` and `StoppingReleases` follow for any configurations and any number
of starts. `PlanIInv` is about what was built: streams and tasks of an available mode
go through loaded services (`JobsLoaded`, of the users in `Admitted`; a recovered task
of another mode may not), everything a loaded service is made of was built in this
life (`ServicesBuilt`), and what was built is still held or was dropped (`BuiltKept`).
A load that builds a model therefore builds one that was dropped, or a new one, during
the preload or for a task of a mode that is not available, which is `ModelsLoadAhead`.
And a load of a loaded service can fail only at a model that was dropped
(`FailedDropped`), so an accepted task, whose services are all loaded, fails for want
of a model only after that: `AcceptedIsServed`. That a recognition asks for no other
service than the preload planned is where the admission (`AppIInv`) comes in, so the
three invariants are proved one on top of the other. `StartupTypeCorrect` adds the
bounds on builds.

**SequenceFacts.** What a loop over a list yields cannot be proved by an induction
theorem (see below), but a *set* of numbers that has 0 and, with n, n + 1 has them all
(`CountingUp`), and a loop is a function of the number of its rounds, which exists
(`RoundsDefined`). On these two rest the facts the other proofs cite: a finite set of
integers has a least and a greatest element; a total order on n positions gives them
the ranks 0 to n - 1, each once (`Ranks`, which is why sorting loses nothing);
flattening lists keeps their elements, each once if the lists share none
(`FlattenElements`, `FlattenInjective`), in the order of the lists (`FlattenPlaced`,
which names list and position of each element); and a sequence without repetition
that has just 1..n has length n (`OnceEach`).

**OfflineResultProofs.** The first theorems are about `MergeLoop`, the loop over any
units. `LoopIInv` says that the complete groups are in order and cover the units before
`Limit`, the first unit of the group being extended, and that the last complete
group has another speaker (`Apart`); `MergeExact` follows at the end of the loop.
`SpeakerIInv` adds that each group has the speaker `SpeakerFor` gives to each of its
units, and speaker segments have a length; `HeardSpeakerSaidIt` then shows that the
overlap of two intervals is the number of ticks they share, for each of the three
rules by which a speaker is chosen. `ResultInvariant` proves both and `ResultIInv` for
whole recognitions of any audio: pieces divide the units 1..n among them (`Divided`)
in the order of their starts (`PiecesOrdered`), while every piece has all its
timestamps these are the times the units were said at, for PT perhaps counted from
the start of the sentence (`StampsTrue`), and the loop runs on these pieces and the
result is parsed from them (`Built`).

From it, `MergedAtTheirTime`: for ONNX the shift by the offset of a padded slice undoes
the model's count from its beginning, whatever the padding and the cut at the ends of
the audio, so the timestamps in a row are the times of the units in a row, and alignment
by position gives the k-th word of the joined text the time of the k-th unit. The words
are apart and reach over all units (`WordsApart`), so k is the number of words that begin
up to that word (`WordsCounted`, by a bijection): its own position while nothing fused,
and less by one for each word that did. For PT the guess of
`maybe_offset_timestamps` can be wrong, and the proof bounds the error: absolute times
pass for relative ones only if the sentence starts at most `Slack` after the audio
does. And `ResultIsWhole`: sets of positions that split 1..n (`Splits`) are
followed through the alignment (`AlignSplits`, `WordsSplit`), the sentences (`PiecesSplit`), the sort
(`SortedSplit`) and the groups, of which only those without text are left out, to the
texts of the segments, and through the joining of lines (`LinesSame`) to the full text.

Of `TaskQueue` and `SegmentPool`, `TypeOK` and the inductive invariants are proved and
are therefore no longer among the properties of the runs.

Model-checked and not proved: the liveness properties (`StopTerminates`, `QueuedServed`,
`AcceptedEnds`, `StopEndsConnected`, `QueueDrains`, `RecognitionEnds`, `StartupEnds`),
as fairness and ENABLED are out of the prover's reach, and absence of deadlock, for
the same reason. The induction theorems of the library take an operator as a
parameter, which none of the provers can instantiate; inductions over lists are
therefore written as `CountingUp` over the set of rounds for which a fact holds.

## 5. Not modelled, and why

* Recognition itself: FunASR models are external; their results are free.
* Batches in `TaskSystem`, and a second `start()` of one queue object, which the
  lifecycle never makes.
* The effect of a call in a thread that lands after its coroutine was cancelled:
  a step is taken at the moment its effect lands, or not at all.
* A rerecognition whose restore fails: it creates nothing.
* Texts, logs, metrics, response formats; of the ONLINE session therefore audio
  quality, boundary repair and the shape of events.
* VAD results with several boundaries in one ONNX window
  (`online/onnx/vad.py:87` reads openings first), see the hazards.
* S3, the local archive and RocketMQ are atomic stores that may fail.
* The ONLINE model adapters, which convert arguments and results and pass the
  FunASR caches through, and the timestamps of ONLINE results.
* The fallbacks of `sentence_builder.py`: `build_sentence_info_from_vad` is reached only
  when no segment has a text, and then yields nothing, as the model does;
  `build_sentence_info_from_timestamps` is not reached. How punctuation changes a text.
* Hotwords, which are joined into one string for each request: see the plan.
* Configuration, routes, text cleaning and logging hold no state that changes while
  serving; of the configuration `Startup` has what its branches depend on, of the
  routes whom they admit.

## 6. Plan

In order of importance:

1. **TextBoundary**: the repair of overlapping texts and the collapsing of repeated
   phrases as operators on short texts, checked to lose no word, and what becomes
   of an overlap with a sentence that was sent.
2. **Hotwords**: precedence of request, stored and default words.
3. `RealtimeSession` with several boundaries in a window.
4. An abstract specification of the stream (a sequence of sessions, each started,
   fed and ended) that `OnlineStream` implements.
