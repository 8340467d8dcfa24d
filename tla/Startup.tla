------------------------------- MODULE Startup -------------------------------
(***************************************************************************)
(* The life of one process around its models: ApplicationLifecycle builds  *)
(* the services, probes the dependencies, preloads the models of the       *)
(* enabled modes, derives the available modes and starts the task queue;   *)
(* while it serves, the routes admit work by availability and the workers  *)
(* and streams use the cached models.  The process may be stopped, fail to *)
(* start or be killed at any step, and be started again on the same disk   *)
(* and the same task rows.                                                 *)
(***************************************************************************)
EXTENDS ModelCache

CONSTANT MaxLives    \* bound on the number of starts

ASSUME LifeAssumption == MaxLives \in Nat \ {0}

Kinds  == {"offline", "spk"}
Probes == {"database", "storage", "notifications"}

VARIABLES
    life,       \* how many times the process was started
    phase,      \* where start() or stop() of the lifecycle stands
    container,  \* the service container: "none", "open" or "closed"
    composed,   \* app.state.services is set
    probe,      \* probe[c]: the connection check of c
    svc,        \* svc[s]: the runtime service object s and its preload status
    available,  \* the modes of _mode_availability that are true
    queue,      \* the task queue is running
    rows,       \* rows[k]: the stored task of kind k
    queued,     \* the kinds whose task is in the queue
    accepted,   \* the kinds whose task was submitted in this life
    job         \* job[u]: the services whose models u has yet to get

appVars == <<life, phase, container, composed, probe, svc, available,
             queue, rows, queued, accepted, job>>
vars == <<cacheVars, appVars>>

Users == Kinds \cup {"preload", "stream"}

Enabled(m) == m \in ToSet(config.enabled)

\* Mutant: the plan forgets the verification of OFFLINE PT.
OnnxNeedsSpeaker == config.offline = "onnx"

(* service_plan: what OFFLINE needs beside its own service.                *)
OfflineNeedsSpeaker == config.offline = "onnx" \/ config.verify

ServiceKeys(m) ==
    CASE m = "offline" -> IF OfflineNeedsSpeaker THEN <<"offline_asr", "speaker">>
                                                 ELSE <<"offline_asr">>
      [] m = "online"  -> <<"online_asr">>
      [] OTHER         -> <<"speaker">>

(* enabled_service_keys: in the order of the modes, each service once.     *)
EnabledServiceKeys ==
    LET wanted == FlattenSeq([i \in DOMAIN config.enabled |-> ServiceKeys(config.enabled[i])])
        keys[n \in 0..Len(wanted)] ==
            IF n = 0 THEN <<>>
            ELSE IF wanted[n] \in ToSet(keys[n - 1]) THEN keys[n - 1]
            ELSE Append(keys[n - 1], wanted[n])
    IN  keys[Len(wanted)]

(* What a recognition really asks the manager for: OFFLINE runs the shared *)
(* speaker recognizer only when the verification is on.                    *)
RecognitionUses(k) ==
    IF k = "spk" THEN <<"speaker">>
    ELSE IF config.verify THEN <<"offline_asr", "speaker">> ELSE <<"offline_asr">>

ServiceOf(m) ==
    CASE m = "offline" -> "offline_asr"
      [] m = "online"  -> "online_asr"
      [] OTHER         -> "speaker"

(* _check_notifications: only enabled and complete notifications are probed*)
(* at all.                                                                 *)
NotificationsAtFirst ==
    CASE config.notify = "on"  -> "running"
      [] config.notify = "off" -> "disabled"
      [] OTHER                 -> "failed"

Init ==
    /\ CacheInit
    /\ life      = 1
    /\ phase     = "composing"
    /\ container = "none"
    /\ composed  = FALSE
    /\ probe     = [c \in Probes |-> "off"]
    /\ svc       = [s \in Services |-> "absent"]
    /\ available = {}
    /\ queue     = FALSE
    /\ rows      = [k \in Kinds |-> "none"]
    /\ queued    = {}
    /\ accepted  = {}
    /\ job       = [u \in Users |-> <<>>]

(* main.lifespan runs stop() also when start() raised.                     *)
StartRaises == phase' = "stopping"

(* ConfigLoader, build_container, EngineModelManager and the composition,  *)
(* in this order.  The services of the enabled modes are created, and the  *)
(* modes count as available until the preload says otherwise.              *)
Compose ==
    /\ phase = "composing"
    /\ container' = "open"
    /\ composed'  = TRUE
    /\ svc'       = [s \in Services |->
                        IF \E m \in Modes : Enabled(m) /\ s = ServiceOf(m)
                        THEN "created" ELSE "absent"]
    /\ available' = ToSet(config.enabled)
    /\ probe'     = [c \in Probes |->
                        IF c = "notifications" THEN NotificationsAtFirst ELSE "running"]
    /\ phase'     = "probing"
    /\ UNCHANGED <<cacheVars, life, queue, rows, queued, accepted, job>>

(* The configuration, or a builder of the container, raises.               *)
ContainerFails ==
    /\ phase = "composing"
    /\ StartRaises
    /\ UNCHANGED <<cacheVars, life, container, composed, probe, svc, available,
                   queue, rows, queued, accepted, job>>

(* The model manager or the composition raises: the container that was     *)
(* built before is known to nobody.                                        *)
CompositionFails ==
    /\ phase = "composing"
    /\ container' = "open"
    /\ StartRaises
    /\ UNCHANGED <<cacheVars, life, composed, probe, svc, available, queue,
                   rows, queued, accepted, job>>

(* The three probes run in threads side by side.                           *)
ProbeAnswers(c) ==
    /\ phase = "probing"
    /\ probe[c] = "running"
    /\ \E result \in {"connected", "failed"} : probe' = [probe EXCEPT ![c] = result]
    /\ UNCHANGED <<cacheVars, life, phase, container, composed, svc, available,
                   queue, rows, queued, accepted, job>>

\* Mutant: only the check of the database has a timeout.
ProbeTimeoutDatabase(c) ==
    /\ c = "database"
    /\ phase = "probing"
    /\ probe[c] = "running"
    /\ probe' = [probe EXCEPT ![c] = "failed"]
    /\ UNCHANGED <<cacheVars, life, phase, container, composed, svc, available,
                   queue, rows, queued, accepted, job>>

(* wait_for gives up; the thread may hang on, its late answer is ignored.  *)
ProbeTimeout(c) ==
    /\ phase = "probing"
    /\ probe[c] = "running"
    /\ probe' = [probe EXCEPT ![c] = "failed"]
    /\ UNCHANGED <<cacheVars, life, phase, container, composed, svc, available,
                   queue, rows, queued, accepted, job>>

\* Mutant: the storage is taken for an optional dependency.
RequiredDatabase == {"database"}

(* The checks built with required=True.                                    *)
Required == {"database", "storage"}

(* When every check has its status: a failed required one raises, else the *)
(* preload begins with the plan of the enabled services.                   *)
Diagnose ==
    /\ phase = "probing"
    /\ \A c \in Probes : probe[c] # "running"
    /\ IF \E c \in Required : probe[c] = "failed"
       THEN StartRaises /\ UNCHANGED job
       ELSE /\ phase' = "preloading"
            /\ job'   = [job EXCEPT !["preload"] = EnabledServiceKeys]
    /\ UNCHANGED <<cacheVars, life, container, composed, probe, svc, available,
                   queue, rows, queued, accepted>>

(* A raise between the diagnosis and the end of start(): the status of the  *)
(* container, the plan of the preload or the start of the queue.           *)
StartFails ==
    /\ phase = "preloading" /\ loading.state = "idle"
    /\ StartRaises
    /\ UNCHANGED <<cacheVars, life, container, composed, probe, svc, available,
                   queue, rows, queued, accepted, job>>

(* A user calls load_model of its next service; get_model of the manager   *)
(* runs on the event loop.                                                 *)
Get(u) ==
    /\ job[u] # <<>>
    /\ phase = IF u = "preload" THEN "preloading" ELSE "serving"
    /\ BeginGet(u, Head(job[u]))
    /\ UNCHANGED appVars

Load == LoadStep /\ UNCHANGED appVars

Got == [job EXCEPT ![loading.user] = Tail(@)]
GiveUp == [job EXCEPT ![loading.user] = <<>>]

(* _preload_with notes the outcome.                                        *)
Noted == [svc EXCEPT ![loading.service] =
             IF loading.state = "ok" THEN "loaded" ELSE "failed"]

(* The next service is preloaded whatever became of this one.              *)
Preloaded ==
    /\ loading.user = "preload" /\ loading.state \in {"ok", "failed"}
    /\ svc' = Noted
    /\ job' = Got
    /\ loading' = NoLoad
    /\ UNCHANGED <<config, disk, known, loader, bundle, built, dropped, life,
                   phase, container, composed, probe, available, queue, rows,
                   queued, accepted>>

\* Mutant: one loaded service makes the mode available.
AvailabilityAny ==
    {m \in ToSet(config.enabled) :
        \E s \in ToSet(ServiceKeys(m)) : svc[s] = "loaded"}

(* A mode is available when every service it requires was preloaded.       *)
Availability ==
    {m \in ToSet(config.enabled) :
        \A s \in ToSet(ServiceKeys(m)) : svc[s] = "loaded"}

Supported(k) == Enabled(k)

Recoverable == {k \in Kinds : Supported(k) /\ rows[k] = "pending"}

(* The preload is over: availability is set once for all, and the queue is *)
(* started if one of its modes is available.  Starting recovers the rows of*)
(* every kind it supports.                                                 *)
Serve ==
    /\ phase = "preloading"
    /\ loading.state = "idle" /\ job["preload"] = <<>>
    /\ available' = Availability
    /\ queue'  = (config.queue /\ \E k \in Kinds : k \in available')
    /\ queued' = IF queue' THEN Recoverable ELSE {}
    /\ phase'  = "serving"
    /\ UNCHANGED <<cacheVars, life, container, composed, probe, svc, rows,
                   accepted, job>>

CanAccept(k) == config.queue /\ queue /\ Supported(k)

(* is_task_submission_available                                            *)
SubmissionAvailable(k) == k \in available /\ CanAccept(k)

(* A route admits an upload when its mode is available and the queue takes *)
(* tasks; everything else is answered with 503 and changes nothing.        *)
Submit(k) ==
    /\ phase = "serving" /\ loading.state = "idle"
    /\ SubmissionAvailable(k)
    /\ rows[k] = "none"
    /\ rows'     = [rows EXCEPT ![k] = "pending"]
    /\ queued'   = queued \cup {k}
    /\ accepted' = accepted \cup {k}
    /\ UNCHANGED <<cacheVars, life, phase, container, composed, probe, svc,
                   available, queue, job>>

(* A worker takes the task, also one of a mode that is not available.      *)
TakeTask(k) ==
    /\ phase = "serving" /\ loading.state = "idle"
    /\ queue /\ k \in queued
    /\ queued' = queued \ {k}
    /\ job'    = [job EXCEPT ![k] = RecognitionUses(k)]
    /\ UNCHANGED <<cacheVars, life, phase, container, composed, probe, svc,
                   available, queue, rows, accepted>>

(* recognize, diarize and create_realtime_session preload a service that is*)
(* not loaded before they use it, and go on to its model without an await. *)
(* That the service is loaded now makes no mode available.                 *)
LoadedOnUse(s) ==
    IF loading.service = s /\ svc[s] # "loaded" THEN Noted ELSE svc

(* The recognition has its model, or its load raised and fails the task.   *)
(* OFFLINE asks the manager for the speaker model, not the service.        *)
Recognized(k) ==
    /\ loading.user = k /\ loading.state \in {"ok", "failed"}
    /\ svc' = LoadedOnUse(ServiceOf(k))
    /\ job'  = IF loading.state = "ok" THEN Got ELSE GiveUp
    /\ rows' = IF job'[k] # <<>> THEN rows
               ELSE [rows EXCEPT ![k] = IF loading.state = "ok" THEN "done" ELSE "failed"]
    /\ loading' = NoLoad
    /\ UNCHANGED <<config, disk, known, loader, bundle, built, dropped, life,
                   phase, container, composed, probe, available, queue,
                   queued, accepted>>

(* A client connects; the session gets the bundle of the service.          *)
OpenStream ==
    /\ phase = "serving" /\ loading.state = "idle"
    /\ "online" \in available
    /\ job["stream"] = <<>>
    /\ job' = [job EXCEPT !["stream"] = <<"online_asr">>]
    /\ UNCHANGED <<cacheVars, life, phase, container, composed, probe, svc,
                   available, queue, rows, queued, accepted>>

(* create_realtime_session has the bundle, or raises.                      *)
StreamOpened ==
    /\ loading.user = "stream" /\ loading.state \in {"ok", "failed"}
    /\ svc' = LoadedOnUse("online_asr")
    /\ job' = GiveUp
    /\ loading' = NoLoad
    /\ UNCHANGED <<config, disk, known, loader, bundle, built, dropped, life,
                   phase, container, composed, probe, available, queue, rows,
                   queued, accepted>>

Unload(key) ==
    /\ phase = "serving"
    /\ UnloadModel(key)
    /\ UNCHANGED appVars

Replace(l) ==
    /\ phase = "serving"
    /\ ReplaceLoader(l)
    /\ UNCHANGED appVars

(* The lifespan ends.                                                      *)
Shutdown ==
    /\ phase = "serving" /\ loading.state = "idle"
    /\ phase' = "stopping"
    /\ UNCHANGED <<cacheVars, life, container, composed, probe, svc, available,
                   queue, rows, queued, accepted, job>>

\* Mutant: an error of the queue's stop keeps the container open.
StopServicesOrRaise ==
    /\ phase = "stopping"
    /\ phase' = "stopped"
    /\ IF composed
       THEN /\ queue'     = FALSE
            /\ queued'    = {}
            /\ job'       = [u \in Users |-> <<>>]
            /\ container' \in {"open", "closed"}
       ELSE UNCHANGED <<queue, queued, job, container>>
    /\ UNCHANGED <<cacheVars, life, composed, probe, svc, available, rows, accepted>>

(* stop(): the queue, then the container; each may raise, which is only    *)
(* logged.  Without services there is nothing to stop.                     *)
StopServices ==
    /\ phase = "stopping"
    /\ phase' = "stopped"
    /\ IF composed
       THEN /\ queue'     = FALSE
            /\ queued'    = {}
            /\ job'       = [u \in Users |-> <<>>]
            /\ container' = "closed"
       ELSE UNCHANGED <<queue, queued, job, container>>
    /\ UNCHANGED <<cacheVars, life, composed, probe, svc, available, rows, accepted>>

Crash ==
    /\ phase \notin {"stopped", "down"}
    /\ phase' = "down"
    /\ loading' = NoLoad
    /\ UNCHANGED <<config, disk, known, loader, bundle, built, dropped, life,
                   container, composed, probe, svc, available, queue, rows,
                   queued, accepted, job>>

(* The next start: a new process on the same disk and the same rows.  A    *)
(* kind stands for one task at a time: a finished one makes room.          *)
Start ==
    /\ phase \in {"stopped", "down"}
    /\ life < MaxLives
    /\ life'      = life + 1
    /\ phase'     = "composing"
    /\ CacheReset
    /\ container' = "none"
    /\ composed'  = FALSE
    /\ probe'     = [c \in Probes |-> "off"]
    /\ svc'       = [s \in Services |-> "absent"]
    /\ available' = {}
    /\ queue'     = FALSE
    /\ rows'      = [k \in Kinds |-> IF rows[k] = "pending" THEN "pending" ELSE "none"]
    /\ queued'    = {}
    /\ accepted'  = {}
    /\ job'       = [u \in Users |-> <<>>]

Halted == phase \in {"stopped", "down"} /\ life = MaxLives /\ UNCHANGED vars

Next ==
    \/ Compose \/ ContainerFails \/ CompositionFails
    \/ Diagnose \/ StartFails
    \/ \E c \in Probes : ProbeAnswers(c) \/ ProbeTimeout(c)
    \/ \E u \in Users : Get(u)
    \/ Load \/ Preloaded \/ Serve
    \/ \E k \in Kinds : Submit(k) \/ TakeTask(k) \/ Recognized(k)
    \/ OpenStream \/ StreamOpened
    \/ \E key \in UnloadKeys : Unload(key)
    \/ \E l \in {"pt_loader", "online_onnx_loader", "spk_pt_loader"} : Replace(l)
    \/ Shutdown \/ StopServices \/ Crash \/ Start \/ Halted

(* start() and stop() run to their end: every step of theirs that does not *)
(* wait is taken, a probe that never answers is given up, and a load ends. *)
Fairness ==
    /\ WF_vars(Compose) /\ WF_vars(Diagnose) /\ WF_vars(Serve)
    /\ WF_vars(StopServices)
    /\ \A c \in Probes : WF_vars(ProbeTimeout(c))
    /\ WF_vars(Get("preload")) /\ WF_vars(Load) /\ WF_vars(Preloaded)

Spec == Init /\ [][Next]_vars /\ Fairness

(* The variables of the whole process have their types.                    *)
TypeOK ==
    /\ CacheTypeOK
    /\ life \in 1..MaxLives
    /\ phase \in {"composing", "probing", "preloading", "serving", "stopping",
                  "stopped", "down"}
    /\ container \in {"none", "open", "closed"} /\ composed \in BOOLEAN
    /\ probe \in [Probes -> {"off", "running", "connected", "failed", "disabled"}]
    /\ svc \in [Services -> {"absent", "created", "loaded", "failed"}]
    /\ available \subseteq ToSet(config.enabled)
    /\ queue \in BOOLEAN
    /\ rows \in [Kinds -> {"none", "pending", "done", "failed"}]
    /\ queued \subseteq Kinds /\ accepted \subseteq Kinds
    /\ \A u \in Users : ToSet(job[u]) \subseteq Services

(* The application serves only when the database and the storage answered, *)
(* and its queue runs only when some enabled task mode has every model a   *)
(* recognition of it asks for (ApplicationLifecycle.start,                 *)
(* run_startup_diagnostics, _start_queue_if_ready).                        *)
ServesOnlyReady ==
    phase = "serving" =>
        /\ probe["database"] = "connected" /\ probe["storage"] = "connected"
        /\ queue => \E k \in Kinds : /\ Enabled(k)
                                     /\ \A s \in ToSet(RecognitionUses(k)) : svc[s] = "loaded"

(* A task that a route admitted has all its models: it can fail for want of*)
(* one only after one of them was dropped.  Availability follows the       *)
(* statuses of the preload, whatever part of it failed, and the models of  *)
(* a loaded service are kept (RuntimeApplication.preload_enabled_models,   *)
(* required_service_modes, the loaders' dictionaries).  Rows recovered from*)
(* an earlier life have no such promise: the queue recovers every kind it  *)
(* supports, and their services try once more to load.                     *)
AcceptedServed ==
    [][\A k \in accepted : rows'[k] = "failed" /\ rows[k] # "failed" =>
          \E s \in ToSet(RecognitionUses(k)) : \E p \in ToSet(PartsOf(s)) : p \in dropped]_vars

(* A model is built at most once, and by the preload, unless it was dropped*)
(* or is loaded for a task recovered from an earlier life, of a mode whose *)
(* preload failed: nothing that a route admits waits for a load, OFFLINE   *)
(* and SPK share one speaker model, and the plan of the preload covers what*)
(* recognitions ask for (service_plan.py, the loaders' dictionaries,       *)
(* RuntimeModelCache; the loads on use are offline.py:47, speaker.py:44).  *)
LoadsAhead ==
    [][\A k \in Keys : built'[k] > built[k] =>
          \/ k \in dropped
          \/ /\ built[k] = 0
             /\ phase = "preloading" \/ loading.user \in Kinds \ available]_vars

(* Whatever raised in start() or stop(), a process that composed its       *)
(* services stops with the queue stopped, no recognition running and the   *)
(* container closed (main.lifespan, ApplicationLifecycle.stop).            *)
StopReleases ==
    phase = "stopped" /\ composed =>
        container = "closed" /\ ~queue /\ \A u \in Users : job[u] = <<>>

(* Starting ends: also with a probe that hangs, and with any model failing,*)
(* the process serves or stops, unless it is killed (_call_probe,          *)
(* _preload_with).                                                         *)
StartupEnds == phase = "composing" ~> phase \in {"serving", "stopped", "down"}

(* What makes the three safety properties inductive: a load belongs to the *)
(* phase that runs it, required probes have answered before the preload,   *)
(* and while serving every available mode keeps its services loaded.       *)
AppTypes ==
    /\ svc \in [Services -> {"absent", "created", "loaded", "failed"}]
    /\ probe \in [Probes -> {"off", "running", "connected", "failed", "disabled"}]
    /\ rows \in [Kinds -> {"none", "pending", "done", "failed"}]

LoadInPhase ==
    /\ loading.state = "idle" => loading = NoLoad
    /\ phase \notin {"preloading", "serving"} => loading = NoLoad
    /\ phase = "preloading" => loading.user \in {"none", "preload"}
    /\ phase = "serving" => loading.user # "preload"

ProbesAnswered ==
    /\ phase = "probing" =>
          \A c \in Required : probe[c] \in {"running", "connected", "failed"}
    /\ phase \in {"preloading", "serving"} => \A c \in Required : probe[c] = "connected"

AvailableLoaded ==
    /\ phase \in {"composing", "probing", "preloading"} => accepted = {}
    /\ phase = "serving" =>
          /\ accepted \subseteq available /\ available \subseteq ToSet(config.enabled)
          /\ \A m \in available : \A s \in ToSet(ServiceKeys(m)) : svc[s] = "loaded"
          /\ queue => \E k \in Kinds : k \in available

AppIInv == AppTypes /\ LoadInPhase /\ ProbesAnswered /\ AvailableLoaded /\ StopReleases

(* What makes LoadsAhead inductive.  Who was admitted uses models through  *)
(* loaded services only; what a loaded service is made of was built in this*)
(* life; and what was built is still held, or was dropped, which is the    *)
(* only way for a load by a loaded service to fail.                        *)
JobTypes ==
    /\ job \in [Users -> Seq(Services)]
    /\ loading.state # "idle" => loading.service \in Services /\ loading.user \in Users
    /\ job["stream"] \in {<<>>, <<"online_asr">>}
    /\ loading.user = "stream" => loading.service = "online_asr"

BuiltKept ==
    /\ \A k \in LoaderKeys : /\ loader[k] # 0 => built[k] > 0
                             /\ built[k] > 0 => loader[k] # 0 \/ k \in dropped
    /\ LET cached == bundle["offline_onnx_model_bundle"] # <<>>
       IN  /\ cached => built["offline-onnx"] > 0
           /\ built["offline-onnx"] > 0 => cached \/ "offline-onnx" \in dropped

HasBuilt(s) == \A i \in DOMAIN PartsOf(s) : built[PartsOf(s)[i]] > 0

LoadBuilt ==
    /\ loading.state = "loading" =>
          /\ BundleOf(loading.service) # "none" => bundle[BundleOf(loading.service)] = <<>>
          /\ \A i \in DOMAIN loading.got : built[PartsOf(loading.service)[i]] > 0
    /\ loading.state = "ok" => HasBuilt(loading.service)

ServicesBuilt == \A s \in Services : svc[s] = "loaded" => HasBuilt(s)

(* The users a route admits while their mode is available.                 *)
Admitted == {"stream"} \cup (Kinds \cap available)

JobsLoaded ==
    /\ phase \in {"composing", "probing"} => \A u \in Users : job[u] = <<>>
    /\ phase = "preloading" => \A u \in Users \ {"preload"} : job[u] = <<>>
    /\ phase = "serving" =>
          /\ job["preload"] = <<>>
          /\ \A u \in Admitted : \A i \in DOMAIN job[u] : svc[job[u][i]] = "loaded"
          /\ loading.user \in Admitted => svc[loading.service] = "loaded"

FailedDropped ==
    /\ \A k \in Kinds :
          /\ ToSet(job[k]) \subseteq ToSet(RecognitionUses(k))
          /\ loading.user = k => loading.service \in ToSet(RecognitionUses(k))
    /\ loading.state = "failed" /\ svc[loading.service] = "loaded" =>
          \E p \in ToSet(PartsOf(loading.service)) : p \in dropped

PlanIInv ==
    /\ config \in Configs /\ JobTypes /\ BuiltKept /\ LoadBuilt /\ ServicesBuilt
    /\ JobsLoaded /\ FailedDropped

(* What TypeOK needs beside: a model that is not held may be built again.  *)
BoundsExact ==
    /\ \A k \in LoaderKeys : loader[k] <= built[k] /\ built[k] <= MaxBuilds
                             /\ (loader[k] = 0 => built[k] < MaxBuilds)
    /\ built["offline-onnx"] <= MaxBuilds
    /\ bundle["offline_onnx_model_bundle"] = <<>> => built["offline-onnx"] < MaxBuilds
    /\ loading.state = "ok" => loading.todo = <<>>

=============================================================================
