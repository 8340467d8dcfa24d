----------------------------- MODULE ModelCache -----------------------------
(***************************************************************************)
(* The model caches of one process: EngineModelManager and the             *)
(* RuntimeModelProvider behind it, the three loaders with a dictionary     *)
(* each, the bundle cache above them, and the downloader that turns a name *)
(* into a directory.  Every load runs on the event loop without an await,  *)
(* so one load at a time is in progress and nothing else happens until it  *)
(* ends; a model is loaded in one step, so that a later model of the same  *)
(* service may fail, or the process end, after earlier ones were kept.     *)
(***************************************************************************)
EXTENDS Naturals, Sequences, FiniteSets, SequencesExt

CONSTANTS
    Configs,      \* the configurations an operator may start the process with
    MaxBuilds,    \* bound on how often a model is built in one life
    MaxDropped    \* bound on the models dropped in one life when another is

ASSUME CacheAssumption ==
    /\ \A c \in Configs : c.enabled \in Seq({"offline", "online", "spk"})
    /\ MaxBuilds \in Nat \ {0}

Modes    == {"offline", "online", "spk"}
Services == {"offline_asr", "online_asr", "speaker"}

(* The keys of the loaders' dictionaries; "offline-onnx" has no loader and *)
(* lives in its bundle only.                                               *)
PtKeys     == {"offline-pt", "online-pt-streaming-asr", "online-pt-vad",
               "online-pt-final-asr", "online-pt-punc"}
LoaderKeys == PtKeys \cup {"online-onnx", "spk-pt"}
Keys       == LoaderKeys \cup {"offline-onnx"}
Bundles    == {"offline_onnx_model_bundle", "online_pt_model_bundle",
               "online_onnx_model_bundle"}

VARIABLES
    config,   \* what ConfigLoader read at start: enabled modes and backends
    disk,     \* disk[k]: the local directories of the models of k; "partial" is
              \* one that passes for a model directory and lacks some files
    known,    \* the keys whose directories the downloader found by its last scan
    loader,   \* loader[k]: which object of k its loader holds, 0 for none
    bundle,   \* bundle[b]: the objects of the cached bundle, <<>> for none
    built,    \* built[k]: how many objects were built under k in this life
    dropped,  \* the keys whose objects were released in this life
    loading   \* the load in progress: its user, service, models and result

cacheVars == <<config, disk, known, loader, bundle, built, dropped, loading>>

OnDisk(d) == {k \in Keys : d[k] # "absent"}

NoLoad == [user |-> "none", service |-> "none", todo |-> <<>>,
           got |-> <<>>, state |-> "idle"]

PartsOfBundle(b) ==
    CASE b = "offline_onnx_model_bundle" -> <<"offline-onnx">>
      [] b = "online_pt_model_bundle"    ->
            <<"online-pt-streaming-asr", "online-pt-vad",
              "online-pt-final-asr", "online-pt-punc">>
      [] OTHER                           -> <<"online-onnx">>

(* Which bundle serves a service; the PT stack of OFFLINE and the speaker  *)
(* pipeline are cached by their loaders alone.                             *)
BundleOf(s) ==
    CASE s = "offline_asr" /\ config.offline = "onnx" -> "offline_onnx_model_bundle"
      [] s = "online_asr"  /\ config.online  = "onnx" -> "online_onnx_model_bundle"
      [] s = "online_asr"  /\ config.online  = "pt"   -> "online_pt_model_bundle"
      [] OTHER -> "none"

PartsOf(s) ==
    IF BundleOf(s) # "none" THEN PartsOfBundle(BundleOf(s))
    ELSE IF s = "speaker" THEN <<"spk-pt">> ELSE <<"offline-pt">>

CacheInit ==
    /\ config  \in Configs
    /\ disk    \in [Keys -> {"absent"}] \cup [Keys -> {"complete"}]
    /\ known   = OnDisk(disk)
    /\ loader  = [k \in LoaderKeys |-> 0]
    /\ bundle  = [b \in Bundles |-> <<>>]
    /\ built   = [k \in Keys |-> 0]
    /\ dropped = {}
    /\ loading = NoLoad

(* A new process: empty caches, the same disk and a new scan of it, perhaps*)
(* a new configuration.                                                    *)
CacheReset ==
    /\ config'  \in Configs
    /\ known'   = OnDisk(disk)
    /\ loader'  = [k \in LoaderKeys |-> 0]
    /\ bundle'  = [b \in Bundles |-> <<>>]
    /\ built'   = [k \in Keys |-> 0]
    /\ dropped' = {}
    /\ loading' = NoLoad
    /\ UNCHANGED disk

(* get_or_create: a cached bundle is returned as it is.                    *)
BeginGet(u, s) ==
    /\ loading.state = "idle"
    /\ LET hit == BundleOf(s) # "none" /\ bundle[BundleOf(s)] # <<>>
       IN  loading' = [user |-> u, service |-> s, got |-> <<>>,
                       todo  |-> IF hit THEN <<>> ELSE PartsOf(s),
                       state |-> IF hit THEN "ok" ELSE "loading"]
    /\ UNCHANGED <<config, disk, known, loader, bundle, built, dropped>>

\* Mutant: the bundle is cached while it is being filled.
TookEarly(g) ==
    LET got  == Append(loading.got, g)
        rest == Tail(loading.todo)
        b    == BundleOf(loading.service)
    IN  /\ loading' = [loading EXCEPT !.got = got, !.todo = rest,
                          !.state = IF rest = <<>> THEN "ok" ELSE "loading"]
        /\ bundle' = IF b # "none" THEN [bundle EXCEPT ![b] = got] ELSE bundle

(* The load goes on with object g of its first model; after the last one   *)
(* the factory returns and the bundle is cached.                           *)
Took(g) ==
    LET got  == Append(loading.got, g)
        rest == Tail(loading.todo)
        b    == BundleOf(loading.service)
    IN  /\ loading' = [loading EXCEPT !.got = got, !.todo = rest,
                          !.state = IF rest = <<>> THEN "ok" ELSE "loading"]
        /\ bundle' = IF rest = <<>> /\ b # "none"
                     THEN [bundle EXCEPT ![b] = got] ELSE bundle

Held(k) == k \in LoaderKeys /\ loader[k] # 0

(* The dictionary of the loader has the model.                             *)
LoadHit ==
    /\ loading.state = "loading"
    /\ LET k == Head(loading.todo) IN Held(k) /\ Took(loader[k])
    /\ UNCHANGED <<config, disk, known, loader, built, dropped>>

(* ensure_model finds the complete directory, the model is built and kept. *)
LoadBuilds ==
    /\ loading.state = "loading"
    /\ LET k == Head(loading.todo)
           g == built[k] + 1
       IN  /\ ~Held(k)
           /\ k \in known /\ disk[k] = "complete"
           /\ built'  = [built EXCEPT ![k] = g]
           /\ loader' = IF k \in LoaderKeys THEN [loader EXCEPT ![k] = g] ELSE loader
           /\ Took(g)
    /\ UNCHANGED <<config, disk, known, dropped>>

(* A model the scan did not find is downloaded, if that is allowed, and the*)
(* disk scanned again; a failed download may leave a partial directory.    *)
Download ==
    /\ loading.state = "loading"
    /\ LET k == Head(loading.todo)
       IN  /\ ~Held(k)
           /\ k \notin known
           /\ config.auto
           /\ \/ /\ disk'  = [disk EXCEPT ![k] = "complete"]
                 /\ known' = OnDisk(disk')
                 /\ UNCHANGED loading
              \/ /\ \E left \in {disk[k], "partial"} : disk' = [disk EXCEPT ![k] = left]
                 /\ loading' = [loading EXCEPT !.state = "failed"]
                 /\ UNCHANGED known
    /\ UNCHANGED <<config, loader, bundle, built, dropped>>

(* The directory is missing and may not be downloaded, or lacks a required *)
(* file (a scanned one is never downloaded again), or the model raises.  The*)
(* factory raises, so no bundle is cached, but models built before stay in *)
(* their loader.                                                           *)
LoadFails ==
    /\ loading.state = "loading"
    /\ LET k == Head(loading.todo)
       IN  /\ ~Held(k)
           /\ k \in known \/ ~config.auto
    /\ loading' = [loading EXCEPT !.state = "failed"]
    /\ UNCHANGED <<config, disk, known, loader, bundle, built, dropped>>

LoadStep == LoadHit \/ LoadBuilds \/ Download \/ LoadFails

\* Mutant: the parts of the ONLINE PT bundle are forgotten.
InvalidatedByName(key) ==
    CASE key = "all" -> Bundles
      [] key \in {"online-onnx", "online_onnx_model_bundle"} -> {"online_onnx_model_bundle"}
      [] key \in {"offline-onnx", "offline_onnx_model_bundle"} -> {"offline_onnx_model_bundle"}
      [] OTHER -> {}

(* _invalidate_bundle_cache: unloading a part of the ONLINE PT bundle      *)
(* clears the bundle, the alias of a bundle clears it and not its loader.  *)
Invalidated(key) ==
    CASE key = "all" -> Bundles
      [] key \in PtKeys \ {"offline-pt"} -> {"online_pt_model_bundle"}
      [] key \in {"online-onnx", "online_onnx_model_bundle"} -> {"online_onnx_model_bundle"}
      [] key \in {"offline-onnx", "offline_onnx_model_bundle"} -> {"offline_onnx_model_bundle"}
      [] OTHER -> {}

(* Dropping the loader entries K and the bundles B.                        *)
Release(K, B) ==
    LET gone == {k \in K : loader[k] # 0} \cup
                {k \in {"offline-onnx"} : /\ "offline_onnx_model_bundle" \in B
                                          /\ bundle["offline_onnx_model_bundle"] # <<>>}
    IN  /\ gone # {} => Cardinality(dropped) < MaxDropped
        /\ \A k \in gone : built[k] < MaxBuilds
        /\ loader'  = [k \in LoaderKeys |-> IF k \in K THEN 0 ELSE loader[k]]
        /\ bundle'  = [b \in Bundles |-> IF b \in B THEN <<>> ELSE bundle[b]]
        /\ dropped' = dropped \cup gone
        /\ UNCHANGED <<config, disk, known, built, loading>>

UnloadKeys == Keys \cup {"all", "online_onnx_model_bundle", "offline_onnx_model_bundle"}

(* unload_model asks the three loaders for the key, then the bundle cache. *)
UnloadModel(key) ==
    /\ loading.state = "idle"
    /\ Release(IF key = "all" THEN LoaderKeys ELSE LoaderKeys \cap {key},
               Invalidated(key))

KeysOfLoader(l) ==
    CASE l = "pt_loader" -> PtKeys
      [] l = "online_onnx_loader" -> {"online-onnx"}
      [] OTHER -> {"spk-pt"}

(* The setters of the provider put an empty loader in place of the old one.*)
ReplaceLoader(l) ==
    /\ loading.state = "idle"
    /\ Release(KeysOfLoader(l),
               CASE l = "pt_loader" -> {"online_pt_model_bundle"}
                 [] l = "online_onnx_loader" -> {"online_onnx_model_bundle"}
                 [] OTHER -> {})

CacheTypeOK ==
    /\ config \in Configs
    /\ disk \in [Keys -> {"absent", "partial", "complete"}]
    /\ known \subseteq OnDisk(disk)
    /\ loader \in [LoaderKeys -> 0..MaxBuilds]
    /\ \A b \in Bundles : bundle[b] # <<>> => Len(bundle[b]) = Len(PartsOfBundle(b))
    /\ built \in [Keys -> 0..MaxBuilds]
    /\ dropped \subseteq Keys
    /\ loading.state \in {"idle", "loading", "ok", "failed"}
    /\ loading.state = "loading" <=> loading.todo # <<>> /\ loading.state # "failed"

(* A bundle handed to recognitions holds the very objects the loaders hold:*)
(* no unload, no replaced loader and no half-failed load leaves a bundle   *)
(* with a model that was released (RuntimeModelProvider.unload_model,      *)
(* _invalidate_bundle_cache and the setters).                              *)
BundleIsCurrent ==
    \A b \in Bundles : \A i \in DOMAIN bundle[b] :
        LET k == PartsOfBundle(b)[i]
        IN  k \in LoaderKeys => loader[k] = bundle[b][i]

(* What makes BundleIsCurrent inductive: the objects gathered by the load  *)
(* in progress, like those of the cached bundles, exist and are those of   *)
(* the loaders, and the models that remain are the rest of the service's.  *)
Current(objects, parts) ==
    \A i \in 1..Len(objects) :
        /\ objects[i] # 0
        /\ parts[i] \in LoaderKeys => loader[parts[i]] = objects[i]

CacheShape ==
    /\ loader \in [LoaderKeys -> Nat]
    /\ bundle \in [Bundles -> Seq(Nat)]
    /\ built \in [Keys -> Nat]
    /\ loading \in [user : {loading.user}, service : {loading.service},
                    todo : Seq(Keys), got : Seq(Nat),
                    state : {"idle", "loading", "ok", "failed"}]

LoadExact ==
    LET parts == PartsOf(loading.service)
    IN  loading.state = "loading" =>
            /\ loading.todo # <<>>
            /\ Len(loading.got) + Len(loading.todo) = Len(parts)
            /\ \A i \in 1..Len(loading.todo) : loading.todo[i] = parts[Len(loading.got) + i]
            /\ Current(loading.got, parts)

BundleExact ==
    \A b \in Bundles : /\ Len(bundle[b]) \in {0, Len(PartsOfBundle(b))}
                       /\ Current(bundle[b], PartsOfBundle(b))

CacheIInv == CacheShape /\ LoadExact /\ BundleExact

=============================================================================
