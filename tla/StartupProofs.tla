---------------------------- MODULE StartupProofs ----------------------------
(* The caches, a start, serving and a stop, for any configurations, any    *)
(* number of starts and any bounds.                                        *)
EXTENDS Startup, SequenceTheorems, SequenceFacts

----------------------------------------------------------------------------
(* The model caches.                                                       *)

(* The models of a bundle, and that no service has none.                   *)
LEMMA Parts ==
  /\ \A b \in Bundles : PartsOfBundle(b) \in Seq(Keys) /\ Len(PartsOfBundle(b)) \in Nat \ {0}
  /\ \A s : PartsOf(s) \in Seq(Keys) /\ PartsOf(s) # <<>>
  /\ \A s : BundleOf(s) \in Bundles \cup {"none"}
  /\ \A s : BundleOf(s) # "none" => PartsOf(s) = PartsOfBundle(BundleOf(s))
  <1>1. /\ \A k \in {"offline-onnx", "online-onnx", "spk-pt", "offline-pt"} : k \in Keys
        /\ \A k \in {"online-pt-streaming-asr", "online-pt-vad", "online-pt-final-asr",
                     "online-pt-punc"} : k \in Keys
    BY DEF Keys, LoaderKeys, PtKeys
  <1>2. \A k \in {"offline-onnx", "online-onnx", "spk-pt", "offline-pt"} :
            <<k>> \in Seq(Keys) /\ Len(<<k>>) = 1
    BY <1>1
  <1> DEFINE pt == <<"online-pt-streaming-asr", "online-pt-vad",
                     "online-pt-final-asr", "online-pt-punc">>
  <1>3. pt \in Seq(Keys) /\ Len(pt) = 4
    BY <1>1
  <1> HIDE DEF pt
  <1>4. \A b : PartsOfBundle(b) \in Seq(Keys) /\ Len(PartsOfBundle(b)) \in {1, 4}
    <2> SUFFICES ASSUME NEW b
                 PROVE  PartsOfBundle(b) \in Seq(Keys) /\ Len(PartsOfBundle(b)) \in {1, 4}
      OBVIOUS
    <2>1. PartsOfBundle(b) \in {pt, <<"offline-onnx">>, <<"online-onnx">>}
      BY DEF PartsOfBundle, pt
    <2>2. CASE PartsOfBundle(b) = pt
      BY <1>3, <2>2
    <2>3. CASE PartsOfBundle(b) \in {<<"offline-onnx">>, <<"online-onnx">>}
      BY <1>2, <2>3
    <2> QED
      BY <2>1, <2>2, <2>3
  <1>5. \A s : PartsOf(s) \in Seq(Keys) /\ Len(PartsOf(s)) \in {1, 4}
    <2> SUFFICES ASSUME NEW s
                 PROVE  PartsOf(s) \in Seq(Keys) /\ Len(PartsOf(s)) \in {1, 4}
      OBVIOUS
    <2>1. CASE BundleOf(s) # "none"
      <3>1. PartsOf(s) = PartsOfBundle(BundleOf(s))
        BY <2>1 DEF PartsOf
      <3> QED
        BY <1>4, <3>1
    <2>2. CASE BundleOf(s) = "none"
      <3>1. PartsOf(s) \in {<<"spk-pt">>, <<"offline-pt">>}
        BY <2>2 DEF PartsOf
      <3> QED
        BY <1>2, <3>1
    <2> QED
      BY <2>1, <2>2
  <1>6. \A s : BundleOf(s) \in Bundles \cup {"none"}
    BY DEF BundleOf, Bundles
  <1>7. \A s : BundleOf(s) # "none" => PartsOf(s) = PartsOfBundle(BundleOf(s))
    BY DEF PartsOf
  <1> QED
    BY <1>4, <1>5, <1>6, <1>7

(* Which bundles a loader's model is part of.                              *)
LEMMA PartsInBundles ==
  /\ \A i \in 1..Len(PartsOfBundle("offline_onnx_model_bundle")) :
        PartsOfBundle("offline_onnx_model_bundle")[i] \notin LoaderKeys
  /\ \A i \in 1..Len(PartsOfBundle("online_onnx_model_bundle")) :
        PartsOfBundle("online_onnx_model_bundle")[i] = "online-onnx"
  /\ \A i \in 1..Len(PartsOfBundle("online_pt_model_bundle")) :
        PartsOfBundle("online_pt_model_bundle")[i] \in PtKeys \ {"offline-pt"}
  BY DEF PartsOfBundle, LoaderKeys, PtKeys

(* In a new process nothing is cached and nothing is being loaded.         *)
LEMMA NoLoadShape ==
  /\ NoLoad \in [user : {NoLoad.user}, service : {NoLoad.service},
                 todo : Seq(Keys), got : Seq(Nat),
                 state : {"idle", "loading", "ok", "failed"}]
  /\ NoLoad.state # "loading"
  BY DEF NoLoad

LEMMA InitCacheIInv == CacheInit => CacheIInv
  <1> SUFFICES ASSUME CacheInit PROVE CacheIInv
    OBVIOUS
  <1> USE DEF CacheInit
  <1>1. CacheShape
    BY NoLoadShape DEF CacheShape
  <1>2. LoadExact
    BY NoLoadShape DEF LoadExact
  <1>3. \A b \in Bundles : bundle[b] = <<>> /\ Len(bundle[b]) = 0
    OBVIOUS
  <1>4. BundleExact
    BY <1>3 DEF BundleExact, Current
  <1> QED
    BY <1>1, <1>2, <1>4 DEF CacheIInv

LEMMA CacheResetIInv == CacheReset => CacheIInv'
  <1> SUFFICES ASSUME CacheReset PROVE CacheIInv'
    OBVIOUS
  <1> USE DEF CacheReset
  <1>1. CacheShape'
    BY NoLoadShape DEF CacheShape
  <1>2. LoadExact'
    BY NoLoadShape DEF LoadExact
  <1>3. \A b \in Bundles : bundle'[b] = <<>> /\ Len(bundle'[b]) = 0
    OBVIOUS
  <1>4. BundleExact'
    BY <1>3 DEF BundleExact, Current
  <1> QED
    BY <1>1, <1>2, <1>4 DEF CacheIInv

(* A step that leaves the caches alone and at most ends a load.            *)
LEMMA CacheKept ==
  ASSUME CacheIInv, UNCHANGED <<config, loader, bundle, built>>,
         \/ loading' = loading
         \/ loading' = NoLoad
         \/ loading' = [loading EXCEPT !.state = "failed"]
  PROVE  CacheIInv'
  <1>1. CacheShape'
    BY NoLoadShape DEF CacheIInv, CacheShape
  <1>2. LoadExact'
    <2>1. CASE loading' = NoLoad
      BY <2>1, NoLoadShape DEF LoadExact
    <2>2. CASE loading' = loading
      BY <2>2 DEF CacheIInv, LoadExact, PartsOf, BundleOf, Current
    <2>3. CASE loading' = [loading EXCEPT !.state = "failed"]
      <3>1. loading'.state = "failed"
        BY <2>3 DEF CacheIInv, CacheShape
      <3> QED
        BY <3>1 DEF LoadExact
    <2> QED
      BY <2>1, <2>2, <2>3
  <1>3. BundleExact'
    BY DEF CacheIInv, BundleExact, Current
  <1> QED
    BY <1>1, <1>2, <1>3 DEF CacheIInv

(* A load begins, with nothing gathered and everything to do.              *)
LEMMA BeginGetIInv ==
  ASSUME CacheIInv, NEW u, NEW s, BeginGet(u, s)
  PROVE  CacheIInv'
  <1> DEFINE hit == BundleOf(s) # "none" /\ bundle[BundleOf(s)] # <<>>
             todo == IF hit THEN <<>> ELSE PartsOf(s)
             state == IF hit THEN "ok" ELSE "loading"
  <1>1. /\ loading' = [user |-> u, service |-> s, got |-> <<>>, todo |-> todo, state |-> state]
        /\ UNCHANGED <<config, loader, bundle, built>>
    BY DEF BeginGet
  <1>2. todo \in Seq(Keys) /\ state \in {"ok", "loading"}
        /\ (state = "loading" => todo = PartsOf(s) /\ todo # <<>>)
    BY Parts
  <1> HIDE DEF hit, todo, state
  <1>3. /\ loading'.service = s /\ loading'.todo = todo /\ loading'.got = <<>>
        /\ loading'.state = state
    BY <1>1
  <1>4. CacheShape'
    BY <1>1, <1>2 DEF CacheIInv, CacheShape
  <1>5. PartsOf(s)' = PartsOf(s)
    BY <1>1 DEF PartsOf, BundleOf
  <1>6. LoadExact'
    BY <1>1, <1>2, <1>3, <1>5 DEF LoadExact, Current
  <1>7. BundleExact'
    BY <1>1 DEF CacheIInv, BundleExact, Current
  <1> QED
    BY <1>4, <1>6, <1>7 DEF CacheIInv

(* The load goes on with object g of its next model, which its loader then *)
(* holds; what was gathered and cached stays current.                      *)
LEMMA TookIInv ==
  ASSUME CacheIInv, loading.state = "loading", NEW g \in Nat \ {0}, Took(g),
         UNCHANGED config, loader' \in [LoaderKeys -> Nat], built' \in [Keys -> Nat],
         \A j \in LoaderKeys : loader[j] # 0 => loader'[j] = loader[j],
         Head(loading.todo) \in LoaderKeys => loader'[Head(loading.todo)] = g
  PROVE  CacheIInv'
  <1> DEFINE parts == PartsOf(loading.service)
             rest == Tail(loading.todo)
             got == Append(loading.got, g)
             b == BundleOf(loading.service)
             n == Len(loading.got)
             state == IF rest = <<>> THEN "ok" ELSE "loading"
  <1>1. /\ loading.todo \in Seq(Keys) /\ loading.got \in Seq(Nat)
        /\ loading.todo # <<>> /\ n + Len(loading.todo) = Len(parts)
        /\ \A i \in 1..Len(loading.todo) : loading.todo[i] = parts[n + i]
        /\ Current(loading.got, parts)
    BY DEF CacheIInv, CacheShape, LoadExact
  <1>2. /\ loading' = [loading EXCEPT !.got = got, !.todo = rest, !.state = state]
        /\ bundle' = IF rest = <<>> /\ b # "none"
                     THEN [bundle EXCEPT ![b] = got] ELSE bundle
    BY DEF Took
  <1>3. /\ parts \in Seq(Keys)
        /\ b \in Bundles \cup {"none"} /\ (b # "none" => parts = PartsOfBundle(b))
    BY Parts
  <1>4. /\ got \in Seq(Nat) /\ Len(got) = n + 1 /\ got[n + 1] = g /\ n \in Nat
        /\ \A i \in 1..n : got[i] = loading.got[i]
    BY <1>1, AppendProperties
  <1>5. /\ rest \in Seq(Keys) /\ Len(rest) = Len(loading.todo) - 1
        /\ \A i \in 1..Len(rest) : rest[i] = loading.todo[i + 1]
    BY <1>1, HeadTailProperties
  <1>6. /\ Head(loading.todo) = loading.todo[1] /\ Len(loading.todo) \in Nat \ {0}
        /\ (rest = <<>> => Len(rest) = 0)
    <2>1. Len(loading.todo) \in Nat \ {0}
      BY <1>1, EmptySeq
    <2>2. Head(loading.todo) = loading.todo[1]
      BY <1>1
    <2>3. rest = <<>> => Len(rest) = 0
      BY EmptySeq
    <2> HIDE DEF rest
    <2> QED
      BY <2>1, <2>2, <2>3
  <1> DEFINE t == Len(loading.todo)
             r == Len(rest)
             h == Len(got)
             p == Len(parts)
  <1>7. n \in Nat /\ t \in Nat \ {0} /\ r \in Nat /\ h \in Nat /\ p \in Nat
        /\ n + t = p /\ r = t - 1 /\ h = n + 1
    <2> HIDE DEF got, rest, parts
    <2> QED
      BY <1>1, <1>3, <1>4, <1>5, <1>6, LenProperties
  <1>8. state \in {"ok", "loading"} /\ (state = "loading" => rest # <<>>)
    OBVIOUS
  <1>9. /\ loading'.service = loading.service /\ loading'.todo = rest
        /\ loading'.got = got /\ loading'.state = state
        /\ loading' \in [user : {loading'.user}, service : {loading'.service},
                         todo : Seq(Keys), got : Seq(Nat),
                         state : {"idle", "loading", "ok", "failed"}]
    BY <1>2, <1>4, <1>5, <1>8 DEF CacheIInv, CacheShape
  <1>10. PartsOf(loading.service)' = parts
    BY <1>9 DEF PartsOf, BundleOf
  <1> HIDE DEF parts, b, got, rest, state
  <1>11. ASSUME NEW i \in 1..Len(got)
         PROVE  got[i] # 0 /\ (parts[i] \in LoaderKeys => loader'[parts[i]] = got[i])
    <2>1. CASE i \in 1..n
      BY <1>1, <1>4, <2>1 DEF Current
    <2>2. CASE i = n + 1
      <3>1. 1 \in 1..t /\ n + 1 = i
        <4> HIDE DEF h, r, p, t, n
        <4> QED
          BY <1>7, <2>2
      <3>2. parts[i] = Head(loading.todo)
        BY <1>1, <1>6, <3>1
      <3> QED
        BY <1>4, <2>2, <3>2
    <2>3. i \in 1..n \/ i = n + 1
      <3>1. i \in 1..h
        OBVIOUS
      <3> HIDE DEF h, r, p, t, n
      <3> QED
        BY <1>7, <3>1
    <2> QED
      BY <2>1, <2>2, <2>3
  <1>12. bundle' \in [Bundles -> Seq(Nat)]
    BY <1>2, <1>3, <1>4 DEF CacheIInv, CacheShape
  <1>13. CacheShape'
    BY <1>9, <1>12 DEF CacheShape
  <1>14. LoadExact'
    <2>1. h + r = p
      <3> HIDE DEF h, r, p, t, n
      <3> QED
        BY <1>7
    <2>2. \A i \in 1..Len(rest) : rest[i] = parts[Len(got) + i]
      <3>1. ASSUME NEW i \in 1..Len(rest) PROVE rest[i] = parts[Len(got) + i]
        <4>1. i + 1 \in 1..t /\ n + (i + 1) = h + i
          <5>1. i \in 1..r
            OBVIOUS
          <5> HIDE DEF h, r, p, t, n
          <5> QED
            BY <1>7, <5>1
        <4> QED
          BY <1>1, <1>5, <4>1
      <3> QED
        BY <3>1
    <2>3. state = "loading" => rest # <<>>
      BY <1>8
    <2> QED
      BY <1>8, <1>9, <1>10, <1>11, <2>1, <2>2, <2>3 DEF LoadExact, Current
  <1>15. BundleExact'
    <2> SUFFICES ASSUME NEW c \in Bundles
                 PROVE  /\ Len(bundle'[c]) \in {0, Len(PartsOfBundle(c))}
                        /\ \A i \in 1..Len(bundle'[c]) :
                              /\ bundle'[c][i] # 0
                              /\ PartsOfBundle(c)[i] \in LoaderKeys =>
                                    loader'[PartsOfBundle(c)[i]] = bundle'[c][i]
      BY DEF BundleExact, Current
    <2>1. CASE rest = <<>> /\ b = c
      <3>1. parts = PartsOfBundle(c) /\ bundle'[c] = got
        BY <1>2, <1>3, <2>1 DEF CacheIInv, CacheShape, Bundles
      <3>2. h = p
        <4>1. r = 0
          BY <1>6, <2>1
        <4> HIDE DEF h, r, p, t, n
        <4> QED
          BY <1>7, <4>1
      <3> QED
        BY <1>11, <3>1, <3>2
    <2>2. CASE ~(rest = <<>> /\ b = c)
      <3>1. bundle'[c] = bundle[c]
        BY <1>2, <2>2 DEF CacheIInv, CacheShape
      <3>2. Len(bundle[c]) \in {0, Len(PartsOfBundle(c))} /\ Current(bundle[c], PartsOfBundle(c))
        BY DEF CacheIInv, BundleExact
      <3> QED
        BY <3>1, <3>2 DEF Current
    <2> QED
      BY <2>1, <2>2
  <1> QED
    BY <1>13, <1>14, <1>15 DEF CacheIInv

LEMMA LoadStepIInv ==
  ASSUME CacheIInv, LoadStep
  PROVE  CacheIInv'
  <1> DEFINE k == Head(loading.todo)
  <1>1. CASE LoadHit
    <2>1. /\ loading.state = "loading" /\ Took(loader[k])
          /\ k \in LoaderKeys /\ loader[k] # 0
          /\ UNCHANGED <<config, loader, built>>
      BY <1>1 DEF LoadHit, Held
    <2>2. loader \in [LoaderKeys -> Nat] /\ built \in [Keys -> Nat]
      BY DEF CacheIInv, CacheShape
    <2> HIDE DEF k
    <2>3. loader[k] \in Nat \ {0}
      BY <2>1, <2>2
    <2> QED
      BY <2>1, <2>2, <2>3, TookIInv DEF k
  <1>2. CASE LoadBuilds
    <2> DEFINE g == built[k] + 1
    <2>1. /\ loading.state = "loading" /\ Took(g)
          /\ k \in LoaderKeys => loader[k] = 0
          /\ built' = [built EXCEPT ![k] = g]
          /\ loader' = IF k \in LoaderKeys THEN [loader EXCEPT ![k] = g] ELSE loader
          /\ UNCHANGED config
      BY <1>2 DEF LoadBuilds, Held
    <2>2. loader \in [LoaderKeys -> Nat] /\ built \in [Keys -> Nat]
      BY DEF CacheIInv, CacheShape
    <2>3. k \in Keys
      BY <2>1, HeadTailProperties DEF CacheIInv, CacheShape, LoadExact
    <2> HIDE DEF k
    <2>4. g \in Nat \ {0}
      BY <2>2, <2>3
    <2> HIDE DEF g
    <2>5. /\ loader' \in [LoaderKeys -> Nat] /\ built' \in [Keys -> Nat]
          /\ \A j \in LoaderKeys : loader[j] # 0 => loader'[j] = loader[j]
          /\ k \in LoaderKeys => loader'[k] = g
      BY <2>1, <2>2, <2>3, <2>4
    <2> QED
      BY <2>1, <2>4, <2>5, TookIInv DEF k
  <1>3. CASE Download
    BY <1>3, CacheKept DEF Download
  <1>4. CASE LoadFails
    BY <1>4, CacheKept DEF LoadFails
  <1> QED
    BY <1>1, <1>2, <1>3, <1>4 DEF LoadStep

(* Loader entries may go when every bundle with one of them goes too.      *)
LEMMA ReleaseIInv ==
  ASSUME CacheIInv, loading.state = "idle", NEW K, NEW B, Release(K, B),
         \A b \in Bundles \ B : \A i \in 1..Len(PartsOfBundle(b)) :
            PartsOfBundle(b)[i] \notin K
  PROVE  CacheIInv'
  <1>1. /\ loader' = [k \in LoaderKeys |-> IF k \in K THEN 0 ELSE loader[k]]
        /\ bundle' = [b \in Bundles |-> IF b \in B THEN <<>> ELSE bundle[b]]
        /\ UNCHANGED <<config, built, loading>>
    BY DEF Release
  <1>2. CacheShape'
    BY <1>1 DEF CacheIInv, CacheShape
  <1>3. LoadExact'
    BY <1>1 DEF LoadExact
  <1>4. BundleExact'
    <2> SUFFICES ASSUME NEW b \in Bundles
                 PROVE  /\ Len(bundle'[b]) \in {0, Len(PartsOfBundle(b))}
                        /\ \A i \in 1..Len(bundle'[b]) :
                              /\ bundle'[b][i] # 0
                              /\ PartsOfBundle(b)[i] \in LoaderKeys =>
                                    loader'[PartsOfBundle(b)[i]] = bundle'[b][i]
      BY DEF BundleExact, Current
    <2>1. CASE b \in B
      <3>1. bundle'[b] = <<>> /\ Len(bundle'[b]) = 0
        BY <1>1, <2>1
      <3> QED
        BY <3>1
    <2>2. CASE b \notin B
      <3>1. bundle'[b] = bundle[b]
        BY <1>1, <2>2
      <3>2. Len(bundle[b]) \in {0, Len(PartsOfBundle(b))} /\ Current(bundle[b], PartsOfBundle(b))
        BY DEF CacheIInv, BundleExact
      <3>3. \A i \in 1..Len(bundle[b]) : PartsOfBundle(b)[i] \notin K
        BY <2>2, <3>2
      <3> QED
        BY <1>1, <3>1, <3>2, <3>3 DEF Current
    <2> QED
      BY <2>1, <2>2
  <1> QED
    BY <1>2, <1>3, <1>4 DEF CacheIInv

LEMMA UnloadModelIInv ==
  ASSUME CacheIInv, NEW key, UnloadModel(key)
  PROVE  CacheIInv'
  <1> DEFINE K == IF key = "all" THEN LoaderKeys ELSE LoaderKeys \cap {key}
             B == Invalidated(key)
  <1>1. loading.state = "idle" /\ Release(K, B)
    BY DEF UnloadModel
  <1>2. ASSUME NEW b \in Bundles \ B, NEW i \in 1..Len(PartsOfBundle(b))
        PROVE  PartsOfBundle(b)[i] \notin K
    <2>1. key # "all"
      BY DEF Invalidated, PtKeys
    <2>2. CASE b = "offline_onnx_model_bundle"
      BY <2>1, <2>2, PartsInBundles
    <2>3. CASE b = "online_onnx_model_bundle"
      <3>1. key # "online-onnx"
        BY <2>3 DEF Invalidated, PtKeys
      <3> QED
        BY <2>1, <2>3, <3>1, PartsInBundles
    <2>4. CASE b = "online_pt_model_bundle"
      <3>1. key \notin PtKeys \ {"offline-pt"}
        BY <2>1, <2>4 DEF Invalidated, PtKeys
      <3> QED
        BY <2>1, <2>4, <3>1, PartsInBundles
    <2> QED
      BY <2>2, <2>3, <2>4 DEF Bundles
  <1> HIDE DEF K, B
  <1> QED
    BY <1>1, <1>2, ReleaseIInv

LEMMA ReplaceLoaderIInv ==
  ASSUME CacheIInv, NEW l, ReplaceLoader(l)
  PROVE  CacheIInv'
  <1> DEFINE K == KeysOfLoader(l)
             B == CASE l = "pt_loader" -> {"online_pt_model_bundle"}
                    [] l = "online_onnx_loader" -> {"online_onnx_model_bundle"}
                    [] OTHER -> {}
  <1>1. loading.state = "idle" /\ Release(K, B)
    BY DEF ReplaceLoader
  <1>2. ASSUME NEW b \in Bundles \ B, NEW i \in 1..Len(PartsOfBundle(b))
        PROVE  PartsOfBundle(b)[i] \notin K
    <2>1. K \subseteq LoaderKeys
      BY DEF KeysOfLoader, LoaderKeys
    <2>2. CASE b = "offline_onnx_model_bundle"
      BY <2>1, <2>2, PartsInBundles
    <2>3. CASE b = "online_onnx_model_bundle"
      <3>1. "online-onnx" \notin K
        BY <2>3 DEF KeysOfLoader, PtKeys
      <3> QED
        BY <2>3, <3>1, PartsInBundles
    <2>4. CASE b = "online_pt_model_bundle"
      <3>1. K \cap (PtKeys \ {"offline-pt"}) = {}
        BY <2>4 DEF KeysOfLoader, PtKeys
      <3> QED
        BY <2>4, <3>1, PartsInBundles
    <2> QED
      BY <2>2, <2>3, <2>4 DEF Bundles
  <1> HIDE DEF K, B
  <1> QED
    BY <1>1, <1>2, ReleaseIInv

LEMMA CacheNext == CacheIInv /\ [Next]_vars => CacheIInv'
  <1> SUFFICES ASSUME CacheIInv, [Next]_vars PROVE CacheIInv'
    OBVIOUS
  <1>1. CASE \/ Compose \/ ContainerFails \/ CompositionFails \/ StartFails \/ Diagnose \/ Serve
             \/ OpenStream \/ Shutdown \/ StopServices \/ Halted
    <2>1. UNCHANGED cacheVars
      BY <1>1 DEF Compose, ContainerFails, CompositionFails, StartFails, Diagnose, Serve,
                  OpenStream, Shutdown, StopServices, Halted, vars
    <2> QED
      BY <2>1, CacheKept DEF cacheVars
  <1>2. CASE \/ \E c \in Probes : ProbeAnswers(c) \/ ProbeTimeout(c)
             \/ \E k \in Kinds : Submit(k) \/ TakeTask(k)
    <2>1. UNCHANGED cacheVars
      BY <1>2 DEF ProbeAnswers, ProbeTimeout, Submit, TakeTask
    <2> QED
      BY <2>1, CacheKept DEF cacheVars
  <1>3. CASE \E u \in Users : Get(u)
    BY <1>3, BeginGetIInv DEF Get
  <1>4. CASE Load
    BY <1>4, LoadStepIInv DEF Load
  <1>5. CASE Preloaded \/ StreamOpened \/ Crash \/ \E k \in Kinds : Recognized(k)
    <2>1. loading' = NoLoad /\ UNCHANGED <<config, loader, bundle, built>>
      BY <1>5 DEF Preloaded, StreamOpened, Crash, Recognized
    <2> QED
      BY <2>1, CacheKept
  <1>6. CASE \E key \in UnloadKeys : Unload(key)
    BY <1>6, UnloadModelIInv DEF Unload
  <1>7. CASE \E l \in {"pt_loader", "online_onnx_loader", "spk_pt_loader"} : Replace(l)
    BY <1>7, ReplaceLoaderIInv DEF Replace
  <1>8. CASE Start
    BY <1>8, CacheResetIInv DEF Start
  <1>9. CASE UNCHANGED vars
    BY <1>9, CacheKept DEF vars, cacheVars
  <1> QED
    BY <1>1, <1>2, <1>3, <1>4, <1>5, <1>6, <1>7, <1>8, <1>9 DEF Next

(* Every bundle that may be served is complete, exists, and holds what the *)
(* loaders hold, in every state of every start of the process.             *)
THEOREM CacheInvariant == Spec => []CacheIInv
  <1>1. Init => CacheIInv
    BY InitCacheIInv DEF Init
  <1> QED
    BY <1>1, CacheNext, PTL DEF Spec

(* RuntimeModelProvider serves no bundle with a model that a loader no     *)
(* longer holds, after any loads, failures, unloads and replaced loaders.  *)
THEOREM ServedBundlesAreCurrent == Spec => []BundleIsCurrent
  <1>1. CacheIInv => BundleIsCurrent
    <2> SUFFICES ASSUME CacheIInv, NEW b \in Bundles, NEW i \in DOMAIN bundle[b]
                 PROVE  PartsOfBundle(b)[i] \in LoaderKeys =>
                           loader[PartsOfBundle(b)[i]] = bundle[b][i]
      BY DEF BundleIsCurrent
    <2>1. i \in 1..Len(bundle[b])
      BY LenProperties DEF CacheIInv, CacheShape
    <2> QED
      BY <2>1 DEF CacheIInv, BundleExact, Current
  <1> QED
    BY <1>1, CacheInvariant, PTL

----------------------------------------------------------------------------
(* The process.                                                            *)

(* What a recognition asks for is among the services its mode requires.    *)
LEMMA UsesRequired ==
  ASSUME NEW k \in Kinds
  PROVE  /\ ToSet(RecognitionUses(k)) \subseteq ToSet(ServiceKeys(k))
         /\ ServiceOf(k) \in ToSet(ServiceKeys(k))
  <1>1. /\ ToSet(<<"speaker">>) = {"speaker"} /\ ToSet(<<"offline_asr">>) = {"offline_asr"}
        /\ ToSet(<<"offline_asr", "speaker">>) = {"offline_asr", "speaker"}
    BY DEF ToSet
  <1>2. CASE k = "spk"
    BY <1>1, <1>2 DEF RecognitionUses, ServiceKeys, ServiceOf
  <1>3. CASE k = "offline"
    BY <1>1, <1>3 DEF RecognitionUses, ServiceKeys, ServiceOf, OfflineNeedsSpeaker
  <1> QED
    BY <1>2, <1>3 DEF Kinds

LEMMA ServiceKeysAreServices == \A m : ToSet(ServiceKeys(m)) \subseteq Services
  <1>1. /\ ToSet(<<"speaker">>) = {"speaker"} /\ ToSet(<<"offline_asr">>) = {"offline_asr"}
        /\ ToSet(<<"offline_asr", "speaker">>) = {"offline_asr", "speaker"}
        /\ ToSet(<<"online_asr">>) = {"online_asr"}
    BY DEF ToSet
  <1> QED
    BY <1>1 DEF ServiceKeys, Services

LEMMA InitAppIInv == Init => AppIInv
  <1> SUFFICES ASSUME Init PROVE AppIInv
    OBVIOUS
  <1> USE DEF Init, CacheInit
  <1>1. AppTypes
    BY DEF AppTypes
  <1>2. LoadInPhase
    BY DEF LoadInPhase
  <1>3. ProbesAnswered /\ AvailableLoaded /\ StopReleases
    BY DEF ProbesAnswered, AvailableLoaded, StopReleases
  <1> QED
    BY <1>1, <1>2, <1>3 DEF AppIInv

(* The types of the three functions are kept by every step.                *)
LEMMA AppTypesNext == AppTypes /\ [Next]_vars => AppTypes'
  <1> SUFFICES ASSUME AppTypes, [Next]_vars PROVE AppTypes'
    OBVIOUS
  <1> USE DEF AppTypes
  <1>1. CASE Compose
    BY <1>1 DEF Compose, NotificationsAtFirst
  <1>2. CASE \/ ContainerFails \/ CompositionFails \/ StartFails \/ Diagnose \/ Serve
             \/ OpenStream \/ Shutdown \/ StopServices \/ Crash \/ Halted \/ Load
             \/ UNCHANGED vars
    BY <1>2 DEF ContainerFails, CompositionFails, StartFails, Diagnose, Serve, OpenStream,
                Shutdown, StopServices, Crash, Halted, Load, vars, appVars
  <1>3. CASE \E c \in Probes : ProbeAnswers(c) \/ ProbeTimeout(c)
    BY <1>3 DEF ProbeAnswers, ProbeTimeout
  <1>4. CASE \/ \E u \in Users : Get(u)
             \/ \E key \in UnloadKeys : Unload(key)
             \/ \E l \in {"pt_loader", "online_onnx_loader", "spk_pt_loader"} : Replace(l)
    BY <1>4 DEF Get, Unload, Replace, appVars
  <1>5. CASE Preloaded \/ StreamOpened
    BY <1>5 DEF Preloaded, StreamOpened, Noted, LoadedOnUse
  <1>6. CASE \E k \in Kinds : Submit(k) \/ TakeTask(k) \/ Recognized(k)
    BY <1>6 DEF Submit, TakeTask, Recognized, Noted, LoadedOnUse
  <1>7. CASE Start
    BY <1>7 DEF Start
  <1> QED
    BY <1>1, <1>2, <1>3, <1>4, <1>5, <1>6, <1>7 DEF Next

(* A step of a load keeps its user.                                        *)
LEMMA LoadStepKeepsUser ==
  ASSUME CacheIInv, LoadStep
  PROVE  /\ loading'.user = loading.user
         /\ loading.state = "loading" /\ loading'.state # "idle"
  BY DEF CacheIInv, CacheShape, LoadStep, LoadHit, LoadBuilds, Download, LoadFails, Took

LEMMA LoadInPhaseNext == CacheIInv /\ LoadInPhase /\ [Next]_vars => LoadInPhase'
  <1> SUFFICES ASSUME CacheIInv, LoadInPhase, [Next]_vars PROVE LoadInPhase'
    OBVIOUS
  <1>0. NoLoad.user = "none" /\ NoLoad.state = "idle"
    BY DEF NoLoad
  <1> USE <1>0 DEF LoadInPhase
  <1>1. CASE \/ Compose \/ ContainerFails \/ CompositionFails \/ StartFails \/ Diagnose
             \/ OpenStream \/ Shutdown \/ StopServices \/ Halted
             \/ UNCHANGED vars
    <2>1. loading' = loading
      BY <1>1 DEF Compose, ContainerFails, CompositionFails, StartFails, Diagnose,
                  OpenStream, Shutdown, StopServices, Halted, vars, cacheVars
    <2>2. \/ phase' = phase
          \/ loading = NoLoad
      BY <1>1 DEF Compose, ContainerFails, CompositionFails, StartFails, Diagnose,
                  OpenStream, Shutdown, StopServices, Halted, vars, appVars
    <2> QED
      BY <2>1, <2>2
  <1>2. CASE Serve
    BY <1>2 DEF Serve, cacheVars
  <1>3. CASE \/ \E c \in Probes : ProbeAnswers(c) \/ ProbeTimeout(c)
             \/ \E k \in Kinds : Submit(k) \/ TakeTask(k)
    BY <1>3 DEF ProbeAnswers, ProbeTimeout, Submit, TakeTask, cacheVars
  <1>4. CASE \E u \in Users : Get(u)
    BY <1>4 DEF Get, BeginGet, appVars, Users, Kinds
  <1>5. CASE Load
    BY <1>5, LoadStepKeepsUser DEF Load, appVars
  <1>6. CASE Preloaded \/ StreamOpened \/ \E k \in Kinds : Recognized(k)
    BY <1>6 DEF Preloaded, StreamOpened, Recognized
  <1>7. CASE \/ \E key \in UnloadKeys : Unload(key)
             \/ \E l \in {"pt_loader", "online_onnx_loader", "spk_pt_loader"} : Replace(l)
    BY <1>7 DEF Unload, Replace, UnloadModel, ReplaceLoader, Release, appVars
  <1>8. CASE Crash \/ Start
    BY <1>8 DEF Crash, Start, CacheReset
  <1> QED
    BY <1>1, <1>2, <1>3, <1>4, <1>5, <1>6, <1>7, <1>8 DEF Next

LEMMA ProbesAnsweredNext ==
  AppTypes /\ LoadInPhase /\ ProbesAnswered /\ [Next]_vars => ProbesAnswered'
  <1> SUFFICES ASSUME AppTypes, LoadInPhase, ProbesAnswered, [Next]_vars
               PROVE  ProbesAnswered'
    OBVIOUS
  <1> USE DEF ProbesAnswered
  <1>1. CASE Compose
    BY <1>1 DEF Compose, Required, Probes
  <1>2. CASE Diagnose
    BY <1>2 DEF Diagnose, StartRaises, Required, Probes, AppTypes
  <1>3. CASE \E c \in Probes : ProbeAnswers(c) \/ ProbeTimeout(c)
    BY <1>3 DEF ProbeAnswers, ProbeTimeout, AppTypes, Required, Probes
  <1>4. CASE \/ ContainerFails \/ CompositionFails \/ StartFails \/ Serve \/ OpenStream
             \/ Shutdown \/ StopServices \/ Crash \/ Halted \/ Load \/ Preloaded
             \/ StreamOpened \/ UNCHANGED vars
    <2>1. /\ probe' = probe
          /\ phase' \in {"probing", "preloading"} => phase' = phase
          /\ phase' = "serving" => phase \in {"preloading", "serving"}
      BY <1>4 DEF ContainerFails, CompositionFails, StartFails, StartRaises, Serve, OpenStream,
                  Shutdown, StopServices, Crash, Halted, Load, Preloaded,
                  StreamOpened, vars, appVars
    <2> QED
      BY <2>1
  <1>5. CASE \/ \E u \in Users : Get(u)
             \/ \E key \in UnloadKeys : Unload(key)
             \/ \E l \in {"pt_loader", "online_onnx_loader", "spk_pt_loader"} : Replace(l)
             \/ \E k \in Kinds : Submit(k) \/ TakeTask(k) \/ Recognized(k)
    <2>1. probe' = probe /\ phase' = phase
      BY <1>5 DEF Get, Unload, Replace, Submit, TakeTask, Recognized, appVars
    <2> QED
      BY <2>1
  <1>6. CASE Start
    BY <1>6 DEF Start
  <1> QED
    BY <1>1, <1>2, <1>3, <1>4, <1>5, <1>6 DEF Next

(* A load on use changes the status of a service that is not loaded only.  *)
LEMMA LoadedStaysLoaded ==
  ASSUME AppTypes, NEW s
  PROVE  \A t \in Services : svc[t] = "loaded" => LoadedOnUse(s)[t] = "loaded"
  BY DEF AppTypes, LoadedOnUse, Noted

(* Loaded services of available modes stay loaded while serving: only the  *)
(* preload and the use of a service that was not loaded write a status.    *)
LEMMA AvailableLoadedNext ==
  AppTypes /\ LoadInPhase /\ AvailableLoaded /\ [Next]_vars => AvailableLoaded'
  <1> SUFFICES ASSUME AppTypes, LoadInPhase, AvailableLoaded, [Next]_vars
               PROVE  AvailableLoaded'
    OBVIOUS
  <1> DEFINE loaded(m) == \A s \in ToSet(ServiceKeys(m)) : svc[s] = "loaded"
  <1>1. CASE \/ Compose \/ ContainerFails \/ CompositionFails \/ StartFails \/ Diagnose
             \/ Shutdown \/ StopServices \/ Crash
             \/ \E c \in Probes : ProbeAnswers(c) \/ ProbeTimeout(c)
    <2>1. /\ accepted' = accepted /\ phase' # "serving"
          /\ \/ phase' \in {"stopping", "stopped", "down"}
             \/ phase \in {"composing", "probing", "preloading"}
      BY <1>1 DEF Compose, ContainerFails, CompositionFails, StartFails, StartRaises, Diagnose,
                  Shutdown, StopServices, Crash, ProbeAnswers, ProbeTimeout
    <2> QED
      BY <2>1 DEF AvailableLoaded
  <1>2. CASE Start
    BY <1>2 DEF Start, AvailableLoaded
  <1>3. CASE Preloaded
    <2>1. phase # "serving" /\ phase' = phase /\ accepted' = accepted
      BY <1>3 DEF Preloaded, LoadInPhase
    <2> QED
      BY <2>1 DEF AvailableLoaded
  <1>4. CASE Serve
    <2>1. /\ phase' = "serving" /\ phase = "preloading" /\ accepted' = accepted
          /\ available' = Availability /\ svc' = svc /\ config' = config
          /\ queue' = (config.queue /\ \E k \in Kinds : k \in available')
      BY <1>4 DEF Serve, cacheVars
    <2>2. accepted' = {} /\ available' \subseteq ToSet(config.enabled)
      BY <2>1 DEF AvailableLoaded, Availability
    <2>3. \A m \in available' : loaded(m)
      BY <2>1 DEF Availability
    <2>4. \A m : ServiceKeys(m)' = ServiceKeys(m)
      BY <2>1 DEF ServiceKeys, OfflineNeedsSpeaker
    <2> QED
      BY <2>1, <2>2, <2>3, <2>4 DEF AvailableLoaded
  <1>5. ASSUME /\ UNCHANGED <<config, phase, available, queue>>
               /\ phase = "serving" \/ accepted' = accepted
               /\ accepted' \subseteq accepted \cup available
               /\ \A s \in Services : svc[s] = "loaded" => svc'[s] = "loaded"
        PROVE  AvailableLoaded'
    <2>1. \A m : ServiceKeys(m)' = ServiceKeys(m)
      BY <1>5 DEF ServiceKeys, OfflineNeedsSpeaker
    <2>2. phase \in {"composing", "probing", "preloading"} => accepted' = {}
      BY <1>5 DEF AvailableLoaded
    <2>3. ASSUME phase = "serving"
          PROVE  /\ accepted' \subseteq available /\ available \subseteq ToSet(config.enabled)
                 /\ \A m \in available : \A s \in ToSet(ServiceKeys(m)) : svc'[s] = "loaded"
                 /\ queue => \E k \in Kinds : k \in available
      BY <1>5, <2>3, ServiceKeysAreServices DEF AvailableLoaded
    <2> QED
      BY <1>5, <2>1, <2>2, <2>3 DEF AvailableLoaded
  <1>6. CASE StreamOpened
    <2>1. \A s \in Services : svc[s] = "loaded" => svc'[s] = "loaded"
      BY <1>6, LoadedStaysLoaded DEF StreamOpened
    <2> QED
      BY <1>5, <1>6, <2>1 DEF StreamOpened
  <1>7. CASE OpenStream \/ Load \/ Halted \/ UNCHANGED vars
    <2>1. UNCHANGED <<config, phase, available, queue, svc, accepted>>
      BY <1>7 DEF OpenStream, Load, LoadStep, LoadHit, LoadBuilds, Download, LoadFails,
                  Halted, vars, appVars, cacheVars
    <2> QED
      BY <1>5, <2>1
  <1>8. CASE \/ \E u \in Users : Get(u)
             \/ \E key \in UnloadKeys : Unload(key)
             \/ \E l \in {"pt_loader", "online_onnx_loader", "spk_pt_loader"} : Replace(l)
    <2>1. UNCHANGED <<config, phase, available, queue, svc, accepted>>
      BY <1>8 DEF Get, BeginGet, Unload, UnloadModel, Replace, ReplaceLoader, Release, appVars
    <2> QED
      BY <1>5, <2>1
  <1>9. CASE \E k \in Kinds : Submit(k) \/ TakeTask(k) \/ Recognized(k)
    <2>1. /\ UNCHANGED <<config, phase, available, queue>>
          /\ accepted' # accepted => phase = "serving"
          /\ accepted' \subseteq accepted \cup available
      BY <1>9 DEF Submit, SubmissionAvailable, TakeTask, Recognized, cacheVars
    <2>2. svc' = svc \/ \E s \in Services : svc' = LoadedOnUse(s)
      BY <1>9 DEF Submit, TakeTask, Recognized, ServiceOf, Services
    <2>3. \A s \in Services : svc[s] = "loaded" => svc'[s] = "loaded"
      BY <2>2, LoadedStaysLoaded
    <2> QED
      BY <1>5, <2>1, <2>3
  <1> QED
    BY <1>1, <1>2, <1>3, <1>4, <1>6, <1>7, <1>8, <1>9 DEF Next

LEMMA StopReleasesNext == LoadInPhase /\ StopReleases /\ [Next]_vars => StopReleases'
  <1> SUFFICES ASSUME LoadInPhase, StopReleases, [Next]_vars PROVE StopReleases'
    OBVIOUS
  <1>0. NoLoad.user = "none" /\ NoLoad.state = "idle"
    BY DEF NoLoad
  <1>1. CASE StopServices
    <2>1. CASE composed
      BY <1>1, <2>1 DEF StopServices, StopReleases
    <2>2. CASE ~composed
      BY <1>1, <2>2 DEF StopServices, StopReleases
    <2> QED
      BY <2>1, <2>2
  <1>2. CASE Halted \/ UNCHANGED vars
    BY <1>2 DEF Halted, StopReleases, vars, appVars
  <1>3. CASE Load
    <2>1. phase # "stopped"
      BY <1>3, <1>0 DEF Load, LoadStep, LoadHit, LoadBuilds, Download, LoadFails, LoadInPhase
    <2> QED
      BY <1>3, <2>1 DEF Load, StopReleases, appVars
  <1>4. CASE \/ Compose \/ ContainerFails \/ CompositionFails \/ StartFails \/ Diagnose \/ Serve
             \/ OpenStream \/ Shutdown \/ Crash \/ Start
             \/ \E c \in Probes : ProbeAnswers(c) \/ ProbeTimeout(c)
    <2>1. phase' # "stopped"
      BY <1>4 DEF Compose, ContainerFails, CompositionFails, StartFails, StartRaises, Diagnose, Serve,
                  OpenStream, Shutdown, Crash, Start, ProbeAnswers, ProbeTimeout
    <2> QED
      BY <2>1 DEF StopReleases
  <1>5. CASE Preloaded \/ StreamOpened \/ \E k \in Kinds : Recognized(k)
    <2>1. phase # "stopped"
      BY <1>5, <1>0 DEF Preloaded, StreamOpened, Recognized, LoadInPhase
    <2>2. phase' = phase
      BY <1>5 DEF Preloaded, StreamOpened, Recognized
    <2> QED
      BY <2>1, <2>2 DEF StopReleases
  <1>6. CASE \/ \E u \in Users : Get(u)
             \/ \E key \in UnloadKeys : Unload(key)
             \/ \E l \in {"pt_loader", "online_onnx_loader", "spk_pt_loader"} : Replace(l)
             \/ \E k \in Kinds : Submit(k) \/ TakeTask(k)
    <2>1. phase # "stopped" /\ phase' = phase
      BY <1>6 DEF Get, Unload, Replace, Submit, TakeTask, appVars
    <2> QED
      BY <2>1 DEF StopReleases
  <1> QED
    BY <1>1, <1>2, <1>3, <1>4, <1>5, <1>6 DEF Next

(* The inductive invariant of the process's life.                          *)
THEOREM AppInvariant == Spec => []AppIInv
  <1>1. CacheIInv /\ AppIInv /\ [Next]_vars => AppIInv'
    BY AppTypesNext, LoadInPhaseNext, ProbesAnsweredNext, AvailableLoadedNext,
       StopReleasesNext DEF AppIInv
  <1> QED
    BY <1>1, InitAppIInv, CacheInvariant, PTL DEF Spec

(* ApplicationLifecycle.start: whatever fails, the process serves only with*)
(* its required dependencies, and queues only what it has the models for.  *)
THEOREM ServingIsReady == Spec => []ServesOnlyReady
  <1>1. AppIInv => ServesOnlyReady
    <2> SUFFICES ASSUME AppIInv, phase = "serving" PROVE ServesOnlyReady
      BY DEF ServesOnlyReady
    <2>1. probe["database"] = "connected" /\ probe["storage"] = "connected"
      BY DEF AppIInv, ProbesAnswered, Required
    <2>2. ASSUME queue
          PROVE  \E k \in Kinds : /\ Enabled(k)
                                  /\ \A s \in ToSet(RecognitionUses(k)) : svc[s] = "loaded"
      <3>1. PICK k \in Kinds : k \in available
        BY <2>2 DEF AppIInv, AvailableLoaded
      <3>2. k \in ToSet(config.enabled) /\ \A s \in ToSet(ServiceKeys(k)) : svc[s] = "loaded"
        BY <3>1 DEF AppIInv, AvailableLoaded
      <3> QED
        BY <3>1, <3>2, UsesRequired DEF Enabled
    <2> QED
      BY <2>1, <2>2 DEF ServesOnlyReady
  <1> QED
    BY <1>1, AppInvariant, PTL

(* ApplicationLifecycle.stop: an ended process released what it composed.  *)
THEOREM StoppingReleases == Spec => []StopReleases
  <1>1. AppIInv => StopReleases
    BY DEF AppIInv
  <1> QED
    BY <1>1, AppInvariant, PTL

----------------------------------------------------------------------------
(* What the preload builds.                                                *)

(* enabled_service_keys yields services only.                              *)
LEMMA EnabledKeysTyped ==
  ASSUME config \in Configs
  PROVE  EnabledServiceKeys \in Seq(Services)
  <1> DEFINE lists == [i \in DOMAIN config.enabled |-> ServiceKeys(config.enabled[i])]
             wanted == FlattenSeq(lists)
             N == Len(wanted)
             V == Seq(Services)
             none == <<>>
             next(n, keys) == IF wanted[n] \in ToSet(keys) THEN keys
                              ELSE Append(keys, wanted[n])
             step == [n \in 1..N |-> [keys \in V |-> next(n, keys)]]
             Is(h) == h = [n \in 0..N |-> IF n = 0 THEN <<>> ELSE next(n, h[n - 1])]
  <1>1. \A m : ServiceKeys(m) \in Seq(Services)
    <2>1. /\ <<"offline_asr", "speaker">> \in Seq(Services)
          /\ \A k \in Services : <<k>> \in Seq(Services)
      BY DEF Services
    <2> QED
      BY <2>1 DEF ServiceKeys, Services
  <1>2. wanted \in Seq(Services)
    <2>1. config.enabled \in Seq({"offline", "online", "spk"})
      BY CacheAssumption
    <2>2. lists \in Seq(Seq(Services))
      BY <1>1, <2>1
    <2> HIDE DEF lists
    <2> QED
      BY <2>2, FlattenType
  <1> HIDE DEF wanted
  <1>3. N \in Nat /\ \A n \in 1..N : wanted[n] \in Services
    BY <1>2
  <1>4. step \in [1..N -> [V -> V]] /\ none \in V
    <2>1. \A n \in 1..N : \A keys \in V : next(n, keys) \in V
      BY <1>3
    <2> HIDE DEF next, V
    <2>2. step \in [1..N -> [V -> V]]
      BY <2>1
    <2> QED
      BY <2>2 DEF V
  <1>5. PICK f : Rounds(V, N, none, step, f)
    <2> HIDE DEF V, N, none, step
    <2> QED
      BY <1>3, <1>4, RoundsDefined, Zenon
  <1>6. /\ f \in [0..N -> V] /\ f[0] = none
        /\ \A n \in 1..N : f[n] = next(n, f[n - 1])
    <2>1. f \in [0..N -> V] /\ f[0] = none /\ \A n \in 1..N : f[n] = step[n][f[n - 1]]
      BY <1>5 DEF Rounds
    <2>2. \A n \in 1..N : f[n - 1] \in V
      BY <1>3, <2>1
    <2> HIDE DEF next, V
    <2> QED
      BY <2>1, <2>2
  <1>7. Is(f)
    <2> HIDE DEF next, V
    <2>1. \A n \in 0..N : f[n] = IF n = 0 THEN <<>> ELSE next(n, f[n - 1])
      BY <1>3, <1>6
    <2> QED
      BY <1>6, <2>1
  <1> DEFINE c == CHOOSE h : Is(h)
  <1>8. Is(c)
    <2> HIDE DEF Is
    <2> QED
      BY <1>7
  <1>9. EnabledServiceKeys = c[N]
    BY DEF EnabledServiceKeys, wanted
  <1> HIDE DEF c
  <1> DEFINE R == {n \in 0..N : c[n] \in V}
  <1>10. 0 \in R
    BY <1>3, <1>4, <1>8
  <1>11. ASSUME NEW n \in 0 .. N - 1, n \in R PROVE n + 1 \in R
    <2>1. n + 1 \in 1..N /\ n + 1 \in 0..N /\ n + 1 # 0 /\ (n + 1) - 1 = n
      BY <1>3
    <2>2. c[n + 1] = next(n + 1, c[n])
      <3> HIDE DEF next
      <3> QED
        BY <1>8, <2>1
    <2>3. next(n + 1, c[n]) \in V
      BY <1>3, <1>11, <2>1
    <2> QED
      BY <2>1, <2>2, <2>3
  <1>12. N \in R
    <2> HIDE DEF R
    <2>1. 0..N \subseteq R
      BY <1>3, <1>10, <1>11, CountingUp
    <2> QED
      BY <1>3, <2>1
  <1> QED
    BY <1>9, <1>12

(* What was built stays built until the process ends.                      *)
LEMMA PartsKept ==
  ASSUME UNCHANGED config
  PROVE  \A s : PartsOf(s)' = PartsOf(s) /\ BundleOf(s)' = BundleOf(s)
  BY DEF PartsOf, BundleOf

LEMMA HasBuiltKept ==
  ASSUME UNCHANGED config, \A k \in Keys : built[k] > 0 => built'[k] > 0
  PROVE  \A s : HasBuilt(s) => HasBuilt(s)'
  <1> SUFFICES ASSUME NEW s, HasBuilt(s), NEW i \in DOMAIN PartsOf(s)
               PROVE  built'[PartsOf(s)[i]] > 0
    BY PartsKept DEF HasBuilt
  <1>1. PartsOf(s)[i] \in Keys
    BY Parts
  <1> QED
    BY <1>1 DEF HasBuilt

(* What the first model of a load in progress is.                          *)
LEMMA NextPart ==
  ASSUME CacheIInv, loading.state = "loading"
  PROVE  /\ loading.todo \in Seq(Keys) /\ loading.todo # <<>>
         /\ Head(loading.todo) \in Keys
         /\ loading.got \in Seq(Nat)
         /\ Len(loading.got) + 1 \in DOMAIN PartsOf(loading.service)
         /\ PartsOf(loading.service)[Len(loading.got) + 1] = Head(loading.todo)
         /\ Tail(loading.todo) = <<>> =>
               DOMAIN PartsOf(loading.service) = 1 .. Len(loading.got) + 1
  <1> DEFINE parts == PartsOf(loading.service)
             todo == loading.todo
             got == loading.got
  <1>1. todo \in Seq(Keys) /\ got \in Seq(Nat) /\ parts \in Seq(Keys)
    BY Parts DEF CacheIInv, CacheShape
  <1>2. /\ todo # <<>> /\ Len(got) + Len(todo) = Len(parts)
        /\ \A i \in 1..Len(todo) : todo[i] = parts[Len(got) + i]
    BY DEF CacheIInv, LoadExact
  <1> HIDE DEF parts, todo, got
  <1>3. /\ Len(got) \in Nat /\ Len(todo) \in Nat /\ Len(todo) >= 1
        /\ Head(todo) = todo[1] /\ todo[1] \in Keys /\ DOMAIN parts = 1..Len(parts)
        /\ Len(Tail(todo)) = Len(todo) - 1
    BY <1>1, <1>2
  <1>4. 1 \in 1..Len(todo) /\ Len(got) + 1 \in 1..Len(parts)
    BY <1>2, <1>3
  <1>5. Tail(todo) = <<>> => Len(todo) = 1
    <2> SUFFICES ASSUME Tail(todo) = <<>> PROVE Len(todo) = 1
      OBVIOUS
    <2>0. Len(<<>>) = 0
      OBVIOUS
    <2>1. Len(Tail(todo)) = 0
      BY <2>0, Zenon
    <2> QED
      BY <1>3, <2>1
  <1> QED
    BY <1>1, <1>2, <1>3, <1>4, <1>5 DEF parts, todo, got

(* The bundle of OFFLINE ONNX is its one model.                            *)
LEMMA OnnxPart ==
  ASSUME NEW s
  PROVE  /\ BundleOf(s) = "offline_onnx_model_bundle" => PartsOf(s) = <<"offline-onnx">>
         /\ BundleOf(s) # "offline_onnx_model_bundle" =>
               \A i \in DOMAIN PartsOf(s) : PartsOf(s)[i] \in LoaderKeys
  <1>1. CASE BundleOf(s) = "offline_onnx_model_bundle"
    BY <1>1 DEF PartsOf, PartsOfBundle
  <1>2. CASE BundleOf(s) = "online_pt_model_bundle"
    <2>1. PartsOf(s) = <<"online-pt-streaming-asr", "online-pt-vad",
                         "online-pt-final-asr", "online-pt-punc">>
      BY <1>2 DEF PartsOf, PartsOfBundle
    <2> QED
      BY <1>2, <2>1 DEF LoaderKeys, PtKeys
  <1>3. CASE BundleOf(s) = "online_onnx_model_bundle"
    <2>1. PartsOf(s) = <<"online-onnx">>
      BY <1>3 DEF PartsOf, PartsOfBundle
    <2> QED
      BY <1>3, <2>1 DEF LoaderKeys
  <1>4. CASE BundleOf(s) = "none"
    <2>1. PartsOf(s) = <<"spk-pt">> \/ PartsOf(s) = <<"offline-pt">>
      BY <1>4 DEF PartsOf
    <2> QED
      BY <1>4, <2>1 DEF LoaderKeys, PtKeys
  <1> QED
    BY <1>1, <1>2, <1>3, <1>4, Parts DEF Bundles

LEMMA OnnxIsAlone ==
  ASSUME CacheIInv, loading.state = "loading"
  PROVE  \/ /\ Head(loading.todo) = "offline-onnx" /\ "offline-onnx" \notin LoaderKeys
            /\ BundleOf(loading.service) = "offline_onnx_model_bundle"
            /\ Tail(loading.todo) = <<>>
         \/ /\ Head(loading.todo) \in LoaderKeys
            /\ BundleOf(loading.service) # "offline_onnx_model_bundle"
  <1> DEFINE parts == PartsOf(loading.service)
  <1>1. CASE BundleOf(loading.service) = "offline_onnx_model_bundle"
    <2>1. parts = <<"offline-onnx">> /\ DOMAIN parts = 1..1 /\ Len(parts) = 1
      BY <1>1, OnnxPart
    <2>2. Len(loading.got) + 1 = 1 /\ Len(loading.todo) = 1
      <3>1. Len(loading.got) + 1 \in DOMAIN parts /\ loading.got \in Seq(Nat)
            /\ loading.todo \in Seq(Keys)
        BY NextPart
      <3>2. Len(loading.got) + Len(loading.todo) = Len(parts)
        BY DEF CacheIInv, LoadExact
      <3>3. Len(loading.got) \in Nat /\ Len(loading.todo) \in Nat
        BY <3>1
      <3> HIDE DEF parts
      <3>4. Len(loading.got) + 1 \in 1..1
        BY <2>1, <3>1, Zenon
      <3>5. Len(loading.got) + Len(loading.todo) = 1
        BY <2>1, <3>2, Zenon
      <3>6. \A g, t \in Nat : g + 1 \in 1..1 /\ g + t = 1 => g + 1 = 1 /\ t = 1
        OBVIOUS
      <3> QED
        BY <3>3, <3>4, <3>5, <3>6, Zenon
    <2>3. Head(loading.todo) = "offline-onnx"
      BY <2>1, <2>2, NextPart
    <2>4. Tail(loading.todo) = <<>>
      <3>1. loading.todo \in Seq(Keys) /\ loading.todo # <<>>
        BY NextPart
      <3>2. Tail(loading.todo) \in Seq(Keys) /\ Len(Tail(loading.todo)) = 0
        BY <2>2, <3>1
      <3> QED
        BY <3>2, EmptySeq
    <2> QED
      BY <1>1, <2>3, <2>4 DEF LoaderKeys, PtKeys
  <1>2. CASE BundleOf(loading.service) # "offline_onnx_model_bundle"
    BY <1>2, OnnxPart, NextPart
  <1> QED
    BY <1>1, <1>2

(* Only its own model makes the bundle of OFFLINE ONNX.                    *)
LEMMA TookOnnx ==
  ASSUME CacheIInv, loading.state = "loading", NEW g, Took(g)
  PROVE  /\ Head(loading.todo) \in LoaderKeys =>
               bundle'["offline_onnx_model_bundle"] = bundle["offline_onnx_model_bundle"]
         /\ Head(loading.todo) \notin LoaderKeys => bundle'["offline_onnx_model_bundle"] # <<>>
  <1> DEFINE onnx == "offline_onnx_model_bundle"
  <1>0. bundle \in [Bundles -> Seq(Nat)] /\ onnx \in Bundles
    BY DEF CacheIInv, CacheShape, Bundles
  <1>1. CASE Head(loading.todo) \in LoaderKeys
    BY <1>0, <1>1, OnnxIsAlone DEF Took
  <1>2. CASE Head(loading.todo) \notin LoaderKeys
    <2>1. Tail(loading.todo) = <<>> /\ BundleOf(loading.service) = onnx
      BY <1>2, OnnxIsAlone
    <2>2. bundle' = [bundle EXCEPT ![onnx] = Append(loading.got, g)]
      BY <2>1 DEF Took
    <2>3. bundle'[onnx] = Append(loading.got, g)
      BY <1>0, <2>2
    <2>4. loading.got \in Seq(Nat)
      BY NextPart
    <2> QED
      BY <1>2, <2>3, <2>4
  <1> QED
    BY <1>1, <1>2

(* The steps that leave the caches and the process's services alone.       *)
Loaders == {"pt_loader", "online_onnx_loader", "spk_pt_loader"}

LEMMA BuiltKeptNext == CacheIInv /\ BuiltKept /\ [Next]_vars => BuiltKept'
  <1> SUFFICES ASSUME CacheIInv, BuiltKept, [Next]_vars PROVE BuiltKept'
    OBVIOUS
  <1> DEFINE onnx == "offline_onnx_model_bundle"
  <1>0. /\ loader \in [LoaderKeys -> Nat] /\ built \in [Keys -> Nat]
        /\ bundle \in [Bundles -> Seq(Nat)] /\ onnx \in Bundles
        /\ "offline-onnx" \in Keys \ LoaderKeys /\ LoaderKeys \subseteq Keys
    BY DEF CacheIInv, CacheShape, Bundles, Keys, LoaderKeys, PtKeys
  <1>1. ASSUME UNCHANGED <<loader, bundle, built, dropped>> PROVE BuiltKept'
    BY <1>1 DEF BuiltKept
  <1>2. CASE Start
    BY <1>0, <1>2 DEF Start, CacheReset, BuiltKept
  <1>3. ASSUME NEW K, NEW B, Release(K, B) PROVE BuiltKept'
    <2>1. /\ built' = built
          /\ loader' = [k \in LoaderKeys |-> IF k \in K THEN 0 ELSE loader[k]]
          /\ bundle' = [b \in Bundles |-> IF b \in B THEN <<>> ELSE bundle[b]]
          /\ \A k \in K : loader[k] # 0 => k \in dropped'
          /\ onnx \in B /\ bundle[onnx] # <<>> => "offline-onnx" \in dropped'
          /\ dropped \subseteq dropped'
      BY <1>3 DEF Release
    <2>2. ASSUME NEW k \in LoaderKeys
          PROVE  /\ loader'[k] # 0 => built'[k] > 0
                 /\ built'[k] > 0 => loader'[k] # 0 \/ k \in dropped'
      BY <2>1, <2>2 DEF BuiltKept
    <2>3. /\ bundle'[onnx] # <<>> => built'["offline-onnx"] > 0
          /\ built'["offline-onnx"] > 0 => bundle'[onnx] # <<>> \/ "offline-onnx" \in dropped'
      BY <1>0, <2>1 DEF BuiltKept
    <2> QED
      BY <2>2, <2>3 DEF BuiltKept
  <1>4. CASE Load
    <2>1. CASE LoadHit
      BY <2>1, TookOnnx DEF LoadHit, Held, BuiltKept
    <2>2. CASE LoadBuilds
      <3> DEFINE k == Head(loading.todo)
      <3>1. /\ loading.state = "loading" /\ Took(built[k] + 1) /\ dropped' = dropped
            /\ built' = [built EXCEPT ![k] = built[k] + 1]
            /\ loader' = IF k \in LoaderKeys THEN [loader EXCEPT ![k] = built[k] + 1] ELSE loader
        BY <2>2 DEF LoadBuilds
      <3>2. k \in Keys /\ (k \notin LoaderKeys => k = "offline-onnx")
        BY <3>1, NextPart, OnnxIsAlone
      <3>3. ASSUME NEW j \in LoaderKeys
            PROVE  /\ loader'[j] # 0 => built'[j] > 0
                   /\ built'[j] > 0 => loader'[j] # 0 \/ j \in dropped'
        <4>1. CASE j = k
          BY <1>0, <3>1, <3>2, <4>1
        <4>2. CASE j # k
          BY <1>0, <3>1, <3>2, <4>2 DEF BuiltKept
        <4> QED
          BY <4>1, <4>2
      <3>4. /\ bundle'[onnx] # <<>> => built'["offline-onnx"] > 0
            /\ built'["offline-onnx"] > 0 => bundle'[onnx] # <<>> \/ "offline-onnx" \in dropped'
        <4>1. CASE k \in LoaderKeys
          BY <1>0, <3>1, <4>1, TookOnnx DEF BuiltKept
        <4>2. CASE k \notin LoaderKeys
          BY <1>0, <3>1, <3>2, <4>2, TookOnnx
        <4> QED
          BY <4>1, <4>2
      <3> QED
        BY <3>3, <3>4 DEF BuiltKept
    <2>3. CASE Download \/ LoadFails
      BY <1>1, <2>3 DEF Download, LoadFails
    <2> QED
      BY <1>4, <2>1, <2>2, <2>3 DEF Load, LoadStep
  <1>5. CASE \/ \E key \in UnloadKeys : Unload(key)
             \/ \E l \in Loaders : Replace(l)
    BY <1>3, <1>5 DEF Unload, UnloadModel, Replace, ReplaceLoader
  <1>6. CASE \/ Compose \/ ContainerFails \/ CompositionFails \/ StartFails \/ Diagnose \/ Serve
             \/ OpenStream \/ Shutdown \/ StopServices \/ Halted
             \/ Preloaded \/ StreamOpened \/ Crash \/ UNCHANGED vars
    BY <1>1, <1>6 DEF Compose, ContainerFails, CompositionFails, StartFails, Diagnose, Serve, OpenStream,
       Shutdown, StopServices, Halted, Preloaded, StreamOpened, Crash, vars, cacheVars
  <1>7. CASE \/ \E c \in Probes : ProbeAnswers(c) \/ ProbeTimeout(c)
             \/ \E k \in Kinds : Submit(k) \/ TakeTask(k) \/ Recognized(k)
             \/ \E u \in Users : Get(u)
    BY <1>1, <1>7 DEF ProbeAnswers, ProbeTimeout, Submit, TakeTask, Recognized, Get,
       BeginGet, cacheVars
  <1> QED
    BY <1>2, <1>4, <1>5, <1>6, <1>7 DEF Next, Loaders

(* A load step keeps the configuration and everything built.               *)
LEMMA LoadStepKeeps ==
  ASSUME CacheIInv, LoadStep
  PROVE  /\ UNCHANGED config /\ loading.state = "loading"
         /\ loading'.service = loading.service
         /\ \A k \in Keys : built[k] > 0 => built'[k] > 0
  <1>1. built \in [Keys -> Nat]
    BY DEF CacheIInv, CacheShape
  <1>2. UNCHANGED config /\ loading.state = "loading" /\ loading'.service = loading.service
    BY DEF LoadStep, LoadHit, LoadBuilds, Download, LoadFails, Took, CacheIInv, CacheShape
  <1>3. ASSUME LoadBuilds PROVE \A k \in Keys : built[k] > 0 => built'[k] > 0
    BY <1>1, <1>3 DEF LoadBuilds
  <1>4. ~ LoadBuilds => built' = built
    BY DEF LoadStep, LoadHit, Download, LoadFails
  <1> QED
    BY <1>2, <1>3, <1>4

LEMMA LoadBuiltNext == CacheIInv /\ BuiltKept /\ LoadBuilt /\ [Next]_vars => LoadBuilt'
  <1> SUFFICES ASSUME CacheIInv, BuiltKept, LoadBuilt, [Next]_vars PROVE LoadBuilt'
    OBVIOUS
  <1>0. /\ loader \in [LoaderKeys -> Nat] /\ built \in [Keys -> Nat]
        /\ bundle \in [Bundles -> Seq(Nat)]
        /\ "offline-onnx" \in Keys \ LoaderKeys /\ LoaderKeys \subseteq Keys
        /\ NoLoad.state = "idle"
    BY DEF CacheIInv, CacheShape, Keys, LoaderKeys, PtKeys, NoLoad
  <1>1. ASSUME UNCHANGED <<config, built>>,
               \/ loading' = NoLoad
               \/ loading' = loading /\ loading.state = "idle"
               \/ loading' = loading /\ UNCHANGED bundle
        PROVE  LoadBuilt'
    <2>1. CASE loading'.state = "idle"
      BY <2>1 DEF LoadBuilt
    <2>2. CASE loading' = loading /\ UNCHANGED bundle
      BY <1>1, <2>2, PartsKept DEF LoadBuilt, HasBuilt
    <2> QED
      BY <1>0, <1>1, <2>1, <2>2
  <1>2. ASSUME NEW u, NEW s, BeginGet(u, s) PROVE LoadBuilt'
    <2> DEFINE b == BundleOf(s)
               hit == b # "none" /\ bundle[b] # <<>>
    <2>1. /\ UNCHANGED <<config, bundle, built>> /\ loading'.service = s /\ loading'.got = <<>>
          /\ loading'.state = IF hit THEN "ok" ELSE "loading"
      BY <1>2 DEF BeginGet
    <2>2. CASE hit
      <3>1. b \in Bundles /\ PartsOf(s) = PartsOfBundle(b)
        BY <2>2, Parts
      <3>2. DOMAIN PartsOf(s) = 1..Len(bundle[b])
        BY <1>0, <2>2, <3>1, Parts DEF CacheIInv, BundleExact
      <3>3. ASSUME NEW i \in DOMAIN PartsOf(s) PROVE built[PartsOf(s)[i]] > 0
        <4>1. CASE PartsOf(s)[i] \in LoaderKeys
          <5>1. loader[PartsOf(s)[i]] = bundle[b][i] /\ bundle[b][i] # 0
            BY <3>1, <3>2, <4>1 DEF CacheIInv, BundleExact, Current
          <5> QED
            BY <4>1, <5>1 DEF BuiltKept
        <4>2. CASE PartsOf(s)[i] \notin LoaderKeys
          <5>1. b = "offline_onnx_model_bundle" /\ PartsOf(s)[i] = "offline-onnx"
            BY <4>2, OnnxPart
          <5> QED
            BY <2>2, <5>1 DEF BuiltKept
        <4> QED
          BY <4>1, <4>2
      <3> QED
        BY <2>1, <2>2, <3>3, PartsKept DEF LoadBuilt, HasBuilt
    <2>3. CASE ~ hit
      <3>1. loading'.state = "loading" /\ DOMAIN loading'.got = {}
        BY <2>1, <2>3
      <3>2. BundleOf(s)' = BundleOf(s)
        BY <2>1, PartsKept
      <3> QED
        BY <2>1, <2>3, <3>1, <3>2 DEF LoadBuilt
    <2> QED
      BY <2>2, <2>3
  <1>3. ASSUME LoadStep, NEW g, Took(g), built'[Head(loading.todo)] > 0
        PROVE  LoadBuilt'
    <2> DEFINE s == loading.service
               n == Len(loading.got)
    <2>0. /\ loading.state = "loading" /\ UNCHANGED config
          /\ loading'.service = s /\ n \in Nat
          /\ \A k \in Keys : built[k] > 0 => built'[k] > 0
      BY <1>3, LoadStepKeeps, NextPart
    <2>1. \A i \in 1..n : built'[PartsOf(s)[i]] > 0
      <3> TAKE i \in 1..n
      <3>1. i \in DOMAIN loading.got /\ i \in DOMAIN PartsOf(s)
        BY <2>0, NextPart, Parts
      <3>2. PartsOf(s)[i] \in Keys
        BY <3>1, Parts
      <3> QED
        BY <2>0, <3>1, <3>2 DEF LoadBuilt
    <2>2. \A i \in 1 .. n + 1 : built'[PartsOf(s)[i]] > 0
      <3> TAKE i \in 1 .. n + 1
      <3>1. i \in 1..n \/ i = n + 1
        BY <2>0
      <3> QED
        BY <1>3, <2>0, <2>1, <3>1, NextPart
    <2>3. /\ loading'.got = Append(loading.got, g)
          /\ loading'.state = IF Tail(loading.todo) = <<>> THEN "ok" ELSE "loading"
          /\ Tail(loading.todo) # <<>> => bundle' = bundle
      BY <1>3 DEF Took, CacheIInv, CacheShape
    <2>4. CASE Tail(loading.todo) = <<>>
      <3>1. DOMAIN PartsOf(s) = 1 .. n + 1
        BY <2>0, <2>4, NextPart
      <3>2. loading'.state = "ok"
        BY <2>3, <2>4
      <3>3. \A i \in DOMAIN PartsOf(s) : built'[PartsOf(s)[i]] > 0
        BY <2>2, <3>1
      <3>4. HasBuilt(loading.service)'
        BY <2>0, <3>3, PartsKept DEF HasBuilt
      <3> QED
        BY <3>2, <3>4 DEF LoadBuilt
    <2>5. CASE Tail(loading.todo) # <<>>
      <3>1. loading'.state = "loading" /\ bundle' = bundle
        BY <2>3, <2>5
      <3>2. DOMAIN loading'.got = 1 .. n + 1
        BY <2>0, <2>3, NextPart
      <3>3. BundleOf(s)' = BundleOf(s) /\ PartsOf(s)' = PartsOf(s)
        BY <2>0, PartsKept
      <3>4. BundleOf(s) # "none" => bundle'[BundleOf(s)] = <<>>
        BY <2>0, <3>1 DEF LoadBuilt
      <3> QED
        BY <2>0, <2>2, <3>1, <3>2, <3>3, <3>4 DEF LoadBuilt
    <2> QED
      BY <2>4, <2>5
  <1>4. CASE Load
    <2>1. CASE LoadHit
      <3>1. Took(loader[Head(loading.todo)]) /\ built' = built /\ Held(Head(loading.todo))
        BY <2>1 DEF LoadHit
      <3>2. built'[Head(loading.todo)] > 0
        BY <1>0, <3>1 DEF Held, BuiltKept
      <3> QED
        BY <1>3, <1>4, <3>1, <3>2 DEF Load
    <2>2. CASE LoadBuilds
      <3>1. /\ loading.state = "loading" /\ Took(built[Head(loading.todo)] + 1)
            /\ built' = [built EXCEPT ![Head(loading.todo)] = built[Head(loading.todo)] + 1]
        BY <2>2 DEF LoadBuilds
      <3>2. Head(loading.todo) \in Keys
        BY <3>1, NextPart
      <3>3. built'[Head(loading.todo)] > 0
        BY <1>0, <3>1, <3>2
      <3> QED
        BY <1>3, <1>4, <3>1, <3>3 DEF Load
    <2>3. CASE Download \/ LoadFails
      <3>1. \/ loading' = loading /\ UNCHANGED <<config, built, bundle>>
            \/ loading' = [loading EXCEPT !.state = "failed"]
        BY <2>3 DEF Download, LoadFails
      <3>2. CASE loading' = [loading EXCEPT !.state = "failed"]
        <4>1. loading'.state = "failed"
          BY <3>2 DEF CacheIInv, CacheShape
        <4> QED
          BY <4>1 DEF LoadBuilt
      <3> QED
        BY <1>1, <3>1, <3>2
    <2> QED
      BY <1>4, <2>1, <2>2, <2>3 DEF Load, LoadStep
  <1>5. CASE \/ \E key \in UnloadKeys : Unload(key)
             \/ \E l \in Loaders : Replace(l)
    BY <1>1, <1>5 DEF Unload, UnloadModel, Replace, ReplaceLoader, Release
  <1>6. CASE \/ Compose \/ ContainerFails \/ CompositionFails \/ StartFails \/ Diagnose \/ Serve
             \/ OpenStream \/ Shutdown \/ StopServices \/ Halted
             \/ Preloaded \/ StreamOpened \/ Crash \/ UNCHANGED vars
    BY <1>1, <1>6 DEF Compose, ContainerFails, CompositionFails, StartFails, Diagnose, Serve, OpenStream,
       Shutdown, StopServices, Halted, Preloaded, StreamOpened, Crash, vars, cacheVars
  <1>7. CASE \/ \E c \in Probes : ProbeAnswers(c) \/ ProbeTimeout(c)
             \/ \E k \in Kinds : Submit(k) \/ TakeTask(k) \/ Recognized(k)
    BY <1>1, <1>7 DEF ProbeAnswers, ProbeTimeout, Submit, TakeTask, Recognized, cacheVars
  <1>8. CASE \E u \in Users : Get(u)
    BY <1>2, <1>8 DEF Get
  <1>9. CASE Start
    <2>1. loading'.state = "idle"
      BY <1>0, <1>9 DEF Start, CacheReset
    <2> QED
      BY <2>1 DEF LoadBuilt
  <1> QED
    BY <1>4, <1>5, <1>6, <1>7, <1>8, <1>9 DEF Next, Loaders

LEMMA ServicesBuiltNext ==
  CacheIInv /\ AppTypes /\ JobTypes /\ LoadBuilt /\ ServicesBuilt /\ [Next]_vars => ServicesBuilt'
  <1> SUFFICES ASSUME CacheIInv, AppTypes, JobTypes, LoadBuilt, ServicesBuilt, [Next]_vars
               PROVE  ServicesBuilt'
    OBVIOUS
  <1>1. ASSUME UNCHANGED config, \A k \in Keys : built[k] > 0 => built'[k] > 0,
               \A s \in Services : svc'[s] = "loaded" => svc[s] = "loaded" \/ HasBuilt(s)
        PROVE  ServicesBuilt'
    <2> SUFFICES ASSUME NEW s \in Services, svc'[s] = "loaded" PROVE HasBuilt(s)'
      BY DEF ServicesBuilt
    <2>1. HasBuilt(s)
      BY <1>1 DEF ServicesBuilt
    <2> QED
      BY <1>1, <2>1, HasBuiltKept
  <1>2. CASE Compose
    <2>1. UNCHANGED <<config, built>> /\ \A s \in Services : svc'[s] # "loaded"
      BY <1>2 DEF Compose, cacheVars
    <2> QED
      BY <1>1, <2>1
  <1>3. CASE Load
    <2>1. UNCHANGED svc /\ LoadStep
      BY <1>3 DEF Load, appVars
    <2> QED
      BY <1>1, <2>1, LoadStepKeeps
  <1>4. CASE Preloaded
    <2>1. /\ UNCHANGED <<config, built>> /\ loading.state \in {"ok", "failed"}
          /\ svc' = Noted
      BY <1>4 DEF Preloaded
    <2>2. ASSUME NEW s \in Services, svc'[s] = "loaded" PROVE svc[s] = "loaded" \/ HasBuilt(s)
      BY <2>1, <2>2 DEF AppTypes, LoadBuilt, Noted
    <2> QED
      BY <1>1, <2>1, <2>2
  <1>5. CASE StreamOpened \/ \E k \in Kinds : Recognized(k)
    <2>1. /\ UNCHANGED <<config, built>> /\ loading.state \in {"ok", "failed"}
          /\ svc' = svc \/ svc' = Noted
      BY <1>5 DEF StreamOpened, Recognized, LoadedOnUse
    <2>2. ASSUME NEW s \in Services, svc'[s] = "loaded" PROVE svc[s] = "loaded" \/ HasBuilt(s)
      BY <2>1, <2>2 DEF AppTypes, LoadBuilt, Noted
    <2> QED
      BY <1>1, <2>1, <2>2
  <1>6. CASE Start
    <2>1. \A s \in Services : svc'[s] # "loaded"
      BY <1>6 DEF Start
    <2> QED
      BY <2>1 DEF ServicesBuilt
  <1>7. CASE \/ ContainerFails \/ CompositionFails \/ StartFails \/ Diagnose \/ Serve
             \/ OpenStream \/ Shutdown \/ StopServices \/ Halted \/ Crash \/ UNCHANGED vars
    <2>1. UNCHANGED <<config, built, svc>>
      BY <1>7 DEF ContainerFails, CompositionFails, StartFails, Diagnose, Serve, OpenStream,
         Shutdown, StopServices, Halted, Crash, vars, cacheVars, appVars
    <2> QED
      BY <1>1, <2>1
  <1>8. CASE \/ \E c \in Probes : ProbeAnswers(c) \/ ProbeTimeout(c)
             \/ \E k \in Kinds : Submit(k) \/ TakeTask(k)
             \/ \E u \in Users : Get(u)
    <2>1. UNCHANGED <<config, built, svc>>
      BY <1>8 DEF ProbeAnswers, ProbeTimeout, Submit, TakeTask, Get, BeginGet,
         cacheVars, appVars
    <2> QED
      BY <1>1, <2>1
  <1>9. CASE \/ \E key \in UnloadKeys : Unload(key)
             \/ \E l \in Loaders : Replace(l)
    <2>1. UNCHANGED <<config, built, svc>>
      BY <1>9 DEF Unload, UnloadModel, Replace, ReplaceLoader, Release, appVars
    <2> QED
      BY <1>1, <2>1
  <1> QED
    BY <1>2, <1>3, <1>4, <1>5, <1>6, <1>7, <1>8, <1>9 DEF Next, Loaders

(* What a user asks for are services.                                      *)
LEMMA UsesTyped ==
  ASSUME NEW k
  PROVE  /\ RecognitionUses(k) \in Seq(Services)
         /\ <<"online_asr">> \in Seq(Services) /\ <<>> \in Seq(Services)
  <1>1. /\ <<"offline_asr", "speaker">> \in Seq(Services) /\ <<>> \in Seq(Services)
        /\ \A s \in Services : <<s>> \in Seq(Services)
    BY DEF Services
  <1> QED
    BY <1>1 DEF RecognitionUses, Services

LEMMA JobTypesNext ==
  CacheIInv /\ config \in Configs /\ LoadInPhase /\ JobTypes /\ [Next]_vars => JobTypes'
  <1> SUFFICES ASSUME CacheIInv, config \in Configs, LoadInPhase, JobTypes, [Next]_vars
               PROVE  JobTypes'
    OBVIOUS
  <1>0. /\ NoLoad.state = "idle" /\ NoLoad.user = "none"
        /\ {"stream", "preload"} \subseteq Users /\ Kinds \subseteq Users
        /\ "stream" \notin Kinds
        /\ \A s \in Seq(Services) : s # <<>> => Tail(s) \in Seq(Services) /\ Head(s) \in Services
        /\ <<>> \in Seq(Services) /\ Tail(<<"online_asr">>) = <<>>
        /\ Head(<<"online_asr">>) = "online_asr"
    BY DEF NoLoad, Users, Kinds
  <1>1. ASSUME UNCHANGED job,
               \/ loading' = NoLoad
               \/ /\ loading'.service = loading.service /\ loading'.user = loading.user
                  /\ loading'.state # "idle" => loading.state # "idle"
        PROVE  JobTypes'
    BY <1>0, <1>1 DEF JobTypes
  <1>2. ASSUME NEW u \in Users, NEW j \in Seq(Services), job' = [job EXCEPT ![u] = j],
               u = "stream" => j \in {<<>>, <<"online_asr">>},
               loading' = loading \/ loading' = NoLoad
        PROVE  JobTypes'
    BY <1>0, <1>2 DEF JobTypes
  <1>3. CASE Diagnose
    <2>1. EnabledServiceKeys \in Seq(Services)
      BY EnabledKeysTyped
    <2>2. loading' = loading
      BY <1>3 DEF Diagnose, cacheVars
    <2>3. job' = job \/ job' = [job EXCEPT !["preload"] = EnabledServiceKeys]
      BY <1>3 DEF Diagnose
    <2> QED
      BY <1>0, <1>1, <1>2, <2>1, <2>2, <2>3
  <1>4. CASE \E u \in Users : Get(u)
    <2>1. PICK u \in Users : Get(u)
      BY <1>4
    <2>2. /\ job' = job /\ job[u] # <<>>
          /\ loading'.service = Head(job[u]) /\ loading'.user = u
      BY <2>1 DEF Get, BeginGet, appVars
    <2>3. Head(job[u]) \in Services
      BY <1>0, <2>2 DEF JobTypes
    <2>4. u = "stream" => Head(job[u]) = "online_asr"
      BY <1>0, <2>2 DEF JobTypes
    <2> QED
      BY <2>2, <2>3, <2>4 DEF JobTypes
  <1>5. CASE Load
    <2>1. loading'.user = loading.user /\ loading'.service = loading.service
          /\ loading.state = "loading" /\ job' = job
      BY <1>5, LoadStepKeeps, LoadStepKeepsUser DEF Load, appVars
    <2> QED
      BY <1>1, <2>1
  <1>6. CASE Preloaded \/ StreamOpened \/ \E k \in Kinds : Recognized(k)
    <2>1. /\ loading' = NoLoad
          /\ \/ job' = [job EXCEPT ![loading.user] = Tail(@)] /\ loading.user # "stream"
             \/ job' = [job EXCEPT ![loading.user] = <<>>]
      BY <1>0, <1>6 DEF Preloaded, StreamOpened, Recognized, Got, GiveUp
    <2>2. loading.user \in Users
      BY <1>0, <1>6 DEF Preloaded, StreamOpened, Recognized
    <2>3. CASE job[loading.user] = <<>>
      <3>1. Tail(<<>>) = <<>>
        OBVIOUS
      <3> QED
        BY <1>0, <1>2, <2>1, <2>2, <2>3, <3>1
    <2>4. CASE job[loading.user] # <<>>
      <3>1. Tail(job[loading.user]) \in Seq(Services)
        BY <1>0, <2>2, <2>4 DEF JobTypes
      <3> QED
        BY <1>0, <1>2, <2>1, <2>2, <3>1
    <2> QED
      BY <2>3, <2>4
  <1>7. CASE OpenStream \/ \E k \in Kinds : TakeTask(k)
    <2>1. loading' = loading
      BY <1>7 DEF OpenStream, TakeTask, cacheVars
    <2>2. CASE OpenStream
      BY <1>0, <1>2, <2>1, <2>2, UsesTyped DEF OpenStream
    <2>3. CASE \E k \in Kinds : TakeTask(k)
      <3>1. PICK k \in Kinds : TakeTask(k)
        BY <2>3
      <3>2. job' = [job EXCEPT ![k] = RecognitionUses(k)]
        BY <3>1 DEF TakeTask
      <3> QED
        BY <1>0, <1>2, <2>1, <3>2, UsesTyped
    <2> QED
      BY <1>7, <2>2, <2>3
  <1>8. CASE Start \/ StopServices
    <2>1. job' = job \/ job' = [u \in Users |-> <<>>]
      BY <1>8 DEF Start, StopServices
    <2>2. loading' = loading \/ loading' = NoLoad
      BY <1>8 DEF Start, CacheReset, StopServices, cacheVars
    <2> QED
      BY <1>0, <2>1, <2>2 DEF JobTypes
  <1>9. CASE \/ Compose \/ ContainerFails \/ CompositionFails \/ StartFails \/ Serve
             \/ Shutdown \/ Halted \/ Crash \/ UNCHANGED vars
    BY <1>1, <1>9 DEF Compose, ContainerFails, CompositionFails, StartFails, Serve,
         Shutdown, Halted, Crash, vars, cacheVars, appVars
  <1>10. CASE \/ \E c \in Probes : ProbeAnswers(c) \/ ProbeTimeout(c)
             \/ \E k \in Kinds : Submit(k)
    BY <1>1, <1>10 DEF ProbeAnswers, ProbeTimeout, Submit, cacheVars
  <1>11. CASE \/ \E key \in UnloadKeys : Unload(key)
              \/ \E l \in Loaders : Replace(l)
    BY <1>1, <1>11 DEF Unload, UnloadModel, Replace, ReplaceLoader, Release, appVars
  <1> QED
    BY <1>3, <1>4, <1>5, <1>6, <1>7, <1>8, <1>9, <1>10, <1>11 DEF Next, Loaders

(* What a recognition of an available mode asks for is loaded.             *)
LEMMA AvailableUsesLoaded ==
  ASSUME AvailableLoaded, phase = "serving", NEW k \in Kinds \cap available
  PROVE  \A s \in ToSet(RecognitionUses(k)) : svc[s] = "loaded"
  BY UsesRequired DEF AvailableLoaded

(* What a route admits goes through loaded services, from its preload on.  *)
LEMMA JobsLoadedNext ==
  CacheIInv /\ AppIInv /\ JobTypes /\ JobsLoaded /\ [Next]_vars => JobsLoaded'
  <1> SUFFICES ASSUME CacheIInv, AppIInv, JobTypes, JobsLoaded, [Next]_vars
               PROVE  JobsLoaded'
    OBVIOUS
  <1>0. /\ NoLoad.state = "idle" /\ NoLoad.user = "none"
        /\ {"stream", "preload"} \subseteq Users /\ Kinds \subseteq Users
        /\ "preload" \notin Kinds /\ "none" \notin Kinds /\ "stream" \notin Kinds
        /\ job \in [Users -> Seq(Services)]
        /\ AppTypes /\ LoadInPhase /\ AvailableLoaded
    BY DEF NoLoad, Users, Kinds, JobTypes, AppIInv
  <1>a. /\ Admitted \subseteq Users \ {"preload"} /\ "none" \notin Admitted
        /\ "stream" \in Admitted
        /\ \A k \in Kinds : k \in Admitted <=> k \in available
    BY <1>0 DEF Admitted
  <1>1. ASSUME UNCHANGED <<phase, svc, job, available>>,
               \/ loading' = NoLoad
               \/ loading'.service = loading.service /\ loading'.user = loading.user
               \/ loading' = loading
        PROVE  JobsLoaded'
    <2>1. Admitted' = Admitted
      BY <1>1 DEF Admitted
    <2> QED
      BY <1>0, <1>1, <1>a, <2>1 DEF JobsLoaded
  <1>2. ASSUME phase' \in {"stopping", "stopped", "down"} PROVE JobsLoaded'
    BY <1>2 DEF JobsLoaded
  <1>3. CASE \/ ContainerFails \/ CompositionFails \/ StartFails \/ Shutdown
             \/ StopServices \/ Crash
    BY <1>2, <1>3 DEF ContainerFails, CompositionFails, StartFails, StartRaises, Shutdown,
       StopServices, Crash
  <1>4. CASE Compose
    BY <1>4 DEF Compose, JobsLoaded
  <1>5. CASE Diagnose
    <2>1. CASE phase' = "stopping"
      BY <1>2, <2>1
    <2>2. CASE phase' # "stopping"
      <3>1. phase' = "preloading" /\ phase = "probing"
            /\ job' = [job EXCEPT !["preload"] = EnabledServiceKeys]
        BY <1>5, <2>2 DEF Diagnose, StartRaises
      <3>2. \A u \in Users \ {"preload"} : job'[u] = <<>>
        BY <1>0, <3>1 DEF JobsLoaded
      <3> QED
        BY <3>1, <3>2 DEF JobsLoaded
    <2> QED
      BY <2>1, <2>2
  <1>6. CASE \E u \in Users : Get(u)
    <2>1. PICK u \in Users : Get(u)
      BY <1>6
    <2>2. /\ UNCHANGED <<phase, svc, job, available>> /\ job[u] # <<>>
          /\ loading'.service = Head(job[u]) /\ loading'.user = u
      BY <2>1 DEF Get, BeginGet, appVars
    <2>3. 1 \in DOMAIN job[u] /\ Head(job[u]) = job[u][1]
      BY <1>0, <2>2
    <2>4. Admitted' = Admitted
      BY <2>2 DEF Admitted
    <2> QED
      BY <2>2, <2>3, <2>4 DEF JobsLoaded
  <1>7. CASE Load
    <2>1. UNCHANGED <<phase, svc, job, available>>
      BY <1>7 DEF Load, appVars
    <2> QED
      BY <1>1, <1>7, <2>1, LoadStepKeeps, LoadStepKeepsUser DEF Load
  <1>8. CASE Preloaded
    <2>1. /\ phase = "preloading" /\ phase' = phase /\ job' = Got /\ loading.user = "preload"
      BY <1>0, <1>8 DEF Preloaded, LoadInPhase
    <2>2. \A u \in Users \ {"preload"} : job'[u] = job[u]
      BY <1>0, <2>1 DEF Got
    <2> QED
      BY <2>1, <2>2 DEF JobsLoaded
  <1>9. CASE Serve
    <2>1. /\ phase = "preloading" /\ UNCHANGED <<job, loading>> /\ phase' = "serving"
          /\ job["preload"] = <<>> /\ loading.state = "idle"
      BY <1>9 DEF Serve, cacheVars
    <2>2. \A u \in Users : job'[u] = <<>>
      BY <2>1 DEF JobsLoaded
    <2>3. loading'.user = "none" /\ Admitted' \subseteq Users /\ "none" \notin Admitted'
      BY <1>0, <2>1 DEF LoadInPhase, Admitted
    <2> QED
      BY <1>0, <2>1, <2>2, <2>3 DEF JobsLoaded
  <1>10. ASSUME phase = "serving", UNCHANGED <<phase, available>>,
                NEW u \in Users \ {"preload"}, NEW j, job' = [job EXCEPT ![u] = j],
                u \in Admitted => \A i \in DOMAIN j : svc'[j[i]] = "loaded",
                \A s \in Services : svc[s] = "loaded" => svc'[s] = "loaded",
                loading' = NoLoad \/ (loading' = loading /\ loading.state = "idle")
         PROVE  JobsLoaded'
    <2>1. Admitted' = Admitted /\ job'["preload"] = job["preload"]
      BY <1>0, <1>10 DEF Admitted
    <2>2. ASSUME NEW v \in Admitted PROVE \A i \in DOMAIN job'[v] : svc'[job'[v][i]] = "loaded"
      <3>1. CASE v = u
        <4>1. job'[v] = j
          BY <1>0, <1>10, <3>1
        <4> QED
          BY <1>10, <3>1, <4>1
      <3>2. CASE v # u
        <4>1. job'[v] = job[v] /\ job[v] \in Seq(Services)
          BY <1>0, <1>10, <1>a, <3>2
        <4>2. \A i \in DOMAIN job[v] : job[v][i] \in Services
          BY <4>1
        <4> QED
          BY <1>10, <4>1, <4>2 DEF JobsLoaded
      <3> QED
        BY <3>1, <3>2
    <2>3. loading'.user = "none"
      BY <1>0, <1>10 DEF LoadInPhase
    <2> QED
      BY <1>10, <1>a, <2>1, <2>2, <2>3 DEF JobsLoaded
  <1>11. CASE \E k \in Kinds : Recognized(k)
    <2>1. PICK k \in Kinds : Recognized(k)
      BY <1>11
    <2>2. /\ loading.user = k /\ loading.state # "idle" /\ loading' = NoLoad
          /\ UNCHANGED <<phase, available>> /\ svc' = LoadedOnUse(ServiceOf(k))
          /\ \/ job' = [job EXCEPT ![k] = Tail(job[k])]
             \/ job' = [job EXCEPT ![k] = <<>>]
      BY <2>1 DEF Recognized, Got, GiveUp
    <2>3. phase = "serving"
      BY <1>0, <2>2 DEF LoadInPhase, Kinds
    <2>4. \A s \in Services : svc[s] = "loaded" => svc'[s] = "loaded"
      BY <1>0, <2>2, LoadedStaysLoaded
    <2>5. k \in Admitted => \A i \in DOMAIN Tail(job[k]) : svc'[Tail(job[k])[i]] = "loaded"
      <3>1. CASE job[k] = <<>>
        <4>1. DOMAIN Tail(<<>>) = {}
          OBVIOUS
        <4> QED
          BY <3>1, <4>1
      <3>2. CASE job[k] # <<>>
        <4>1. job[k] \in Seq(Services)
          BY <1>0
        <4>2. \A i \in DOMAIN Tail(job[k]) : i + 1 \in DOMAIN job[k]
                                             /\ Tail(job[k])[i] = job[k][i + 1]
                                             /\ job[k][i + 1] \in Services
          BY <3>2, <4>1
        <4> QED
          BY <2>3, <2>4, <4>2 DEF JobsLoaded
      <3> QED
        BY <3>1, <3>2
    <2>6. k \in Users \ {"preload"}
      BY <1>0
    <2>7. CASE job' = [job EXCEPT ![k] = Tail(job[k])]
      BY <1>10, <2>2, <2>3, <2>4, <2>5, <2>6, <2>7
    <2>8. CASE job' = [job EXCEPT ![k] = <<>>]
      <3>1. \A i \in DOMAIN <<>> : svc'[<<>>[i]] = "loaded"
        OBVIOUS
      <3> QED
        BY <1>10, <2>2, <2>3, <2>4, <2>6, <2>8, <3>1
    <2> QED
      BY <2>2, <2>7, <2>8
  <1>12. CASE \E k \in Kinds : TakeTask(k)
    <2>1. PICK k \in Kinds : TakeTask(k)
      BY <1>12
    <2>2. /\ phase = "serving" /\ UNCHANGED <<phase, svc, available, loading>>
          /\ loading.state = "idle" /\ job' = [job EXCEPT ![k] = RecognitionUses(k)]
      BY <2>1 DEF TakeTask, cacheVars
    <2>3. k \in Admitted => \A i \in DOMAIN RecognitionUses(k) : svc'[RecognitionUses(k)[i]] = "loaded"
      <3>1. \A i \in DOMAIN RecognitionUses(k) : RecognitionUses(k)[i] \in ToSet(RecognitionUses(k))
        BY DEF ToSet
      <3> QED
        BY <1>0, <1>a, <2>2, <3>1, AvailableUsesLoaded
    <2>4. k \in Users \ {"preload"}
      BY <1>0
    <2> QED
      BY <1>10, <2>2, <2>3, <2>4
  <1>13. CASE OpenStream
    <2>1. /\ phase = "serving" /\ UNCHANGED <<phase, svc, available, loading>>
          /\ loading.state = "idle" /\ "online" \in available
          /\ job' = [job EXCEPT !["stream"] = <<"online_asr">>]
      BY <1>13 DEF OpenStream, cacheVars
    <2>2. svc["online_asr"] = "loaded"
      <3>1. ToSet(<<"online_asr">>) = {"online_asr"}
        BY DEF ToSet
      <3> QED
        BY <1>0, <2>1, <3>1 DEF AvailableLoaded, ServiceKeys
    <2> DEFINE one == <<"online_asr">>
    <2>3. \A i \in DOMAIN one : svc'[one[i]] = "loaded"
      BY <2>1, <2>2
    <2> HIDE DEF one
    <2> QED
      BY <1>0, <1>10, <2>1, <2>3 DEF one
  <1>14. CASE StreamOpened
    <2>1. /\ loading.user = "stream" /\ loading.state # "idle" /\ loading' = NoLoad
          /\ UNCHANGED <<phase, available>> /\ job' = [job EXCEPT !["stream"] = <<>>]
          /\ svc' = LoadedOnUse("online_asr")
      BY <1>14 DEF StreamOpened, GiveUp
    <2>2. phase = "serving"
      BY <1>0, <2>1 DEF LoadInPhase
    <2>3. \A s \in Services : svc[s] = "loaded" => svc'[s] = "loaded"
      BY <1>0, <2>1, LoadedStaysLoaded
    <2>4. \A i \in DOMAIN <<>> : svc'[<<>>[i]] = "loaded"
      OBVIOUS
    <2> QED
      BY <1>0, <1>10, <2>1, <2>2, <2>3, <2>4
  <1>15. CASE \/ \E key \in UnloadKeys : Unload(key)
              \/ \E l \in Loaders : Replace(l)
    BY <1>1, <1>15 DEF Unload, UnloadModel, Replace, ReplaceLoader, Release, appVars
  <1>16. CASE \/ \E c \in Probes : ProbeAnswers(c) \/ ProbeTimeout(c)
              \/ \E k \in Kinds : Submit(k)
              \/ Halted \/ UNCHANGED vars
    BY <1>1, <1>16 DEF ProbeAnswers, ProbeTimeout, Submit, Halted, vars, cacheVars, appVars
  <1>17. CASE Start
    <2>1. phase' = "composing" /\ job' = [u \in Users |-> <<>>]
      BY <1>17 DEF Start
    <2> QED
      BY <2>1 DEF JobsLoaded
  <1> QED
    BY <1>3, <1>4, <1>5, <1>6, <1>7, <1>8, <1>9, <1>11, <1>12, <1>13, <1>14, <1>15,
       <1>16, <1>17 DEF Next, Loaders

(* A model that was built and is not held was dropped, and it is a part of *)
(* the service that is being loaded.                                       *)
LEMMA BuiltNotHeld ==
  ASSUME CacheIInv, BuiltKept, LoadBuilt, loading.state = "loading",
         ~Held(Head(loading.todo))
  PROVE  /\ Head(loading.todo) \in ToSet(PartsOf(loading.service))
         /\ built[Head(loading.todo)] > 0 => Head(loading.todo) \in dropped
         /\ HasBuilt(loading.service) => built[Head(loading.todo)] > 0
  <1> DEFINE k == Head(loading.todo)
             parts == PartsOf(loading.service)
  <1>1. Len(loading.got) + 1 \in DOMAIN parts /\ parts[Len(loading.got) + 1] = k
    BY NextPart
  <1>2. k \in ToSet(parts)
    BY <1>1 DEF ToSet
  <1>3. HasBuilt(loading.service) => built[k] > 0
    BY <1>1 DEF HasBuilt
  <1>4. built[k] > 0 => k \in dropped
    <2>1. CASE k \in LoaderKeys
      BY <2>1 DEF BuiltKept, Held
    <2>2. CASE k \notin LoaderKeys
      <3>1. k = "offline-onnx" /\ BundleOf(loading.service) = "offline_onnx_model_bundle"
        BY <2>2, OnnxIsAlone
      <3>2. bundle["offline_onnx_model_bundle"] = <<>>
        BY <3>1 DEF LoadBuilt
      <3> QED
        BY <3>1, <3>2 DEF BuiltKept
    <2> QED
      BY <2>1, <2>2
  <1> QED
    BY <1>2, <1>3, <1>4

(* A load of a loaded service fails at a model that was dropped.           *)
LEMMA FailedDroppedNext ==
  CacheIInv /\ AppIInv /\ PlanIInv /\ [Next]_vars => FailedDropped'
  <1> SUFFICES ASSUME CacheIInv, AppIInv, PlanIInv, [Next]_vars
               PROVE  FailedDropped'
    OBVIOUS
  <1>0. /\ NoLoad.state = "idle" /\ NoLoad.user = "none"
        /\ Kinds \subseteq Users \ {"stream", "preload"} /\ "none" \notin Kinds
        /\ job \in [Users -> Seq(Services)]
        /\ LoadInPhase /\ FailedDropped
    BY DEF NoLoad, Users, Kinds, PlanIInv, JobTypes, AppIInv
  <1> DEFINE Within(j) == \A k \in Kinds : ToSet(j[k]) \subseteq ToSet(RecognitionUses(k))
  <1>1. UNCHANGED config => \A k : RecognitionUses(k)' = RecognitionUses(k)
    BY DEF RecognitionUses
  <1>2. Within(job)
    BY <1>0 DEF FailedDropped
  <1>3. ASSUME UNCHANGED config, Within(job'), loading' = NoLoad
        PROVE  FailedDropped'
    BY <1>0, <1>1, <1>3 DEF FailedDropped
  <1>4. ASSUME UNCHANGED <<config, loading>>, Within(job'),
               \/ UNCHANGED svc /\ dropped \subseteq dropped'
               \/ loading.state = "idle"
        PROVE  FailedDropped'
    <2>1. ASSUME NEW k \in Kinds, loading'.user = k
          PROVE  loading'.service \in ToSet(RecognitionUses(k))
      BY <1>0, <1>4, <2>1 DEF FailedDropped
    <2>2. ASSUME loading'.state = "failed", svc'[loading'.service] = "loaded"
          PROVE  \E p \in ToSet(PartsOf(loading.service)) : p \in dropped'
      BY <1>0, <1>4, <2>2 DEF FailedDropped
    <2>3. PartsOf(loading.service)' = PartsOf(loading.service)
      BY <1>4 DEF PartsOf, BundleOf
    <2> QED
      BY <1>1, <1>4, <2>1, <2>2, <2>3 DEF FailedDropped
  <1>5. ASSUME NEW u \in Users, NEW j, job' = [job EXCEPT ![u] = j],
               u \in Kinds => ToSet(j) \subseteq ToSet(RecognitionUses(u))
        PROVE  Within(job')
    BY <1>0, <1>2, <1>5
  <1>6. \A u \in Users : ToSet(Tail(job[u])) \subseteq ToSet(job[u]) /\ ToSet(<<>>) = {}
    <2>1. ToSet(<<>>) = {}
      BY DEF ToSet
    <2>2. ASSUME NEW u \in Users PROVE ToSet(Tail(job[u])) \subseteq ToSet(job[u])
      <3>1. CASE job[u] = <<>>
        <4>1. Tail(<<>>) = <<>>
          OBVIOUS
        <4> QED
          BY <3>1, <4>1
      <3>2. CASE job[u] # <<>>
        <4>1. \A i \in DOMAIN Tail(job[u]) : i + 1 \in DOMAIN job[u]
                                             /\ Tail(job[u])[i] = job[u][i + 1]
          BY <1>0, <3>2
        <4> QED
          BY <4>1 DEF ToSet
      <3> QED
        BY <3>1, <3>2
    <2> QED
      BY <2>1, <2>2
  <1>7. CASE Compose
    <2>1. UNCHANGED <<config, loading, job>> /\ loading.state = "idle"
      BY <1>0, <1>7 DEF Compose, cacheVars, LoadInPhase
    <2> QED
      BY <1>2, <1>4, <2>1
  <1>8. CASE \/ ContainerFails \/ CompositionFails \/ StartFails \/ Serve \/ Shutdown
             \/ Halted \/ UNCHANGED vars
             \/ \E c \in Probes : ProbeAnswers(c) \/ ProbeTimeout(c)
             \/ \E k \in Kinds : Submit(k)
    <2>1. UNCHANGED <<config, loading, svc, dropped, job>>
      BY <1>8 DEF ContainerFails, CompositionFails, StartFails, Serve, Shutdown, Halted,
         ProbeAnswers, ProbeTimeout, Submit, vars, cacheVars, appVars
    <2> QED
      BY <1>2, <1>4, <2>1
  <1>9. CASE Diagnose
    <2>1. /\ UNCHANGED <<config, loading, svc, dropped>>
          /\ job' = job \/ job' = [job EXCEPT !["preload"] = EnabledServiceKeys]
      BY <1>9 DEF Diagnose, cacheVars
    <2>2. "preload" \in Users /\ "preload" \notin Kinds
      BY DEF Users, Kinds
    <2>3. Within(job')
      BY <1>2, <1>5, <2>1, <2>2
    <2> QED
      BY <1>4, <2>1, <2>3
  <1>10. CASE \E u \in Users : Get(u)
    <2>1. PICK u \in Users : Get(u)
      BY <1>10
    <2>2. /\ UNCHANGED <<config, job>> /\ job[u] # <<>>
          /\ loading'.service = Head(job[u]) /\ loading'.user = u
          /\ loading'.state \in {"ok", "loading"}
      BY <2>1 DEF Get, BeginGet, appVars
    <2>3. Head(job[u]) \in ToSet(job[u])
      <3>1. 1 \in DOMAIN job[u] /\ Head(job[u]) = job[u][1]
        BY <1>0, <2>2
      <3> QED
        BY <3>1 DEF ToSet
    <2> QED
      BY <1>1, <1>2, <2>2, <2>3 DEF FailedDropped
  <1>11. CASE Load
    <2>1. /\ UNCHANGED <<job, svc>> /\ UNCHANGED config
          /\ loading'.service = loading.service /\ loading'.user = loading.user
          /\ loading.state = "loading"
      BY <1>11, LoadStepKeeps, LoadStepKeepsUser DEF Load, appVars
    <2>2. ASSUME loading'.state = "failed", svc[loading.service] = "loaded"
          PROVE  \E p \in ToSet(PartsOf(loading.service)) : p \in dropped'
      <3>1. ~ \/ LoadHit
              \/ LoadBuilds
        BY <2>2 DEF LoadHit, LoadBuilds, Took, CacheIInv, CacheShape
      <3>2. ~Held(Head(loading.todo)) /\ dropped' = dropped
        BY <1>11, <3>1 DEF Load, LoadStep, Download, LoadFails
      <3>3. HasBuilt(loading.service)
        BY <2>1, <2>2 DEF PlanIInv, JobTypes, ServicesBuilt
      <3> QED
        BY <2>1, <3>2, <3>3, BuiltNotHeld DEF PlanIInv
    <2>3. PartsOf(loading.service)' = PartsOf(loading.service)
      BY <2>1 DEF PartsOf, BundleOf
    <2> QED
      BY <1>0, <1>1, <1>2, <2>1, <2>2, <2>3 DEF FailedDropped
  <1>12. CASE Preloaded \/ StreamOpened \/ \E k \in Kinds : Recognized(k)
    <2>1. /\ loading' = NoLoad /\ UNCHANGED config
          /\ \/ job' = [job EXCEPT ![loading.user] = Tail(job[loading.user])]
             \/ job' = [job EXCEPT ![loading.user] = <<>>]
      BY <1>12 DEF Preloaded, StreamOpened, Recognized, Got, GiveUp
    <2>2. loading.user \in Users
      BY <1>12 DEF Preloaded, StreamOpened, Recognized, Users
    <2>3. Within(job')
      BY <1>2, <1>5, <1>6, <2>1, <2>2
    <2> QED
      BY <1>3, <2>1, <2>3
  <1>13. CASE OpenStream
    <2>1. /\ UNCHANGED <<config, loading, svc, dropped>>
          /\ job' = [job EXCEPT !["stream"] = <<"online_asr">>]
      BY <1>13 DEF OpenStream, cacheVars
    <2>2. "stream" \in Users /\ "stream" \notin Kinds
      BY DEF Users, Kinds
    <2>3. Within(job')
      BY <1>5, <2>1, <2>2
    <2> QED
      BY <1>4, <2>1, <2>3
  <1>14. CASE \E k \in Kinds : TakeTask(k)
    <2>1. PICK k \in Kinds : TakeTask(k)
      BY <1>14
    <2>2. /\ UNCHANGED <<config, loading, svc, dropped>>
          /\ job' = [job EXCEPT ![k] = RecognitionUses(k)]
      BY <2>1 DEF TakeTask, cacheVars
    <2>3. Within(job')
      BY <1>0, <1>5, <2>2
    <2> QED
      BY <1>4, <2>2, <2>3
  <1>15. CASE \/ \E key \in UnloadKeys : Unload(key)
              \/ \E l \in Loaders : Replace(l)
    <2>1. UNCHANGED <<config, loading, svc, job>> /\ dropped \subseteq dropped'
      BY <1>15 DEF Unload, UnloadModel, Replace, ReplaceLoader, Release, appVars
    <2> QED
      BY <1>2, <1>4, <2>1
  <1>16. CASE StopServices
    <2>1. UNCHANGED <<config, loading, svc, dropped>>
          /\ (job' = job \/ job' = [u \in Users |-> <<>>])
      BY <1>16 DEF StopServices, cacheVars
    <2>2. Within(job')
      BY <1>0, <1>2, <1>6, <2>1
    <2> QED
      BY <1>4, <2>1, <2>2
  <1>17. CASE Crash
    BY <1>2, <1>3, <1>17 DEF Crash
  <1>18. CASE Start
    <2>1. loading' = NoLoad /\ job' = [u \in Users |-> <<>>]
      BY <1>18 DEF Start, CacheReset
    <2>2. \A k \in Kinds : ToSet(job'[k]) = {}
      BY <1>0, <1>6, <2>1
    <2> QED
      BY <1>0, <2>1, <2>2 DEF FailedDropped
  <1> QED
    BY <1>7, <1>8, <1>9, <1>10, <1>11, <1>12, <1>13, <1>14, <1>15, <1>16, <1>17, <1>18
       DEF Next, Loaders

LEMMA ConfigNext == config \in Configs /\ [Next]_vars => (config \in Configs)'
  <1> SUFFICES ASSUME config \in Configs, [Next]_vars PROVE config' \in Configs
    OBVIOUS
  <1>1. CASE Start
    BY <1>1 DEF Start, CacheReset
  <1>2. CASE \/ Compose \/ ContainerFails \/ CompositionFails \/ StartFails \/ Diagnose \/ Preloaded
             \/ Serve \/ OpenStream \/ StreamOpened \/ Shutdown \/ StopServices \/ Crash
             \/ Halted \/ UNCHANGED vars
    BY <1>2 DEF Compose, ContainerFails, CompositionFails, StartFails, Diagnose, Preloaded, Serve,
       OpenStream, StreamOpened, Shutdown, StopServices, Crash, Halted, vars, cacheVars
  <1>3. CASE \/ \E c \in Probes : ProbeAnswers(c) \/ ProbeTimeout(c)
             \/ \E k \in Kinds : Submit(k) \/ TakeTask(k) \/ Recognized(k)
    BY <1>3 DEF ProbeAnswers, ProbeTimeout, Submit, TakeTask, Recognized, cacheVars
  <1>4. CASE \/ \E u \in Users : Get(u)
             \/ \E key \in UnloadKeys : Unload(key)
             \/ \E l \in Loaders : Replace(l)
    BY <1>4 DEF Get, BeginGet, Unload, UnloadModel, Replace, ReplaceLoader, Release
  <1>5. CASE Load
    BY <1>5 DEF Load, LoadStep, LoadHit, LoadBuilds, Download, LoadFails
  <1> QED
    BY <1>1, <1>2, <1>3, <1>4, <1>5 DEF Next, Loaders

LEMMA InitPlanIInv == Init => PlanIInv
  <1> SUFFICES ASSUME Init PROVE PlanIInv
    OBVIOUS
  <1>1. /\ config \in Configs /\ loading.state = "idle" /\ loading.user = "none"
        /\ \A k \in LoaderKeys : loader[k] = 0 /\ built[k] = 0
        /\ built["offline-onnx"] = 0
        /\ bundle["offline_onnx_model_bundle"] = <<>>
        /\ \A u \in Users : job[u] = <<>>
        /\ phase = "composing"
    BY DEF Init, CacheInit, NoLoad, LoaderKeys, Keys, Bundles
  <1>2. JobTypes
    BY <1>1, UsesTyped DEF Init, JobTypes, Users
  <1>3. BuiltKept
    BY <1>1 DEF BuiltKept
  <1>4. LoadBuilt /\ JobsLoaded
    BY <1>1 DEF LoadBuilt, JobsLoaded
  <1>5. ServicesBuilt
    BY DEF Init, ServicesBuilt
  <1>6. FailedDropped
    <2>1. ToSet(<<>>) = {} /\ Kinds \subseteq Users /\ "none" \notin Kinds
      BY DEF ToSet, Users, Kinds
    <2> QED
      BY <1>1, <2>1 DEF FailedDropped
  <1> QED
    BY <1>1, <1>2, <1>3, <1>4, <1>5, <1>6 DEF PlanIInv

(* The inductive invariant of the models' loads: what a route admits goes  *)
(* through loaded services, a loaded service was built in this life, what  *)
(* was built is held or was dropped, and a load of a loaded service fails  *)
(* at a dropped model only.                                                *)
THEOREM PlanInvariant == Spec => []PlanIInv
  <1>1. CacheIInv /\ AppIInv /\ PlanIInv /\ [Next]_vars => PlanIInv'
    BY ConfigNext, JobTypesNext, BuiltKeptNext, LoadBuiltNext, ServicesBuiltNext,
       JobsLoadedNext, FailedDroppedNext DEF PlanIInv, AppIInv
  <1> QED
    BY <1>1, InitPlanIInv, CacheInvariant, AppInvariant, PTL DEF Spec

(* What TypeOK says of the process around the models.                      *)
LifeTypes ==
    /\ life \in 1..MaxLives
    /\ phase \in {"composing", "probing", "preloading", "serving", "stopping",
                  "stopped", "down"}
    /\ container \in {"none", "open", "closed"} /\ composed \in BOOLEAN
    /\ available \subseteq ToSet(config.enabled)
    /\ queue \in BOOLEAN
    /\ queued \subseteq Kinds /\ accepted \subseteq Kinds

LEMMA LifeTypesNext == LifeTypes /\ [Next]_vars => LifeTypes'
  <1> SUFFICES ASSUME LifeTypes, [Next]_vars PROVE LifeTypes'
    OBVIOUS
  <1>1. ASSUME UNCHANGED <<config, life, phase, container, composed, available, queue,
                           queued, accepted>>
        PROVE  LifeTypes'
    BY <1>1 DEF LifeTypes
  <1>2. CASE Start
    <2>1. life' \in 1..MaxLives
      BY <1>2, LifeAssumption DEF Start, LifeTypes
    <2> QED
      BY <1>2, <2>1 DEF Start, LifeTypes
  <1>3. CASE Load
    <2>1. config' = config
      BY <1>3 DEF Load, LoadStep, LoadHit, LoadBuilds, Download, LoadFails
    <2> QED
      BY <1>1, <1>3, <2>1 DEF Load, appVars
  <1>4. CASE \/ \E key \in UnloadKeys : Unload(key)
             \/ \E l \in Loaders : Replace(l)
             \/ \E u \in Users : Get(u)
    BY <1>1, <1>4 DEF Unload, UnloadModel, Replace, ReplaceLoader, Release, Get, BeginGet, appVars
  <1>5. CASE Compose
    BY <1>5 DEF Compose, LifeTypes, cacheVars
  <1>6. CASE ContainerFails \/ CompositionFails \/ StartFails \/ Shutdown \/ Crash
    BY <1>6 DEF ContainerFails, CompositionFails, StartFails, StartRaises, Shutdown, Crash, LifeTypes, cacheVars
  <1>7. CASE Diagnose
    BY <1>7 DEF Diagnose, StartRaises, LifeTypes, cacheVars
  <1>8. CASE Serve
    <2>1. available' \subseteq ToSet(config.enabled)
      BY <1>8 DEF Serve, Availability
    <2>2. queue' \in BOOLEAN /\ queued' \subseteq Kinds
      BY <1>8 DEF Serve, Recoverable
    <2> QED
      BY <1>8, <2>1, <2>2 DEF Serve, LifeTypes, cacheVars
  <1>9. CASE StopServices
    BY <1>9 DEF StopServices, LifeTypes, cacheVars
  <1>10. CASE \E k \in Kinds : Submit(k) \/ TakeTask(k)
    BY <1>10 DEF Submit, TakeTask, LifeTypes, cacheVars
  <1>11. CASE \/ Preloaded \/ OpenStream \/ StreamOpened \/ Halted \/ UNCHANGED vars
              \/ \E k \in Kinds : Recognized(k)
              \/ \E c \in Probes : ProbeAnswers(c) \/ ProbeTimeout(c)
    BY <1>1, <1>11 DEF Preloaded, OpenStream, StreamOpened, Halted, Recognized, ProbeAnswers,
       ProbeTimeout, vars, cacheVars, appVars
  <1> QED
    BY <1>2, <1>3, <1>4, <1>5, <1>6, <1>7, <1>8, <1>9, <1>10, <1>11 DEF Next, Loaders

(* Where the process stands, in every state.                               *)
LEMMA LifeTyped == Spec => []LifeTypes
  <1>1. Init => LifeTypes
    <2> SUFFICES ASSUME Init PROVE LifeTypes
      OBVIOUS
    <2>1. life \in 1..MaxLives
      BY LifeAssumption DEF Init
    <2> QED
      BY <2>1 DEF Init, LifeTypes
  <1> QED
    BY <1>1, LifeTypesNext, PTL DEF Spec

(* A route admits tasks of available modes, whose services are loaded; so  *)
(* a recognition of one fails for want of a model only after that model,   *)
(* or another of the same service, was dropped.                            *)
THEOREM AcceptedIsServed == Spec => AcceptedServed
  <1> DEFINE Lost(k) == \E s \in ToSet(RecognitionUses(k)) :
                           \E p \in ToSet(PartsOf(s)) : p \in dropped
             Kept == \A k \in accepted : rows'[k] = "failed" /\ rows[k] # "failed" => Lost(k)
  <1>1. AppIInv /\ PlanIInv /\ LifeTypes /\ [Next]_vars => [Kept]_vars
    <2> SUFFICES ASSUME AppIInv, PlanIInv, LifeTypes, Next, NEW k \in accepted,
                        rows'[k] = "failed", rows[k] # "failed"
                 PROVE  Lost(k)
      OBVIOUS
    <2> HIDE DEF Lost
    <2>0. k \in Kinds /\ rows' # rows
      BY DEF LifeTypes
    <2>1. ~ \E j \in Kinds : Submit(j) \/ TakeTask(j)
      BY <2>0 DEF Submit, TakeTask, AppIInv, AppTypes
    <2>2. ~ Start
      BY <2>0 DEF Start
    <2>3. ~ \E u \in Users : Get(u)
      BY <2>0 DEF Get, appVars
    <2>4. ~ \E key \in UnloadKeys : Unload(key)
      BY <2>0 DEF Unload, appVars
    <2>5. ~ \E l \in {"pt_loader", "online_onnx_loader", "spk_pt_loader"} : Replace(l)
      BY <2>0 DEF Replace, appVars
    <2>6. ~ \E c \in Probes : ProbeAnswers(c) \/ ProbeTimeout(c)
      BY <2>0 DEF ProbeAnswers, ProbeTimeout
    <2>7. ~ \/ Compose \/ ContainerFails \/ CompositionFails \/ Diagnose \/ StartFails
            \/ Load \/ Preloaded \/ Serve \/ OpenStream \/ StreamOpened \/ Shutdown
            \/ StopServices \/ Crash \/ Halted
      BY <2>0 DEF Compose, ContainerFails, CompositionFails, Diagnose, StartFails, Load,
         Preloaded, Serve, OpenStream, StreamOpened, Shutdown, StopServices, Crash, Halted,
         vars, appVars
    <2>8. PICK j \in Kinds : Recognized(j)
      BY <2>1, <2>2, <2>3, <2>4, <2>5, <2>6, <2>7 DEF Next
    <2>9. j = k /\ loading.user = k /\ loading.state = "failed"
      BY <2>0, <2>8 DEF Recognized, AppIInv, AppTypes
    <2>10. phase = "serving" /\ k \in available
      <3>1. "none" # k /\ "preload" # k
        BY <2>0 DEF Kinds
      <3>2. phase = "serving"
        BY <2>9, <3>1 DEF AppIInv, LoadInPhase, NoLoad
      <3> QED
        BY <3>2 DEF AppIInv, AvailableLoaded
    <2>11. loading.service \in ToSet(RecognitionUses(k)) /\ svc[loading.service] = "loaded"
      BY <2>0, <2>9, <2>10, AvailableUsesLoaded DEF PlanIInv, FailedDropped, AppIInv
    <2> QED
      BY <2>9, <2>11 DEF PlanIInv, FailedDropped, Lost
  <1> QED
    BY <1>1, AppInvariant, PlanInvariant, LifeTyped, PTL DEF Spec, AcceptedServed

(* A model that is built was never built in this life, or was dropped; and *)
(* a request that is admitted does not wait for the first of the two.      *)
LEMMA BuildsOnce ==
  ASSUME CacheIInv, AppIInv, PlanIInv, LoadBuilds
  PROVE  \/ Head(loading.todo) \in dropped
         \/ /\ built[Head(loading.todo)] = 0
            /\ phase = "preloading" \/ loading.user \in Kinds \ available
  <1> DEFINE k == Head(loading.todo)
  <1>1. loading.state = "loading" /\ ~Held(k)
    BY DEF LoadBuilds
  <1>2. k \in Keys
    BY <1>1, NextPart
  <1>3. built[k] \in Nat
    BY <1>2 DEF CacheIInv, CacheShape
  <1>4. /\ built[k] > 0 => k \in dropped
        /\ HasBuilt(loading.service) => built[k] > 0
    BY <1>1, BuiltNotHeld DEF PlanIInv
  <1>5. phase \in {"preloading", "serving"}
    BY <1>1 DEF AppIInv, LoadInPhase, NoLoad
  <1>6. phase = "serving" /\ loading.user \notin Kinds \ available => built[k] > 0
    <2> SUFFICES ASSUME phase = "serving", loading.user \notin Kinds \ available
                 PROVE  built[k] > 0
      OBVIOUS
    <2>1. loading.service \in Services /\ loading.user \in Users
      BY <1>1 DEF PlanIInv, JobTypes
    <2>2. loading.user \in Admitted
      BY <2>1 DEF AppIInv, LoadInPhase, Admitted, Users
    <2>3. svc[loading.service] = "loaded"
      BY <2>2 DEF PlanIInv, JobsLoaded
    <2> QED
      BY <1>4, <2>1, <2>3 DEF PlanIInv, ServicesBuilt
  <1> QED
    BY <1>3, <1>4, <1>5, <1>6

(* No request that a route admits waits for a first load: a model is built *)
(* once, during the preload or for a recovered task of an unavailable mode,*)
(* or after it was dropped (service_plan.py, RuntimeModelCache, the        *)
(* loaders' dictionaries and the preloads on use).                         *)
THEOREM ModelsLoadAhead == Spec => LoadsAhead
  <1> DEFINE Ahead(k) == \/ k \in dropped
                         \/ /\ built[k] = 0
                            /\ phase = "preloading" \/ loading.user \in Kinds \ available
             Planned == \A k \in Keys : built'[k] > built[k] => Ahead(k)
  <1>1. CacheIInv /\ AppIInv /\ PlanIInv /\ [Next]_vars => [Planned]_vars
    <2> SUFFICES ASSUME CacheIInv, AppIInv, PlanIInv, Next,
                        NEW k \in Keys, built'[k] > built[k]
                 PROVE  Ahead(k)
      OBVIOUS
    <2>1. built \in [Keys -> Nat]
      BY DEF CacheIInv, CacheShape
    <2>2. built' # built
      BY <2>1
    <2>3. ~ \/ Compose \/ ContainerFails \/ CompositionFails \/ StartFails \/ Diagnose \/ Preloaded
            \/ Serve \/ OpenStream \/ StreamOpened \/ Shutdown \/ StopServices \/ Crash
            \/ Halted
      BY <2>2 DEF Compose, ContainerFails, CompositionFails, StartFails, Diagnose, Preloaded, Serve,
         OpenStream, StreamOpened, Shutdown, StopServices, Crash, Halted, vars, cacheVars
    <2>4. ~ \/ \E c \in Probes : ProbeAnswers(c) \/ ProbeTimeout(c)
            \/ \E j \in Kinds : Submit(j) \/ TakeTask(j) \/ Recognized(j)
      BY <2>2 DEF ProbeAnswers, ProbeTimeout, Submit, TakeTask, Recognized, cacheVars
    <2>5. ~ \/ \E u \in Users : Get(u)
            \/ \E key \in UnloadKeys : Unload(key)
            \/ \E l \in Loaders : Replace(l)
      BY <2>2 DEF Get, BeginGet, Unload, UnloadModel, Replace, ReplaceLoader, Release
    <2>6. ~ Start
      BY <2>1 DEF Start, CacheReset
    <2>7. Load
      BY <2>3, <2>4, <2>5, <2>6 DEF Next, Loaders
    <2>8. LoadBuilds
      BY <2>2, <2>7 DEF Load, LoadStep, LoadHit, Download, LoadFails
    <2>9. k = Head(loading.todo)
      BY <2>1, <2>8 DEF LoadBuilds
    <2> QED
      BY <2>8, <2>9, BuildsOnce
  <1> QED
    BY <1>1, CacheInvariant, AppInvariant, PlanInvariant, PTL DEF Spec, LoadsAhead

----------------------------------------------------------------------------
(* The types of the whole process.                                         *)

LEMMA InitBounds == Init => BoundsExact
  <1> SUFFICES ASSUME Init PROVE BoundsExact
    OBVIOUS
  <1>1. /\ \A k \in LoaderKeys : loader[k] = 0 /\ built[k] = 0
        /\ built["offline-onnx"] = 0 /\ loading.state = "idle"
    BY DEF Init, CacheInit, NoLoad, LoaderKeys, Keys
  <1> QED
    BY <1>1, CacheAssumption DEF BoundsExact

(* A built model is held until it is released, and only one that may be    *)
(* built again is released.                                                *)
LEMMA BoundsNext ==
  CacheIInv /\ LoadBuilt /\ BoundsExact /\ [Next]_vars => BoundsExact'
  <1> SUFFICES ASSUME CacheIInv, LoadBuilt, BoundsExact, [Next]_vars PROVE BoundsExact'
    OBVIOUS
  <1> DEFINE onnx == "offline_onnx_model_bundle"
  <1>0. /\ loader \in [LoaderKeys -> Nat] /\ built \in [Keys -> Nat]
        /\ bundle \in [Bundles -> Seq(Nat)] /\ onnx \in Bundles
        /\ "offline-onnx" \in Keys \ LoaderKeys /\ LoaderKeys \subseteq Keys
        /\ MaxBuilds \in Nat \ {0}
    BY CacheAssumption DEF CacheIInv, CacheShape, Bundles, Keys, LoaderKeys, PtKeys
  <1>1. ASSUME UNCHANGED <<loader, bundle, built>>,
               loading'.state = "ok" => loading'.todo = <<>>
        PROVE  BoundsExact'
    BY <1>1 DEF BoundsExact
  <1>1a. ASSUME UNCHANGED <<loader, bundle, built>>, loading' = NoLoad
         PROVE  BoundsExact'
    BY <1>1, <1>1a DEF NoLoad
  <1>1b. ASSUME UNCHANGED <<loader, bundle, built, loading>> PROVE BoundsExact'
    BY <1>1b DEF BoundsExact
  <1>2. CASE Start
    <2>1. /\ \A k \in LoaderKeys : loader'[k] = 0 /\ built'[k] = 0
          /\ built'["offline-onnx"] = 0 /\ loading'.state = "idle"
      BY <1>0, <1>2 DEF Start, CacheReset, NoLoad
    <2> QED
      BY <1>0, <2>1 DEF BoundsExact
  <1>3. ASSUME NEW K, NEW B, Release(K, B) PROVE BoundsExact'
    <2>1. /\ built' = built /\ loading' = loading
          /\ loader' = [k \in LoaderKeys |-> IF k \in K THEN 0 ELSE loader[k]]
          /\ bundle' = [b \in Bundles |-> IF b \in B THEN <<>> ELSE bundle[b]]
          /\ \A k \in K : loader[k] # 0 => built[k] < MaxBuilds
          /\ onnx \in B /\ bundle[onnx] # <<>> => built["offline-onnx"] < MaxBuilds
      BY <1>3 DEF Release
    <2>2. ASSUME NEW k \in LoaderKeys
          PROVE  /\ loader'[k] <= built'[k] /\ built'[k] <= MaxBuilds
                 /\ loader'[k] = 0 => built'[k] < MaxBuilds
      BY <1>0, <2>1, <2>2 DEF BoundsExact
    <2>3. /\ built'["offline-onnx"] <= MaxBuilds
          /\ bundle'[onnx] = <<>> => built'["offline-onnx"] < MaxBuilds
      BY <1>0, <2>1 DEF BoundsExact
    <2> QED
      BY <2>1, <2>2, <2>3 DEF BoundsExact
  <1>4. ASSUME loading.state = "loading", NEW g, Took(g)
        PROVE  loading'.state = "ok" => loading'.todo = <<>>
    BY <1>4 DEF Took, CacheIInv, CacheShape
  <1>5. CASE Load
    <2>1. CASE LoadHit
      <3>1. loading.state = "loading" /\ UNCHANGED <<loader, built>>
            /\ Took(loader[Head(loading.todo)]) /\ Held(Head(loading.todo))
        BY <2>1 DEF LoadHit
      <3>2. bundle'[onnx] = bundle[onnx]
        BY <3>1, TookOnnx DEF Held
      <3> QED
        BY <1>4, <3>1, <3>2 DEF BoundsExact
    <2>2. CASE LoadBuilds
      <3> DEFINE k == Head(loading.todo)
      <3>1. /\ loading.state = "loading" /\ Took(built[k] + 1) /\ ~Held(k)
            /\ built' = [built EXCEPT ![k] = built[k] + 1]
            /\ loader' = IF k \in LoaderKeys THEN [loader EXCEPT ![k] = built[k] + 1] ELSE loader
        BY <2>2 DEF LoadBuilds
      <3>2. k \in Keys /\ (k \notin LoaderKeys => k = "offline-onnx")
        BY <3>1, NextPart, OnnxIsAlone
      <3>3. ASSUME NEW j \in LoaderKeys
            PROVE  /\ loader'[j] <= built'[j] /\ built'[j] <= MaxBuilds
                   /\ loader'[j] = 0 => built'[j] < MaxBuilds
        <4>1. CASE j = k
          BY <1>0, <3>1, <3>2, <4>1 DEF Held, BoundsExact
        <4>2. CASE j # k
          BY <1>0, <3>1, <3>2, <4>2 DEF BoundsExact
        <4> QED
          BY <4>1, <4>2
      <3>4. /\ built'["offline-onnx"] <= MaxBuilds
            /\ bundle'[onnx] = <<>> => built'["offline-onnx"] < MaxBuilds
        <4>1. CASE k \in LoaderKeys
          BY <1>0, <3>1, <4>1, TookOnnx DEF BoundsExact
        <4>2. CASE k \notin LoaderKeys
          <5>1. bundle[onnx] = <<>>
            BY <3>1, <4>2, OnnxIsAlone DEF LoadBuilt
          <5>2. bundle'[onnx] # <<>>
            BY <3>1, <4>2, TookOnnx
          <5> QED
            BY <1>0, <3>1, <3>2, <4>2, <5>1, <5>2 DEF BoundsExact
        <4> QED
          BY <4>1, <4>2
      <3> QED
        BY <1>4, <3>1, <3>3, <3>4 DEF BoundsExact
    <2>3. CASE Download \/ LoadFails
      BY <1>1, <2>3 DEF Download, LoadFails, CacheIInv, CacheShape
    <2> QED
      BY <1>5, <2>1, <2>2, <2>3 DEF Load, LoadStep
  <1>6. CASE \/ \E key \in UnloadKeys : Unload(key)
             \/ \E l \in Loaders : Replace(l)
    BY <1>3, <1>6 DEF Unload, UnloadModel, Replace, ReplaceLoader
  <1>7. CASE Preloaded \/ StreamOpened \/ Crash \/ \E k \in Kinds : Recognized(k)
    BY <1>1a, <1>7 DEF Preloaded, StreamOpened, Crash, Recognized
  <1>8. CASE \/ Compose \/ ContainerFails \/ CompositionFails \/ StartFails \/ Diagnose \/ Serve
             \/ OpenStream \/ Shutdown \/ StopServices \/ Halted \/ UNCHANGED vars
    BY <1>1b, <1>8 DEF Compose, ContainerFails, CompositionFails, StartFails, Diagnose, Serve, OpenStream,
       Shutdown, StopServices, Halted, vars, cacheVars
  <1>9. CASE \/ \E c \in Probes : ProbeAnswers(c) \/ ProbeTimeout(c)
             \/ \E k \in Kinds : Submit(k) \/ TakeTask(k)
    BY <1>1b, <1>9 DEF ProbeAnswers, ProbeTimeout, Submit, TakeTask, cacheVars
  <1>10. CASE \E u \in Users : Get(u)
    BY <1>1, <1>10 DEF Get, BeginGet
  <1> QED
    BY <1>2, <1>5, <1>6, <1>7, <1>8, <1>9, <1>10 DEF Next, Loaders

(* What TypeOK says of the disk, kept by every step.                       *)
DiskTypes ==
    /\ disk \in [Keys -> {"absent", "partial", "complete"}]
    /\ known \subseteq OnDisk(disk)
    /\ dropped \subseteq Keys

LEMMA DiskTypesNext == CacheIInv /\ DiskTypes /\ [Next]_vars => DiskTypes'
  <1> SUFFICES ASSUME CacheIInv, DiskTypes, [Next]_vars PROVE DiskTypes'
    OBVIOUS
  <1>1. ASSUME UNCHANGED <<disk, known, dropped>> PROVE DiskTypes'
    BY <1>1 DEF DiskTypes, OnDisk
  <1>2. CASE Start
    BY <1>2 DEF Start, CacheReset, DiskTypes, OnDisk
  <1>3. ASSUME NEW K \in SUBSET LoaderKeys, NEW B, Release(K, B) PROVE DiskTypes'
    <2>1. UNCHANGED <<disk, known>> /\ dropped' \subseteq dropped \cup K \cup {"offline-onnx"}
      BY <1>3 DEF Release
    <2> QED
      BY <2>1 DEF DiskTypes, OnDisk, Keys
  <1>4. CASE Load
    <2>1. CASE LoadHit \/ LoadBuilds \/ LoadFails
      BY <1>1, <2>1 DEF LoadHit, LoadBuilds, LoadFails
    <2>2. CASE Download
      <3> DEFINE k == Head(loading.todo)
      <3>1. k \in Keys /\ dropped' = dropped /\ k \notin known
        BY <2>2, NextPart DEF Download
      <3>2. PICK d \in {disk[k], "partial", "complete"} :
              /\ disk' = [disk EXCEPT ![k] = d]
              /\ known' = OnDisk(disk') \/ known' = known
        BY <2>2 DEF Download
      <3>3. disk' \in [Keys -> {"absent", "partial", "complete"}]
        BY <3>1, <3>2 DEF DiskTypes
      <3>4. known \subseteq OnDisk(disk')
        <4> SUFFICES ASSUME NEW j \in known PROVE j \in OnDisk(disk')
          OBVIOUS
        <4>1. j \in Keys /\ disk[j] # "absent" /\ j # k
          BY <3>1 DEF DiskTypes, OnDisk
        <4> QED
          BY <3>1, <3>2, <4>1 DEF DiskTypes, OnDisk
      <3> QED
        BY <3>1, <3>2, <3>3, <3>4 DEF DiskTypes
    <2> QED
      BY <1>4, <2>1, <2>2 DEF Load, LoadStep
  <1>5. CASE \/ \E key \in UnloadKeys : Unload(key)
             \/ \E l \in Loaders : Replace(l)
    <2>1. \A l : KeysOfLoader(l) \subseteq LoaderKeys
      BY DEF KeysOfLoader, LoaderKeys
    <2>2. \A key : (IF key = "all" THEN LoaderKeys ELSE LoaderKeys \cap {key}) \subseteq LoaderKeys
      OBVIOUS
    <2> QED
      BY <1>3, <1>5, <2>1, <2>2 DEF Unload, UnloadModel, Replace, ReplaceLoader
  <1>6. CASE \/ Compose \/ ContainerFails \/ CompositionFails \/ StartFails \/ Diagnose \/ Serve
             \/ OpenStream \/ Shutdown \/ StopServices \/ Halted
             \/ Preloaded \/ StreamOpened \/ Crash \/ UNCHANGED vars
    BY <1>1, <1>6 DEF Compose, ContainerFails, CompositionFails, StartFails, Diagnose, Serve, OpenStream,
       Shutdown, StopServices, Halted, Preloaded, StreamOpened, Crash, vars, cacheVars
  <1>7. CASE \/ \E c \in Probes : ProbeAnswers(c) \/ ProbeTimeout(c)
             \/ \E k \in Kinds : Submit(k) \/ TakeTask(k) \/ Recognized(k)
             \/ \E u \in Users : Get(u)
    BY <1>1, <1>7 DEF ProbeAnswers, ProbeTimeout, Submit, TakeTask, Recognized, Get,
       BeginGet, cacheVars
  <1> QED
    BY <1>2, <1>4, <1>5, <1>6, <1>7 DEF Next, Loaders

LEMMA TypesTogether ==
  CacheIInv /\ AppIInv /\ PlanIInv /\ BoundsExact /\ DiskTypes /\ LifeTypes => TypeOK
  <1> SUFFICES ASSUME CacheIInv, AppIInv, PlanIInv, BoundsExact, DiskTypes, LifeTypes
               PROVE  TypeOK
    OBVIOUS
  <1>1. /\ loader \in [LoaderKeys -> Nat] /\ built \in [Keys -> Nat]
        /\ bundle \in [Bundles -> Seq(Nat)] /\ MaxBuilds \in Nat
    BY CacheAssumption DEF CacheIInv, CacheShape
  <1>2. loader \in [LoaderKeys -> 0..MaxBuilds]
    <2> SUFFICES ASSUME NEW k \in LoaderKeys PROVE loader[k] \in 0..MaxBuilds
      BY <1>1
    <2> QED
      BY <1>1 DEF BoundsExact, Keys
  <1>3. built \in [Keys -> 0..MaxBuilds]
    <2> SUFFICES ASSUME NEW k \in Keys PROVE built[k] \in 0..MaxBuilds
      BY <1>1
    <2> QED
      BY <1>1 DEF BoundsExact, Keys
  <1>4. ASSUME NEW b \in Bundles, bundle[b] # <<>>
        PROVE  Len(bundle[b]) = Len(PartsOfBundle(b))
    <2>1. bundle[b] \in Seq(Nat) /\ Len(bundle[b]) # 0
      BY <1>1, <1>4, EmptySeq
    <2> QED
      BY <2>1 DEF CacheIInv, BundleExact
  <1>5. loading.state \in {"idle", "loading", "ok", "failed"}
    BY DEF CacheIInv, CacheShape
  <1>6. loading.state = "loading" <=> (loading.todo # <<>> /\ loading.state # "failed")
    <2>1. loading.state = "loading" => loading.todo # <<>>
      BY DEF CacheIInv, LoadExact
    <2>2. loading.state = "idle" => loading.todo = <<>>
      BY DEF AppIInv, LoadInPhase, NoLoad
    <2>3. loading.state = "ok" => loading.todo = <<>>
      BY DEF BoundsExact
    <2> QED
      BY <1>5, <2>1, <2>2, <2>3
  <1>7. CacheTypeOK
    BY <1>2, <1>3, <1>4, <1>5, <1>6 DEF CacheTypeOK, DiskTypes, PlanIInv
  <1>8. ASSUME NEW u \in Users PROVE ToSet(job[u]) \subseteq Services
    <2>1. job[u] \in Seq(Services)
      BY DEF PlanIInv, JobTypes
    <2> QED
      BY <2>1 DEF ToSet
  <1> QED
    BY <1>7, <1>8 DEF TypeOK, LifeTypes, AppIInv, AppTypes

(* Type correctness of the caches and of the process around them.          *)
THEOREM StartupTypeCorrect == Spec => []TypeOK
  <1>1. Init => DiskTypes
    <2> SUFFICES ASSUME Init PROVE DiskTypes
      OBVIOUS
    <2>1. disk \in [Keys -> {"absent", "partial", "complete"}]
      BY DEF Init, CacheInit
    <2> QED
      BY <2>1 DEF Init, CacheInit, DiskTypes
  <1>2. CacheIInv /\ PlanIInv /\ BoundsExact /\ DiskTypes /\ [Next]_vars
          => BoundsExact' /\ DiskTypes'
    BY BoundsNext, DiskTypesNext DEF PlanIInv
  <1> QED
    BY <1>1, <1>2, InitBounds, TypesTogether, LifeTyped, CacheInvariant, AppInvariant,
       PlanInvariant, PTL DEF Spec

=============================================================================
