---------------------------- MODULE StoredProofs ----------------------------
(***************************************************************************)
(* Proofs about what is published and stored: Fair Value's surfaces and    *)
(* caches, its worker pool, the hourly and end-of-day captures, the        *)
(* calendar trades and the analytics write-behind buffer.                  *)
(***************************************************************************)
EXTENDS FairValue, CalendarTrades, WorkerPool, HourlyCapture, EodCapture, WriteBehind,
        SequenceTheorems, FiniteSetTheorems, TLAPS

-----------------------------------------------------------------------------
(* Fair Value: publications                                                *)

\* What is served is of this broker, feed, configuration and watch entry.
Served == BehindBroker /\ ClearedInSwitch /\ PublishedCurrent /\ CachesCurrent

servedTypes ==
    /\ gen \in Nat /\ brokerGen \in Nat /\ feedGen \in Nat /\ version \in Nat /\ entries \in Nat /\ events \in Nat
    /\ watched \in [Symbols -> Nat] /\ latest \in [Symbols -> InputType]
    /\ disk \in Nat /\ updating \in Nat /\ boot \in BootType
    /\ switch \in SwitchType /\ restore \in RestoreType

\* None is an input like any other.
LEMMA NoneIsInput == None \in InputType
  BY DEF None, InputType

\* Invalidation leaves nothing to serve (invalidateLocked).
LEMMA InvalidateServes ==
    ASSUME servedTypes, Served, invalidate, UNCHANGED <<gen, restore, superseded>>,
           switch' = switch \/ (switch.pc = "stopping" /\ switch' = [switch EXCEPT !.pc = "cleared"]),
           version' \in Nat, disk' \in Nat, updating' \in Nat, boot' \in BootType,
           entries' = entries, events' \in Nat, watched' \in [Symbols -> Nat]
    PROVE  servedTypes' /\ Served'
  <1>1. /\ latest' \in [Symbols -> InputType] /\ \A s \in Symbols : latest'[s] = None
        /\ retained' = {} /\ cache' = {} /\ feedGen' \in Nat /\ brokerGen' = gen
    BY NoneIsInput DEF invalidate, servedTypes, SwitchType, RestoreType, BootType
  <1>2. PublishedCurrent' /\ CachesCurrent' /\ ClearedInSwitch'
    BY <1>1 DEF PublishedCurrent, CachesCurrent, ClearedInSwitch
  <1>3. switch' \in SwitchType /\ (switching' => switching) /\ switch'.from = switch.from
        /\ (switch.pc = "stored" => switch'.pc = "stored")
    BY DEF servedTypes, SwitchType, RestoreType, BootType, switching
  <1>4. BehindBroker'
    BY <1>1, <1>3 DEF Served, BehindBroker, servedTypes, SwitchType, RestoreType, BootType
  <1> QED BY <1>1, <1>2, <1>3, <1>4 DEF Served, servedTypes, SwitchType, RestoreType, BootType

\* A step that publishes nothing, and takes away what it takes from watched, leaves what is
\* served current.
LEMMA OthersServe ==
    ASSUME servedTypes, Served, UNCHANGED <<brokerVars, brokerGen, feedGen, version, early>>,
           disk' \in Nat, updating' \in Nat, boot' \in BootType, doubled \subseteq doubled',
           entries' \in Nat, events' \in Nat, watched' \in [Symbols -> Nat],
           latest' \in [Symbols -> InputType], retained' \subseteq retained, cache' \subseteq cache,
           \A s \in Symbols : \/ latest'[s] = None
                              \/ latest'[s] = latest[s] /\ (watched'[s] = watched[s] \/ watched[s] \in doubled')
    PROVE  servedTypes' /\ Served'
  <1>1. UNCHANGED <<gen, switch, restore, superseded>> /\ Overtaken' = Overtaken
    BY DEF brokerVars, Overtaken
  <1>2. PublishedCurrent'
    <2> SUFFICES ASSUME NEW s \in Symbols, latest'[s] # None
                 PROVE  /\ OfBroker(latest[s])' /\ latest'[s].feed = feedGen'
                        /\ latest'[s].entry = watched'[s] \/ latest'[s].entry \in doubled'
                        /\ latest'[s].ver = version' \/ latest'[s].ver \in early'
                        /\ ~Overtaken' /\ snapshot(s)' # None => snapshot(s)'.gen = gen'
      BY DEF PublishedCurrent
    <2>1. latest'[s] = latest[s] /\ (watched'[s] = watched[s] \/ watched[s] \in doubled')
      OBVIOUS
    <2>2. snapshot(s)' = snapshot(s) /\ OfBroker(latest[s])' = OfBroker(latest[s])
      BY <1>1, <2>1 DEF snapshot, OfBroker
    <2> QED BY <1>1, <2>1, <2>2 DEF Served, PublishedCurrent
  <1>3. CachesCurrent'
    BY <1>1 DEF Served, CachesCurrent, OfBroker
  <1>4. ClearedInSwitch' /\ BehindBroker'
    BY <1>1 DEF Served, ClearedInSwitch, BehindBroker, switching
  <1> QED BY <1>1, <1>2, <1>3, <1>4 DEF Served, servedTypes, SwitchType, RestoreType, BootType

\* The switch moves on, invalidating before it stores the generation (SwitchTo).
LEMMA SwitchServes ==
    ASSUME servedTypes, Served, SwitchBegins \/ InvalidateNamespace \/ StoreGeneration \/ SwitchEnds
    PROVE  servedTypes' /\ Served'
  <1>1. events + 1 \in Nat /\ [s \in Symbols |-> 0] \in [Symbols -> Nat]
    BY DEF servedTypes, SwitchType, RestoreType, BootType
  <1>2. CASE InvalidateNamespace
    BY <1>1, <1>2, InvalidateServes DEF InvalidateNamespace, invalidateNamespace, configVars, servedTypes, SwitchType, RestoreType, BootType
  <1>3. CASE ~InvalidateNamespace
    <2>1. UNCHANGED <<restore, superseded, brokerGen, feedGen, latest, retained, cache, watched, entries, doubled,
                      version, disk, updating, boot, early>> /\ events' \in Nat
      BY <1>1, <1>3 DEF SwitchBegins, StoreGeneration, SwitchEnds, event, genVars, servedVars, watchVars, configVars,
                        servedTypes
    <2>2. CASE SwitchBegins
      <3>1. gen' = gen /\ switch' = [pc |-> "stopping", from |-> gen]
        BY <2>2 DEF SwitchBegins
      <3>2. PublishedCurrent' /\ CachesCurrent' /\ ClearedInSwitch'
        BY <2>1, <3>1 DEF Served, PublishedCurrent, CachesCurrent, ClearedInSwitch, OfBroker, snapshot, Overtaken
      <3>3. BehindBroker'
        BY <2>1, <3>1 DEF Served, BehindBroker, switching, Overtaken
      <3> QED BY <2>1, <3>1, <3>2, <3>3 DEF Served, servedTypes, SwitchType, RestoreType, BootType
    <2>3. CASE StoreGeneration
      <3>1. /\ switch.pc = "cleared" /\ switch' = [switch EXCEPT !.pc = "stored"]
            /\ gen' \in (switch.from + 1)..MaxGeneration
        BY <2>3 DEF StoreGeneration
      <3>2. retained' = {} /\ cache' = {} /\ (\A s \in Symbols : latest'[s] = None) /\ switch'.pc = "stored"
            /\ switch' \in SwitchType /\ gen' \in Nat /\ gen' >= switch.from
        BY <2>1, <3>1, FairValueBounds DEF Served, ClearedInSwitch, servedTypes, SwitchType, RestoreType, BootType
      <3>3. PublishedCurrent' /\ CachesCurrent' /\ ClearedInSwitch'
        BY <3>2 DEF PublishedCurrent, CachesCurrent, ClearedInSwitch
      <3>4. BehindBroker'
        BY <2>1, <3>1, <3>2 DEF Served, BehindBroker, switching, servedTypes, SwitchType, RestoreType, BootType
      <3> QED BY <2>1, <3>2, <3>3, <3>4 DEF Served, servedTypes, SwitchType, RestoreType, BootType
    <2>4. CASE SwitchEnds
      <3>1. gen' = gen /\ switch' = [switch EXCEPT !.pc = "no"] /\ switch'.pc = "no" /\ switch'.from = switch.from
            /\ switch' \in SwitchType
        BY <2>4 DEF SwitchEnds, servedTypes, SwitchType, RestoreType, BootType
      <3>2. PublishedCurrent' /\ CachesCurrent' /\ ClearedInSwitch'
        BY <2>1, <3>1 DEF Served, PublishedCurrent, CachesCurrent, ClearedInSwitch, OfBroker, snapshot, Overtaken
      <3>3. BehindBroker'
        BY <2>1, <3>1 DEF Served, BehindBroker, switching, Overtaken
      <3> QED BY <2>1, <3>1, <3>2, <3>3 DEF Served, servedTypes, SwitchType, RestoreType, BootType
    <2> QED BY <1>3, <2>2, <2>3, <2>4
  <1> QED BY <1>2, <1>3

\* The restore's generation replaces one the engine is not ahead of (Restore).
LEMMA RestoreServes ==
    ASSUME servedTypes, Served, RestoreCopies \/ RestoreStores
    PROVE  servedTypes' /\ Served'
  <1>1. UNCHANGED <<switch, brokerGen, feedGen, latest, retained, cache, watched, entries, doubled,
                    version, disk, updating, boot, early>> /\ events' \in Nat
    BY DEF RestoreCopies, RestoreStores, event, genVars, servedVars, watchVars, configVars, servedTypes, SwitchType, RestoreType, BootType
  <1>2. CASE RestoreCopies
    <2>1. /\ restore.pc = "no" /\ restore' = [pc |-> "copied", gen |-> gen]
          /\ UNCHANGED <<gen, superseded>> /\ restore' \in RestoreType
      BY <1>2 DEF RestoreCopies, servedTypes, SwitchType, RestoreType, BootType
    <2>2. ~Overtaken /\ ~Overtaken'
      BY <2>1 DEF Overtaken
    <2>3. PublishedCurrent' /\ CachesCurrent' /\ ClearedInSwitch'
      BY <1>1, <2>1, <2>2 DEF Served, PublishedCurrent, CachesCurrent, ClearedInSwitch, OfBroker, snapshot
    <2>4. BehindBroker'
      BY <1>1, <2>1, <2>2 DEF Served, BehindBroker, switching, servedTypes, SwitchType, RestoreType, BootType
    <2> QED BY <1>1, <2>1, <2>3, <2>4 DEF Served, servedTypes, SwitchType, RestoreType, BootType
  <1>3. CASE RestoreStores
    <2>1. /\ restore.pc = "copied" /\ restore' = [restore EXCEPT !.pc = "done"]
          /\ gen' \in restore.gen..MaxGeneration /\ superseded' = {gen}
      BY <1>3 DEF RestoreStores
    <2>2. /\ restore'.pc = "done" /\ restore'.gen = restore.gen /\ restore' \in RestoreType /\ gen' \in Nat /\ gen' >= restore.gen
          /\ brokerGen <= gen /\ superseded = {} /\ ~Overtaken
      BY <2>1, FairValueBounds DEF Served, BehindBroker, servedTypes, SwitchType, RestoreType, BootType, Overtaken
    <2>3. /\ \A s \in Symbols : latest[s] # None => latest[s].gen = gen
          /\ \A i \in retained \cup cache : OfBroker(i)
      <3>1. \A s \in Symbols : latest[s] # None => OfBroker(latest[s])
        BY DEF Served, PublishedCurrent
      <3>2. \A i \in retained \cup cache : OfBroker(i)
        BY DEF Served, CachesCurrent
      <3> QED BY <2>2, <3>1, <3>2 DEF OfBroker
    <2>4. ~Overtaken' => (gen' = gen \/ brokerGen # gen')
      BY <2>1, <2>2 DEF Overtaken, servedTypes, SwitchType, RestoreType, BootType
    <2>5. PublishedCurrent'
      <3> SUFFICES ASSUME NEW s \in Symbols, latest'[s] # None
                   PROVE  /\ OfBroker(latest[s])' /\ latest'[s].feed = feedGen'
                          /\ latest'[s].entry = watched'[s] \/ latest'[s].entry \in doubled'
                          /\ latest'[s].ver = version' \/ latest'[s].ver \in early'
                          /\ ~Overtaken' /\ snapshot(s)' # None => snapshot(s)'.gen = gen'
        BY DEF PublishedCurrent
      <3>1. latest'[s] = latest[s] /\ latest[s].gen = gen /\ OfBroker(latest[s])'
        BY <1>1, <2>1, <2>3 DEF OfBroker
      <3>2. ~Overtaken' /\ snapshot(s)' # None => snapshot(s)'.gen = gen'
        BY <1>1, <2>4, <3>1 DEF snapshot
      <3> QED BY <1>1, <3>1, <3>2 DEF Served, PublishedCurrent
    <2>6. CachesCurrent'
      <3>1. \A i \in retained \cup cache : i.gen = gen
        BY <2>2, <2>3 DEF OfBroker
      <3> QED BY <1>1, <2>1, <3>1 DEF Served, CachesCurrent, OfBroker
    <2>7. ClearedInSwitch'
      BY <1>1 DEF Served, ClearedInSwitch
    <2>8. BehindBroker'
      BY <1>1, <2>2, <2>3, <2>4 DEF BehindBroker
    <2> QED BY <1>1, <2>1, <2>2, <2>5, <2>6, <2>7, <2>8 DEF Served, servedTypes, SwitchType, RestoreType, BootType
  <1> QED BY <1>2, <1>3

\* Feeds that come and go and the operator's switches (Invalidate, IngestTicks, Pause, Dispose).
LEMMA WorldServes ==
    ASSUME servedTypes, Served, Invalidate \/ NoticesGeneration \/ Pause \/ Dispose
    PROVE  servedTypes' /\ Served'
  <1>1. events + 1 \in Nat /\ [s \in Symbols |-> 0] \in [Symbols -> Nat]
    BY DEF servedTypes, SwitchType, RestoreType, BootType
  <1>2. CASE Invalidate
    BY <1>1, <1>2, InvalidateServes DEF Invalidate, event, brokerVars, watchVars, configVars, servedTypes, SwitchType, RestoreType, BootType
  <1>4. CASE NoticesGeneration
    BY <1>1, <1>4, InvalidateServes
    DEF NoticesGeneration, invalidateNamespace, worldVars, brokerVars, configVars, servedTypes, SwitchType, RestoreType, BootType
  <1>6. CASE Pause
    <2>1. /\ UNCHANGED <<brokerVars, watchVars, configVars>> /\ events' \in Nat
          /\ invalidate \/ UNCHANGED <<genVars, servedVars>>
      BY <1>1, <1>6 DEF Pause, event
    <2>2. CASE invalidate
      BY <2>1, <2>2, InvalidateServes DEF brokerVars, watchVars, configVars, servedTypes, SwitchType, RestoreType, BootType
    <2>3. CASE UNCHANGED <<genVars, servedVars>>
      BY <2>1, <2>3, OthersServe DEF watchVars, configVars, genVars, servedVars, servedTypes, SwitchType, RestoreType, BootType
    <2> QED BY <2>1, <2>2, <2>3
  <1>7. CASE Dispose
    BY <1>1, <1>7, OthersServe DEF Dispose, event, watchVars, configVars, genVars, servedVars, servedTypes, SwitchType, RestoreType, BootType
  <1> QED BY <1>2, <1>4, <1>6, <1>7

\* Watch and cycle: an entry that goes takes its surface with it, one that a second request
\* replaces leaves it.
LEMMA WatchServes ==
    ASSUME servedTypes, Served,
           (\E s \in Symbols : CycleDropsIdle(s)) \/ (\E w \in Watchers : WatchSets(w) \/ \E s \in Symbols : WatchAsks(w, s))
    PROVE  servedTypes' /\ Served'
  <1>1. events + 1 \in Nat /\ entries + 1 \in Nat
    BY DEF servedTypes, SwitchType, RestoreType, BootType
  <1>2. ASSUME NEW w \in Watchers, WatchSets(w) PROVE servedTypes' /\ Served'
    <2>1. UNCHANGED <<brokerVars, events, genVars, retained, cache, configVars>>
      BY <1>2 DEF WatchSets, worldVars
    <2>2. CASE UNCHANGED <<watched, latest, entries, doubled>>
      BY <2>1, <2>2, OthersServe DEF genVars, configVars, servedTypes, SwitchType, RestoreType, BootType
    <2>3. CASE ~UNCHANGED <<watched, latest, entries, doubled>>
      <3> DEFINE s == asking[w].sym
      <3>1. PICK kept \in SUBSET {t \in Symbols : watched[t] # 0} :
              /\ entries' = entries + 1
              /\ watched' = [t \in Symbols |-> IF t = s THEN entries' ELSE IF t \in kept THEN watched[t] ELSE 0]
              /\ latest' = [t \in Symbols |-> IF t \in kept THEN latest[t] ELSE None]
              /\ doubled' = doubled \cup {watched[t] : t \in kept \cap {s}}
        BY <1>2, <2>3 DEF WatchSets
      <3> HIDE DEF s
      <3>2. /\ entries' \in Nat /\ watched' \in [Symbols -> Nat] /\ latest' \in [Symbols -> InputType]
            /\ doubled \subseteq doubled'
        BY <1>1, <3>1, NoneIsInput DEF servedTypes, SwitchType, RestoreType, BootType
      <3>3. ASSUME NEW t \in Symbols
            PROVE  \/ latest'[t] = None
                   \/ latest'[t] = latest[t] /\ (watched'[t] = watched[t] \/ watched[t] \in doubled')
        <4>1. CASE t \in kept /\ t = s
          BY <3>1, <4>1
        <4>2. CASE t \in kept /\ t # s
          BY <3>1, <4>2
        <4>3. CASE t \notin kept
          BY <3>1, <4>3
        <4> QED BY <4>1, <4>2, <4>3
      <3> QED BY <2>1, <3>2, <3>3, OthersServe DEF genVars, configVars, servedTypes, SwitchType, RestoreType, BootType
    <2> QED BY <2>2, <2>3
  <1>3. ASSUME NEW w \in Watchers, NEW s \in Symbols, WatchAsks(w, s) PROVE servedTypes' /\ Served'
    BY <1>1, <1>3, OthersServe DEF WatchAsks, event, genVars, servedVars, configVars, servedTypes, SwitchType, RestoreType, BootType
  <1>4. ASSUME NEW s \in Symbols, CycleDropsIdle(s) PROVE servedTypes' /\ Served'
    <2>1. /\ UNCHANGED <<brokerVars, genVars, retained, cache, entries, doubled, configVars>> /\ events' \in Nat
          /\ watched' = [watched EXCEPT ![s] = 0] /\ latest' = [latest EXCEPT ![s] = None]
      BY <1>1, <1>4 DEF CycleDropsIdle, event
    <2>2. /\ watched' \in [Symbols -> Nat] /\ latest' \in [Symbols -> InputType]
          /\ \A t \in Symbols : latest'[t] = None \/ (latest'[t] = latest[t] /\ watched'[t] = watched[t])
      BY <2>1, NoneIsInput DEF servedTypes, SwitchType, RestoreType, BootType
    <2> QED BY <2>1, <2>2, OthersServe DEF genVars, configVars, servedTypes, SwitchType, RestoreType, BootType
  <1> QED BY <1>2, <1>3, <1>4

\* A surface is published with the identity the engine has at that moment (capture).
LEMMA PublishServes ==
    ASSUME servedTypes, Served, NEW c \in Captures, capturePublish(c)
    PROVE  servedTypes' /\ Served'
  <1>1. UNCHANGED <<worldVars, genVars, cache, watchVars, configVars>>
    BY DEF capturePublish
  <1>2. CASE UNCHANGED <<latest, retained>>
    BY <1>1, <1>2, OthersServe DEF worldVars, genVars, watchVars, configVars, servedTypes, SwitchType, RestoreType, BootType
  <1>3. CASE ~UNCHANGED <<latest, retained>>
    <2> DEFINE x == capture[c].sym
    <2>1. /\ ~switching /\ capture[c].input = current(x)
          /\ latest' = [latest EXCEPT ![x] = current(x)] /\ retained' = retained \cup {current(x)}
      BY <1>3 DEF capturePublish, available
    <2>3. /\ current(x).gen = gen /\ current(x).feed = feedGen /\ current(x).ver = version
          /\ current(x).entry = watched[x]
      BY DEF current
    <2>4. x \in Symbols => current(x) \in InputType
      BY DEF current, servedTypes, SwitchType, RestoreType, BootType, InputType
    <2>0. UNCHANGED <<gen, switch, restore, superseded, brokerGen, feedGen, cache, watched, entries, doubled, events,
                      version, disk, updating, boot, early>>
      BY <1>1 DEF worldVars, brokerVars, genVars, watchVars, configVars
    <2> HIDE DEF x
    <2>5. latest' \in [Symbols -> InputType] /\ \A s \in Symbols : latest'[s] = IF s = x THEN current(x) ELSE latest[s]
      BY <2>1, <2>4 DEF servedTypes, SwitchType, RestoreType, BootType
    <2>6. PublishedCurrent'
      <3> SUFFICES ASSUME NEW s \in Symbols, latest'[s] # None
                   PROVE  /\ OfBroker(latest[s])' /\ latest'[s].feed = feedGen'
                          /\ latest'[s].entry = watched'[s] \/ latest'[s].entry \in doubled'
                          /\ latest'[s].ver = version' \/ latest'[s].ver \in early'
                          /\ ~Overtaken' /\ snapshot(s)' # None => snapshot(s)'.gen = gen'
        BY DEF PublishedCurrent
      <3>1. CASE s = x
        BY <2>0, <2>3, <2>5, <3>1 DEF OfBroker, snapshot
      <3>2. CASE s # x
        BY <2>0, <2>5, <3>2 DEF Served, PublishedCurrent, OfBroker, snapshot, Overtaken
      <3> QED BY <3>1, <3>2
    <2>7. CachesCurrent'
      BY <2>0, <2>1, <2>3 DEF Served, CachesCurrent, OfBroker
    <2>8. ClearedInSwitch'
      BY <2>0, <2>1 DEF ClearedInSwitch, switching
    <2>9. BehindBroker'
      BY <2>0, <2>3, <2>5 DEF Served, BehindBroker, switching, Overtaken
    <2> QED BY <2>0, <2>5, <2>6, <2>7, <2>8, <2>9 DEF Served, servedTypes, SwitchType, RestoreType, BootType
  <1> QED BY <1>2, <1>3

\* Captures that begin, history and requests publish nothing; an estimate is cached under the
\* identity that is still the current one (Independent, Calculate, drainHistory).
LEMMA RequestsServe ==
    ASSUME servedTypes, Served,
           \/ (\E c \in Captures : captureInput(c) \/ \E s \in Symbols : captureBegin(c, s))
           \/ (\E kind \in {"calculate", "independent"} : callBegin(kind))
           \/ drainHistory \/ drainAnswered \/ calculateAnswered \/ independentAnswered
    PROVE  servedTypes' /\ Served'
  <1>1. /\ UNCHANGED <<brokerVars, genVars, latest, retained, watchVars, configVars>> /\ events' \in Nat
        /\ cache' = cache \/ (independentAnswered /\ usable(call.input) /\ cache' = cache \cup {call.input})
    BY DEF captureInput, captureBegin, callBegin, drainHistory, drainAnswered, calculateAnswered,
           independentAnswered, event, worldVars, servedVars, servedTypes
  <1>2. CASE cache' = cache
    BY <1>1, <1>2, OthersServe DEF genVars, watchVars, configVars, servedTypes, SwitchType, RestoreType, BootType
  <1>3. CASE independentAnswered /\ usable(call.input) /\ cache' = cache \cup {call.input}
    <2>0. UNCHANGED <<gen, switch, restore, superseded, brokerGen, feedGen, latest, retained, watched, entries, doubled,
                      version, disk, updating, boot, early>>
      BY <1>1 DEF brokerVars, genVars, watchVars, configVars
    <2>1. /\ call.input.gen = gen /\ call.input.feed = feedGen /\ call.input.ver = version /\ ~switching
      BY <1>3 DEF usable, available
    <2>2. CachesCurrent'
      BY <1>3, <2>0, <2>1 DEF Served, CachesCurrent, OfBroker
    <2>3. PublishedCurrent' /\ BehindBroker'
      BY <2>0 DEF Served, PublishedCurrent, OfBroker, snapshot, Overtaken, BehindBroker, switching
    <2>4. ClearedInSwitch'
      BY <2>0, <2>1 DEF ClearedInSwitch, switching
    <2> QED BY <1>1, <2>0, <2>2, <2>3, <2>4 DEF Served, servedTypes, SwitchType, RestoreType, BootType
  <1> QED BY <1>1, <1>2, <1>3

\* The boot's configuration is replaced under what is published, an update's is not (Boot, applyConfig).
LEMMA ConfigServes ==
    ASSUME servedTypes, Served, LoadConfig \/ Boot \/ applyConfig \/ SaveConfig
    PROVE  servedTypes' /\ Served'
  <1>1. events + 1 \in Nat /\ events + 2 \in Nat
    BY DEF servedTypes, SwitchType, RestoreType, BootType
  <1>2. CASE LoadConfig \/ SaveConfig
    <2>1. /\ UNCHANGED <<brokerVars, genVars, servedVars, watchVars, version, early>>
          /\ disk' \in Nat /\ updating' \in Nat /\ boot' \in BootType /\ events' \in Nat
      BY <1>1, <1>2 DEF LoadConfig, SaveConfig, event, worldVars, servedTypes, SwitchType, RestoreType, BootType
    <2> QED BY <2>1, OthersServe DEF genVars, servedVars, watchVars, servedTypes, SwitchType, RestoreType, BootType
  <1>3. CASE Boot
    <2>1. /\ UNCHANGED <<worldVars, genVars, latest, watchVars, disk, updating>> /\ version' = boot.ver
          /\ early' = early \cup {version} /\ retained' = {} /\ cache' = {} /\ boot' \in BootType
      BY <1>3 DEF Boot, servedTypes, SwitchType, RestoreType, BootType
    <2>2. PublishedCurrent' /\ CachesCurrent'
      BY <2>1 DEF Served, PublishedCurrent, CachesCurrent, worldVars, brokerVars, genVars, watchVars, OfBroker, snapshot, Overtaken
    <2>3. BehindBroker' /\ ClearedInSwitch'
      BY <2>1 DEF Served, BehindBroker, ClearedInSwitch, worldVars, brokerVars, genVars, switching, Overtaken
    <2> QED BY <2>1, <2>2, <2>3 DEF Served, servedTypes, SwitchType, RestoreType, BootType, worldVars, brokerVars, genVars, watchVars
  <1>4. CASE applyConfig
    BY <1>1, <1>4, InvalidateServes DEF applyConfig, event, brokerVars, watchVars, servedTypes, SwitchType, RestoreType, BootType
  <1> QED BY <1>2, <1>3, <1>4

-----------------------------------------------------------------------------
(* Fair Value: the history's order                                         *)

historyTypes ==
    sequence \in Nat /\ persisting \in Nat /\ historyQueue \in Seq(Nat) /\ history \in Seq(Nat)

InLine == HistoryLine /\ HistoryInOrder

\* A queue gains an entry at its end, and may lose its first (recordHistory).
LEMMA RecordHistory ==
    ASSUME NEW q \in Seq(Nat), NEW n \in Nat, NEW r, r = recordHistory(q, n)
    PROVE  /\ r \in Seq(Nat)
           /\ \E d \in {0, 1} : /\ Len(r) = Len(q) + 1 - d
                                /\ \A i \in 1..Len(r) : \/ i + d \in 1..Len(q) /\ r[i] = q[i + d]
                                                        \/ i = Len(r) /\ r[i] = n
  <1> DEFINE a == Append(q, n)
  <1>1. /\ a \in Seq(Nat) /\ Len(a) = Len(q) + 1 /\ Len(q) \in Nat /\ a # <<>>
        /\ \A i \in 1..Len(q) : a[i] = q[i]
        /\ a[Len(q) + 1] = n
    BY AppendProperties, LenProperties, EmptySeq
  <1>2. /\ Tail(a) \in Seq(Nat) /\ Len(Tail(a)) = Len(a) - 1 /\ \A i \in 1..Len(Tail(a)) : Tail(a)[i] = a[i + 1]
    BY <1>1, HeadTailProperties
  <1>3. recordHistory(q, n) = a \/ recordHistory(q, n) = Tail(a)
    BY DEF recordHistory
  <1> HIDE DEF a
  <1>4. CASE recordHistory(q, n) = a
    <2>1. \A i \in 1..Len(a) : (i + 0 \in 1..Len(q) /\ a[i] = q[i + 0]) \/ (i = Len(a) /\ a[i] = n)
      BY <1>1
    <2>2. Len(a) = Len(q) + 1 - 0
      BY <1>1
    <2> QED BY <1>1, <1>4, <2>1, <2>2
  <1>5. CASE recordHistory(q, n) = Tail(a)
    <2>1. \A i \in 1..Len(Tail(a)) : (i + 1 \in 1..Len(q) /\ Tail(a)[i] = q[i + 1]) \/ (i = Len(Tail(a)) /\ Tail(a)[i] = n)
      <3> SUFFICES ASSUME NEW i \in 1..Len(Tail(a))
                   PROVE  (i + 1 \in 1..Len(q) /\ Tail(a)[i] = q[i + 1]) \/ (i = Len(Tail(a)) /\ Tail(a)[i] = n)
        OBVIOUS
      <3>1. Tail(a)[i] = a[i + 1] /\ i \in 1..Len(q) /\ Len(Tail(a)) = Len(q)
        BY <1>1, <1>2
      <3>2. CASE i = Len(q)
        BY <1>1, <3>1, <3>2
      <3>3. CASE i # Len(q)
        <4>1. i + 1 \in 1..Len(q)
          BY <1>1, <3>1, <3>3
        <4> QED BY <1>1, <3>1, <4>1
      <3> QED BY <3>2, <3>3
    <2>2. Len(Tail(a)) = Len(q) + 1 - 1
      BY <1>1, <1>2
    <2> QED BY <1>2, <1>5, <2>1, <2>2
  <1> QED BY <1>3, <1>4, <1>5

\* A new snapshot is the last of the line (recordHistory).
LEMMA PublishKeepsLine ==
    ASSUME historyTypes, InLine, UNCHANGED <<persisting, history>>,
           sequence' = sequence + 1, historyQueue' = recordHistory(historyQueue, sequence + 1)
    PROVE  historyTypes' /\ InLine'
  <1> DEFINE n == sequence + 1
  <1>1. /\ n \in Nat /\ sequence \in Nat /\ persisting \in Nat /\ Len(historyQueue) \in Nat /\ Len(history) \in Nat
        /\ \A i \in 1..Len(historyQueue) : historyQueue[i] \in Nat
        /\ \A k \in 1..Len(history) : history[k] \in Nat
    BY LenProperties, ElementOfSeq DEF historyTypes
  <1>2. historyQueue' \in Seq(Nat) /\ Len(historyQueue') \in Nat
    BY <1>1, RecordHistory, LenProperties DEF historyTypes
  <1>3. PICK d \in {0, 1} :
            /\ Len(historyQueue') = Len(historyQueue) + 1 - d
            /\ \A i \in 1..Len(historyQueue') : \/ i + d \in 1..Len(historyQueue) /\ historyQueue'[i] = historyQueue[i + d]
                                                \/ i = Len(historyQueue') /\ historyQueue'[i] = n
    <2> DEFINE q == historyQueue
               r == historyQueue'
    <2>1. q \in Seq(Nat) /\ r = recordHistory(q, n)
      BY DEF historyTypes
    <2>2. n \in Nat
      BY <1>1
    <2> HIDE DEF n, q, r
    <2>3. \E d \in {0, 1} : /\ Len(r) = Len(q) + 1 - d
                            /\ \A i \in 1..Len(r) : \/ i + d \in 1..Len(q) /\ r[i] = q[i + d]
                                                    \/ i = Len(r) /\ r[i] = n
      BY <2>1, <2>2, RecordHistory
    <2> QED BY <2>3 DEF q, r
  <1>4. \A i \in 1..Len(historyQueue) :
            /\ persisting < historyQueue[i] /\ historyQueue[i] <= sequence
            /\ \A j \in 1..Len(historyQueue) : i < j => historyQueue[i] < historyQueue[j]
            /\ \A k \in 1..Len(history) : history[k] <= historyQueue[i]
    BY DEF InLine, HistoryLine
  <1>5. persisting <= sequence /\ \A k \in 1..Len(history) : history[k] <= sequence
    BY DEF InLine, HistoryLine
  <1>n. persisting < n /\ n <= n /\ persisting <= n /\ \A k \in 1..Len(history) : history[k] <= n
    <2>1. persisting < n /\ n <= n /\ persisting <= n
      BY <1>1, <1>5
    <2>2. ASSUME NEW k \in 1..Len(history)
          PROVE  history[k] <= n
      <3>1. history[k] \in Nat /\ history[k] <= sequence
        BY <1>1, <1>5
      <3> QED BY <1>1, <3>1
    <2> QED BY <2>1, <2>2
  <1>6. ASSUME NEW i \in 1..Len(historyQueue')
        PROVE  /\ persisting < historyQueue'[i] /\ historyQueue'[i] <= n
               /\ \A j \in 1..Len(historyQueue') : i < j => historyQueue'[i] < historyQueue'[j]
               /\ \A k \in 1..Len(history) : history[k] <= historyQueue'[i]
    <2>1. CASE i + d \in 1..Len(historyQueue) /\ historyQueue'[i] = historyQueue[i + d]
      <3>1. ASSUME NEW j \in 1..Len(historyQueue'), i < j
            PROVE  historyQueue'[i] < historyQueue'[j]
        <4>1. CASE j + d \in 1..Len(historyQueue) /\ historyQueue'[j] = historyQueue[j + d]
          <5>1. i + d < j + d
            BY <3>1
          <5> QED BY <1>4, <2>1, <4>1, <5>1
        <4>2. CASE historyQueue'[j] = n
          BY <1>1, <1>4, <2>1, <4>2
        <4> QED BY <1>3, <4>1, <4>2
      <3> QED BY <1>1, <1>4, <2>1, <3>1
    <2>2. CASE i = Len(historyQueue') /\ historyQueue'[i] = n
      <3>1. \A j \in 1..Len(historyQueue') : ~(i < j)
        BY <1>2, <2>2
      <3> QED BY <1>n, <2>2, <3>1
    <2> QED BY <1>3, <2>1, <2>2
  <1>7. HistoryLine'
    <2>1. persisting' <= sequence' /\ \A k \in 1..Len(history') : history'[k] <= sequence'
      BY <1>n
    <2>2. \A k \in 1..Len(history') : persisting' # 0 => history'[k] <= persisting'
      BY DEF InLine, HistoryLine
    <2> QED BY <1>6, <2>1, <2>2 DEF HistoryLine
  <1> QED BY <1>1, <1>2, <1>7 DEF historyTypes, InLine, HistoryInOrder

\* The head of the line is being stored (drainHistory).
LEMMA DrainKeepsLine ==
    ASSUME historyTypes, InLine, drainHistory
    PROVE  historyTypes' /\ InLine'
  <1>1. /\ persisting = 0 /\ historyQueue # <<>> /\ persisting' = Head(historyQueue)
        /\ historyQueue' = Tail(historyQueue) /\ UNCHANGED <<sequence, history>>
    BY DEF drainHistory
  <1>2. /\ Head(historyQueue) = historyQueue[1] /\ Tail(historyQueue) \in Seq(Nat) /\ Len(historyQueue) \in Nat \ {0}
        /\ Len(historyQueue') = Len(historyQueue) - 1
        /\ \A i \in 1..Len(historyQueue') : historyQueue'[i] = historyQueue[i + 1]
    BY <1>1, HeadTailProperties, EmptySeq, LenProperties DEF historyTypes
  <1>3. /\ \A i \in 1..Len(historyQueue) : historyQueue[i] \in Nat
        /\ sequence \in Nat /\ persisting' \in Nat
    BY <1>1, <1>2, ElementOfSeq DEF historyTypes
  <1>4. HistoryLine'
    BY <1>1, <1>2, <1>3 DEF InLine, HistoryLine
  <1> QED BY <1>1, <1>2, <1>3, <1>4 DEF historyTypes, InLine, HistoryInOrder

\* The store has it, or not, and its place is the end of the stored ones (Append).
LEMMA InsertedInOrder ==
    ASSUME historyTypes, InLine, persisting # 0
    PROVE  LET appended == IF Contains(history, persisting) THEN history ELSE Append(history, persisting) IN
           /\ appended \in Seq(Nat)
           /\ \A k \in 1..Len(appended) : appended[k] <= persisting
           /\ \A i, j \in DOMAIN appended : i < j => appended[i] < appended[j]
  <1>1. /\ history \in Seq(Nat) /\ persisting \in Nat /\ Len(history) \in Nat /\ DOMAIN history = 1..Len(history)
        /\ \A k \in 1..Len(history) : history[k] \in Nat /\ history[k] <= persisting
        /\ \A i, j \in 1..Len(history) : i < j => history[i] < history[j]
    BY LenProperties, ElementOfSeq DEF historyTypes, InLine, HistoryLine, HistoryInOrder
  <1>2. CASE Contains(history, persisting)
    BY <1>1, <1>2
  <1>3. CASE ~Contains(history, persisting)
    <2> DEFINE longer == Append(history, persisting)
    <2>1. /\ longer \in Seq(Nat) /\ Len(longer) = Len(history) + 1 /\ longer[Len(history) + 1] = persisting
          /\ \A i \in 1..Len(history) : longer[i] = history[i]
      BY <1>1, AppendProperties
    <2>2. DOMAIN longer = 1..Len(longer)
      BY <2>1, LenProperties
    <2>3. \A k \in 1..Len(history) : history[k] < persisting
      <3>1. \A k \in 1..Len(history) : history[k] # persisting
        BY <1>1, <1>3 DEF Contains
      <3> QED BY <1>1, <3>1
    <2> HIDE DEF longer
    <2>4. \A k \in 1..Len(longer) : (k \in 1..Len(history) /\ longer[k] = history[k]) \/ (k = Len(history) + 1 /\ longer[k] = persisting)
      BY <1>1, <2>1
    <2>5. \A k \in 1..Len(longer) : longer[k] <= persisting
      BY <1>1, <2>4
    <2>6. ASSUME NEW i \in 1..Len(longer), NEW j \in 1..Len(longer), i < j
          PROVE  longer[i] < longer[j]
      <3>1. i \in 1..Len(history) /\ longer[i] = history[i]
        BY <1>1, <2>1, <2>4, <2>6
      <3>2. CASE j \in 1..Len(history) /\ longer[j] = history[j]
        BY <1>1, <2>6, <3>1, <3>2
      <3>3. CASE longer[j] = persisting
        BY <2>3, <3>1, <3>3
      <3> QED BY <2>4, <3>2, <3>3
    <2> QED BY <1>3, <2>1, <2>2, <2>5, <2>6 DEF longer
  <1> QED BY <1>2, <1>3

\* The store has answered: the snapshot is done with, or first in line again (drainHistory).
LEMMA AnswerKeepsLine ==
    ASSUME historyTypes, InLine, drainAnswered
    PROVE  historyTypes' /\ InLine'
  <1> DEFINE appended == IF Contains(history, persisting) THEN history ELSE Append(history, persisting)
  <1>1. /\ persisting # 0 /\ persisting' = 0 /\ sequence' = sequence
        /\ \/ history' = appended /\ historyQueue' = historyQueue
           \/ historyQueue' = <<persisting>> \o historyQueue /\ history' \in {history, appended}
    BY DEF drainAnswered
  <1>2. /\ appended \in Seq(Nat) /\ \A k \in 1..Len(appended) : appended[k] <= persisting
        /\ \A i, j \in DOMAIN appended : i < j => appended[i] < appended[j]
    BY <1>1, InsertedInOrder
  <1> HIDE DEF appended
  <1>3. /\ history' \in Seq(Nat) /\ HistoryInOrder' /\ \A k \in 1..Len(history') : history'[k] <= persisting
    <2>1. \A k \in 1..Len(history) : history[k] <= persisting
      BY <1>1 DEF InLine, HistoryLine
    <2>2. CASE history' = appended
      BY <1>2, <2>2 DEF HistoryInOrder
    <2>3. CASE history' = history
      BY <2>1, <2>3 DEF HistoryInOrder, InLine, historyTypes
    <2> QED BY <1>1, <2>2, <2>3
  <1>4. /\ sequence \in Nat /\ persisting \in Nat /\ persisting <= sequence /\ historyQueue \in Seq(Nat) /\ Len(historyQueue) \in Nat
        /\ \A i \in 1..Len(historyQueue) :
              /\ persisting < historyQueue[i] /\ historyQueue[i] <= sequence /\ historyQueue[i] \in Nat
              /\ \A j \in 1..Len(historyQueue) : i < j => historyQueue[i] < historyQueue[j]
    BY LenProperties, ElementOfSeq DEF historyTypes, InLine, HistoryLine
  <1>5. \A k \in 1..Len(history') : history'[k] \in Nat
    BY <1>3, ElementOfSeq
  <1>6. CASE historyQueue' = historyQueue
    <2>1. HistoryLine'
      BY <1>1, <1>3, <1>4, <1>5, <1>6 DEF HistoryLine
    <2> QED BY <1>1, <1>3, <1>4, <1>6, <2>1 DEF historyTypes, InLine
  <1>7. CASE historyQueue' = <<persisting>> \o historyQueue
    <2> DEFINE one == <<persisting>>
    <2>1. one \in Seq(Nat) /\ Len(one) = 1 /\ one[1] = persisting
      BY <1>4
    <2> HIDE DEF one
    <2>2. /\ historyQueue' \in Seq(Nat) /\ Len(historyQueue') = 1 + Len(historyQueue)
          /\ \A i \in 1..Len(historyQueue') :
                historyQueue'[i] = IF i <= 1 THEN one[i] ELSE historyQueue[i - 1]
      <3>1. historyQueue' = one \o historyQueue
        BY <1>7 DEF one
      <3>2. /\ one \o historyQueue \in Seq(Nat) /\ Len(one \o historyQueue) = Len(one) + Len(historyQueue)
            /\ \A i \in 1..(Len(one) + Len(historyQueue)) :
                  (one \o historyQueue)[i] = IF i <= Len(one) THEN one[i] ELSE historyQueue[i - Len(one)]
        BY <1>4, <2>1, ConcatProperties
      <3> QED BY <2>1, <3>1, <3>2
    <2>3. \A i \in 1..Len(historyQueue') :
            (i = 1 /\ historyQueue'[i] = persisting) \/ (i - 1 \in 1..Len(historyQueue) /\ historyQueue'[i] = historyQueue[i - 1])
      BY <1>4, <2>1, <2>2
    <2>4. ASSUME NEW i \in 1..Len(historyQueue')
          PROVE  /\ 0 < historyQueue'[i] /\ historyQueue'[i] <= sequence /\ persisting <= historyQueue'[i]
                 /\ \A j \in 1..Len(historyQueue') : i < j => historyQueue'[i] < historyQueue'[j]
                 /\ \A k \in 1..Len(history') : history'[k] <= historyQueue'[i]
      <3>1. 0 < historyQueue'[i] /\ historyQueue'[i] <= sequence /\ persisting <= historyQueue'[i] /\ historyQueue'[i] \in Nat
        <4>1. CASE i = 1 /\ historyQueue'[i] = persisting
          BY <1>1, <1>4, <4>1
        <4>2. CASE i - 1 \in 1..Len(historyQueue) /\ historyQueue'[i] = historyQueue[i - 1]
          BY <1>4, <4>2
        <4> QED BY <2>3, <4>1, <4>2
      <3>2. \A k \in 1..Len(history') : history'[k] <= historyQueue'[i]
        BY <1>3, <1>4, <1>5, <3>1
      <3>3. ASSUME NEW j \in 1..Len(historyQueue'), i < j
            PROVE  historyQueue'[i] < historyQueue'[j]
        <4>1. j - 1 \in 1..Len(historyQueue) /\ historyQueue'[j] = historyQueue[j - 1]
          BY <1>4, <2>2, <2>3, <3>3
        <4>2. CASE i = 1 /\ historyQueue'[i] = persisting
          BY <1>4, <4>1, <4>2
        <4>3. CASE i - 1 \in 1..Len(historyQueue) /\ historyQueue'[i] = historyQueue[i - 1]
          <5>1. i - 1 < j - 1
            BY <3>3
          <5> QED BY <1>4, <4>1, <4>3, <5>1
        <4> QED BY <2>3, <4>2, <4>3
      <3> QED BY <3>1, <3>2, <3>3
    <2>5. HistoryLine'
      <3>1. \A k \in 1..Len(history') : history'[k] <= sequence
        BY <1>3, <1>4, <1>5
      <3> QED BY <1>1, <1>4, <2>4, <3>1 DEF HistoryLine
    <2> QED BY <1>1, <1>3, <1>4, <2>2, <2>5 DEF historyTypes, InLine
  <1> QED BY <1>1, <1>6, <1>7

-----------------------------------------------------------------------------
(* Fair Value: theorems                                                    *)

\* The parts together are what the invariant says.
LEMMA FairValueParts == FairValueIInv <=> servedTypes /\ Served /\ historyTypes /\ InLine
  BY DEF FairValueIInv, FairValueTypeOK, servedTypes, SwitchType, RestoreType, BootType, historyTypes, Served, InLine

\* They hold at the start (NewEngine).
LEMMA FairValueStarts ==
    ASSUME FairValueInit
    PROVE  FairValueIInv
  <1>1. servedTypes
    BY NoneIsInput DEF FairValueInit, servedTypes, SwitchType, RestoreType, BootType
  <1>2. Served
    BY DEF FairValueInit, Served, BehindBroker, ClearedInSwitch, PublishedCurrent, CachesCurrent, switching
  <1>3. historyTypes /\ Len(historyQueue) = 0 /\ Len(history) = 0
    BY DEF FairValueInit, historyTypes
  <1>4. InLine
    BY <1>3 DEF FairValueInit, InLine, HistoryLine, HistoryInOrder
  <1> QED BY <1>1, <1>2, <1>3, <1>4, FairValueParts

\* Only a publication and the drain touch the history (recordHistory, drainHistory).
LEMMA FairValueStepKeeps ==
    ASSUME FairValueIInv, [FairValueNext]_fairValueVars
    PROVE  FairValueIInv'
  <1>1. servedTypes /\ Served /\ historyTypes /\ InLine
    BY FairValueParts
  <1>2. servedTypes' /\ Served'
    <2>1. CASE UNCHANGED fairValueVars
      BY <1>1, <2>1, OthersServe
      DEF fairValueVars, worldVars, genVars, servedVars, watchVars, configVars, servedTypes, SwitchType, RestoreType, BootType
    <2>2. CASE FairValueNext
      BY <1>1, <2>2, SwitchServes, RestoreServes, WorldServes, WatchServes, PublishServes, RequestsServe, ConfigServes DEF FairValueNext
    <2> QED BY <2>1, <2>2
  <1>3. historyTypes' /\ InLine'
    <2>1. CASE UNCHANGED <<sequence, historyQueue, persisting, history>>
      BY <1>1, <2>1 DEF historyTypes, InLine, HistoryLine, HistoryInOrder
    <2>2. CASE drainHistory \/ drainAnswered
      BY <1>1, <2>2, DrainKeepsLine, AnswerKeepsLine
    <2>3. CASE \E c \in Captures : capturePublish(c)
      <3>1. PICK c \in Captures : capturePublish(c)
        BY <2>3
      <3> QED BY <1>1, <2>1, <3>1, PublishKeepsLine DEF capturePublish
    <2>4. CASE ~(drainHistory \/ drainAnswered \/ \E c \in Captures : capturePublish(c))
      BY <2>1, <2>4 DEF FairValueNext, Invalidate, SwitchBegins, InvalidateNamespace, StoreGeneration, SwitchEnds,
           RestoreCopies, RestoreStores, NoticesGeneration, Pause, Dispose, WatchAsks, WatchSets, CycleDropsIdle, captureBegin, captureInput, callBegin,
           calculateAnswered, independentAnswered, LoadConfig, Boot, applyConfig, SaveConfig,
           fairValueVars, historyVars
    <2> QED BY <2>2, <2>3, <2>4
  <1> QED BY <1>2, <1>3 DEF FairValueIInv, FairValueTypeOK, servedTypes, SwitchType, RestoreType, BootType, historyTypes, Served, InLine

\* Whatever is paused, switched, reconfigured, watched or failed while surfaces are computed off
\* the lock, what is served and cached is of the current broker, feed, configuration and watch
\* entry, and snapshots are stored once and in the order of their publication (capture,
\* invalidateLocked, drainHistory).
THEOREM AlwaysServedCurrent == FairValueSpec => []ServedCurrent
  <1>1. FairValueInit => FairValueIInv
    BY FairValueStarts
  <1>2. FairValueIInv /\ [FairValueNext]_fairValueVars => FairValueIInv'
    BY FairValueStepKeeps
  <1>3. FairValueIInv => ServedCurrent
    BY DEF FairValueIInv, ServedCurrent
  <1> QED BY <1>1, <1>2, <1>3, PTL DEF FairValueSpec

-----------------------------------------------------------------------------
(* Calendar trades                                                         *)

\* Charges add up to a total, or to nothing when one is missing (calendar.go sum).
LEMMA SumTypes ==
    ASSUME NEW a \in Charge, NEW b \in Charge
    PROVE  sum(a, b) \in Total
  BY DEF sum, Charge, Total

\* A request comes in: it may read a row (takeTrade, closeTrade, deleteTrade).
LEMMA RequestsKeep ==
    ASSUME CalendarIInv, NEW c \in Handlers,
           takeTrade(c) \/ \E i \in Ids : closeTrade(c, i) \/ deleteTrade(c, i)
    PROVE  CalendarIInv'
  <1>1. CalendarTypeOK /\ IdsInTurn /\ CloseHasRead /\ TotalsAddUp /\ ExitLogged
    BY DEF CalendarIInv
  <1>2. UNCHANGED <<trades, ledger, appending, inserted, unlogged, unanswered>> /\ h[c] = Free
    BY DEF takeTrade, closeTrade, deleteTrade, lookupTrade, enter
  <1>3. PICK r \in [at : Places, id : Ids \cup {0}, row : RowType] :
            /\ h' = [h EXCEPT ![c] = r]
            /\ r.at \notin {"taken", "closed"}
            /\ r.at = "closing" => r.id \in Ids /\ r.row = trades[r.id] /\ trades[r.id].status = "open"
    <2>1. CASE takeTrade(c)
      <3>1. [Free EXCEPT !.at = "taking"] \in [at : Places, id : Ids \cup {0}, row : RowType]
        BY DEF Free, NoRow, RowType, Charge, Status, Total, Places
      <3>2. [Free EXCEPT !.at = "taking"].at = "taking"
        BY DEF Free
      <3> QED BY <2>1, <3>1, <3>2 DEF takeTrade, go
    <2>2. ASSUME NEW i \in Ids, closeTrade(c, i)
          PROVE  \E r \in [at : Places, id : Ids \cup {0}, row : RowType] :
                    /\ h' = [h EXCEPT ![c] = r] /\ r.at \notin {"taken", "closed"}
                    /\ r.at = "closing" => r.id \in Ids /\ r.row = trades[r.id] /\ trades[r.id].status = "open"
      <3>1. h' = [h EXCEPT ![c] = [at |-> "closing", id |-> i, row |-> trades[i]]] /\ trades[i].status = "open"
        BY <2>2 DEF closeTrade, lookupTrade, go, get
      <3>2. trades[i] \in RowType
        BY <1>1 DEF CalendarTypeOK
      <3> DEFINE r == [at |-> "closing", id |-> i, row |-> trades[i]]
      <3>3. /\ r \in [at : Places, id : Ids \cup {0}, row : RowType]
            /\ r.id = i /\ r.row = trades[i] /\ r.at = "closing"
        BY <3>2 DEF Places
      <3> HIDE DEF r
      <3> QED BY <3>1, <3>3 DEF r
    <2>3. ASSUME NEW i \in Ids, deleteTrade(c, i)
          PROVE  \E r \in [at : Places, id : Ids \cup {0}, row : RowType] :
                    /\ h' = [h EXCEPT ![c] = r] /\ r.at \notin {"taken", "closed"}
                    /\ r.at = "closing" => r.id \in Ids /\ r.row = trades[r.id] /\ trades[r.id].status = "open"
      <3>1. h' = [h EXCEPT ![c] = [at |-> "deleting", id |-> i, row |-> trades[i]]]
        BY <2>3 DEF deleteTrade, lookupTrade, go, get
      <3>2. trades[i] \in RowType
        BY <1>1 DEF CalendarTypeOK
      <3> DEFINE r == [at |-> "deleting", id |-> i, row |-> trades[i]]
      <3>3. r \in [at : Places, id : Ids \cup {0}, row : RowType] /\ r.at = "deleting"
        BY <3>2 DEF Places
      <3> HIDE DEF r
      <3> QED BY <3>1, <3>3 DEF r
    <2> QED BY <2>1, <2>2, <2>3
  <1>4. CalendarTypeOK'
    BY <1>1, <1>2, <1>3 DEF CalendarTypeOK
  <1>5. h'[c] = r /\ \A d \in Handlers : d # c => h'[d] = h[d]
    BY <1>1, <1>3 DEF CalendarTypeOK
  <1>6. r.at = "closing" => r.id <= inserted
    BY <1>1, <1>3 DEF IdsInTurn, CalendarTypeOK, Ids
  <1>7. CloseHasRead'
    <2> SUFFICES ASSUME NEW d \in Handlers, h'[d].at = "closing"
                 PROVE  /\ h'[d].id \in Ids /\ h'[d].id <= inserted
                        /\ trades[h'[d].id].status = "open" => h'[d].row = trades[h'[d].id]
                        /\ trades[h'[d].id].status = "closed" /\ h'[d].row.entry # Null => trades[h'[d].id].entry = h'[d].row.entry
                        /\ trades[h'[d].id].status # "none" =>
                             \A e \in Handlers : h'[e].at = "closing" /\ h'[e].id = h'[d].id => h'[e].row = h'[d].row
      BY <1>2 DEF CloseHasRead
    <2>1. \A e \in Handlers : h'[e].at = "closing" /\ trades[h'[e].id].status = "open" => h'[e].row = trades[h'[e].id]
      BY <1>1, <1>3, <1>5 DEF CloseHasRead
    <2>2. CASE d = c
      <3>1. trades[r.id].status = "open" /\ r.row = trades[r.id]
        BY <1>3, <1>5, <2>2
      <3> QED BY <1>3, <1>5, <1>6, <2>1, <2>2, <3>1
    <2>3. CASE d # c
      <3>1. ASSUME NEW e \in Handlers, h'[e].at = "closing", h'[e].id = h'[d].id, trades[h'[d].id].status # "none"
            PROVE  h'[e].row = h'[d].row
        <4>1. CASE e = c
          BY <1>3, <1>5, <2>1, <3>1, <4>1
        <4>2. CASE e # c
          BY <1>1, <1>5, <2>3, <3>1, <4>2 DEF CloseHasRead
        <4> QED BY <4>1, <4>2
      <3> QED BY <1>1, <1>5, <2>3, <3>1 DEF CloseHasRead
    <2> QED BY <2>2, <2>3
  <1>8. \A d \in Handlers : h[d].at = "closed" => h'[d] = h[d]
    BY <1>2, <1>5 DEF Free
  <1>9. ExitLogged'
    BY <1>1, <1>2, <1>8 DEF ExitLogged, exitOf
  <1> QED BY <1>1, <1>2, <1>4, <1>7, <1>9 DEF CalendarIInv, IdsInTurn, TotalsAddUp

\* A row is inserted, written or removed, or nothing is, and the route goes on or ends; when it
\* was answered, its event is recorded or lost (take, close, deleteTrade).
LEMMA AnswersKeep ==
    ASSUME CalendarIInv, NEW c \in Handlers, take(c) \/ takeAnswered(c) \/ close(c) \/ closeAnswered(c) \/ deleted(c)
    PROVE  CalendarIInv'
  <1>1. CalendarTypeOK /\ IdsInTurn /\ CloseHasRead /\ TotalsAddUp /\ ExitLogged
    BY DEF CalendarIInv
  <1>2. UNCHANGED <<ledger, unlogged>> /\ appending \subseteq appending' /\ unanswered \subseteq unanswered'
    BY DEF take, takeAnswered, close, closeAnswered, deleted, answered, background
  <1>f. Free \in [at : Places, id : Ids \cup {0}, row : RowType] /\ Free.at = "idle"
    BY DEF Free, NoRow, RowType, Charge, Status, Total, Places
  <1>4. trades \in [Ids -> RowType] /\ inserted \in Nat /\ h \in [Handlers -> [at : Places, id : Ids \cup {0}, row : RowType]]
    BY <1>1 DEF CalendarTypeOK
  <1>3. ASSUME NEW nxt \in [at : Places, id : Ids \cup {0}, row : RowType], h' = [h EXCEPT ![c] = nxt], nxt.at # "closing"
        PROVE  /\ h' \in [Handlers -> [at : Places, id : Ids \cup {0}, row : RowType]]
               /\ h'[c] = nxt /\ \A d \in Handlers : d # c => h'[d] = h[d]
               /\ \A d \in Handlers : h'[d].at = "closing" => d # c /\ h[d].at = "closing" /\ h'[d] = h[d]
    BY <1>3, <1>4
  <1>x. ASSUME UNCHANGED trades, h[c].at # "closed", \A d \in Handlers : d # c => h'[d] = h[d]
        PROVE  ExitLogged'
    <2>1. \A d \in Handlers : h[d].at = "closed" => h'[d] = h[d]
      BY <1>x
    <2> QED BY <1>1, <1>2, <1>x, <2>1 DEF ExitLogged, exitOf
  <1>5. CASE h' = [h EXCEPT ![c] = Free] /\ UNCHANGED <<trades, inserted>>
    <2>1. /\ h' \in [Handlers -> [at : Places, id : Ids \cup {0}, row : RowType]]
          /\ h'[c] = Free /\ \A d \in Handlers : d # c => h'[d] = h[d]
          /\ \A d \in Handlers : h'[d].at = "closing" => d # c /\ h[d].at = "closing" /\ h'[d] = h[d]
      BY <1>3, <1>5, <1>f
    <2>2. CalendarTypeOK' /\ IdsInTurn' /\ TotalsAddUp'
      BY <1>1, <1>5, <2>1 DEF CalendarTypeOK, IdsInTurn, TotalsAddUp
    <2>3. CloseHasRead'
      BY <1>1, <1>5, <2>1 DEF CloseHasRead
    <2>4. ExitLogged'
      <3>1. CASE h[c].at # "closed"
        BY <1>5, <1>x, <2>1, <3>1
      <3>2. CASE h[c].at = "closed"
        <4>1. exitOf(c) \subseteq appending' \cup unanswered'
          <5>1. answered(exitOf(c))
            BY <3>2 DEF take, takeAnswered, close, closeAnswered, deleted
          <5>2. exitOf(c) = {<<h[c].id, "exit", h[c].row.exit, h[c].row.total>>}
            BY DEF exitOf, appendLog
          <5>3. {r \in exitOf(c) : r[2] = "exit"} = exitOf(c)
            BY <5>2
          <5> QED BY <5>1, <5>3 DEF answered, background
        <4>2. \A d \in Handlers : h[d].at = "closed" /\ d # c => h'[d] = h[d]
          BY <2>1
        <4> QED BY <1>1, <1>2, <1>5, <4>1, <4>2 DEF ExitLogged, exitOf
      <3> QED BY <3>1, <3>2
    <2> QED BY <2>2, <2>3, <2>4 DEF CalendarIInv
  <1>6. CASE take(c) /\ ~(h' = [h EXCEPT ![c] = Free] /\ UNCHANGED <<trades, inserted>>)
    <2> DEFINE n == inserted + 1
    <2>1. PICK p \in {<<Null, Null>>} \cup (Prices \X Prices) :
            /\ trades' = [trades EXCEPT ![n] = [NoRow EXCEPT !.status = "open", !.entry = p[1], !.est = p[2]]]
            /\ inserted' = n /\ inserted < MaxTrades
            /\ h' = [h EXCEPT ![c] = [at |-> "taken", id |-> n, row |-> [NoRow EXCEPT !.status = "open", !.entry = p[1], !.est = p[2]]]]
      BY <1>6 DEF take, priceChargeGroups, insert, go
    <2>2. p[1] \in Charge /\ p[2] \in Charge
      BY DEF Charge
    <2> DEFINE row == [NoRow EXCEPT !.status = "open", !.entry = p[1], !.est = p[2]]
    <2>r. NoRow \in RowType /\ NoRow.status = "none" /\ NoRow.total = Null
      BY DEF NoRow, RowType, Charge, Status, Total
    <2>3. row \in RowType /\ row.status = "open" /\ row.total = Null
      <3>1. "open" \in Status
        BY DEF Status
      <3> DEFINE e == p[1]
                 f == p[2]
      <3>2. row = [NoRow EXCEPT !.status = "open", !.entry = e, !.est = f] /\ e \in Charge /\ f \in Charge
        BY <2>2
      <3> HIDE DEF row, e, f
      <3> QED BY <2>r, <3>1, <3>2 DEF RowType
    <2> DEFINE nxt == [at |-> "taken", id |-> n, row |-> row]
    <2>t. trades' = [trades EXCEPT ![n] = row] /\ h' = [h EXCEPT ![c] = nxt]
      BY <2>1
    <2>n. n \in Nat /\ n \in Ids
      BY <1>4, <2>1, CalendarBounds DEF Ids
    <2> HIDE DEF row, n
    <2>o. nxt \in [at : Places, id : Ids \cup {0}, row : RowType] /\ nxt.at = "taken"
      BY <2>3, <2>n DEF Places
    <2> HIDE DEF nxt
    <2>h. /\ h' \in [Handlers -> [at : Places, id : Ids \cup {0}, row : RowType]]
          /\ h'[c] = nxt /\ \A d \in Handlers : d # c => h'[d] = h[d]
          /\ \A d \in Handlers : h'[d].at = "closing" => d # c /\ h[d].at = "closing" /\ h'[d] = h[d]
      BY <1>3, <2>t, <2>o
    <2>c. \A d \in Handlers : h[d].at = "closed" => h'[d] = h[d]
      BY <1>6, <2>h DEF take
    <2>4. /\ trades' \in [Ids -> RowType] /\ n \in Nat
          /\ \A i \in Ids : trades'[i] = IF i = n THEN row ELSE trades[i]
      BY <1>4, <2>3, <2>t, <2>n
    <2>5. \A i \in Ids : i > n => i > inserted /\ i # n
      BY <1>4 DEF Ids, n
    <2>6. IdsInTurn' /\ TotalsAddUp'
      BY <1>1, <2>1, <2>3, <2>4, <2>5 DEF IdsInTurn, TotalsAddUp
    <2>e. ExitLogged'
      BY <1>1, <1>2, <2>3, <2>4, <2>c DEF ExitLogged, exitOf
    <2>7. \A d \in Handlers : h[d].at = "closing" => h[d].id \in Ids /\ h[d].id # n /\ h[d].id <= n
      BY <1>1, <1>4 DEF CloseHasRead, Ids, n
    <2>8. CloseHasRead'
      BY <1>1, <2>1, <2>4, <2>7, <2>h DEF CloseHasRead
    <2> QED BY <2>1, <2>4, <2>6, <2>8, <2>e, <2>h DEF CalendarIInv, CalendarTypeOK
  <1>7. CASE deleted(c) /\ ~(h' = [h EXCEPT ![c] = Free] /\ UNCHANGED <<trades, inserted>>)
    <2> DEFINE i == h[c].id
    <2>1. trades' = [trades EXCEPT ![i] = NoRow] /\ inserted' = inserted /\ h' = [h EXCEPT ![c] = Free] /\ h[c].at = "deleting"
      BY <1>7 DEF deleted, remove, go
    <2>h. /\ h' \in [Handlers -> [at : Places, id : Ids \cup {0}, row : RowType]]
          /\ h'[c] = Free /\ \A d \in Handlers : d # c => h'[d] = h[d]
          /\ \A d \in Handlers : h'[d].at = "closing" => d # c /\ h[d].at = "closing" /\ h'[d] = h[d]
      BY <1>3, <1>f, <2>1
    <2>c. \A d \in Handlers : h[d].at = "closed" => h'[d] = h[d]
      BY <2>1, <2>h
    <2>2. NoRow \in RowType /\ NoRow.status = "none" /\ NoRow.total = Null
      BY DEF NoRow, RowType, Charge, Status, Total
    <2> HIDE DEF i
    <2>3. trades' \in [Ids -> RowType] /\ \A j \in Ids : trades'[j] = IF j = i THEN NoRow ELSE trades[j]
      BY <1>4, <2>1, <2>2
    <2>4. IdsInTurn' /\ TotalsAddUp'
      BY <1>1, <2>1, <2>2, <2>3 DEF IdsInTurn, TotalsAddUp
    <2>e. ExitLogged'
      BY <1>1, <1>2, <2>2, <2>3, <2>c DEF ExitLogged, exitOf
    <2>5. CloseHasRead'
      BY <1>1, <2>1, <2>2, <2>3, <2>h DEF CloseHasRead
    <2> QED BY <1>4, <2>1, <2>3, <2>4, <2>5, <2>e, <2>h DEF CalendarIInv, CalendarTypeOK
  <1>8. CASE close(c) /\ ~(h' = [h EXCEPT ![c] = Free] /\ UNCHANGED <<trades, inserted>>)
    <2> DEFINE i == h[c].id
               t == h[c].row
    <2>1. h[c].at = "closing" /\ trades[i].status # "none" /\ inserted' = inserted
      BY <1>8 DEF close, go
    <2>2. PICK exitCharges \in {Null} \cup Prices, priced \in {Null} \cup Prices :
            LET entry == IF t.entry # Null THEN t.entry ELSE priced
                exit == IF exitCharges # Null THEN exitCharges ELSE t.est
                row == [status |-> "closed", entry |-> entry, est |-> t.est, exit |-> exit, total |-> sum(entry, exit)]
            IN /\ saveClose(i, row, t.entry = Null /\ entry # Null)
               /\ h' = [h EXCEPT ![c] = [at |-> "closed", id |-> i, row |-> row]]
      BY <1>8 DEF close, go
    <2> DEFINE entry == IF t.entry # Null THEN t.entry ELSE priced
               exit == IF exitCharges # Null THEN exitCharges ELSE t.est
               kept == IF t.entry = Null /\ entry # Null THEN entry ELSE trades[i].entry
               written == [status |-> "closed", entry |-> entry, est |-> t.est, exit |-> exit, total |-> sum(entry, exit)]
               row == [written EXCEPT !.entry = kept, !.est = trades[i].est]
    <2> DEFINE nxt == [at |-> "closed", id |-> i, row |-> written]
    <2>w. saveClose(i, written, t.entry = Null /\ entry # Null) /\ h' = [h EXCEPT ![c] = nxt]
      BY <2>2
    <2>3. trades' = [trades EXCEPT ![i] = row]
      <3> HIDE DEF i, t, entry, exit
      <3>1. trades' = [trades EXCEPT ![i] =
                        [written EXCEPT !.entry = IF t.entry = Null /\ entry # Null THEN @ ELSE trades[i].entry,
                                        !.est = trades[i].est]]
        BY <2>w DEF saveClose
      <3>2. written.entry = entry
        OBVIOUS
      <3> QED BY <2>w, <3>1, <3>2
    <2>4. /\ i \in Ids /\ i <= inserted /\ t \in RowType /\ trades[i] \in RowType
      BY <1>1, <1>4, <2>1 DEF CloseHasRead, CalendarTypeOK
    <2>5. entry \in Charge /\ exit \in Charge /\ kept \in Charge /\ trades[i].est \in Charge
      BY <2>4 DEF RowType, Charge
    <2>6. t.entry # Null => trades[i].entry = t.entry
      BY <1>1, <2>1, <2>4 DEF CloseHasRead, RowType, Status
    <2>7. entry # Null => kept = entry
      BY <2>6
    <2>8. t.entry # Null => kept = t.entry
      BY <2>6
    <2>o. /\ nxt \in [at : Places, id : Ids \cup {0}, row : RowType] /\ nxt.at = "closed" /\ nxt.id = i
          /\ nxt.row.exit = exit /\ nxt.row.total = sum(entry, exit)
      <3>1. sum(entry, exit) \in Total /\ t.est \in Charge
        BY <2>4, <2>5, SumTypes DEF RowType
      <3> HIDE DEF kept, entry, exit, t, i
      <3>2. written \in RowType /\ written.exit = exit /\ written.total = sum(entry, exit)
        BY <2>5, <3>1 DEF RowType, Status
      <3> HIDE DEF written
      <3> QED BY <2>4, <3>2 DEF Places
    <2>9. /\ row \in RowType /\ row.status = "closed" /\ row.exit = exit /\ row.entry = kept /\ row.total = sum(entry, exit)
      <3>1. sum(entry, exit) \in Total /\ t.est \in Charge
        BY <2>4, <2>5, SumTypes DEF RowType
      <3> HIDE DEF kept, entry, exit, t, i, nxt
      <3>2. /\ written \in RowType /\ written.status = "closed" /\ written.exit = exit
            /\ written.total = sum(entry, exit)
        BY <2>5, <3>1 DEF RowType, Status
      <3> DEFINE est == trades[i].est
      <3>3. row = [written EXCEPT !.entry = kept, !.est = est] /\ est \in Charge
        BY <2>5
      <3> HIDE DEF written, row, est
      <3> QED BY <2>5, <3>2, <3>3 DEF RowType
    <2>10. row.total # Null => row.total = sum(row.entry, row.exit)
      BY <2>7, <2>9 DEF sum
    <2> HIDE DEF row, written, nxt, kept, entry, exit, t, i
    <2>11. trades' \in [Ids -> RowType] /\ \A j \in Ids : trades'[j] = IF j = i THEN row ELSE trades[j]
      BY <1>4, <2>3, <2>4, <2>9
    <2>12. IdsInTurn'
      BY <1>1, <1>4, <2>1, <2>4, <2>11 DEF IdsInTurn, Ids
    <2>13. TotalsAddUp'
      BY <1>1, <2>10, <2>11 DEF TotalsAddUp
    <2>h. /\ h' \in [Handlers -> [at : Places, id : Ids \cup {0}, row : RowType]]
          /\ h'[c] = nxt /\ \A d \in Handlers : d # c => h'[d] = h[d]
          /\ \A d \in Handlers : h'[d].at = "closing" => d # c /\ h[d].at = "closing" /\ h'[d] = h[d]
      BY <1>3, <2>o, <2>w
    <2>c. \A d \in Handlers : h[d].at = "closed" => h'[d] = h[d]
      BY <2>1, <2>h
    <2>l. <<i, "exit", row.exit, row.total>> \in exitOf(c)'
      BY <2>9, <2>h, <2>o DEF exitOf, appendLog
    <2>14. ExitLogged'
      <3>1. CASE unlogged
        BY <1>2, <3>1 DEF ExitLogged
      <3>2. CASE ~unlogged
        <4> SUFFICES ASSUME NEW j \in Ids, trades'[j].status = "closed"
                     PROVE  \/ <<j, "exit", trades'[j].exit, trades'[j].total>> \in ledger' \cup appending' \cup unanswered'
                            \/ \E d \in Handlers : h'[d].at = "closed" /\ <<j, "exit", trades'[j].exit, trades'[j].total>> \in exitOf(d)'
          BY DEF ExitLogged
        <4>1. CASE j = i
          BY <2>11, <2>h, <2>l, <2>o, <4>1
        <4>2. CASE j # i
          <5>1. trades'[j] = trades[j]
            BY <2>11, <4>2
          <5>2. \A d \in Handlers : h[d].at = "closed" => h'[d].at = "closed" /\ exitOf(d)' = exitOf(d)
            BY <2>c DEF exitOf
          <5> QED BY <1>1, <1>2, <3>2, <5>1, <5>2 DEF ExitLogged
        <4> QED BY <4>1, <4>2
      <3> QED BY <3>1, <3>2
    <2>15. \A d \in Handlers : h[d].at = "closing" /\ h[d].id = i => h[d].row = t
      BY <1>1, <2>1 DEF CloseHasRead, i, t
    <2>16. CloseHasRead'
      BY <1>1, <2>1, <2>8, <2>9, <2>11, <2>15, <2>h DEF CloseHasRead
    <2> QED BY <1>4, <2>1, <2>11, <2>12, <2>13, <2>14, <2>16, <2>h DEF CalendarIInv, CalendarTypeOK
  <1>9. takeAnswered(c) \/ closeAnswered(c) => h' = [h EXCEPT ![c] = Free] /\ UNCHANGED <<trades, inserted>>
    BY DEF takeAnswered, closeAnswered, go
  <1> QED BY <1>5, <1>6, <1>7, <1>8, <1>9

\* At the start there is the trade of before charges were tracked, and no request.
LEMMA CalendarStarts ==
    ASSUME CalendarInit
    PROVE  CalendarIInv
  <1>1. /\ NoRow \in RowType /\ NoRow.status = "none" /\ NoRow.total = Null
        /\ [NoRow EXCEPT !.status = "open"] \in RowType /\ [NoRow EXCEPT !.status = "open"].status = "open"
        /\ [NoRow EXCEPT !.status = "open"].total = Null
    BY DEF NoRow, RowType, Charge, Status, Total
  <1>2. \A i \in Ids : i > 0 => i # 0
    BY DEF Ids
  <1>3. Free \in [at : Places, id : Ids \cup {0}, row : RowType] /\ Free.at = "idle"
    BY <1>1 DEF Free, Places
  <1>4. CalendarTypeOK
    BY <1>1, <1>3 DEF CalendarInit, CalendarTypeOK
  <1>5. IdsInTurn /\ CloseHasRead /\ TotalsAddUp /\ ExitLogged
    BY <1>1, <1>2, <1>3 DEF CalendarInit, IdsInTurn, CloseHasRead, TotalsAddUp, ExitLogged
  <1> QED BY <1>4, <1>5 DEF CalendarIInv

\* However many closes and deletions of one trade overlap, whatever Kite prices and whichever
\* write or ledger entry fails: a stored total is the sum of its stored parts, and the ledger
\* has the exit that the row shows (close, saveClose, appendLog).
THEOREM TradesAlwaysExplained == CalendarSpec => []TradesExplained
  <1>1. CalendarInit => CalendarIInv
    BY CalendarStarts
  <1>2. CalendarIInv /\ [CalendarNext]_calendarVars => CalendarIInv'
    <2> SUFFICES ASSUME CalendarIInv, [CalendarNext]_calendarVars PROVE CalendarIInv'
      OBVIOUS
    <2>1. CASE UNCHANGED calendarVars \/ Stop
      BY <2>1 DEF calendarVars, Stop, CalendarIInv, CalendarTypeOK, IdsInTurn, CloseHasRead, TotalsAddUp, ExitLogged, exitOf
    <2>2. ASSUME NEW e \in appending, ledgerWritten(e)
          PROVE  CalendarIInv'
      <3>1. UNCHANGED <<trades, h, inserted, unanswered>> /\ (unlogged' \/ (unlogged' = unlogged /\ ledger' \cup appending' = ledger \cup appending))
        BY <2>2 DEF ledgerWritten
      <3> QED BY <3>1 DEF CalendarIInv, CalendarTypeOK, IdsInTurn, CloseHasRead, TotalsAddUp, ExitLogged, exitOf
    <2> QED BY <2>1, <2>2, RequestsKeep, AnswersKeep DEF CalendarNext
  <1>3. CalendarIInv => TradesExplained
    BY DEF CalendarIInv, TradesExplained, LedgerExplainsRow, ExitLogged
  <1> QED BY <1>1, <1>2, <1>3, PTL DEF CalendarSpec
-----------------------------------------------------------------------------
(* The worker pool                                                         *)

InPool(q, slots, jobs, j) == Contains(q, j) \/ \E s \in slots : jobs[s] = j

Idle(slots, jobs) == {s \in slots : jobs[s] = NoJob}

\* At most one place is free: an idle slot, or one the pool may still add.
OnePlace(slots, jobs) ==
    \/ Cardinality(slots) = Concurrency /\ \A s, t \in Idle(slots, jobs) : s = t
    \/ Cardinality(slots) = Concurrency - 1 /\ Idle(slots, jobs) = {}

Busy(slots, jobs) == Cardinality(slots) = Concurrency /\ \A s \in slots : jobs[s] # NoJob

placeTypes(q, slots, jobs) ==
    /\ q \in Seq(Callers) /\ made \in 0 .. MaxSlots /\ slots \subseteq 1 .. made
    /\ jobs \in [Slots -> Callers \cup {NoJob}] /\ Cardinality(slots) <= Concurrency

placed == queue' \in Seq(Callers) /\ made' \in 0 .. MaxSlots /\ live' \subseteq 1 .. made'
          /\ slotJob' \in [Slots -> Callers \cup {NoJob}] /\ Cardinality(live') <= Concurrency

LEMMA SlotsFinite ==
    ASSUME NEW n \in Nat, NEW S, S \subseteq 1 .. n
    PROVE  IsFiniteSet(S) /\ Cardinality(S) \in Nat
  <1>1. IsFiniteSet(1 .. n)
    BY FS_Interval
  <1>2. IsFiniteSet(S)
    BY <1>1, FS_Subset
  <1> QED BY <1>2, FS_CardinalityType

\* The slot that dispatchLocked picks: an idle one, or the next.
NextSlot(slots, jobs) == IF Idle(slots, jobs) # {} THEN CHOOSE s \in Idle(slots, jobs) : TRUE ELSE made + 1

canPlace(q, slots, jobs) ==
    q # <<>> /\ (Idle(slots, jobs) # {} \/ Cardinality(slots) < Concurrency) /\ NextSlot(slots, jobs) \in Slots

LEMMA DispatchIs ==
    ASSUME NEW q, NEW slots, NEW jobs, NEW work, NEW timers, dispatch(q, slots, jobs, work, timers)
    PROVE  \/ /\ canPlace(q, slots, jobs) /\ queue' = Tail(q) /\ live' = slots \cup {NextSlot(slots, jobs)}
              /\ made' = IF Idle(slots, jobs) # {} THEN made ELSE made + 1
              /\ slotJob' = [jobs EXCEPT ![NextSlot(slots, jobs)] = Head(q)]
           \/ /\ ~canPlace(q, slots, jobs) /\ queue' = q /\ live' = slots /\ slotJob' = jobs /\ made' = made
  BY DEF dispatch, canPlace, NextSlot, Idle

LEMMA DispatchTyped ==
    ASSUME NEW q, NEW slots, NEW jobs, NEW work, NEW timers, dispatch(q, slots, jobs, work, timers),
           placeTypes(q, slots, jobs)
    PROVE  placed
  <1> DEFINE t == NextSlot(slots, jobs)
  <1>1. CASE ~canPlace(q, slots, jobs)
    BY <1>1, DispatchIs DEF placed, placeTypes
  <1>2. CASE canPlace(q, slots, jobs)
    <2>0. queue' = Tail(q) /\ live' = slots \cup {t} /\ slotJob' = [jobs EXCEPT ![t] = Head(q)]
      BY <1>2, DispatchIs
    <2>1. q \in Seq(Callers) /\ q # <<>> /\ t \in Slots /\ made \in 0 .. MaxSlots /\ slots \subseteq 1 .. made
      BY <1>2 DEF canPlace, placeTypes
    <2>2. Head(q) \in Callers /\ Tail(q) \in Seq(Callers)
      BY <2>1
    <2>3. IsFiniteSet(slots) /\ Cardinality(slots) \in Nat
      <3>1. made \in Nat
        BY <2>1, PoolAssumption
      <3> QED BY <2>1, <3>1, SlotsFinite
    <2>4. slotJob' \in [Slots -> Callers \cup {NoJob}]
      BY <2>0, <2>2 DEF placeTypes
    <2>5. CASE Idle(slots, jobs) # {}
      <3>1. t \in slots
        BY <2>5 DEF NextSlot, Idle
      <3>2. live' = slots /\ made' = made
        BY <1>2, <2>0, <2>5, <3>1, DispatchIs
      <3> QED BY <2>0, <2>2, <2>4, <3>2 DEF placed, placeTypes
    <2>6. CASE Idle(slots, jobs) = {}
      <3>1. t = made + 1 /\ made' = made + 1
        BY <1>2, <2>6, DispatchIs DEF NextSlot
      <3>2. t \notin slots /\ made' \in 0 .. MaxSlots /\ live' \subseteq 1 .. made'
        BY <2>0, <2>1, <3>1, PoolAssumption DEF Slots
      <3>3. Cardinality(live') = Cardinality(slots) + 1
        BY <2>0, <2>3, <3>2, FS_AddElement
      <3>4. Cardinality(slots) < Concurrency
        BY <1>2, <2>6 DEF canPlace
      <3>5. Cardinality(live') <= Concurrency
        BY <2>3, <3>3, <3>4, PoolAssumption
      <3> QED BY <2>0, <2>2, <2>4, <3>2, <3>5 DEF placed
    <2> QED BY <2>5, <2>6
  <1> QED BY <1>1, <1>2

\* The queue's head has a slot now, nobody loses one.
LEMMA DispatchKeeps ==
    ASSUME NEW q, NEW slots, NEW jobs, NEW work, NEW timers, dispatch(q, slots, jobs, work, timers),
           placeTypes(q, slots, jobs), NEW j \in Callers, InPool(q, slots, jobs, j)
    PROVE  InPool(queue', live', slotJob', j)
  <1> DEFINE t == NextSlot(slots, jobs)
  <1>1. CASE ~canPlace(q, slots, jobs)
    BY <1>1, DispatchIs
  <1>2. CASE canPlace(q, slots, jobs)
    <2>0. queue' = Tail(q) /\ live' = slots \cup {t} /\ slotJob' = [jobs EXCEPT ![t] = Head(q)]
      BY <1>2, DispatchIs
    <2>1. q \in Seq(Callers) /\ q # <<>> /\ t \in Slots /\ made \in 0 .. MaxSlots /\ slots \subseteq 1 .. made
      BY <1>2 DEF canPlace, placeTypes
    <2>2. slotJob'[t] = Head(q) /\ \A s \in Slots : s # t => slotJob'[s] = jobs[s]
      BY <2>0, <2>1 DEF placeTypes
    <2>3. CASE Contains(q, j)
      <3>1. PICK i \in 1 .. Len(q) : q[i] = j
        BY <2>3 DEF Contains
      <3>2. CASE i = 1
        <4>1. Head(q) = j
          BY <2>1, <3>1, <3>2
        <4> QED BY <2>0, <2>2, <4>1 DEF InPool
      <3>3. CASE i # 1
        <4>1. i - 1 \in 1 .. Len(Tail(q)) /\ Tail(q)[i - 1] = q[i]
          BY <2>1, <3>1, <3>3
        <4>2. Contains(Tail(q), j)
          BY <3>1, <4>1 DEF Contains
        <4> QED BY <2>0, <4>2 DEF InPool
      <3> QED BY <3>2, <3>3
    <2>4. ASSUME NEW s \in slots, jobs[s] = j
          PROVE  InPool(queue', live', slotJob', j)
      <3>1. s \in Slots
        BY <2>1, PoolAssumption DEF Slots
      <3>2. s # t
        BY <2>1, <2>4, PoolAssumption DEF NextSlot, Idle
      <3> QED BY <2>0, <2>2, <2>4, <3>1, <3>2 DEF InPool
    <2> QED BY <2>3, <2>4 DEF InPool
  <1> QED BY <1>1, <1>2

\* Where one place was free at most, or one job waited, nobody waits beside a free place.
LEMMA DispatchFills ==
    ASSUME NEW q, NEW slots, NEW jobs, NEW work, NEW timers, dispatch(q, slots, jobs, work, timers),
           placeTypes(q, slots, jobs), made < MaxSlots => (Tail(q) # <<>> /\ q # <<>> => OnePlace(slots, jobs))
    PROVE  queue' # <<>> /\ made' < MaxSlots => Busy(live', slotJob')
  <1> DEFINE t == NextSlot(slots, jobs)
  <1> SUFFICES ASSUME queue' # <<>>, made' < MaxSlots PROVE Busy(live', slotJob')
    OBVIOUS
  <1>0. made \in 0 .. MaxSlots /\ slots \subseteq 1 .. made /\ Cardinality(slots) <= Concurrency
    BY DEF placeTypes
  <1>1. made < MaxSlots
    BY <1>0, DispatchIs, PoolAssumption
  <1>2. t \in Slots
    <2>1. made + 1 \in Slots /\ slots \subseteq Slots
      BY <1>0, <1>1, PoolAssumption DEF Slots
    <2>2. Idle(slots, jobs) # {} => t \in slots
      BY DEF NextSlot, Idle
    <2>3. Idle(slots, jobs) = {} => t = made + 1
      BY DEF NextSlot
    <2> QED BY <2>1, <2>2, <2>3
  <1>3. IsFiniteSet(slots) /\ Cardinality(slots) \in Nat
    <2>1. made \in Nat
      BY <1>0, PoolAssumption
    <2> QED BY <1>0, <2>1, SlotsFinite
  <1>4. CASE ~canPlace(q, slots, jobs)
    <2>1. queue' = q /\ live' = slots /\ slotJob' = jobs
      BY <1>4, DispatchIs
    <2>2. Idle(slots, jobs) = {} /\ ~(Cardinality(slots) < Concurrency)
      BY <1>2, <1>4, <2>1 DEF canPlace
    <2>3. Cardinality(slots) = Concurrency
      BY <1>0, <1>3, <2>2, PoolAssumption
    <2> QED BY <2>1, <2>2, <2>3 DEF Busy, Idle
  <1>5. CASE canPlace(q, slots, jobs)
    <2>1. queue' = Tail(q) /\ live' = slots \cup {t} /\ slotJob' = [jobs EXCEPT ![t] = Head(q)]
      BY <1>5, DispatchIs
    <2>2. q # <<>> /\ q \in Seq(Callers) /\ (Idle(slots, jobs) # {} \/ Cardinality(slots) < Concurrency)
      BY <1>5 DEF canPlace, placeTypes
    <2>3. OnePlace(slots, jobs)
      BY <1>1, <2>1, <2>2
    <2>4. slotJob'[t] # NoJob /\ \A s \in Slots : s # t => slotJob'[s] = jobs[s]
      <3>1. Head(q) \in Callers
        BY <2>2
      <3> QED BY <1>2, <2>1, <3>1, PoolAssumption DEF placeTypes
    <2>5. slots \subseteq Slots
      BY <1>0, PoolAssumption DEF Slots
    <2>6. \A s \in live' : slotJob'[s] # NoJob
      <3>1. \A s \in slots : s # t => s \notin Idle(slots, jobs)
        BY <2>3 DEF OnePlace, NextSlot
      <3> QED BY <2>1, <2>4, <2>5, <3>1 DEF Idle
    <2>7. Cardinality(live') = Concurrency
      <3>1. CASE Idle(slots, jobs) # {}
        <4>1. t \in slots
          BY <3>1 DEF NextSlot, Idle
        <4> QED BY <2>1, <2>3, <3>1, <4>1 DEF OnePlace
      <3>2. CASE Idle(slots, jobs) = {}
        <4>1. t \notin slots
          BY <1>0, <3>2 DEF NextSlot
        <4>2. Cardinality(live') = Cardinality(slots) + 1
          BY <1>3, <2>1, <4>1, FS_AddElement
        <4>3. Cardinality(slots) = Concurrency - 1
          BY <1>3, <2>2, <2>3, <3>2, PoolAssumption DEF OnePlace
        <4> QED BY <4>2, <4>3, PoolAssumption
      <3> QED BY <3>1, <3>2
    <2> QED BY <2>6, <2>7 DEF Busy
  <1> QED BY <1>4, <1>5


\* What the rest of the invariant says of the queue, the slots and the deadlines.
Waiters == \A j \in Callers : outcome[j] = "waiting" => InPool(queue, live, slotJob, j)
Filled == queue # <<>> /\ made < MaxSlots => Busy(live, slotJob)

LEMMA StrandedIs == NoCallerStranded <=> Waiters /\ Filled
  BY DEF NoCallerStranded, Waiters, Filled, InPool, Busy

LEMMA InvariantIs ==
    PoolIInv <=> /\ placeTypes(queue, live, slotJob) /\ DOMAIN outcome = Callers
                 /\ FiringOverran /\ DeadlineOfOwnJob /\ Waiters /\ Filled
  BY StrandedIs DEF PoolIInv, PoolTypeOK, WithinConcurrency, placeTypes

\* What a step that settles nobody as overrun leaves of the deadlines.
LEMMA DeadlinesStay ==
    ASSUME FiringOverran, DeadlineOfOwnJob, overran \subseteq overran',
           \A s \in Slots, j \in Callers : <<s, j>> \in firing' => <<s, j>> \in firing \/ j \in overran',
           \A j \in Callers : outcome'[j] = "overran" => outcome[j] = "overran" \/ j \in overran'
    PROVE  FiringOverran' /\ DeadlineOfOwnJob'
  BY DEF FiringOverran, DeadlineOfOwnJob

\* Where nothing is dispatched the pool is as it was.
LEMMA PoolStays ==
    ASSUME PoolIInv, UNCHANGED <<queue, slotVars>>, DOMAIN outcome' = Callers,
           FiringOverran', DeadlineOfOwnJob',
           \A j \in Callers : outcome'[j] = "waiting" => outcome[j] = "waiting"
    PROVE  PoolIInv'
  <1>1. placeTypes(queue, live, slotJob) /\ Waiters /\ Filled
    BY InvariantIs
  <1>2. live' = live /\ slotJob' = slotJob /\ queue' = queue /\ made' = made
    BY DEF slotVars
  <1>3. placeTypes(queue, live, slotJob)'
    BY <1>1, <1>2 DEF placeTypes
  <1>4. Waiters'
    BY <1>1, <1>2 DEF Waiters, InPool
  <1>5. Filled'
    BY <1>1, <1>2 DEF Filled, Busy
  <1> QED BY <1>3, <1>4, <1>5, StrandedIs DEF PoolIInv, PoolTypeOK, WithinConcurrency, placeTypes, NoCallerStranded, Waiters, Filled, InPool, Busy

\* A dispatch after a change that leaves one place free at most and takes a place from nobody
\* who waits.
LEMMA DispatchedStays ==
    ASSUME NEW q, NEW slots, NEW jobs, NEW work, NEW timers, dispatch(q, slots, jobs, work, timers),
           placeTypes(q, slots, jobs), made < MaxSlots => (Tail(q) # <<>> /\ q # <<>> => OnePlace(slots, jobs)),
           \A j \in Callers : outcome'[j] = "waiting" => InPool(q, slots, jobs, j),
           DOMAIN outcome' = Callers, FiringOverran', DeadlineOfOwnJob'
    PROVE  PoolIInv'
  <1>1. placed
    BY DispatchTyped
  <1>2. \A j \in Callers : outcome'[j] = "waiting" => InPool(queue', live', slotJob', j)
    BY DispatchKeeps
  <1>3. queue' # <<>> /\ made' < MaxSlots => Busy(live', slotJob')
    BY DispatchFills
  <1>4. PoolTypeOK' /\ WithinConcurrency'
    BY <1>1 DEF placed, PoolTypeOK, WithinConcurrency
  <1>5. NoCallerStranded'
    BY <1>2, <1>3 DEF NoCallerStranded, InPool, Busy
  <1> QED BY <1>4, <1>5 DEF PoolIInv

LEMMA SubmitKeeps ==
    ASSUME PoolIInv, NEW j \in Callers, Submit(j)
    PROVE  PoolIInv'
  <1>0. /\ placeTypes(queue, live, slotJob) /\ DOMAIN outcome = Callers
        /\ FiringOverran /\ DeadlineOfOwnJob /\ Waiters /\ Filled
    BY InvariantIs
  <1>1. CASE closed \/ Len(queue) >= PoolQueue
    <2>1. outcome' = [outcome EXCEPT ![j] = "refused"] /\ UNCHANGED <<queue, slotVars, firing, overran>>
      BY <1>1 DEF Submit
    <2>2. DOMAIN outcome' = Callers /\ \A i \in Callers : outcome'[i] = outcome[i] \/ outcome'[i] = "refused"
      BY <1>0, <2>1
    <2>3. FiringOverran' /\ DeadlineOfOwnJob'
      BY <1>0, <2>1, <2>2, DeadlinesStay
    <2> QED BY <2>1, <2>2, <2>3, PoolStays
  <1>2. CASE ~(closed \/ Len(queue) >= PoolQueue)
    <2> DEFINE q == Append(queue, j)
    <2>1. /\ outcome' = [outcome EXCEPT ![j] = "waiting"] /\ UNCHANGED <<firing, overran>>
          /\ dispatch(q, live, slotJob, running, armed)
      BY <1>2 DEF Submit
    <2>2. /\ DOMAIN outcome' = Callers
          /\ \A i \in Callers : outcome'[i] = IF i = j THEN "waiting" ELSE outcome[i]
      BY <1>0, <2>1
    <2>3. FiringOverran' /\ DeadlineOfOwnJob'
      BY <1>0, <2>1, <2>2, DeadlinesStay
    <2>4. queue \in Seq(Callers)
      BY <1>0 DEF placeTypes
    <2>5. placeTypes(q, live, slotJob)
      BY <1>0, <2>4 DEF placeTypes
    <2>6. \A i \in Callers : outcome'[i] = "waiting" => InPool(q, live, slotJob, i)
      <3>1. Len(q) = Len(queue) + 1 /\ q[Len(queue) + 1] = j /\ \A i \in 1 .. Len(queue) : q[i] = queue[i]
        BY <2>4
      <3>2. Len(queue) \in Nat
        BY <2>4
      <3>3. Contains(q, j) /\ \A i \in Callers : Contains(queue, i) => Contains(q, i)
        <4> HIDE DEF q
        <4> QED BY <3>1, <3>2 DEF Contains
      <3> QED BY <1>0, <2>2, <3>3 DEF Waiters, InPool
    <2>7. made < MaxSlots => (Tail(q) # <<>> /\ q # <<>> => OnePlace(live, slotJob))
      <3> SUFFICES ASSUME made < MaxSlots, Tail(q) # <<>> PROVE OnePlace(live, slotJob)
        OBVIOUS
      <3>1. queue # <<>>
        BY <2>4
      <3> QED BY <1>0, <3>1 DEF Filled, Busy, OnePlace, Idle
    <2> HIDE DEF q
    <2> QED BY <2>1, <2>2, <2>3, <2>5, <2>6, <2>7, DispatchedStays
  <1> QED BY <1>1, <1>2

LEMMA SettleIs ==
    ASSUME NEW j \in Callers, NEW how, DOMAIN outcome = Callers, settle(j, how)
    PROVE  /\ DOMAIN outcome' = Callers
           /\ \A i \in Callers : outcome'[i] = IF i = j /\ outcome[i] = "waiting" THEN how ELSE outcome[i]
  BY DEF settle

\* Who waits has a place that another slot's job does not take away.
LEMMA OthersWait ==
    ASSUME PoolIInv, NEW s \in Slots, NEW j \in Callers, slotJob[s] = j, NEW slots, live \ {s} \subseteq slots,
           NEW how, how # "waiting", settle(j, how), NEW i \in Callers, outcome'[i] = "waiting"
    PROVE  InPool(queue, slots, [slotJob EXCEPT ![s] = NoJob], i)
  <1>0. placeTypes(queue, live, slotJob) /\ DOMAIN outcome = Callers /\ Waiters
    BY InvariantIs
  <1>1. i # j /\ outcome[i] = "waiting"
    BY <1>0, SettleIs
  <1>2. CASE Contains(queue, i)
    BY <1>2 DEF InPool
  <1>3. CASE \E t \in live : slotJob[t] = i
    <2>1. PICK t \in live : slotJob[t] = i
      BY <1>3
    <2>2. t # s /\ t \in Slots
      BY <1>0, <1>1, <2>1, PoolAssumption DEF placeTypes, Slots
    <2>3. [slotJob EXCEPT ![s] = NoJob][t] = i
      BY <1>0, <2>1, <2>2 DEF placeTypes
    <2> QED BY <2>1, <2>2, <2>3 DEF InPool
  <1> QED BY <1>0, <1>1, <1>2, <1>3 DEF Waiters, InPool

LEMMA FinishKeeps ==
    ASSUME PoolIInv, NEW s \in Slots, NEW j \in Callers, finish(s, j)
    PROVE  PoolIInv'
  <1>0. /\ placeTypes(queue, live, slotJob) /\ DOMAIN outcome = Callers
        /\ FiringOverran /\ DeadlineOfOwnJob /\ Waiters /\ Filled
    BY InvariantIs
  <1>1. CASE s \notin live \/ slotJob[s] # j
    <2>1. UNCHANGED <<queue, slotVars, outcome, firing, overran>>
      BY <1>1 DEF finish
    <2>2. FiringOverran' /\ DeadlineOfOwnJob'
      BY <1>0, <2>1, DeadlinesStay
    <2> QED BY <1>0, <2>1, <2>2, PoolStays
  <1>2. CASE s \in live /\ slotJob[s] = j
    <2> DEFINE jobs == [slotJob EXCEPT ![s] = NoJob]
    <2>1. PICK how \in {"done", "failed"} :
            settle(j, how) /\ dispatch(queue, live, jobs, running \ {<<s, j>>}, armed \ {<<s, j>>})
      BY <1>2 DEF finish
    <2>2. UNCHANGED <<firing, overran>>
      BY DEF finish
    <2>3. DOMAIN outcome' = Callers
      BY <1>0, <2>1, SettleIs
    <2>4. \A i \in Callers : outcome'[i] = "overran" => outcome[i] = "overran"
      BY <1>0, <2>1, SettleIs
    <2>5. FiringOverran' /\ DeadlineOfOwnJob'
      BY <1>0, <2>2, <2>4, DeadlinesStay
    <2>6. placeTypes(queue, live, jobs)
      BY <1>0 DEF placeTypes
    <2>7. \A i \in Callers : outcome'[i] = "waiting" => InPool(queue, live, jobs, i)
      <3>1. how # "waiting" /\ live \ {s} \subseteq live
        BY <2>1
      <3> QED BY <1>2, <2>1, <3>1, OthersWait
    <2>8. made < MaxSlots => (Tail(queue) # <<>> /\ queue # <<>> => OnePlace(live, jobs))
      BY <1>0 DEF Filled, Busy, OnePlace, Idle, placeTypes
    <2> HIDE DEF jobs
    <2> QED BY <2>1, <2>3, <2>5, <2>6, <2>7, <2>8, DispatchedStays
  <1> QED BY <1>1, <1>2

LEMMA FailSlotKeeps ==
    ASSUME PoolIInv, NEW s \in Slots, NEW j \in Callers, failSlot(s, j)
    PROVE  PoolIInv'
  <1>0. /\ placeTypes(queue, live, slotJob) /\ DOMAIN outcome = Callers
        /\ FiringOverran /\ DeadlineOfOwnJob /\ Waiters /\ Filled
    BY InvariantIs
  <1>a. firing' = firing \ {<<s, j>>} /\ overran' = overran /\ j \in overran
    BY <1>0 DEF failSlot, FiringOverran
  <1>1. CASE s \notin live \/ slotJob[s] # j
    <2>1. UNCHANGED <<queue, slotVars, outcome>>
      BY <1>1 DEF failSlot
    <2>2. FiringOverran' /\ DeadlineOfOwnJob'
      BY <1>0, <1>a, <2>1, DeadlinesStay
    <2> QED BY <1>0, <2>1, <2>2, PoolStays
  <1>2. CASE s \in live /\ slotJob[s] = j
    <2> DEFINE jobs == [slotJob EXCEPT ![s] = NoJob]
               slots == live \ {s}
    <2>1. settle(j, "overran") /\ dispatch(queue, slots, jobs, running, armed)
      BY <1>2 DEF failSlot
    <2>3. DOMAIN outcome' = Callers
      BY <1>0, <2>1, SettleIs
    <2>4. \A i \in Callers : outcome'[i] = "overran" => outcome[i] = "overran" \/ i = j
      BY <1>0, <2>1, SettleIs
    <2>5. FiringOverran' /\ DeadlineOfOwnJob'
      BY <1>0, <1>a, <2>4, DeadlinesStay
    <2>6. made \in Nat /\ live \subseteq 1 .. made /\ Cardinality(live) <= Concurrency
      BY <1>0, PoolAssumption DEF placeTypes
    <2>7. IsFiniteSet(live) /\ Cardinality(live) \in Nat
      BY <2>6, SlotsFinite
    <2>8. Cardinality(slots) = Cardinality(live) - 1
      BY <1>2, <2>7, FS_RemoveElement
    <2>9. Cardinality(slots) <= Concurrency
      BY <2>6, <2>7, <2>8, PoolAssumption
    <2>10. placeTypes(queue, slots, jobs)
      BY <1>0, <2>9 DEF placeTypes
    <2>11. \A i \in Callers : outcome'[i] = "waiting" => InPool(queue, slots, jobs, i)
      BY <1>2, <2>1, OthersWait
    <2>12. made < MaxSlots => (Tail(queue) # <<>> /\ queue # <<>> => OnePlace(slots, jobs))
      <3> SUFFICES ASSUME made < MaxSlots, queue # <<>> PROVE OnePlace(slots, jobs)
        OBVIOUS
      <3>1. Cardinality(slots) = Concurrency - 1
        BY <1>0, <2>8 DEF Filled, Busy
      <3>2. \A t \in slots : jobs[t] # NoJob
        <4>1. \A t \in live : slotJob[t] # NoJob /\ t \in Slots
          BY <1>0, <2>6, PoolAssumption DEF Filled, Busy, placeTypes, Slots
        <4> QED BY <1>0, <4>1 DEF placeTypes
      <3>3. Idle(slots, jobs) = {}
        BY <3>2 DEF Idle
      <3> QED BY <3>1, <3>3 DEF OnePlace
    <2> HIDE DEF jobs, slots
    <2> QED BY <2>1, <2>3, <2>5, <2>10, <2>11, <2>12, DispatchedStays
  <1> QED BY <1>1, <1>2

\* The parts that make PoolServes inductive.
THEOREM PoolInvariant == PoolSpec => []PoolIInv
  <1>1. PoolInit => PoolIInv
    <2> SUFFICES ASSUME PoolInit PROVE PoolIInv
      OBVIOUS
    <2>1. PoolTypeOK
      BY PoolAssumption DEF PoolInit, PoolTypeOK
    <2>2. WithinConcurrency
      BY FS_EmptySet, PoolAssumption DEF PoolInit, WithinConcurrency
    <2>3. FiringOverran /\ DeadlineOfOwnJob /\ NoCallerStranded
      BY DEF PoolInit, FiringOverran, DeadlineOfOwnJob, NoCallerStranded
    <2> QED BY <2>1, <2>2, <2>3 DEF PoolIInv
  <1>2. PoolIInv /\ [PoolNext]_poolVars => PoolIInv'
    <2> SUFFICES ASSUME PoolIInv, [PoolNext]_poolVars PROVE PoolIInv'
      OBVIOUS
    <2>0. /\ placeTypes(queue, live, slotJob) /\ DOMAIN outcome = Callers
          /\ FiringOverran /\ DeadlineOfOwnJob
      BY InvariantIs
    <2>1. ASSUME NEW j \in Callers, Submit(j) PROVE PoolIInv'
      BY <2>1, SubmitKeeps
    <2>2. ASSUME NEW s \in Slots, NEW j \in Callers, finish(s, j) PROVE PoolIInv'
      BY <2>2, FinishKeeps
    <2>3. ASSUME NEW s \in Slots, NEW j \in Callers, TimerFires(s, j) PROVE PoolIInv'
      <3>1. firing' = firing \cup {<<s, j>>} /\ overran' = overran \cup {j} /\ UNCHANGED <<queue, slotVars, outcome>>
        BY <2>3 DEF TimerFires
      <3>2. FiringOverran' /\ DeadlineOfOwnJob'
        BY <2>0, <3>1, DeadlinesStay
      <3> QED BY <2>0, <3>1, <3>2, PoolStays
    <2>4. ASSUME NEW s \in Slots, NEW j \in Callers, failSlot(s, j) PROVE PoolIInv'
      BY <2>4, FailSlotKeeps
    <2>5. CASE DisposePool
      <3>1. /\ DOMAIN outcome' = Callers
            /\ \A j \in Callers : outcome'[j] = IF outcome[j] = "waiting" THEN "stopped" ELSE outcome[j]
        BY <2>5 DEF DisposePool
      <3>2. queue' = <<>> /\ live' = {} /\ slotJob' = [s \in Slots |-> NoJob] /\ UNCHANGED <<made, firing, overran>>
        BY <2>5 DEF DisposePool
      <3>3. FiringOverran' /\ DeadlineOfOwnJob'
        BY <2>0, <3>1, <3>2, DeadlinesStay
      <3>4. PoolTypeOK'
        BY <2>0, <3>1, <3>2 DEF placeTypes, PoolTypeOK
      <3>5. WithinConcurrency'
        BY <3>2, FS_EmptySet, PoolAssumption DEF WithinConcurrency
      <3>6. NoCallerStranded'
        BY <3>1, <3>2 DEF NoCallerStranded
      <3> QED BY <3>3, <3>4, <3>5, <3>6 DEF PoolIInv
    <2>6. CASE UNCHANGED poolVars
      <3>1. UNCHANGED <<queue, slotVars, outcome, firing, overran>>
        BY <2>6 DEF poolVars, timerVars
      <3>2. FiringOverran' /\ DeadlineOfOwnJob'
        BY <2>0, <3>1, DeadlinesStay
      <3> QED BY <2>0, <3>1, <3>2, PoolStays
    <2> QED BY <2>1, <2>2, <2>3, <2>4, <2>5, <2>6 DEF PoolNext
  <1> QED BY <1>1, <1>2, PTL DEF PoolSpec

\* Whoever waits in Submit is queued or in a slot, nobody is queued beside a free place, and a
\* deadline fails its own job only (Submit, dispatchLocked, failSlot).
THEOREM PoolAlwaysServes == PoolSpec => []PoolServes
  <1>1. PoolIInv => PoolServes
    BY DEF PoolIInv, PoolServes
  <1> QED BY <1>1, PoolInvariant, PTL
-----------------------------------------------------------------------------
(* Hourly capture                                                          *)

\* One run moves to another step, the others stay.
JobMoves(j, pc) ==
    /\ DOMAIN job' = Jobs /\ DOMAIN job'[j] = DOMAIN IdleJob /\ job'[j].pc = pc
    /\ \A k \in Jobs : k # j => job'[k] = job[k]

LEMMA IdleShape == DOMAIN IdleJob = {"pc", "slot", "todo", "doc"} /\ IdleJob.pc = "idle"
  BY DEF IdleJob

LEMMA ToMoves ==
    ASSUME HourlyTypeOK, NEW j \in Jobs, NEW pc, to(j, pc)
    PROVE  JobMoves(j, pc)
  <1>1. "pc" \in DOMAIN job[j]
    BY IdleShape DEF HourlyTypeOK
  <1> QED BY <1>1 DEF JobMoves, to, HourlyTypeOK

LEMMA EndsMoves ==
    ASSUME HourlyTypeOK, NEW j \in Jobs, ends(j)
    PROVE  JobMoves(j, "idle")
  BY IdleShape DEF JobMoves, ends, HourlyTypeOK

LEMMA ToDocMoves ==
    ASSUME HourlyTypeOK, NEW j \in Jobs, NEW pc, NEW doc,
           job' = [job EXCEPT ![j].pc = pc, ![j].doc = doc]
    PROVE  JobMoves(j, pc)
  <1>1. DOMAIN job[j] = {"pc", "slot", "todo", "doc"}
    BY IdleShape DEF HourlyTypeOK
  <1>2. DOMAIN job' = Jobs /\ DOMAIN job'[j] = DOMAIN job[j] /\ \A k \in Jobs : k # j => job'[k] = job[k]
    BY DEF HourlyTypeOK
  <1>3. job'[j].pc = pc
    BY <1>1 DEF HourlyTypeOK
  <1> QED BY <1>1, <1>2, <1>3, IdleShape DEF JobMoves

LEMMA ToTodoMoves ==
    ASSUME HourlyTypeOK, NEW j \in Jobs, NEW pc, NEW todo,
           job' = [job EXCEPT ![j].pc = pc, ![j].todo = todo]
    PROVE  JobMoves(j, pc)
  <1>1. DOMAIN job[j] = {"pc", "slot", "todo", "doc"}
    BY IdleShape DEF HourlyTypeOK
  <1>2. DOMAIN job' = Jobs /\ DOMAIN job'[j] = DOMAIN job[j] /\ \A k \in Jobs : k # j => job'[k] = job[k]
    BY DEF HourlyTypeOK
  <1>3. job'[j].pc = pc
    BY <1>1 DEF HourlyTypeOK
  <1> QED BY <1>1, <1>2, <1>3, IdleShape DEF JobMoves

\* What a move leaves of the types: every run stays at a step of its kind.
LEMMA MovesTyped ==
    ASSUME HourlyTypeOK, NEW j \in Jobs, NEW pc, JobMoves(j, pc),
           pc \in IF j = "tick" THEN TickSteps ELSE BackfillSteps
    PROVE  HourlyTypeOK'
  BY DEF HourlyTypeOK, JobMoves

\* A move inside or outside the backfill, with the flag as it was, keeps the flag held.
LEMMA MovesHeld ==
    ASSUME HourlyTypeOK, BackfillHeld, NEW j \in Jobs, NEW pc, JobMoves(j, pc),
           UNCHANGED <<backfilling, validLookback>>,
           j = "tick" \/ (pc \in OutsideBackfill <=> job[j].pc \in OutsideBackfill)
    PROVE  BackfillHeld'
  <1>1. \A k \in Jobs : InsideBackfill(k)' <=> InsideBackfill(k)
    BY DEF JobMoves, InsideBackfill
  <1> QED BY <1>1 DEF BackfillHeld

\* The run that holds the flag gives it back.
LEMMA ReleaseHeld ==
    ASSUME HourlyTypeOK, BackfillHeld, NEW j \in Jobs, NEW pc, JobMoves(j, pc), j # "tick",
           pc \in OutsideBackfill, job[j].pc \notin OutsideBackfill, backfilling' = FALSE
    PROVE  BackfillHeld'
  <1>1. \A k \in Jobs : ~InsideBackfill(k)'
    <2> SUFFICES ASSUME NEW k \in Jobs PROVE ~InsideBackfill(k)'
      OBVIOUS
    <2>1. InsideBackfill(j)
      BY DEF InsideBackfill
    <2>2. k # j => ~InsideBackfill(k)
      BY <2>1 DEF BackfillHeld
    <2> QED BY <2>2 DEF InsideBackfill, JobMoves
  <1> QED BY <1>1 DEF BackfillHeld

\* What the runs do about the queue: nothing is queued by one that will not drain, and the
\* one that leaves a row behind has been turned away by a drain or has failed.
LEMMA MovesDrain ==
    ASSUME HourlyTypeOK, NoRowStranded, NEW j \in Jobs, NEW pc, JobMoves(j, pc), svc' = svc,
           \/ pc \in {"rest", "drain", "symbols"}
           \/ draining' \/ pendingWrites' = <<>> \/ failed'
           \/ /\ job[j].pc \notin {"rest", "drain", "symbols"}
              /\ pendingWrites' # <<>> => pendingWrites # <<>>
              /\ UNCHANGED <<draining, failed>>
    PROVE  NoRowStranded'
  <1> SUFFICES ASSUME isStarted', (pendingWrites # <<>>)', ~draining', ~failed'
               PROVE  \E k \in Jobs : job'[k].pc \in {"rest", "drain", "symbols"}
    BY DEF NoRowStranded
  <1>1. CASE pc \in {"rest", "drain", "symbols"}
    BY <1>1 DEF JobMoves
  <1>2. CASE pc \notin {"rest", "drain", "symbols"}
    <2>1. PICK k \in Jobs : job[k].pc \in {"rest", "drain", "symbols"}
      BY <1>2 DEF NoRowStranded, isStarted
    <2> QED BY <1>2, <2>1 DEF JobMoves
  <1> QED BY <1>1, <1>2

\* A step of a run of the started scheduler is one of these.
LEMMA StepKeeps ==
    ASSUME HourlyIInv, isStarted, UNCHANGED dayVars, NEW j \in Jobs, NEW pc, JobMoves(j, pc),
           pc \in IF j = "tick" THEN TickSteps ELSE BackfillSteps,
           \/ UNCHANGED backfilling
              /\ (j = "tick" \/ (pc \in OutsideBackfill <=> job[j].pc \in OutsideBackfill))
           \/ /\ j # "tick" /\ pc \in OutsideBackfill /\ job[j].pc \notin OutsideBackfill
              /\ backfilling' = FALSE
           \/ BackfillHeld',
           \/ pc \in {"rest", "drain", "symbols"}
           \/ draining' \/ pendingWrites' = <<>> \/ failed'
           \/ /\ job[j].pc \notin {"rest", "drain", "symbols"}
              /\ pendingWrites' # <<>> => pendingWrites # <<>>
              /\ UNCHANGED <<draining, failed>>
    PROVE  HourlyIInv'
  <1> USE DEF HourlyIInv
  <1>1. HourlyTypeOK'
    BY MovesTyped
  <1>2. QueuedWhileStarted'
    BY DEF QueuedWhileStarted, isStarted, dayVars
  <1>3. svc' = svc /\ validLookback' = validLookback
    BY DEF dayVars
  <1>4. NoRowStranded'
    BY <1>3, MovesDrain
  <1>5. BackfillHeld'
    BY <1>3, MovesHeld, ReleaseHeld
  <1> QED BY <1>1, <1>2, <1>4, <1>5

LEMMA TickIsJob == "tick" \in Jobs /\ "review" \in Jobs
  BY DEF Jobs

\* The drain, run by the scheduler or a backfill (DrainCacheToDB and its callers).
LEMMA DrainKeeps ==
    ASSUME HourlyIInv, NEW j \in Jobs,
           \/ DrainBegin(j) \/ DrainHead(j) \/ DrainUpsert(j) \/ DrainPop(j) \/ DrainReturns(j)
    PROVE  HourlyIInv'
  <1> USE DEF HourlyIInv, Draining, TickSteps, BackfillSteps, OutsideBackfill, dayVars, flagVars, markVars
  <1>1. CASE DrainBegin(j)
    <2>1. CASE draining
      <3>1. JobMoves(j, "drained")
        BY <1>1, <2>1, ToMoves DEF DrainBegin
      <3> QED BY <1>1, <2>1, <3>1, StepKeeps DEF DrainBegin
    <2>2. CASE ~draining
      <3>1. JobMoves(j, "head")
        BY <1>1, <2>2, ToMoves DEF DrainBegin
      <3> QED BY <1>1, <2>2, <3>1, StepKeeps DEF DrainBegin
    <2> QED BY <2>1, <2>2
  <1>2. CASE DrainHead(j)
    <2>1. CASE pendingWrites = <<>>
      <3>1. JobMoves(j, "drained")
        BY <1>2, <2>1, ToMoves DEF DrainHead
      <3> QED BY <1>2, <2>1, <3>1, StepKeeps DEF DrainHead
    <2>2. CASE pendingWrites # <<>>
      <3>1. JobMoves(j, "upsert")
        BY <1>2, <2>2, ToDocMoves DEF DrainHead
      <3> QED BY <1>2, <2>2, <3>1, StepKeeps DEF DrainHead
    <2> QED BY <2>1, <2>2
  <1>3. CASE DrainUpsert(j)
    <2>1. CASE to(j, "pop") /\ UNCHANGED <<draining, failed>>
      <3>1. JobMoves(j, "pop")
        BY <2>1, ToMoves
      <3> QED BY <1>3, <2>1, <3>1, StepKeeps DEF DrainUpsert
    <2>2. CASE job' = [job EXCEPT ![j].pc = "drained", ![j].doc = NoPrice] /\ failed' = TRUE
      <3>1. JobMoves(j, "drained")
        BY <2>2, ToDocMoves
      <3> QED BY <1>3, <2>2, <3>1, StepKeeps DEF DrainUpsert
    <2> QED BY <1>3, <2>1, <2>2 DEF DrainUpsert
  <1>4. CASE DrainPop(j)
    <2>1. JobMoves(j, "head")
      BY <1>4, ToDocMoves DEF DrainPop
    <2> QED BY <1>4, <2>1, StepKeeps DEF DrainPop
  <1>5. CASE DrainReturns(j)
    <2>1. CASE j = "tick"
      <3>1. JobMoves(j, "idle")
        BY <1>5, <2>1, EndsMoves DEF DrainReturns
      <3> QED BY <1>5, <2>1, <3>1, StepKeeps DEF DrainReturns
    <2>2. CASE j = "review"
      <3>1. JobMoves(j, "recount")
        BY <1>5, <2>2, ToMoves DEF DrainReturns
      <3> QED BY <1>5, <2>2, <3>1, StepKeeps DEF DrainReturns
    <2>3. CASE j # "tick" /\ j # "review"
      <3>1. JobMoves(j, "idle")
        BY <1>5, <2>3, EndsMoves DEF DrainReturns
      <3> QED BY <1>5, <2>3, <3>1, StepKeeps DEF DrainReturns
    <2> QED BY <2>1, <2>2, <2>3
  <1> QED BY <1>1, <1>2, <1>3, <1>4, <1>5


\* The scheduler's own steps (tick, CaptureHourlyPrices).
LEMMA TickKeeps ==
    ASSUME HourlyIInv, tick \/ tickBoard \/ CaptureHourlyPrices \/ captureRest
    PROVE  HourlyIInv'
  <1> DEFINE j == "tick"
  <1> USE DEF HourlyIInv, Draining, TickSteps, dayVars, flagVars, markVars
  <1>j. j \in Jobs
    BY TickIsJob
  <1>1. CASE tick
    <2>1. job' = [job EXCEPT ![j] = [IdleJob EXCEPT !.pc = "board", !.slot = currentCaptureSlot]]
      BY <1>1 DEF tick
    <2>2. DOMAIN job' = Jobs /\ \A k \in Jobs : k # j => job'[k] = job[k]
      BY <2>1 DEF HourlyTypeOK
    <2>3. job'[j] = [IdleJob EXCEPT !.pc = "board", !.slot = currentCaptureSlot]
      BY <2>1, <1>j DEF HourlyTypeOK
    <2>4. DOMAIN job'[j] = DOMAIN IdleJob /\ job'[j].pc = "board"
      BY <2>3, IdleShape
    <2>5. JobMoves(j, "board")
      BY <2>2, <2>4 DEF JobMoves
    <2> QED BY <1>j, <1>1, <2>5, StepKeeps DEF tick
  <1>2. CASE tickBoard
    <2>1. JobMoves(j, "capture") \/ JobMoves(j, "idle")
      BY <1>j, <1>2, ToMoves, EndsMoves DEF tickBoard
    <2> QED BY <1>j, <1>2, <2>1, StepKeeps DEF tickBoard
  <1>3. CASE CaptureHourlyPrices
    <2>1. JobMoves(j, "rest") \/ JobMoves(j, "drain")
      <3>1. PICK ticking \in SUBSET BoardSymbols :
              IF ticking # BoardSymbols /\ session
              THEN job' = [job EXCEPT !["tick"].pc = "rest", !["tick"].todo = BoardSymbols \ ticking]
              ELSE to("tick", "drain")
        BY <1>3 DEF CaptureHourlyPrices
      <3> QED BY <1>j, <3>1, ToMoves, ToTodoMoves
    <2> QED BY <1>j, <1>3, <2>1, StepKeeps DEF CaptureHourlyPrices
  <1>4. CASE captureRest
    <2>1. JobMoves(j, "drain")
      <3>1. job' = [job EXCEPT !["tick"].pc = "drain", !["tick"].todo = {}]
        BY <1>4 DEF captureRest
      <3> QED BY <1>j, <3>1, ToTodoMoves
    <2> QED BY <1>j, <1>4, <2>1, StepKeeps DEF captureRest
  <1> QED BY <1>1, <1>2, <1>3, <1>4

\* The backfill (BackfillMissedHours, backfillSymbol).
LEMMA BackfillKeeps ==
    ASSUME HourlyIInv, NEW j \in Jobs,
           BackfillMissedHours(j) \/ backfillBoard(j) \/ backfillSymbol(j) \/ backfillDrain(j)
    PROVE  HourlyIInv'
  <1> USE DEF HourlyIInv, Draining, TickSteps, BackfillSteps, OutsideBackfill, dayVars, flagVars, markVars
  <1>j. j # "tick"
    BY DEF HourlyTypeOK, BackfillMissedHours, backfillBoard, backfillSymbol, backfillDrain
  <1>1. CASE BackfillMissedHours(j)
    <2>1. CASE backfilling \/ ~session
      <3>1. (j = "review" /\ JobMoves(j, "recount")) \/ (j # "review" /\ JobMoves(j, "idle"))
        BY <1>1, <2>1, ToMoves, EndsMoves DEF BackfillMissedHours
      <3> QED BY <1>j, <1>1, <2>1, <3>1, StepKeeps DEF BackfillMissedHours
    <2>2. CASE ~(backfilling \/ ~session)
      <3>1. JobMoves(j, "bboard") /\ backfilling' = TRUE /\ validLookback' = validLookback
        BY <1>1, <2>2, ToMoves DEF BackfillMissedHours
      <3>2. \A k \in Jobs : InsideBackfill(k)' <=> k = j
        <4>1. \A k \in Jobs : ~InsideBackfill(k)
          BY <2>2 DEF BackfillHeld
        <4> QED BY <1>j, <3>1, <4>1 DEF InsideBackfill, JobMoves
      <3>3. BackfillHeld'
        BY <3>1, <3>2 DEF BackfillHeld
      <3> QED BY <1>j, <1>1, <3>1, <3>3, StepKeeps DEF BackfillMissedHours
    <2> QED BY <2>1, <2>2
  <1>2. CASE backfillBoard(j)
    <2>1. CASE job' = [job EXCEPT ![j].pc = "symbols", ![j].todo = BoardSymbols] /\ UNCHANGED backfilling
      <3>1. JobMoves(j, "symbols")
        BY <2>1, ToTodoMoves
      <3> QED BY <1>j, <1>2, <2>1, <3>1, StepKeeps DEF backfillBoard
    <2>2. CASE ~validLookback /\ ends(j) /\ UNCHANGED backfilling
      <3>1. JobMoves(j, "idle")
        BY <2>2, EndsMoves
      <3>2. ~validLookback'
        BY <1>2, <2>2 DEF backfillBoard
      <3>3. \A k \in Jobs : InsideBackfill(k)' => InsideBackfill(k)
        BY <3>1 DEF InsideBackfill, JobMoves
      <3>4. BackfillHeld'
        BY <2>2, <3>2, <3>3 DEF BackfillHeld
      <3> QED BY <1>j, <1>2, <3>1, <3>4, StepKeeps DEF backfillBoard
    <2>3. CASE backfilling' = FALSE /\ (IF j = "review" THEN to(j, "recount") ELSE ends(j))
      <3>1. (j = "review" /\ JobMoves(j, "recount")) \/ (j # "review" /\ JobMoves(j, "idle"))
        BY <2>3, ToMoves, EndsMoves
      <3> QED BY <1>j, <1>2, <2>3, <3>1, StepKeeps DEF backfillBoard
    <2> QED BY <1>2, <2>1, <2>2, <2>3 DEF backfillBoard
  <1>3. CASE backfillSymbol(j)
    <2>1. JobMoves(j, "symbols")
      <3>1. PICK s : job' = [job EXCEPT ![j].todo = @ \ {s}]
        BY <1>3 DEF backfillSymbol
      <3>2. DOMAIN job' = Jobs /\ DOMAIN job'[j] = DOMAIN job[j] /\ \A k \in Jobs : k # j => job'[k] = job[k]
        BY <3>1 DEF HourlyTypeOK
      <3>3. job'[j].pc = job[j].pc
        BY <3>1, IdleShape DEF HourlyTypeOK
      <3> QED BY <1>3, <3>2, <3>3 DEF JobMoves, HourlyTypeOK, backfillSymbol
    <2> QED BY <1>j, <1>3, <2>1, StepKeeps DEF backfillSymbol
  <1>4. CASE backfillDrain(j)
    <2>1. CASE pendingWrites # <<>>
      <3>1. JobMoves(j, "drain")
        BY <1>4, <2>1, ToMoves DEF backfillDrain
      <3> QED BY <1>j, <1>4, <3>1, StepKeeps DEF backfillDrain
    <2>2. CASE pendingWrites = <<>>
      <3>1. JobMoves(j, "drained")
        BY <1>4, <2>2, ToMoves DEF backfillDrain
      <3> QED BY <1>j, <1>4, <2>2, <3>1, StepKeeps DEF backfillDrain
    <2> QED BY <2>1, <2>2
  <1> QED BY <1>1, <1>2, <1>3, <1>4

\* The review (dayReviewTick, ReviewDayCompleteness).
LEMMA ReviewKeeps ==
    ASSUME HourlyIInv, dayReviewTick \/ ReviewDayCompleteness
    PROVE  HourlyIInv'
  <1> DEFINE j == "review"
  <1> USE DEF HourlyIInv, Draining, TickSteps, BackfillSteps, OutsideBackfill, dayVars, flagVars, markVars
  <1>j. j \in Jobs
    BY TickIsJob
  <1>1. CASE dayReviewTick
    <2>1. JobMoves(j, "count")
      BY <1>j, <1>1, ToMoves DEF dayReviewTick
    <2> QED BY <1>j, <1>1, <2>1, StepKeeps DEF dayReviewTick
  <1>2. CASE ReviewDayCompleteness
    <2>1. job[j].pc \in {"count", "recount"}
      BY <1>2 DEF ReviewDayCompleteness
    <2>2. JobMoves(j, "backfill") \/ JobMoves(j, "idle")
      BY <1>j, <1>2, ToMoves, EndsMoves DEF ReviewDayCompleteness
    <2> QED BY <1>j, <1>2, <2>1, <2>2, StepKeeps DEF ReviewDayCompleteness
  <1> QED BY <1>1, <1>2

\* A task that starts, with the service, after a login, or not at all.
LEMMA TaskStartKeeps ==
    ASSUME HourlyIInv, UNCHANGED <<pendingWrites, draining, backfilling, validLookback, failed>>,
           svc' = svc \/ (svc = "new" /\ svc' = "started"),
           UNCHANGED job \/ \E j \in Tasks : goTask(j)
    PROVE  HourlyIInv'
  <1> USE DEF HourlyIInv
  <1>1. QueuedWhileStarted'
    BY DEF QueuedWhileStarted
  <1>2. CASE UNCHANGED job
    <2>1. NoRowStranded'
      BY <1>2 DEF NoRowStranded, QueuedWhileStarted, isStarted
    <2>2. HourlyTypeOK' /\ BackfillHeld'
      BY <1>2 DEF HourlyTypeOK, BackfillHeld, InsideBackfill
    <2> QED BY <1>1, <2>1, <2>2
  <1>3. CASE \E j \in Tasks : goTask(j)
    <2>1. PICK j \in Tasks : goTask(j)
      BY <1>3
    <2>2. j \in Jobs /\ j # "tick"
      BY TaskNames DEF Jobs
    <2>3. JobMoves(j, "backfill") /\ job[j].pc = "idle"
      BY <2>1, <2>2, ToMoves DEF goTask
    <2>4. HourlyTypeOK'
      BY <2>2, <2>3, MovesTyped DEF BackfillSteps, OutsideBackfill
    <2>5. BackfillHeld'
      BY <2>2, <2>3, MovesHeld DEF OutsideBackfill
    <2>6. NoRowStranded'
      <3>1. CASE svc' = svc
        BY <2>2, <2>3, <3>1, MovesDrain
      <3>2. CASE svc = "new"
        BY <3>2 DEF NoRowStranded, QueuedWhileStarted
      <3> QED BY <3>1, <3>2
    <2> QED BY <1>1, <2>4, <2>5, <2>6
  <1> QED BY <1>2, <1>3

\* The parts that make CaptureSound inductive.
THEOREM HourlyInvariant == HourlySpec => []HourlyIInv
  <1>1. HourlyInit => HourlyIInv
    <2> SUFFICES ASSUME HourlyInit PROVE HourlyIInv
      OBVIOUS
    <2>1. HourlyTypeOK
      BY IdleShape DEF HourlyInit, HourlyTypeOK, TickSteps, BackfillSteps, OutsideBackfill
    <2>2. \A j \in Jobs : ~InsideBackfill(j)
      BY IdleShape DEF HourlyInit, InsideBackfill, OutsideBackfill
    <2>3. BackfillHeld
      BY <2>2 DEF HourlyInit, BackfillHeld
    <2>4. QueuedWhileStarted /\ NoRowStranded
      BY DEF HourlyInit, QueuedWhileStarted, NoRowStranded
    <2> QED BY <2>1, <2>3, <2>4 DEF HourlyIInv
  <1>2. HourlyIInv /\ [HourlyNext]_hourlyVars => HourlyIInv'
    <2> SUFFICES ASSUME HourlyIInv, [HourlyNext]_hourlyVars PROVE HourlyIInv'
      OBVIOUS
    <2>1. CASE tick \/ tickBoard \/ CaptureHourlyPrices \/ captureRest
      BY <2>1, TickKeeps
    <2>2. ASSUME NEW j \in Jobs,
                 \/ DrainBegin(j) \/ DrainHead(j) \/ DrainUpsert(j) \/ DrainPop(j) \/ DrainReturns(j)
                 \/ BackfillMissedHours(j) \/ backfillBoard(j) \/ backfillSymbol(j) \/ backfillDrain(j)
          PROVE  HourlyIInv'
      BY <2>2, DrainKeeps, BackfillKeeps
    <2>3. CASE dayReviewTick \/ ReviewDayCompleteness
      BY <2>3, ReviewKeeps
    <2>4. CASE StartHourly
      BY <2>4, TaskStartKeeps DEF StartHourly, flagVars
    <2>5. CASE PostLogin
      BY <2>5, TaskStartKeeps DEF PostLogin, flagVars
    <2>6. CASE SessionEnds \/ TimePasses
      BY <2>6, TaskStartKeeps DEF SessionEnds, TimePasses, flagVars
    <2>7. CASE StopCaptures
      <3>1. HourlyTypeOK'
        BY <2>7, IdleShape DEF StopCaptures, HourlyTypeOK, TickSteps, BackfillSteps, OutsideBackfill
      <3>2. \A j \in Jobs : ~InsideBackfill(j)'
        BY <2>7, IdleShape DEF StopCaptures, InsideBackfill, OutsideBackfill
      <3>3. BackfillHeld'
        BY <2>7, <3>2 DEF StopCaptures, BackfillHeld
      <3>4. QueuedWhileStarted' /\ NoRowStranded'
        BY <2>7 DEF StopCaptures, QueuedWhileStarted, NoRowStranded, isStarted
      <3> QED BY <3>1, <3>3, <3>4 DEF HourlyIInv
    <2>8. CASE UNCHANGED hourlyVars
      BY <2>8, TaskStartKeeps DEF hourlyVars, flagVars, dayVars
    <2> QED BY <2>1, <2>2, <2>3, <2>4, <2>5, <2>6, <2>7, <2>8 DEF HourlyNext
  <1> QED BY <1>1, <1>2, PTL DEF HourlySpec

\* No queued row is left behind by a drain that was turned away, and the single-flight flag is
\* set exactly while one run holds it (DrainCacheToDB, BackfillMissedHours).
THEOREM CaptureAlwaysSound == HourlySpec => []CaptureSound
  <1>1. HourlyIInv => CaptureSound
    <2> SUFFICES ASSUME HourlyIInv PROVE OneBackfill
      BY DEF HourlyIInv, CaptureSound
    <2> DEFINE holders == {j \in Jobs \ {"tick"} : job[j].pc \notin {"idle", "backfill", "count", "recount"}}
    <2>1. \A j \in Jobs : j \in holders <=> InsideBackfill(j)
      BY DEF InsideBackfill, OutsideBackfill
    <2>2. holders \subseteq Jobs
      OBVIOUS
    <2>3. \A j, k \in holders : j = k
      BY <2>1, <2>2 DEF HourlyIInv, BackfillHeld
    <2>4. Cardinality(holders) <= 1
      <3> HIDE DEF holders
      <3>1. CASE holders = {}
        BY <3>1, FS_EmptySet
      <3>2. CASE holders # {}
        <4>1. PICK j : j \in holders
          BY <3>2
        <4>2. holders = {j}
          BY <2>3, <4>1
        <4> QED BY <4>2, FS_Singleton
      <3> QED BY <3>1, <3>2
    <2>5. validLookback => (backfilling <=> holders # {})
      BY <2>1, <2>2 DEF HourlyIInv, BackfillHeld
    <2> QED BY <2>4, <2>5 DEF OneBackfill
  <1> QED BY <1>1, HourlyInvariant, PTL
-----------------------------------------------------------------------------
(* The write-behind buffer                                                 *)

\* WriteBehindIInv, seen by one field: what the buffer, the flush in flight and the store
\* hold of it.
FieldKept(f) ==
    /\ pendingHash.entries[f] = 0 \/ pendingHash.stale[f] = 0
    /\ batch.w.entries[f] = 0 \/ batch.w.stale[f] = 0
    /\ batch.at \in {"hdel", "ok"} /\ batch.w.entries[f] # 0 => stored[f] = batch.w.entries[f]
    /\ batch.at = "ok" /\ batch.w.stale[f] # 0 => stored[f] = batch.w.stale[f]
    /\ f \notin capped =>
         /\ Mentions(pendingHash, f) => Version(pendingHash, f) = asked[f]
         /\ ~Mentions(pendingHash, f) /\ Mentions(batch.w, f) => Version(batch.w, f) = asked[f]
         /\ ~Mentions(pendingHash, f) /\ ~Mentions(batch.w, f) => stored[f] = asked[f]

LEMMA KeptByField ==
    WriteBehindIInv <=> WriteBehindTypeOK /\ BatchEnds /\ DownIsEmpty /\ \A f \in Fields : FieldKept(f)
  BY DEF WriteBehindIInv, FieldKept, OneSide, NewestBuffered, NoWriteLost, SentIsStored

LEMMA EmptyBuffer ==
    /\ Empty \in Buffers /\ NoBatch.at = "none" /\ NoBatch.w = Empty
    /\ \A f \in Fields : Empty.entries[f] = 0 /\ Empty.stale[f] = 0 /\ ~Mentions(Empty, f)
    /\ NoBatch \in [at : {"none", "hset", "hdel", "ok", "failed"}, w : Buffers]
  BY DEF Empty, NoBatch, Buffers, Mentions

\* A step that moves neither the buffer nor the store.
LEMMA BufferStays ==
    ASSUME WriteBehindIInv, UNCHANGED <<asked, stored, pendingHash, batch, capped, writes>>,
           attempts' \in Nat, DownIsEmpty'
    PROVE  WriteBehindIInv'
  <1>1. WriteBehindTypeOK' /\ BatchEnds'
    BY DEF WriteBehindIInv, WriteBehindTypeOK, BatchEnds
  <1>2. \A f \in Fields : FieldKept(f)'
    BY KeptByField DEF FieldKept, Mentions, Version
  <1> QED BY <1>1, <1>2 DEF WriteBehindIInv, FieldKept, OneSide, NewestBuffered, NoWriteLost, SentIsStored

\* The other way about, for the state after a step.
LEMMA KeptAfter ==
    ASSUME WriteBehindTypeOK', BatchEnds', DownIsEmpty', \A f \in Fields : FieldKept(f)'
    PROVE  WriteBehindIInv'
  BY DEF WriteBehindIInv, FieldKept, OneSide, NewestBuffered, NoWriteLost, SentIsStored

\* Queueing (queueHashField, queueHashDrop).
LEMMA QueueKeeps ==
    ASSUME WriteBehindIInv, NEW f \in Fields, queueHashField(f) \/ queueHashDrop(f)
    PROVE  WriteBehindIInv'
  <1>0. /\ WriteBehindTypeOK /\ BatchEnds /\ \A g \in Fields : FieldKept(g)
    BY KeptByField
  <1>1. phase = "running" /\ writes' = writes + 1 /\ asked' = [asked EXCEPT ![f] = writes']
        /\ UNCHANGED <<stored, batch, phase, attempts, capped>>
    BY DEF queueHashField, queueHashDrop, NextWrite
  <1>2. writes' \in Nat /\ writes' # 0
    BY <1>0, <1>1 DEF WriteBehindTypeOK
  <1>3. /\ pendingHash' \in Buffers
        /\ \A g \in Fields \ {f} : /\ pendingHash'.entries[g] = pendingHash.entries[g]
                                   /\ pendingHash'.stale[g] = pendingHash.stale[g]
        /\ \/ pendingHash'.entries[f] = writes' /\ pendingHash'.stale[f] = 0
           \/ pendingHash'.entries[f] = 0 /\ pendingHash'.stale[f] = writes'
    <2>1. pendingHash.entries \in [Fields -> Nat] /\ pendingHash.stale \in [Fields -> Nat]
      BY <1>0 DEF WriteBehindTypeOK, Buffers
    <2>2. CASE queueHashField(f)
      <3>1. pendingHash' = [entries |-> [pendingHash.entries EXCEPT ![f] = writes'],
                            stale |-> [pendingHash.stale EXCEPT ![f] = 0]]
        BY <2>2 DEF queueHashField
      <3> QED BY <1>2, <2>1, <3>1 DEF Buffers
    <2>3. CASE queueHashDrop(f)
      <3>1. pendingHash' = [entries |-> [pendingHash.entries EXCEPT ![f] = 0],
                            stale |-> [pendingHash.stale EXCEPT ![f] = writes']]
        BY <2>3 DEF queueHashDrop
      <3> QED BY <1>2, <2>1, <3>1 DEF Buffers
    <2> QED BY <2>2, <2>3
  <1>4. WriteBehindTypeOK'
    BY <1>0, <1>1, <1>2, <1>3 DEF WriteBehindTypeOK
  <1>5. BatchEnds' /\ DownIsEmpty'
    BY <1>0, <1>1 DEF BatchEnds, DownIsEmpty
  <1>6. ASSUME NEW g \in Fields PROVE FieldKept(g)'
    <2>1. asked'[g] = IF g = f THEN writes' ELSE asked[g]
      BY <1>0, <1>1 DEF WriteBehindTypeOK
    <2>2. CASE g = f
      BY <1>0, <1>1, <1>2, <1>3, <2>1, <2>2 DEF FieldKept, Mentions, Version
    <2>3. CASE g # f
      BY <1>0, <1>1, <1>3, <2>1, <2>3 DEF FieldKept, Mentions, Version
    <2> QED BY <2>2, <2>3
  <1> QED BY <1>4, <1>5, <1>6, KeptAfter

\* The buffer is detached for a flush (beginFlushLocked).
LEMMA DetachKeeps ==
    ASSUME WriteBehindIInv, batch = NoBatch, detach, UNCHANGED <<asked, stored, capped, writes>>,
           phase' # "down", attempts' \in Nat
    PROVE  WriteBehindIInv'
  <1>0. WriteBehindTypeOK /\ \A f \in Fields : FieldKept(f)
    BY KeptByField
  <1>1. batch' = [at |-> "hset", w |-> pendingHash] /\ pendingHash' = Empty
    BY DEF detach
  <1>2. WriteBehindTypeOK'
    BY <1>0, <1>1, EmptyBuffer DEF WriteBehindTypeOK
  <1>3. BatchEnds' /\ DownIsEmpty'
    BY <1>1 DEF BatchEnds, DownIsEmpty
  <1>4. ASSUME NEW f \in Fields PROVE FieldKept(f)'
    <2>1. FieldKept(f) /\ ~Mentions(batch.w, f)
      BY <1>0, EmptyBuffer
    <2>2. batch'.at = "hset" /\ batch'.w = pendingHash
      BY <1>1
    <2>3. pendingHash'.entries[f] = 0 /\ pendingHash'.stale[f] = 0
      BY <1>1, EmptyBuffer
    <2> QED BY <2>1, <2>2, <2>3 DEF FieldKept, Mentions, Version
  <1> QED BY <1>2, <1>3, <1>4, KeptAfter

\* A command of the batch is sent: it commits, or fails before or after its commit.
LEMMA ExecKeeps ==
    ASSUME WriteBehindIInv, execHSet \/ execHDel \/ execFails
    PROVE  WriteBehindIInv'
  <1>0. WriteBehindTypeOK /\ BatchEnds /\ DownIsEmpty /\ \A f \in Fields : FieldKept(f)
    BY KeptByField
  <1>1. /\ batch.at \in {"hset", "hdel"} /\ UNCHANGED <<asked, pendingHash, phase, attempts, capped, writes>>
        /\ \/ batch.at = "hset" /\ batch' = [batch EXCEPT !.at = "hdel"] /\ stored' = HSet
           \/ batch.at = "hdel" /\ batch' = [batch EXCEPT !.at = "ok"] /\ stored' = HDel
           \/ /\ batch' = [batch EXCEPT !.at = "failed"]
              /\ stored' = stored \/ stored' = HSet \/ stored' = HDel
    BY DEF execHSet, execHDel, execFails
  <1>2. /\ batch'.w = batch.w /\ batch'.at \in {"hdel", "ok", "failed"}
        /\ batch' \in [at : {"none", "hset", "hdel", "ok", "failed"}, w : Buffers]
    BY <1>0, <1>1 DEF WriteBehindTypeOK
  <1>3. batch.w.entries \in [Fields -> Nat] /\ batch.w.stale \in [Fields -> Nat]
    BY <1>0 DEF WriteBehindTypeOK, Buffers
  <1>4. /\ HSet \in [Fields -> Nat] /\ HDel \in [Fields -> Nat]
        /\ \A f \in Fields : /\ HSet[f] = IF batch.w.entries[f] # 0 THEN batch.w.entries[f] ELSE stored[f]
                             /\ HDel[f] = IF batch.w.stale[f] # 0 THEN batch.w.stale[f] ELSE stored[f]
    BY <1>0, <1>3 DEF WriteBehindTypeOK, HSet, HDel, Written, Deleted
  <1>5. WriteBehindTypeOK'
    BY <1>0, <1>1, <1>2, <1>4 DEF WriteBehindTypeOK
  <1>6. BatchEnds'
    BY <1>2 DEF BatchEnds
  <1>7. DownIsEmpty'
    BY <1>0, <1>1, EmptyBuffer DEF DownIsEmpty
  <1>8. ASSUME NEW f \in Fields PROVE FieldKept(f)'
    <2>1. CASE batch.at = "hset" /\ batch'.at = "hdel" /\ stored' = HSet
      BY <1>0, <1>1, <1>2, <1>4, <2>1 DEF FieldKept, Mentions, Version
    <2>2. CASE batch.at = "hdel" /\ batch'.at = "ok" /\ stored' = HDel
      BY <1>0, <1>1, <1>2, <1>4, <2>2 DEF FieldKept, Mentions, Version
    <2>3. CASE batch'.at = "failed" /\ (stored' = stored \/ stored' = HSet \/ stored' = HDel)
      BY <1>0, <1>1, <1>2, <1>4, <2>3 DEF FieldKept, Mentions, Version
    <2>4. batch' = [batch EXCEPT !.at = "hdel"] => batch'.at = "hdel"
      BY <1>0 DEF WriteBehindTypeOK
    <2>5. batch' = [batch EXCEPT !.at = "ok"] => batch'.at = "ok"
      BY <1>0 DEF WriteBehindTypeOK
    <2>6. batch' = [batch EXCEPT !.at = "failed"] => batch'.at = "failed"
      BY <1>0 DEF WriteBehindTypeOK
    <2> QED BY <1>1, <2>1, <2>2, <2>3, <2>4, <2>5, <2>6
  <1> QED BY <1>5, <1>6, <1>7, <1>8, KeptAfter


\* What is buffered after a failed flush: the newer of both, less what overflowed
\* (requeueFailedWritesLocked).
LEMMA SettledField ==
    ASSUME WriteBehindTypeOK, settleFailed
    PROVE  /\ pendingHash' \in Buffers /\ capped \subseteq capped' /\ capped' \subseteq Fields
           /\ \A f \in Fields :
                \/ /\ Mentions(pendingHash, f)
                   /\ pendingHash'.entries[f] = pendingHash.entries[f] /\ pendingHash'.stale[f] = pendingHash.stale[f]
                \/ /\ ~Mentions(pendingHash, f)
                   /\ pendingHash'.entries[f] = batch.w.entries[f] /\ pendingHash'.stale[f] = batch.w.stale[f]
                \/ /\ f \in capped' /\ pendingHash'.entries[f] = 0
                   /\ pendingHash'.stale[f] = (IF Mentions(pendingHash, f) THEN pendingHash ELSE batch.w).stale[f]
                   /\ (IF Mentions(pendingHash, f) THEN pendingHash ELSE batch.w).entries[f] # 0
  <1> DEFINE w == requeued(batch.w, pendingHash)
             drop == overflow(w)
             kept == [f \in Fields |-> IF f \in drop THEN 0 ELSE w.entries[f]]
  <1>1. pendingHash' = [w EXCEPT !.entries = kept] /\ capped' = capped \cup drop
    BY DEF settleFailed
  <1>2. /\ pendingHash.entries \in [Fields -> Nat] /\ pendingHash.stale \in [Fields -> Nat]
        /\ batch.w.entries \in [Fields -> Nat] /\ batch.w.stale \in [Fields -> Nat]
    BY DEF WriteBehindTypeOK, Buffers
  <1>3. /\ w = [entries |-> w.entries, stale |-> w.stale]
        /\ w.entries \in [Fields -> Nat] /\ w.stale \in [Fields -> Nat]
        /\ \A f \in Fields : /\ w.entries[f] = (IF Mentions(pendingHash, f) THEN pendingHash ELSE batch.w).entries[f]
                             /\ w.stale[f] = (IF Mentions(pendingHash, f) THEN pendingHash ELSE batch.w).stale[f]
    BY <1>2 DEF requeued, Mentions
  <1>4. drop \subseteq Fields /\ \A f \in drop : w.entries[f] # 0
    BY DEF overflow, Written
  <1> HIDE DEF w, drop
  <1>5. pendingHash' = [entries |-> kept, stale |-> w.stale]
    BY <1>1, <1>3
  <1>6. kept \in [Fields -> Nat] /\ \A f \in Fields : kept[f] = IF f \in drop THEN 0 ELSE w.entries[f]
    BY <1>3
  <1> HIDE DEF kept
  <1>7. pendingHash' \in Buffers /\ pendingHash'.entries = kept /\ pendingHash'.stale = w.stale
    BY <1>3, <1>5, <1>6 DEF Buffers
  <1>8. capped \subseteq capped' /\ capped' \subseteq Fields
    BY <1>1, <1>4 DEF WriteBehindTypeOK
  <1>9. ASSUME NEW f \in Fields
        PROVE  \/ /\ Mentions(pendingHash, f)
                  /\ pendingHash'.entries[f] = pendingHash.entries[f] /\ pendingHash'.stale[f] = pendingHash.stale[f]
               \/ /\ ~Mentions(pendingHash, f)
                  /\ pendingHash'.entries[f] = batch.w.entries[f] /\ pendingHash'.stale[f] = batch.w.stale[f]
               \/ /\ f \in capped' /\ pendingHash'.entries[f] = 0
                  /\ pendingHash'.stale[f] = (IF Mentions(pendingHash, f) THEN pendingHash ELSE batch.w).stale[f]
                  /\ (IF Mentions(pendingHash, f) THEN pendingHash ELSE batch.w).entries[f] # 0
    <2>1. CASE f \in drop
      BY <1>1, <1>3, <1>4, <1>6, <1>7, <2>1
    <2>2. CASE f \notin drop
      BY <1>3, <1>6, <1>7, <2>2
    <2> QED BY <2>1, <2>2
  <1> QED BY <1>7, <1>8, <1>9

\* A flush ends (runFlush).
LEMMA FlushEndKeeps ==
    ASSUME WriteBehindIInv, runFlushEnds
    PROVE  WriteBehindIInv'
  <1>0. WriteBehindTypeOK /\ BatchEnds /\ DownIsEmpty /\ \A f \in Fields : FieldKept(f)
    BY KeptByField
  <1>1. batch.at \in {"ok", "failed"} /\ batch' = NoBatch /\ UNCHANGED <<asked, stored, attempts, writes>>
    BY DEF runFlushEnds
  <1>2. \A f \in Fields : ~Mentions(batch'.w, f)
    BY <1>1, EmptyBuffer
  <1>3. BatchEnds'
    BY <1>1 DEF BatchEnds
  <1>4. DownIsEmpty'
    <2>1. phase' = "down" => phase = "down" \/ pendingHash' = Empty
      BY DEF runFlushEnds
    <2>2. phase = "down" /\ attempts < 4 => FALSE
      BY <1>0, <1>1, EmptyBuffer DEF DownIsEmpty
    <2> QED BY <1>1, <2>1, <2>2 DEF DownIsEmpty
  <1>5. CASE batch.at = "ok"
    <2>1. UNCHANGED <<pendingHash, capped>>
      BY <1>5 DEF runFlushEnds
    <2>2. WriteBehindTypeOK'
      BY <1>0, <1>1, <2>1, EmptyBuffer DEF WriteBehindTypeOK
    <2>3. ASSUME NEW f \in Fields PROVE FieldKept(f)'
      <3>1. FieldKept(f) /\ ~Mentions(batch'.w, f)
        BY <1>0, <1>2
      <3>2. Mentions(batch.w, f) => stored[f] = Version(batch.w, f)
        BY <1>5, <3>1 DEF FieldKept, Mentions, Version
      <3>3. batch'.at = "none"
        BY <1>1, EmptyBuffer
      <3> QED BY <1>1, <2>1, <3>1, <3>2, <3>3 DEF FieldKept, Mentions, Version
    <2> QED BY <1>3, <1>4, <2>2, <2>3, KeptAfter
  <1>6. CASE batch.at = "failed"
    <2>1. settleFailed
      BY <1>6 DEF runFlushEnds
    <2>2. WriteBehindTypeOK'
      BY <1>0, <1>1, <2>1, EmptyBuffer, SettledField DEF WriteBehindTypeOK
    <2>3. ASSUME NEW f \in Fields PROVE FieldKept(f)'
      <3>1. FieldKept(f) /\ ~Mentions(batch'.w, f)
        BY <1>0, <1>2
      <3>2. batch'.at = "none" /\ (f \notin capped' => f \notin capped)
        BY <1>0, <1>1, <2>1, EmptyBuffer, SettledField
      <3>3. \/ /\ Mentions(pendingHash, f)
               /\ pendingHash'.entries[f] = pendingHash.entries[f] /\ pendingHash'.stale[f] = pendingHash.stale[f]
            \/ /\ ~Mentions(pendingHash, f)
               /\ pendingHash'.entries[f] = batch.w.entries[f] /\ pendingHash'.stale[f] = batch.w.stale[f]
            \/ f \in capped' /\ pendingHash'.entries[f] = 0
        BY <1>0, <2>1, SettledField
      <3>4. pendingHash'.entries[f] = 0 \/ pendingHash'.stale[f] = 0
        BY <3>1, <3>3 DEF FieldKept
      <3> QED BY <1>1, <3>1, <3>2, <3>3, <3>4 DEF FieldKept, Mentions, Version
    <2> QED BY <1>3, <1>4, <2>2, <2>3, KeptAfter
  <1> QED BY <1>1, <1>5, <1>6

\* The parts that make WritesKept inductive.
THEOREM WriteBehindInvariant == WriteBehindSpec => []WriteBehindIInv
  <1>1. WriteBehindInit => WriteBehindIInv
    <2> SUFFICES ASSUME WriteBehindInit PROVE WriteBehindIInv
      OBVIOUS
    <2>1. WriteBehindTypeOK /\ BatchEnds /\ DownIsEmpty
      BY EmptyBuffer DEF WriteBehindInit, WriteBehindTypeOK, BatchEnds, DownIsEmpty
    <2>2. ASSUME NEW f \in Fields PROVE FieldKept(f)
      BY EmptyBuffer DEF WriteBehindInit, FieldKept
    <2> QED BY <2>1, <2>2, KeptByField
  <1>2. WriteBehindIInv /\ [WriteBehindNext]_writeBehindVars => WriteBehindIInv'
    <2> SUFFICES ASSUME WriteBehindIInv, [WriteBehindNext]_writeBehindVars PROVE WriteBehindIInv'
      OBVIOUS
    <2>0. attempts \in Nat /\ attempts + 1 \in Nat /\ 4 \in Nat /\ DownIsEmpty
      BY DEF WriteBehindIInv, WriteBehindTypeOK
    <2>1. ASSUME NEW f \in Fields, queueHashField(f) \/ queueHashDrop(f) PROVE WriteBehindIInv'
      BY <2>1, QueueKeeps
    <2>2. CASE flush
      <3>1. CASE batch # NoBatch
        BY <2>0, <2>2, <3>1, BufferStays DEF flush, DownIsEmpty
      <3>2. CASE batch = NoBatch
        BY <2>0, <2>2, <3>2, DetachKeeps DEF flush
      <3> QED BY <3>1, <3>2
    <2>3. CASE execHSet \/ execHDel \/ execFails
      BY <2>3, ExecKeeps
    <2>4. CASE runFlushEnds
      BY <2>4, FlushEndKeeps
    <2>5. CASE flushAgainRuns
      <3>1. CASE hasPending /\ ~muted
        BY <2>0, <2>5, <3>1, DetachKeeps DEF flushAgainRuns
      <3>2. CASE ~(hasPending /\ ~muted)
        BY <2>0, <2>5, <3>2, BufferStays DEF flushAgainRuns, DownIsEmpty
      <3> QED BY <3>1, <3>2
    <2>6. CASE MuteEnds
      BY <2>0, <2>6, BufferStays DEF MuteEnds, bufferVars, DownIsEmpty
    <2>7. CASE StopCapture
      BY <2>0, <2>7, BufferStays DEF StopCapture, bufferVars, DownIsEmpty
    <2>8. CASE FlushNowWaits
      BY <2>0, <2>8, BufferStays DEF FlushNowWaits, bufferVars, DownIsEmpty
    <2>9. CASE FlushNow
      <3>1. CASE hasPending /\ attempts < 4
        BY <2>0, <2>9, <3>1, DetachKeeps DEF FlushNow
      <3>2. CASE ~(hasPending /\ attempts < 4)
        <4>1. batch = NoBatch /\ UNCHANGED <<pendingHash, batch, attempts>>
          BY <2>9, <3>2 DEF FlushNow, bufferVars
        <4>2. DownIsEmpty'
          BY <3>2, <4>1 DEF DownIsEmpty, hasPending
        <4> QED BY <2>0, <2>9, <4>1, <4>2, BufferStays DEF FlushNow
      <3> QED BY <3>1, <3>2
    <2>10. CASE FlushNowExpires
      BY <2>0, <2>10, BufferStays DEF FlushNowExpires, bufferVars, DownIsEmpty
    <2>11. CASE UNCHANGED writeBehindVars
      BY <2>0, <2>11, BufferStays DEF writeBehindVars, bufferVars, DownIsEmpty
    <2> QED BY <2>1, <2>2, <2>3, <2>4, <2>5, <2>6, <2>7, <2>8, <2>9, <2>10, <2>11 DEF WriteBehindNext
  <1> QED BY <1>1, <1>2, PTL DEF WriteBehindSpec

\* No buffered write is lost: whatever flushes failed, with or without a commit, a field in no
\* buffer is stored as last asked, and a shutdown that neither ran out of attempts nor of time
\* leaves every field so (requeueFailedWritesLocked, FlushNow).
THEOREM WritesAlwaysKept == WriteBehindSpec => []WritesKept
  <1>1. WriteBehindIInv => WritesKept
    <2> SUFFICES ASSUME WriteBehindIInv PROVE ShutdownFlushes
      BY DEF WriteBehindIInv, WritesKept
    <2> SUFFICES ASSUME phase = "down", attempts < 4, NEW f \in Fields \ capped PROVE stored[f] = asked[f]
      BY DEF ShutdownFlushes
    <2>1. pendingHash = Empty /\ batch = NoBatch
      BY DEF WriteBehindIInv, DownIsEmpty
    <2> QED BY <2>1, EmptyBuffer DEF WriteBehindIInv, NoWriteLost
  <1> QED BY <1>1, WriteBehindInvariant, PTL

-----------------------------------------------------------------------------
(* The end-of-day capture                                                  *)

\* A finite set in a sequence: every element is there, and nothing else.
LEMMA SetListed ==
    ASSUME NEW S, IsFiniteSet(S)
    PROVE  /\ SetToSeq(S) \in Seq(S)
           /\ \A x \in S : \E i \in DOMAIN SetToSeq(S) : SetToSeq(S)[i] = x
           /\ \A i \in DOMAIN SetToSeq(S) : SetToSeq(S)[i] \in S
  <1> DEFINE n == Cardinality(S)
             f == SetToSeq(S)
  <1>1. n \in Nat /\ ExistsBijection(1 .. n, S)
    BY FS_CardinalityType
  <1>2. \E g : g \in [1 .. n -> S] /\ IsInjective(g)
    BY <1>1 DEF ExistsBijection, Bijection, Injection
  <1>3. f \in [1 .. n -> S] /\ IsInjective(f)
    BY <1>2 DEF SetToSeq
  <1>4. f \in Injection(1 .. n, S)
    BY <1>3 DEF Injection
  <1>5. Cardinality(1 .. n) = n /\ IsFiniteSet(1 .. n)
    BY <1>1, FS_Interval
  <1> HIDE DEF f
  <1>6. f \in Surjection(1 .. n, S)
    BY <1>4, <1>5, FS_Injection
  <1>7. f \in Seq(S) /\ DOMAIN f = 1 .. n
    BY <1>1, <1>3, SeqDef
  <1> QED BY <1>3, <1>6, <1>7 DEF Surjection, f

\* The spread a day ends with, when more is queued.
LEMMA EndsQueued ==
    ASSUME NEW q \in Seq(SpreadRows), NEW r \in Seq(SpreadRows), NEW d, NEW was, NEW spread
    PROVE  /\ q \o r \in Seq(SpreadRows)
           /\ AllOf(r, d, spread) => EndsAs(q \o r, d, was, spread)
           /\ (\A i \in DOMAIN r : r[i][1] # d) /\ EndsAs(q, d, was, spread) => EndsAs(q \o r, d, was, spread)
  <1> DEFINE s == q \o r
  <1>1. /\ s \in Seq(SpreadRows) /\ DOMAIN q = 1 .. Len(q) /\ DOMAIN r = 1 .. Len(r)
        /\ DOMAIN s = 1 .. Len(q) + Len(r) /\ Len(q) \in Nat /\ Len(r) \in Nat
        /\ \A i \in 1 .. Len(q) : s[i] = q[i]
        /\ \A i \in 1 .. Len(r) : s[Len(q) + i] = r[i]
    BY ConcatProperties, LenProperties
  <1> HIDE DEF s
  <1>2. \A i \in DOMAIN s : i \in DOMAIN q \/ (i - Len(q) \in DOMAIN r /\ s[i] = r[i - Len(q)] /\ i > Len(q))
    BY <1>1
  <1>3. \A i \in DOMAIN r : Len(q) + i \in DOMAIN s /\ s[Len(q) + i] = r[i] /\ Len(q) + i > Len(q)
    BY <1>1
  <1>4. ASSUME AllOf(r, d, spread) PROVE EndsAs(s, d, was, spread)
    <2>1. PICK k \in DOMAIN r : r[k][1] = d
      BY <1>4 DEF AllOf
    <2>2. Len(q) + k \in DOMAIN s /\ s[Len(q) + k][1] = d
      BY <1>3, <2>1
    <2>3. ASSUME NEW i \in DOMAIN s, s[i][1] = d, \A j \in DOMAIN s : j > i => s[j][1] # d
          PROVE  s[i][2] = spread
      <3>1. i \notin DOMAIN q
        BY <1>1, <2>1, <2>2, <2>3
      <3> QED BY <1>2, <1>4, <2>3, <3>1 DEF AllOf
    <2> QED BY <2>2, <2>3 DEF EndsAs
  <1>5. ASSUME \A i \in DOMAIN r : r[i][1] # d, EndsAs(q, d, was, spread) PROVE EndsAs(s, d, was, spread)
    <2>1. \A i \in DOMAIN s : s[i][1] = d => i \in DOMAIN q /\ s[i] = q[i]
      BY <1>1, <1>2, <1>5
    <2>2. \A i \in DOMAIN q : i \in DOMAIN s /\ s[i] = q[i]
      BY <1>1
    <2> QED BY <1>5, <2>1, <2>2 DEF EndsAs
  <1> QED BY <1>1, <1>4, <1>5 DEF s

\* The spread a day ends with, when the first one is written.
LEMMA EndsWritten ==
    ASSUME NEW q \in Seq(SpreadRows), q # <<>>, NEW d, NEW was, NEW spread, EndsAs(q, d, was, spread)
    PROVE  /\ Tail(q) \in Seq(SpreadRows) /\ Head(q) \in SpreadRows
           /\ EndsAs(Tail(q), d, IF Head(q)[1] = d THEN Head(q)[2] ELSE was, spread)
  <1> DEFINE r == Tail(q)
  <1>1. /\ r \in Seq(SpreadRows) /\ DOMAIN r = 1 .. Len(r) /\ DOMAIN q = 1 .. Len(r) + 1 /\ Len(r) \in Nat
        /\ \A i \in 1 .. Len(r) : r[i] = q[i + 1]
        /\ q[1] = Head(q) /\ Head(q) \in SpreadRows
    BY HeadTailProperties, LenProperties
  <1> HIDE DEF r
  <1>2. \A j \in DOMAIN q : j = 1 \/ (j - 1 \in DOMAIN r /\ q[j] = r[j - 1])
    BY <1>1
  <1>3. ASSUME NEW i \in DOMAIN r, r[i][1] = d, \A j \in DOMAIN r : j > i => r[j][1] # d
        PROVE  r[i][2] = spread
    <2>1. i + 1 \in DOMAIN q /\ q[i + 1] = r[i]
      BY <1>1
    <2>2. \A j \in DOMAIN q : j > i + 1 => j - 1 \in DOMAIN r /\ q[j] = r[j - 1] /\ j - 1 > i
      BY <1>1
    <2> QED BY <1>3, <2>1, <2>2 DEF EndsAs
  <1>4. ASSUME \A i \in DOMAIN r : r[i][1] # d
        PROVE  (IF Head(q)[1] = d THEN Head(q)[2] ELSE was) = spread
    <2>1. 1 \in DOMAIN q /\ \A j \in DOMAIN q : j > 1 => q[j][1] # d
      BY <1>1, <1>2, <1>4
    <2>2. CASE Head(q)[1] = d
      BY <1>1, <2>1, <2>2 DEF EndsAs
    <2>3. CASE Head(q)[1] # d
      <3>1. \A j \in DOMAIN q : q[j][1] # d
        BY <1>1, <1>2, <1>4, <2>3
      <3> QED BY <2>3, <3>1 DEF EndsAs
    <2> QED BY <2>2, <2>3
  <1> QED BY <1>1, <1>3, <1>4 DEF EndsAs, r

\* Rows queued behind, and the first one taken away.
LEMMA RowsQueued ==
    ASSUME NEW q \in Seq(FutureRows), NEW S \in SUBSET FutureRows, IsFiniteSet(S)
    PROVE  /\ q \o SetToSeq(S) \in Seq(FutureRows)
           /\ \A i \in DOMAIN (q \o SetToSeq(S)) :
                 (i \in DOMAIN q /\ (q \o SetToSeq(S))[i] = q[i]) \/ (q \o SetToSeq(S))[i] \in S
           /\ q # <<>> => q \o SetToSeq(S) # <<>> /\ Head(q \o SetToSeq(S)) = Head(q)
  <1> DEFINE r == SetToSeq(S)
             s == q \o r
  <1>1. r \in Seq(S) /\ \A i \in DOMAIN r : r[i] \in S
    BY SetListed
  <1>2. r \in Seq(FutureRows)
    BY <1>1, SeqDef
  <1> HIDE DEF r
  <1>3. /\ s \in Seq(FutureRows) /\ DOMAIN q = 1 .. Len(q) /\ DOMAIN r = 1 .. Len(r)
        /\ DOMAIN s = 1 .. Len(q) + Len(r) /\ Len(q) \in Nat /\ Len(r) \in Nat /\ Len(s) = Len(q) + Len(r)
        /\ \A i \in 1 .. Len(q) : s[i] = q[i]
        /\ \A i \in 1 .. Len(r) : s[Len(q) + i] = r[i]
    BY <1>2, ConcatProperties, LenProperties
  <1> HIDE DEF s
  <1>4. \A i \in DOMAIN s : i \in DOMAIN q \/ (i - Len(q) \in DOMAIN r /\ s[i] = r[i - Len(q)])
    BY <1>3
  <1>5. \A i \in DOMAIN s : (i \in DOMAIN q /\ s[i] = q[i]) \/ s[i] \in S
    BY <1>1, <1>3, <1>4
  <1>6. ASSUME q # <<>> PROVE s # <<>> /\ Head(s) = Head(q)
    <2>1. Len(q) # 0
      BY <1>6, EmptySeq
    <2>2. s # <<>> /\ s[1] = q[1]
      BY <1>3, <2>1
    <2> QED BY <1>3, <1>6, <2>2
  <1> QED BY <1>3, <1>5, <1>6 DEF s, r

\* Finite days and rows.
LEMMA EodFinite == IsFiniteSet(FutureRows) /\ IsFiniteSet(SpreadRows) /\ 1 \in Days /\ 0 \in Days
  <1>1. IsFiniteSet(Days) /\ IsFiniteSet(Contracts)
    <2>1. MaxDay \in Int /\ 0 \in Int /\ 1 \in Int /\ 3 \in Int
      BY EodBounds
    <2>2. IsFiniteSet(0 .. MaxDay) /\ IsFiniteSet(1 .. 3)
      BY <2>1, FS_Interval
    <2> QED BY <2>2 DEF Days, Contracts
  <1>2. IsFiniteSet(SUBSET Contracts)
    BY <1>1, FS_SUBSET
  <1>3. IsFiniteSet(FutureRows) /\ IsFiniteSet(SpreadRows)
    BY <1>1, <1>2, FS_Product DEF FutureRows, SpreadRows
  <1> QED BY <1>3, EodBounds DEF Days

\* The seed (EodCapture's boot).
LEMMA EodStarts == EodInit => EodIInv
  <1> SUFFICES ASSUME EodInit PROVE EodIInv
    OBVIOUS
  <1>1. /\ NoRun \in RunStates /\ NoRun.pc = "idle" /\ NoRun.docs = <<>>
        /\ <<>> \in Seq(FutureRows) /\ <<>> \in Seq(SpreadRows)
    BY DEF NoRun, Run, RunStates
  <1>2. /\ today = 1 /\ futures = <<>> /\ spreads = <<>> /\ drainingStockFutures = FALSE
        /\ stockFutures = {<<0, 1>>, <<0, 2>>} /\ excused = {}
        /\ spreadDaily = [d \in Days |-> IF d = 0 THEN {1, 2} ELSE {}] /\ run = [j \in EodJobs |-> NoRun]
    BY DEF EodInit
  <1>3. \A j \in EodJobs : run[j] = NoRun
    BY <1>2
  <1>4. "tick" \in EodJobs
    BY DEF EodJobs
  <1>5. DOMAIN futures = {} /\ DOMAIN spreads = {} /\ DOMAIN NoRun.docs = {}
    BY <1>1, <1>2
  <1>6. EodTypeOK
    <2>1. today \in Days
      BY <1>2, EodFinite
    <2>2. stockFutures \subseteq FutureRows
      BY <1>2, EodFinite DEF FutureRows, Contracts
    <2>3. spreadDaily \in [Days -> SUBSET Contracts]
      BY <1>2 DEF Contracts
    <2>4. run \in [EodJobs -> RunStates]
      BY <1>1, <1>2
    <2> QED BY <1>1, <1>2, <2>1, <2>2, <2>3, <2>4 DEF EodTypeOK
  <1>7. OneDrains /\ RowsComing /\ OneReads
    BY <1>1, <1>3, <1>4, <1>5 DEF OneDrains, RowsComing, OneReads, DrainsFutures, Pushes
  <1>8. SpreadComing
    <2> SUFFICES ASSUME NEW d \in Days, hasTwo(d)
                 PROVE  /\ \A k \in EodJobs : ~Pushes(k, d)
                        /\ EndsAs(spreads, d, spreadDaily[d], twoNearest(d))
      BY DEF SpreadComing
    <2>1. \A k \in EodJobs : ~Pushes(k, d)
      BY <1>1, <1>3 DEF Pushes
    <2>2. d = 0
      <3>1. ASSUME d # 0 PROVE FALSE
        <4>1. StockFuturesOn(d) = {}
          BY <1>2, <3>1 DEF StockFuturesOn
        <4> QED BY <4>1, FS_EmptySet DEF hasTwo
      <3> QED BY <3>1
    <2>3. StockFuturesOn(0) = {1, 2}
      BY <1>2 DEF StockFuturesOn, Contracts
    <2>4. twoNearest(0) = {1, 2}
      <3>1. {e \in {1, 2} : e < 1} = {} /\ {e \in {1, 2} : e < 2} = {1}
        OBVIOUS
      <3>2. Cardinality({}) = 0 /\ Cardinality({1}) = 1
        BY FS_EmptySet, FS_Singleton
      <3>3. \A c \in {1, 2} : Cardinality({e \in {1, 2} : e < c}) < 2
        BY <3>1, <3>2
      <3> QED BY <2>3, <3>3 DEF twoNearest
    <2>5. spreadDaily[d] = twoNearest(d)
      BY <1>2, <2>2, <2>4, EodFinite
    <2> QED BY <1>5, <2>1, <2>5 DEF EndsAs
  <1> QED BY <1>6, <1>7, <1>8 DEF EodIInv

\* A run goes on: the days it would still read stay with it or are excused, and it holds no spread.
LEMMA RunMoves ==
    ASSUME EodIInv, NEW j \in EodJobs, NEW r \in RunStates, run' = [run EXCEPT ![j] = r],
           UNCHANGED <<spreads, stockFutures, spreadDaily>>, today' \in Days, futures' \in Seq(FutureRows),
           \A i \in DOMAIN futures' : \/ \E k \in DOMAIN futures : futures'[i] = futures[k]
                                      \/ futures'[i][1] \in r.days /\ r.pc \in NotYetDrained,
           drainingStockFutures' \in BOOLEAN, OneDrains', excused \subseteq excused',
           run[j].pc # "push", r.pc # "push",
           run[j].pc \in NotYetRead =>
               \A d \in run[j].days : d \in excused' \/ (r.pc \in NotYetRead /\ d \in r.days),
           run[j].pc \in NotYetDrained =>
               \A d \in run[j].days : \/ d \in excused' \/ (r.pc \in NotYetDrained /\ d \in r.days)
                                       \/ \A i \in DOMAIN futures' : futures'[i][1] # d
    PROVE  EodIInv'
  <1> USE DEF EodIInv
  <1>1. /\ run' \in [EodJobs -> RunStates] /\ run'[j] = r /\ \A k \in EodJobs : k # j => run'[k] = run[k]
    BY DEF EodTypeOK
  <1>2. EodTypeOK'
    BY <1>1 DEF EodTypeOK
  <1>3. ASSUME NEW d, d \notin excused', WillRead(d) PROVE WillRead(d)'
    <2>1. PICK k \in EodJobs : d \in run[k].days /\ run[k].pc \in NotYetRead
      BY <1>3 DEF WillRead
    <2> QED BY <1>1, <1>3, <2>1 DEF WillRead
  <1>4. RowsComing'
    <2>1. ASSUME NEW i \in DOMAIN futures', NEW d, d = futures'[i][1], d \notin excused'
          PROVE  WillDrain(d)'
      <3>1. CASE d \in r.days /\ r.pc \in NotYetDrained
        BY <1>1, <3>1 DEF WillDrain
      <3>2. CASE \E k \in DOMAIN futures : futures'[i] = futures[k]
        <4>1. WillDrain(d)
          BY <2>1, <3>2 DEF RowsComing
        <4>2. PICK k \in EodJobs : d \in run[k].days /\ run[k].pc \in NotYetDrained
          BY <4>1 DEF WillDrain
        <4> QED BY <1>1, <2>1, <4>2 DEF WillDrain
      <3> QED BY <2>1, <3>1, <3>2
    <2> QED BY <2>1 DEF RowsComing
  <1>5. \A k \in EodJobs : \A d : (Pushes(k, d)' <=> Pushes(k, d)) /\ (Pushes(k, d) => run'[k] = run[k])
    BY <1>1 DEF Pushes
  <1>6. OneReads'
    BY <1>5 DEF OneReads
  <1>7. \A d : hasTwo(d)' = hasTwo(d) /\ twoNearest(d)' = twoNearest(d)
    BY DEF hasTwo, twoNearest, StockFuturesOn
  <1>8. SpreadComing'
    <2> SUFFICES ASSUME NEW d \in Days \ excused', hasTwo(d)', ~WillRead(d)'
                 PROVE  /\ \A k \in EodJobs : Pushes(k, d)' => AllOf(run'[k].docs, d, twoNearest(d)')
                        /\ (\A k \in EodJobs : ~Pushes(k, d)') => EndsAs(spreads', d, spreadDaily'[d], twoNearest(d)')
      BY DEF SpreadComing, AllOf, EndsAs
    <2>1. d \in Days \ excused /\ hasTwo(d) /\ ~WillRead(d)
      BY <1>3, <1>7
    <2> QED BY <1>5, <1>7, <2>1 DEF SpreadComing
  <1> QED BY <1>2, <1>4, <1>6, <1>8

\* Where a run is after one of its steps.
LEMMA RunGoes ==
    ASSUME EodTypeOK, NEW j \in EodJobs,
           NEW pc \in NotYetRead \cup {"idle", "push", "slock", "shead", "supsert", "read", "replace"}
    PROVE  LET r == [run[j] EXCEPT !.pc = pc]
           IN  /\ r \in RunStates /\ r.pc = pc /\ r.days = run[j].days /\ r.docs = run[j].docs /\ r.doc = run[j].doc
               /\ [run EXCEPT ![j].pc = pc] = [run EXCEPT ![j] = r]
  BY DEF EodTypeOK, RunStates

LEMMA RunMade ==
    ASSUME NEW pc \in NotYetRead \cup {"idle", "push", "slock", "shead", "supsert", "read", "replace"},
           NEW days \in SUBSET Days, NEW todo \in SUBSET Contracts, NEW doc \in FutureRows \cup {NoDoc},
           NEW docs \in Seq(SpreadRows), NEW snap \in SUBSET Days
    PROVE  LET r == Run(pc, days, todo, doc, docs, snap)
           IN  r \in RunStates /\ r.pc = pc /\ r.days = days /\ r.docs = docs /\ r.doc = doc
  BY DEF Run, RunStates

LEMMA NoRunMade == NoRun \in RunStates /\ NoRun.pc = "idle" /\ NoRun.days = {} /\ NoRun.docs = <<>> /\ DOMAIN NoRun.docs = {}
  <1>1. <<>> \in Seq(SpreadRows)
    OBVIOUS
  <1> QED BY <1>1 DEF RunStates, NoRun, Run

\* Runs that start: a capture, a recompute, a reconciliation, a backfill.
LEMMA RunsStart ==
    ASSUME EodIInv, captureEodData \/ recomputeTick \/ (\E j \in Checks : checkAndRecompute(j))
                    \/ (\E j \in Backfills : BackfillStockFutures(j))
    PROVE  EodIInv'
  <1> USE DEF EodIInv
  <1>1. ASSUME NEW j \in EodJobs, NEW pc \in {"fetch", "read"}, NEW days \in SUBSET Days, NEW todo \in SUBSET Contracts,
               run[j].pc = "idle",
               run' = [run EXCEPT ![j] = Run(pc, days, todo, NoDoc, <<>>, {})], j = "tick" => days = {},
               UNCHANGED <<futures, spreads, stockFutures, spreadDaily, today, drainingStockFutures, spreadLock, excused>>
        PROVE  EodIInv'
    <2> DEFINE r == Run(pc, days, todo, NoDoc, <<>>, {})
    <2>1. r \in RunStates /\ r.pc = pc /\ r.days = days /\ r.docs = <<>>
      <3>1. <<>> \in Seq(SpreadRows)
        OBVIOUS
      <3> QED BY <3>1 DEF Run, RunStates, NotYetRead, NotYetDrained, DrainsFutures
    <2> HIDE DEF r
    <2>2. /\ run'[j] = r /\ \A k \in EodJobs : k # j => run'[k] = run[k]
      BY <1>1 DEF EodTypeOK, r
    <2>3. DOMAIN r.docs = {}
      BY <2>1
    <2>4. OneDrains'
      BY <1>1, <2>1, <2>2, <2>3 DEF OneDrains, DrainsFutures
    <2> QED BY <1>1, <2>1, <2>4, RunMoves DEF EodTypeOK, r, NotYetRead, NotYetDrained, DrainsFutures
  <1>2. "tick" \in EodJobs /\ Checks \subseteq EodJobs /\ Backfills \subseteq EodJobs
    BY DEF EodJobs
  <1>3. {} \in SUBSET Days /\ {} \in SUBSET Contracts
    OBVIOUS
  <1>4. CASE captureEodData
    <2>1. CASE starts("tick", "fetch")
      BY <1>1, <1>2, <1>3, <1>4, <2>1 DEF captureEodData, starts, queueVars, tableVars
    <2>2. CASE UNCHANGED run
      <3>1. UNCHANGED <<futures, spreads, stockFutures, spreadDaily, today, drainingStockFutures, spreadLock, excused, run>>
        BY <1>4, <2>2 DEF captureEodData, queueVars, tableVars
      <3>2. EodTypeOK' /\ OneDrains'
        BY <3>1 DEF EodTypeOK, OneDrains
      <3>3. RowsComing' /\ OneReads'
        BY <3>1 DEF RowsComing, OneReads, WillDrain, Pushes
      <3>4. SpreadComing'
        BY <3>1 DEF SpreadComing, WillRead, Pushes, hasTwo, twoNearest, StockFuturesOn, AllOf, EndsAs
      <3> QED BY <3>2, <3>3, <3>4
    <2> QED BY <1>4, <2>1, <2>2 DEF captureEodData
  <1>5. CASE recomputeTick
    BY <1>1, <1>2, <1>3, <1>5 DEF recomputeTick, starts, queueVars, tableVars, eodDayVars
  <1>6. ASSUME NEW j \in Checks, checkAndRecompute(j) PROVE EodIInv'
    BY <1>1, <1>2, <1>3, <1>6 DEF checkAndRecompute, starts, queueVars, tableVars, eodDayVars
  <1>7. ASSUME NEW j \in Backfills, BackfillStockFutures(j) PROVE EodIInv'
    BY <1>1, <1>2, <1>3, <1>7, EodBounds DEF BackfillStockFutures, getWeekdaysBetween, queueVars, tableVars, eodDayVars
  <1> QED BY <1>4, <1>5, <1>6, <1>7


\* A quote or a contract's candles: the rows are queued, or there are none.
LEMMA RowsPushed ==
    ASSUME EodIInv, NEW j \in EodJobs, NEW r \in RunStates, run' = [run EXCEPT ![j] = r],
           NEW S \in SUBSET FutureRows, futures' = futures \o SetToSeq(S), \A x \in S : x[1] \in r.days,
           run[j].pc = "fetch", r.pc \in {"fetch", "drain"}, run[j].days \subseteq r.days,
           \A i \in DOMAIN r.docs : r.docs[i][1] \in r.days,
           j = "tick" => r.pc # "fetch",
           UNCHANGED <<spreads, stockFutures, spreadDaily, today, drainingStockFutures, spreadLock, excused>>
    PROVE  EodIInv'
  <1> USE DEF EodIInv
  <1>1. futures \in Seq(FutureRows) /\ IsFiniteSet(S)
    BY EodFinite, FS_Subset DEF EodTypeOK
  <1>2. /\ futures' \in Seq(FutureRows)
        /\ \A i \in DOMAIN futures' : (i \in DOMAIN futures /\ futures'[i] = futures[i]) \/ futures'[i] \in S
        /\ futures # <<>> => futures' # <<>> /\ Head(futures') = Head(futures)
    BY <1>1, RowsQueued
  <1>3. /\ run'[j] = r /\ \A k \in EodJobs : k # j => run'[k] = run[k]
    BY DEF EodTypeOK
  <1>4. OneDrains'
    BY <1>2, <1>3 DEF OneDrains, DrainsFutures
  <1> QED BY <1>2, <1>4, RunMoves DEF EodTypeOK, NotYetRead, NotYetDrained, DrainsFutures

LEMMA QuotesQueued ==
    ASSUME EodIInv, captureQuotes
    PROVE  EodIInv'
  <1> USE DEF EodIInv
  <1>1. "tick" \in EodJobs /\ today \in Days /\ run["tick"].pc = "fetch" /\ run["tick"].days = {}
    BY DEF EodJobs, EodTypeOK, captureQuotes, OneDrains
  <1>2. UNCHANGED <<spreads, stockFutures, spreadDaily, today, drainingStockFutures, spreadLock, excused>>
    BY DEF captureQuotes, tableVars, eodDayVars
  <1>3. ASSUME NEW quoted \in SUBSET Contracts, pushStockFuture({today} \X quoted),
               run' = [run EXCEPT !["tick"] = Run("drain", {today}, {}, NoDoc, <<>>, {})]
        PROVE  EodIInv'
    <2> DEFINE r == Run("drain", {today}, {}, NoDoc, <<>>, {})
               S == {today} \X quoted
    <2>1. r \in RunStates /\ r.pc = "drain" /\ r.days = {today} /\ DOMAIN r.docs = {}
      <3>1. <<>> \in Seq(SpreadRows) /\ {today} \in SUBSET Days /\ {} \in SUBSET Contracts /\ {} \in SUBSET Days
        BY <1>1
      <3> QED BY <3>1 DEF Run, RunStates, NotYetRead, NotYetDrained
    <2>2. S \in SUBSET FutureRows /\ \A x \in S : x[1] \in {today}
      BY <1>1 DEF FutureRows
    <2>3. futures' = futures \o SetToSeq(S)
      BY <1>3 DEF pushStockFuture
    <2> HIDE DEF r, S
    <2> QED BY <1>1, <1>2, <1>3, <2>1, <2>2, <2>3, RowsPushed DEF r
  <1>4. ASSUME finishes("tick"), UNCHANGED futures PROVE EodIInv'
    <2>1. run' = [run EXCEPT !["tick"] = NoRun]
      BY <1>4 DEF finishes
    <2>2. /\ run'["tick"] = NoRun /\ \A k \in EodJobs : k # "tick" => run'[k] = run[k]
      BY <1>1, <2>1 DEF EodTypeOK
    <2>3. OneDrains'
      BY <1>2, <1>4, <2>2, NoRunMade DEF OneDrains, DrainsFutures
    <2> QED BY <1>1, <1>2, <1>4, <2>1, <2>3, NoRunMade, RunMoves DEF EodTypeOK
  <1> QED BY <1>3, <1>4 DEF captureQuotes

LEMMA ContractQueued ==
    ASSUME EodIInv, NEW j \in Backfills, backfillContract(j)
    PROVE  EodIInv'
  <1> USE DEF EodIInv
  <1>1. j \in EodJobs /\ j # "tick" /\ run[j].pc = "fetch" /\ run[j] \in RunStates
    BY EodBounds DEF EodJobs, EodTypeOK, backfillContract
  <1>2. UNCHANGED <<spreads, stockFutures, spreadDaily, today, drainingStockFutures, spreadLock, excused>>
    BY DEF backfillContract, tableVars, eodDayVars
  <1>3. CASE run[j].todo = {}
    <2> DEFINE r == [run[j] EXCEPT !.pc = "drain"]
    <2>1. r \in RunStates /\ r.pc = "drain" /\ r.days = run[j].days /\ r.docs = run[j].docs
      BY <1>1 DEF RunStates, NotYetRead, NotYetDrained
    <2>2. run' = [run EXCEPT ![j] = r] /\ UNCHANGED futures
      BY <1>3 DEF backfillContract, moves
    <2> HIDE DEF r
    <2>3. /\ run'[j] = r /\ \A k \in EodJobs : k # j => run'[k] = run[k]
      BY <1>1, <2>2 DEF EodTypeOK
    <2>4. OneDrains'
      BY <1>1, <1>2, <2>1, <2>2, <2>3 DEF OneDrains, DrainsFutures
    <2> QED BY <1>1, <1>2, <2>1, <2>2, <2>4, RunMoves DEF EodTypeOK, NotYetRead, NotYetDrained
  <1>4. CASE run[j].todo # {}
    <2> DEFINE c == Min(run[j].todo)
               r == [run[j] EXCEPT !.todo = run[j].todo \ {c}]
    <2>1. r \in RunStates /\ r.pc = "fetch" /\ r.days = run[j].days /\ r.docs = run[j].docs
      BY <1>1 DEF RunStates
    <2>2. run' = [run EXCEPT ![j] = r]
      BY <1>4 DEF backfillContract
    <2>3. \/ futures' = futures \o SetToSeq(run[j].days \X {c})
          \/ UNCHANGED futures
      BY <1>4 DEF backfillContract, pushStockFuture
    <2> HIDE DEF r
    <2>4. CASE UNCHANGED futures
      <3>3. /\ run'[j] = r /\ \A k \in EodJobs : k # j => run'[k] = run[k]
        BY <1>1, <2>2 DEF EodTypeOK
      <3>4. OneDrains'
        BY <1>1, <1>2, <2>1, <2>2, <2>4, <3>3 DEF OneDrains, DrainsFutures
      <3> QED BY <1>1, <1>2, <2>1, <2>2, <2>4, <3>4, RunMoves DEF EodTypeOK, NotYetRead, NotYetDrained
    <2>5. CASE futures' = futures \o SetToSeq(run[j].days \X {c})
      <3>1. run[j].todo \subseteq Contracts /\ run[j].days \subseteq Days
        BY <1>1 DEF RunStates
      <3>2. \E x \in run[j].todo : \A y \in run[j].todo : x =< y
        <4>1. CASE 1 \in run[j].todo
          BY <3>1, <4>1 DEF Contracts
        <4>2. CASE 1 \notin run[j].todo /\ 2 \in run[j].todo
          BY <3>1, <4>2 DEF Contracts
        <4>3. CASE 1 \notin run[j].todo /\ 2 \notin run[j].todo
          BY <1>4, <3>1, <4>3 DEF Contracts
        <4> QED BY <4>1, <4>2, <4>3
      <3>3. c \in Contracts
        BY <3>1, <3>2 DEF Min
      <3> DEFINE S == run[j].days \X {c}
      <3>4. S \in SUBSET FutureRows /\ \A x \in S : x[1] \in run[j].days
        BY <3>1, <3>3 DEF FutureRows
      <3>5. \A i \in DOMAIN r.docs : r.docs[i][1] \in r.days
        BY <1>1, <2>1 DEF OneDrains
      <3> HIDE DEF c, S
      <3> QED BY <1>1, <1>2, <2>1, <2>2, <2>5, <3>4, <3>5, RowsPushed DEF S
    <2> QED BY <2>3, <2>4, <2>5
  <1> QED BY <1>3, <1>4

\* Draining the rows: a run takes the drain or is turned away, writes the first row and takes it
\* from the queue, or ends at a failed write.
LEMMA FuturesDrained ==
    ASSUME EodIInv, NEW j \in EodJobs, drainStockFutures(j) \/ drainHead(j) \/ drainPop(j)
    PROVE  EodIInv'
  <1> USE DEF EodIInv
  <1>1. /\ run[j] \in RunStates /\ futures \in Seq(FutureRows) /\ run[j].days \subseteq Days /\ run[j].todo \in SUBSET Contracts
        /\ run[j].docs \in Seq(SpreadRows) /\ run[j].snap \in SUBSET Days /\ run[j].doc \in FutureRows \cup {NoDoc}
        /\ run \in [EodJobs -> RunStates] /\ NoDoc \in FutureRows \cup {NoDoc}
        /\ \A i \in DOMAIN run[j].docs : run[j].docs[i][1] \in run[j].days
    BY DEF EodTypeOK, RunStates, OneDrains
  <1>2. UNCHANGED <<spreads, stockFutures, spreadDaily, today, spreadLock>>
    BY DEF drainStockFutures, drainHead, drainPop, tableVars, eodDayVars
  <1>3. CASE drainStockFutures(j)
    <2> DEFINE next == IF drainingStockFutures THEN "compute" ELSE "head"
               r == [run[j] EXCEPT !.pc = next]
    <2>1. r \in RunStates /\ r.pc = next /\ r.days = run[j].days /\ r.docs = run[j].docs /\ r.doc = run[j].doc
      BY <1>1 DEF RunStates, NotYetRead, NotYetDrained, DrainsFutures
    <2>2. run[j].pc = "drain" /\ run' = [run EXCEPT ![j] = r] /\ UNCHANGED futures
      BY <1>3 DEF drainStockFutures, moves
    <2>7. /\ drainingStockFutures' = TRUE /\ excused \subseteq excused'
          /\ next = "compute" => drainingStockFutures /\ run[j].days \subseteq excused'
          /\ next = "head" => ~drainingStockFutures
          /\ next \in {"compute", "head"}
      <3>1. CASE drainingStockFutures
        BY <1>3, <3>1 DEF drainStockFutures, EodTypeOK
      <3>2. CASE ~drainingStockFutures
        BY <1>3, <3>2 DEF drainStockFutures
      <3> QED BY <3>1, <3>2
    <2> HIDE DEF r, next
    <2>3. /\ run'[j] = r /\ \A k \in EodJobs : k # j => run'[k] = run[k]
      BY <1>1, <2>2
    <2>4. OneDrains'
      <3>1. ~drainingStockFutures => \A k \in EodJobs : run[k].pc \notin DrainsFutures
        BY DEF OneDrains
      <3>2. run["tick"] = run'["tick"] \/ run'["tick"].pc # "fetch"
        BY <1>1, <2>1, <2>3, <2>7 DEF EodJobs
      <3>3. \A k \in EodJobs : run'[k].pc \in DrainsFutures => run[k].pc \in DrainsFutures \/ (k = j /\ next = "head")
        BY <2>1, <2>3, <2>7 DEF DrainsFutures
      <3>4. \A k \in EodJobs : run'[k].docs = run[k].docs /\ run'[k].days = run[k].days
        BY <2>1, <2>3
      <3>5. \A k \in EodJobs : run'[k].pc \in {"upsert", "pop", "shead", "supsert"} => k # j /\ run'[k] = run[k]
        BY <2>1, <2>3, <2>7
      <3>6. /\ \A k \in EodJobs : run'[k].pc \in DrainsFutures => drainingStockFutures'
            /\ \A k, l \in EodJobs : run'[k].pc \in DrainsFutures /\ run'[l].pc \in DrainsFutures => k = l
        BY <2>7, <3>1, <3>3 DEF OneDrains
      <3> QED BY <1>2, <2>2, <3>2, <3>4, <3>5, <3>6 DEF OneDrains
    <2> QED BY <1>1, <1>2, <2>1, <2>2, <2>4, <2>7, RunMoves DEF EodTypeOK, NotYetRead, NotYetDrained, DrainsFutures
  <1>4. CASE drainHead(j)
    <2>1. run[j].pc = "head" /\ UNCHANGED <<futures, excused>>
      BY <1>4 DEF drainHead
    <2>2. CASE futures = <<>>
      <3> DEFINE r == [run[j] EXCEPT !.pc = "compute"]
      <3>1. r \in RunStates /\ r.pc = "compute" /\ r.days = run[j].days /\ r.docs = run[j].docs
        BY <1>1 DEF RunStates, NotYetRead, NotYetDrained, DrainsFutures
      <3>2. run' = [run EXCEPT ![j] = r] /\ drainingStockFutures' = FALSE
        BY <1>4, <2>2 DEF drainHead, moves
      <3> HIDE DEF r
      <3>3. /\ run'[j] = r /\ \A k \in EodJobs : k # j => run'[k] = run[k]
        BY <1>1, <3>2
      <3>4. OneDrains'
        BY <1>1, <1>2, <2>1, <3>1, <3>2, <3>3 DEF OneDrains, DrainsFutures
      <3>5. DOMAIN futures' = {}
        BY <2>1, <2>2
      <3> QED BY <1>1, <1>2, <2>1, <3>1, <3>2, <3>4, <3>5, RunMoves DEF EodTypeOK, NotYetRead, NotYetDrained, DrainsFutures
    <2>3. CASE futures # <<>>
      <3> DEFINE r == Run("upsert", run[j].days, run[j].todo, Head(futures), run[j].docs, run[j].snap)
      <3>0. Head(futures) \in FutureRows
        BY <1>1, <2>3, HeadTailProperties
      <3>1. r \in RunStates /\ r.pc = "upsert" /\ r.days = run[j].days /\ r.docs = run[j].docs /\ r.doc = Head(futures)
        BY <1>1, <3>0, RunMade DEF NotYetRead, NotYetDrained, DrainsFutures
      <3>2. run' = [run EXCEPT ![j] = r] /\ UNCHANGED drainingStockFutures
        BY <1>4, <2>3 DEF drainHead, holds
      <3> HIDE DEF r
      <3>3. /\ run'[j] = r /\ \A k \in EodJobs : k # j => run'[k] = run[k]
        BY <1>1, <3>2
      <3>4. OneDrains'
        BY <1>1, <1>2, <2>1, <2>3, <3>1, <3>2, <3>3 DEF OneDrains, DrainsFutures
      <3> QED BY <1>1, <1>2, <2>1, <3>1, <3>2, <3>4, RunMoves DEF EodTypeOK, NotYetRead, NotYetDrained, DrainsFutures
    <2> QED BY <2>2, <2>3
  <1>5. CASE drainPop(j)
    <2> DEFINE r == Run("head", run[j].days, run[j].todo, NoDoc, run[j].docs, run[j].snap)
    <2>1. r \in RunStates /\ r.pc = "head" /\ r.days = run[j].days /\ r.docs = run[j].docs
      BY <1>1, RunMade DEF NotYetRead, NotYetDrained, DrainsFutures
    <2>2. /\ run[j].pc = "pop" /\ run' = [run EXCEPT ![j] = r] /\ futures' = Tail(futures)
          /\ UNCHANGED <<drainingStockFutures, excused>>
      BY <1>5 DEF drainPop, holds
    <2>3. futures # <<>>
      BY <2>2 DEF OneDrains
    <2>4. /\ futures' \in Seq(FutureRows)
          /\ \A i \in DOMAIN futures' : \E k \in DOMAIN futures : futures'[i] = futures[k]
      <3>1. /\ Tail(futures) \in Seq(FutureRows) /\ Len(Tail(futures)) = Len(futures) - 1 /\ Len(futures) \in Nat
            /\ \A i \in 1 .. Len(Tail(futures)) : Tail(futures)[i] = futures[i + 1]
        BY <1>1, <2>3, HeadTailProperties, LenProperties
      <3>2. DOMAIN Tail(futures) = 1 .. Len(Tail(futures)) /\ DOMAIN futures = 1 .. Len(futures)
        BY <1>1, <3>1, LenProperties
      <3> QED BY <2>2, <3>1, <3>2
    <2> HIDE DEF r
    <2>5. /\ run'[j] = r /\ \A k \in EodJobs : k # j => run'[k] = run[k]
      BY <1>1, <2>2
    <2>6. OneDrains'
      BY <1>1, <1>2, <2>1, <2>2, <2>5 DEF OneDrains, DrainsFutures
    <2> QED BY <1>1, <1>2, <2>1, <2>2, <2>4, <2>6, RunMoves DEF EodTypeOK, NotYetRead, NotYetDrained, DrainsFutures
  <1> QED BY <1>3, <1>4, <1>5
\* A run's step keeps one drain to a queue.
LEMMA DrainsKept ==
    ASSUME EodTypeOK, OneDrains, NEW j \in EodJobs, NEW r, run' = [run EXCEPT ![j] = r],
           \A i \in DOMAIN r.docs : r.docs[i][1] \in r.days, r.pc # "fetch",
           r.pc \in DrainsFutures => drainingStockFutures' /\ \A k \in EodJobs \ {j} : run[k].pc \notin DrainsFutures,
           drainingStockFutures => drainingStockFutures' \/ \A k \in EodJobs \ {j} : run[k].pc \notin DrainsFutures,
           r.pc \in {"upsert", "pop"} => futures' # <<>>, r.pc = "upsert" => r.doc = Head(futures'),
           UNCHANGED futures,
           UNCHANGED spreadLock \/ \A k \in EodJobs \ {j} : run[k].pc \notin {"shead", "supsert"},
           r.pc \in {"shead", "supsert"} => spreadLock' = j,
           (spreads # <<>> => spreads' # <<>>) \/ \A k \in EodJobs \ {j} : run[k].pc # "supsert",
           r.pc = "supsert" => spreads' # <<>>
    PROVE  OneDrains'
  <1>1. /\ run'[j] = r /\ \A k \in EodJobs : k # j => run'[k] = run[k]
    BY DEF EodTypeOK
  <1>2. \A k \in EodJobs : run'[k].pc \in DrainsFutures => drainingStockFutures'
    BY <1>1 DEF OneDrains
  <1>3. \A k, l \in EodJobs : run'[k].pc \in DrainsFutures /\ run'[l].pc \in DrainsFutures => k = l
    BY <1>1 DEF OneDrains
  <1>4. /\ \A k \in EodJobs : run'[k].pc \in {"upsert", "pop"} => futures' # <<>>
        /\ \A k \in EodJobs : run'[k].pc = "upsert" => run'[k].doc = Head(futures')
    BY <1>1 DEF OneDrains
  <1>5. /\ \A k \in EodJobs : run'[k].pc \in {"shead", "supsert"} => spreadLock' = k
        /\ \A k \in EodJobs : run'[k].pc = "supsert" => spreads' # <<>>
    BY <1>1 DEF OneDrains
  <1>6. /\ run'["tick"].pc = "fetch" => run'["tick"].days = {}
        /\ \A k \in EodJobs : \A i \in DOMAIN run'[k].docs : run'[k].docs[i][1] \in run'[k].days
    BY <1>1 DEF OneDrains, EodJobs
  <1> QED BY <1>2, <1>3, <1>4, <1>5, <1>6 DEF OneDrains

LEMMA FutureWritten ==
    ASSUME EodIInv, NEW j \in EodJobs, UpsertStockFuture(j)
    PROVE  EodIInv'
  <1> USE DEF EodIInv
  <1>1. /\ run[j] \in RunStates /\ futures \in Seq(FutureRows) /\ run[j].days \subseteq Days /\ run[j].todo \in SUBSET Contracts
        /\ run[j].docs \in Seq(SpreadRows) /\ run[j].snap \in SUBSET Days /\ NoDoc \in FutureRows \cup {NoDoc}
        /\ run \in [EodJobs -> RunStates] /\ stockFutures \subseteq FutureRows /\ drainingStockFutures \in BOOLEAN
        /\ run[j].pc = "upsert" /\ run[j].pc \in DrainsFutures
        /\ \A i \in DOMAIN run[j].docs : run[j].docs[i][1] \in run[j].days
    BY DEF EodTypeOK, RunStates, UpsertStockFuture, DrainsFutures, OneDrains
  <1>7. \A k \in EodJobs \ {j} : run[k].pc \notin DrainsFutures
    BY <1>1 DEF OneDrains
  <1>2. UNCHANGED <<futures, spreads, spreadDaily, today, spreadLock>>
    BY DEF UpsertStockFuture, eodDayVars
  <1>3. futures # <<>> /\ run[j].doc = Head(futures) /\ drainingStockFutures
    BY <1>1 DEF OneDrains
  <1>4. 1 \in DOMAIN futures /\ futures[1] = Head(futures) /\ Head(futures) \in FutureRows
    BY <1>1, <1>3, HeadTailProperties, LenProperties
  <1>5. CASE /\ stockFutures' = stockFutures \cup {run[j].doc}
             /\ moves(j, "pop") /\ UNCHANGED <<drainingStockFutures, excused>>
    <2> DEFINE r == [run[j] EXCEPT !.pc = "pop"]
               c == Head(futures)[1]
    <2>1. r \in RunStates /\ r.pc = "pop" /\ r.days = run[j].days /\ r.docs = run[j].docs
      BY <1>1 DEF RunStates, NotYetRead, NotYetDrained, DrainsFutures
    <2>2. run' = [run EXCEPT ![j] = r]
      BY <1>5 DEF moves
    <2> HIDE DEF r, c
    <2>3. /\ run'[j] = r /\ \A k \in EodJobs : k # j => run'[k] = run[k]
      BY <1>1, <2>2
    <2>4. EodTypeOK'
      BY <1>1, <1>2, <1>3, <1>4, <1>5, <2>1, <2>2 DEF EodTypeOK
    <2>5. OneDrains'
      BY <1>1, <1>2, <1>3, <1>5, <1>7, <2>1, <2>2, DrainsKept DEF DrainsFutures
    <2>6. \A d : (WillDrain(d)' <=> WillDrain(d)) /\ (WillRead(d)' <=> WillRead(d))
      BY <1>1, <2>1, <2>3 DEF WillDrain, WillRead, NotYetRead, NotYetDrained, DrainsFutures
    <2>7. \A k \in EodJobs : run'[k].docs = run[k].docs /\ \A d : Pushes(k, d)' <=> Pushes(k, d)
      BY <1>1, <2>1, <2>3 DEF Pushes
    <2>8. RowsComing' /\ OneReads'
      BY <1>2, <1>5, <2>6, <2>7 DEF RowsComing, OneReads
    <2>9. c \in excused \/ WillRead(c)
      <3>1. c \in excused \/ WillDrain(c)
        BY <1>4 DEF RowsComing, c
      <3> QED BY <3>1 DEF WillRead, WillDrain, NotYetRead
    <2>10. \A d : d # c => hasTwo(d)' = hasTwo(d) /\ twoNearest(d)' = twoNearest(d)
      <3> SUFFICES ASSUME NEW d, d # c PROVE StockFuturesOn(d)' = StockFuturesOn(d)
        BY DEF hasTwo, twoNearest
      <3> QED BY <1>3, <1>4, <1>5 DEF StockFuturesOn, FutureRows, c
    <2>11. SpreadComing'
      <3> SUFFICES ASSUME NEW d \in Days \ excused, hasTwo(d)', ~WillRead(d)
                   PROVE  /\ \A k \in EodJobs : Pushes(k, d) => AllOf(run[k].docs, d, twoNearest(d)')
                          /\ (\A k \in EodJobs : ~Pushes(k, d)) => EndsAs(spreads, d, spreadDaily[d], twoNearest(d)')
        BY <1>2, <1>5, <2>6, <2>7 DEF SpreadComing, AllOf, EndsAs
      <3>1. d # c
        BY <2>9
      <3> QED BY <2>10, <3>1 DEF SpreadComing
    <2> QED BY <2>4, <2>5, <2>8, <2>11
  <1>6. CASE /\ drainingStockFutures' = FALSE /\ UNCHANGED stockFutures /\ holds(j, "compute", NoDoc)
             /\ excused' = excused \cup {futures[i][1] : i \in DOMAIN futures}
    <2> DEFINE r == Run("compute", run[j].days, run[j].todo, NoDoc, run[j].docs, run[j].snap)
    <2>1. r \in RunStates /\ r.pc = "compute" /\ r.days = run[j].days /\ r.docs = run[j].docs
      BY <1>1, RunMade DEF NotYetRead, NotYetDrained, DrainsFutures
    <2>2. run' = [run EXCEPT ![j] = r]
      BY <1>6 DEF holds
    <2> HIDE DEF r
    <2>3. /\ run'[j] = r /\ \A k \in EodJobs : k # j => run'[k] = run[k]
      BY <1>1, <2>2
    <2>5. OneDrains'
      BY <1>1, <1>2, <1>6, <1>7, <2>1, <2>2, DrainsKept DEF DrainsFutures
    <2>6. \A d \in run[j].days : d \in excused' \/ \A i \in DOMAIN futures' : futures'[i][1] # d
      BY <1>2, <1>6
    <2>7. \A i \in DOMAIN futures' : \E k \in DOMAIN futures : futures'[i] = futures[k]
      BY <1>2
    <2> QED BY <1>1, <1>2, <1>6, <2>1, <2>2, <2>5, <2>6, <2>7, RunMoves DEF EodTypeOK, NotYetRead
  <1> QED BY <1>5, <1>6 DEF UpsertStockFuture

\* The read: the run that has read a day's rows last holds the spread they have now.
LEMMA SpreadsComputed ==
    ASSUME EodIInv, NEW j \in EodJobs, ComputeSpreads(j)
    PROVE  EodIInv'
  <1> USE DEF EodIInv
  <1>1. /\ run[j] \in RunStates /\ run[j].days \subseteq Days /\ run[j].todo \in SUBSET Contracts
        /\ run[j].doc \in FutureRows \cup {NoDoc} /\ run[j].snap \in SUBSET Days
        /\ run \in [EodJobs -> RunStates] /\ run[j].pc = "compute"
    BY DEF EodTypeOK, RunStates, ComputeSpreads
  <1>2. UNCHANGED <<futures, spreads, spreadDaily, stockFutures, drainingStockFutures, today, spreadLock>>
    BY DEF ComputeSpreads, eodDayVars, queueVars, tableVars
  <1> DEFINE S == {<<d, twoNearest(d)>> : d \in {e \in run[j].days : hasTwo(e)}}
             docs == SetToSeq(S)
  <1>3. CASE /\ queues(j, "push", docs)
             /\ excused' = excused \cup UNION {run[k].days \cap run[j].days :
                                                 k \in {x \in EodJobs \ {j} : run[x].pc = "push"}}
    <2> DEFINE r == Run("push", run[j].days, run[j].todo, run[j].doc, docs, run[j].snap)
    <2>1. S \subseteq SpreadRows /\ IsFiniteSet(S)
      <3>1. S \subseteq SpreadRows
        <4>1. \A d : twoNearest(d) \in SUBSET Contracts
          BY DEF twoNearest, StockFuturesOn
        <4> QED BY <1>1, <4>1 DEF SpreadRows
      <3> QED BY <3>1, EodFinite, FS_Subset
    <2> HIDE DEF S
    <2>2. /\ docs \in Seq(S) /\ \A x \in S : \E i \in DOMAIN docs : docs[i] = x
          /\ \A i \in DOMAIN docs : docs[i] \in S
      BY <2>1, SetListed
    <2>3. docs \in Seq(SpreadRows)
      BY <2>1, <2>2, SeqDef
    <2> HIDE DEF docs
    <2>4. r \in RunStates /\ r.pc = "push" /\ r.days = run[j].days /\ r.docs = docs
      BY <1>1, <2>3 DEF Run, RunStates
    <2>5. run' = [run EXCEPT ![j] = r]
      BY <1>3 DEF queues
    <2> HIDE DEF r
    <2>6. /\ run'[j] = r /\ \A k \in EodJobs : k # j => run'[k] = run[k]
      BY <1>1, <2>5
    <2>7. EodTypeOK'
      BY <1>2, <2>4, <2>5 DEF EodTypeOK
    <2>8. \A i \in DOMAIN docs : docs[i][1] \in run[j].days /\ docs[i][2] = twoNearest(docs[i][1])
      BY <2>2 DEF S
    <2>9. OneDrains'
      BY <1>1, <1>2, <2>4, <2>5, <2>8, DrainsKept DEF DrainsFutures
    <2>10. excused \subseteq excused'
      BY <1>3
    <2>11. \A d : WillDrain(d) => WillDrain(d)'
      BY <1>1, <2>6 DEF WillDrain, NotYetDrained, DrainsFutures
    <2>12. \A d : d \notin run[j].days /\ WillRead(d) => WillRead(d)'
      BY <2>6 DEF WillRead
    <2>13. \A k \in EodJobs : \A d : k # j => run'[k] = run[k] /\ (Pushes(k, d)' <=> Pushes(k, d))
      BY <2>6 DEF Pushes
    <2>14. \A d : Pushes(j, d)' <=> d \in run[j].days
      BY <2>4, <2>6 DEF Pushes
    <2>15. \A k \in EodJobs, d \in run[j].days : k # j /\ Pushes(k, d) => d \in excused'
      BY <1>3 DEF Pushes
    <2>16. RowsComing'
      BY <1>2, <2>10, <2>11 DEF RowsComing
    <2>17. OneReads'
      <3> SUFFICES ASSUME NEW d \in Days \ excused', NEW k \in EodJobs, NEW l \in EodJobs,
                          Pushes(k, d)', Pushes(l, d)'
                   PROVE  k = l
        BY DEF OneReads
      <3>1. CASE d \in run[j].days
        BY <2>13, <2>15, <3>1
      <3>2. CASE d \notin run[j].days
        BY <2>10, <2>13, <2>14, <3>2 DEF OneReads
      <3> QED BY <3>1, <3>2
    <2>18. SpreadComing'
      <3> SUFFICES ASSUME NEW d \in Days \ excused', hasTwo(d), ~WillRead(d)'
                   PROVE  /\ \A k \in EodJobs : Pushes(k, d)' => AllOf(run'[k].docs, d, twoNearest(d))
                          /\ (\A k \in EodJobs : ~Pushes(k, d)') => EndsAs(spreads, d, spreadDaily[d], twoNearest(d))
        BY <1>2 DEF SpreadComing, AllOf, EndsAs, hasTwo, twoNearest, StockFuturesOn
      <3>1. CASE d \in run[j].days
        <4>1. AllOf(docs, d, twoNearest(d))
          <5>1. <<d, twoNearest(d)>> \in S
            BY <3>1 DEF S
          <5>2. \E i \in DOMAIN docs : docs[i][1] = d
            BY <2>2, <5>1
          <5> QED BY <2>8, <5>2 DEF AllOf
        <4>2. \A k \in EodJobs : Pushes(k, d)' => k = j
          BY <2>13, <2>15, <3>1
        <4> QED BY <2>4, <2>6, <2>14, <3>1, <4>1, <4>2
      <3>2. CASE d \notin run[j].days
        <4>1. ~WillRead(d) /\ d \notin excused
          BY <2>10, <2>12, <3>2
        <4>2. \A k \in EodJobs : Pushes(k, d)' => k # j
          BY <2>14, <3>2
        <4>3. \A k \in EodJobs : Pushes(k, d) => Pushes(k, d)'
          BY <1>1, <2>13 DEF Pushes
        <4> QED BY <2>13, <4>1, <4>2, <4>3 DEF SpreadComing
      <3> QED BY <3>1, <3>2
    <2> QED BY <2>7, <2>9, <2>16, <2>17, <2>18
  <1>4. CASE finishes(j) /\ excused' = excused \cup run[j].days
    <2>1. run' = [run EXCEPT ![j] = NoRun]
      BY <1>4 DEF finishes
    <2>2. /\ run'[j] = NoRun /\ \A k \in EodJobs : k # j => run'[k] = run[k]
      BY <1>1, <2>1
    <2>3. OneDrains'
      BY <1>2, <2>1, NoRunMade, DrainsKept DEF DrainsFutures
    <2>4. \A i \in DOMAIN futures' : \E k \in DOMAIN futures : futures'[i] = futures[k]
      BY <1>2
    <2> QED BY <1>1, <1>2, <1>4, <2>1, <2>3, <2>4, NoRunMade, RunMoves DEF EodTypeOK
  <1> QED BY <1>3, <1>4 DEF ComputeSpreads

\* The spreads a run has taken go behind what is queued: the last queued is still that of the last read.
LEMMA SpreadsPushed ==
    ASSUME EodIInv, NEW j \in EodJobs, computePush(j)
    PROVE  EodIInv'
  <1> USE DEF EodIInv
  <1>1. /\ run[j] \in RunStates /\ run[j].days \subseteq Days /\ run[j].todo \in SUBSET Contracts
        /\ run[j].doc \in FutureRows \cup {NoDoc} /\ run[j].snap \in SUBSET Days
        /\ run[j].docs \in Seq(SpreadRows) /\ spreads \in Seq(SpreadRows)
        /\ run \in [EodJobs -> RunStates] /\ run[j].pc = "push"
        /\ \A i \in DOMAIN run[j].docs : run[j].docs[i][1] \in run[j].days
    BY DEF EodTypeOK, RunStates, computePush, OneDrains
  <1>2. UNCHANGED <<futures, spreadDaily, stockFutures, drainingStockFutures, today, spreadLock, excused>>
    BY DEF computePush, eodDayVars, tableVars
  <1> DEFINE r == Run("slock", run[j].days, run[j].todo, run[j].doc, <<>>, run[j].snap)
             docs == run[j].docs
  <1>3. r \in RunStates /\ r.pc = "slock" /\ DOMAIN r.docs = {}
    <2>1. <<>> \in Seq(SpreadRows)
      OBVIOUS
    <2> QED BY <1>1, <2>1 DEF Run, RunStates
  <1>4. run' = [run EXCEPT ![j] = r] /\ spreads' = spreads \o docs
    BY DEF computePush, queues
  <1> HIDE DEF r, docs
  <1>5. /\ run'[j] = r /\ \A k \in EodJobs : k # j => run'[k] = run[k]
    BY <1>1, <1>4
  <1>6. docs \in Seq(SpreadRows) /\ \A i \in DOMAIN docs : docs[i][1] \in run[j].days
    BY <1>1 DEF docs
  <1>7. /\ spreads' \in Seq(SpreadRows)
        /\ \A d, was, spread :
              /\ AllOf(docs, d, spread) => EndsAs(spreads', d, was, spread)
              /\ (\A i \in DOMAIN docs : docs[i][1] # d) /\ EndsAs(spreads, d, was, spread) =>
                    EndsAs(spreads', d, was, spread)
    BY <1>1, <1>4, <1>6, EndsQueued
  <1>8. spreads # <<>> => spreads' # <<>>
    <2>1. spreads' = <<>> => Len(spreads') = 0
      OBVIOUS
    <2>2. spreads # <<>> => Len(spreads) > 0 /\ Len(spreads') = Len(spreads) + Len(docs) /\ Len(docs) \in Nat
      BY <1>1, <1>4, <1>6, ConcatProperties, LenProperties, EmptySeq
    <2> QED BY <2>1, <2>2
  <1>9. EodTypeOK'
    BY <1>2, <1>3, <1>4, <1>7 DEF EodTypeOK
  <1>10. OneDrains'
    BY <1>2, <1>3, <1>4, <1>8, DrainsKept DEF DrainsFutures
  <1>11. \A d : (WillDrain(d)' <=> WillDrain(d)) /\ (WillRead(d)' <=> WillRead(d))
    BY <1>1, <1>3, <1>5 DEF WillDrain, WillRead, NotYetRead, NotYetDrained, DrainsFutures
  <1>12. RowsComing'
    BY <1>2, <1>11 DEF RowsComing
  <1>13. \A k \in EodJobs : \A d : /\ k # j => run'[k] = run[k] /\ (Pushes(k, d)' <=> Pushes(k, d))
                               /\ ~Pushes(j, d)' /\ (Pushes(j, d) <=> d \in run[j].days)
    BY <1>1, <1>3, <1>5 DEF Pushes
  <1>14. OneReads'
    BY <1>2, <1>13 DEF OneReads
  <1>15. SpreadComing'
    <2>3. \A d : hasTwo(d)' = hasTwo(d) /\ twoNearest(d)' = twoNearest(d)
      BY <1>2 DEF hasTwo, twoNearest, StockFuturesOn
    <2> SUFFICES ASSUME NEW d \in Days \ excused, hasTwo(d), ~WillRead(d)
                 PROVE  /\ \A k \in EodJobs : Pushes(k, d)' => AllOf(run'[k].docs, d, twoNearest(d))
                        /\ (\A k \in EodJobs : ~Pushes(k, d)') => EndsAs(spreads', d, spreadDaily[d], twoNearest(d))
      BY <1>2, <1>11, <2>3 DEF SpreadComing, AllOf, EndsAs
    <2>1. CASE d \in run[j].days
      <3>1. \A k \in EodJobs : ~Pushes(k, d)'
        BY <1>13, <2>1 DEF OneReads
      <3>2. AllOf(docs, d, twoNearest(d))
        BY <1>13, <2>1 DEF SpreadComing, docs
      <3> QED BY <1>7, <3>1, <3>2
    <2>2. CASE d \notin run[j].days
      <3>1. \A i \in DOMAIN docs : docs[i][1] # d
        BY <1>6, <2>2
      <3>2. ASSUME \A k \in EodJobs : ~Pushes(k, d)' PROVE \A k \in EodJobs : ~Pushes(k, d)
        BY <1>13, <2>2, <3>2
      <3>3. ASSUME NEW k \in EodJobs, Pushes(k, d)' PROVE AllOf(run'[k].docs, d, twoNearest(d))
        BY <1>13, <3>3 DEF SpreadComing
      <3> QED BY <1>7, <3>1, <3>2, <3>3 DEF SpreadComing
    <2> QED BY <2>1, <2>2
  <1> QED BY <1>9, <1>10, <1>12, <1>14, <1>15

\* Draining the spreads: a run takes the drain, finds the next row or ends.
LEMMA SpreadsDrained ==
    ASSUME EodIInv, NEW j \in EodJobs, drainSpreadDaily(j) \/ drainSpreadHead(j)
    PROVE  EodIInv'
  <1> USE DEF EodIInv
  <1>1. /\ run[j] \in RunStates /\ run \in [EodJobs -> RunStates] /\ run[j].pc \in {"slock", "shead"}
        /\ \A i \in DOMAIN run[j].docs : run[j].docs[i][1] \in run[j].days
    BY DEF EodTypeOK, OneDrains, drainSpreadDaily, drainSpreadHead
  <1>2. UNCHANGED <<futures, spreads, spreadDaily, stockFutures, drainingStockFutures, today, excused>>
    BY DEF drainSpreadDaily, drainSpreadHead, eodDayVars, tableVars
  <1>3. \A i \in DOMAIN futures' : \E k \in DOMAIN futures : futures'[i] = futures[k]
    BY <1>2
  <1>4. run[j].pc = "shead" => \A k \in EodJobs \ {j} : run[k].pc \notin {"shead", "supsert"}
    BY DEF OneDrains
  <1>5. ASSUME NEW pc \in {"shead", "supsert"}, moves(j, pc), spreadLock' = j, pc = "supsert" => spreads # <<>>,
               UNCHANGED spreadLock \/ \A k \in EodJobs \ {j} : run[k].pc \notin {"shead", "supsert"}
        PROVE  EodIInv'
    <2> DEFINE r == [run[j] EXCEPT !.pc = pc]
    <2>1. r \in RunStates /\ r.pc = pc /\ r.days = run[j].days /\ r.docs = run[j].docs
      BY <1>1 DEF RunStates
    <2>2. run' = [run EXCEPT ![j] = r]
      BY <1>5 DEF moves
    <2> HIDE DEF r
    <2>3. OneDrains'
      BY <1>1, <1>2, <1>5, <2>1, <2>2, DrainsKept DEF DrainsFutures
    <2> QED BY <1>1, <1>2, <1>3, <2>1, <2>2, <2>3, RunMoves DEF EodTypeOK, NotYetRead, NotYetDrained, DrainsFutures
  <1>6. CASE drainSpreadDaily(j)
    <2>1. \A k \in EodJobs : run[k].pc \notin {"shead", "supsert"}
      <3>1. spreadLock = "none" /\ spreadLock' = j
        BY <1>6 DEF drainSpreadDaily
      <3>2. ASSUME NEW k \in EodJobs, run[k].pc \in {"shead", "supsert"} PROVE k = "none"
        BY <3>1, <3>2 DEF OneDrains
      <3>3. "none" \notin EodJobs
        BY EodBounds DEF EodJobs
      <3> QED BY <3>2, <3>3
    <2> QED BY <1>5, <1>6, <2>1 DEF drainSpreadDaily
  <1>7. CASE drainSpreadHead(j)
    <2>1. run[j].pc = "shead" /\ spreadLock = j
      BY <1>7 DEF drainSpreadHead, OneDrains
    <2>2. CASE spreads # <<>>
      BY <1>5, <1>7, <2>1, <2>2 DEF drainSpreadHead
    <2>3. CASE spreads = <<>>
      <3>1. run' = [run EXCEPT ![j] = NoRun]
        BY <1>7, <2>3 DEF drainSpreadHead, spreadReturns, finishes
      <3>2. OneDrains'
        BY <1>2, <1>4, <2>1, <3>1, NoRunMade, DrainsKept DEF DrainsFutures
      <3> QED BY <1>2, <1>3, <2>1, <3>1, <3>2, NoRunMade, RunMoves DEF EodTypeOK, NotYetRead, NotYetDrained, DrainsFutures
    <2> QED BY <2>2, <2>3
  <1> QED BY <1>6, <1>7

\* The first queued spread is written, or the drain ends with it still the first.
LEMMA SpreadWritten ==
    ASSUME EodIInv, NEW j \in EodJobs, UpsertSpreadDaily(j)
    PROVE  EodIInv'
  <1> USE DEF EodIInv
  <1>1. /\ run[j] \in RunStates /\ run \in [EodJobs -> RunStates] /\ run[j].pc = "supsert"
        /\ spreads \in Seq(SpreadRows) /\ spreads # <<>> /\ spreadDaily \in [Days -> SUBSET Contracts]
        /\ \A i \in DOMAIN run[j].docs : run[j].docs[i][1] \in run[j].days
        /\ spreadLock = j
    BY DEF EodTypeOK, OneDrains, UpsertSpreadDaily
  <1>2. UNCHANGED <<futures, stockFutures, drainingStockFutures, today, excused>>
    BY DEF UpsertSpreadDaily
  <1>3. \A k \in EodJobs \ {j} : run[k].pc \notin {"shead", "supsert"}
    BY <1>1 DEF OneDrains
  <1>4. CASE /\ spreadDaily' = [spreadDaily EXCEPT ![Head(spreads)[1]] = Head(spreads)[2]]
             /\ spreads' = Tail(spreads) /\ moves(j, "shead") /\ UNCHANGED spreadLock
    <2> DEFINE r == [run[j] EXCEPT !.pc = "shead"]
    <2>1. r \in RunStates /\ r.pc = "shead" /\ r.days = run[j].days /\ r.docs = run[j].docs
      BY <1>1 DEF RunStates
    <2>2. run' = [run EXCEPT ![j] = r]
      BY <1>4 DEF moves
    <2> HIDE DEF r
    <2>3. /\ run'[j] = r /\ \A k \in EodJobs : k # j => run'[k] = run[k]
      BY <1>1, <2>2
    <2>4. Tail(spreads) \in Seq(SpreadRows) /\ Head(spreads) \in SpreadRows
      BY <1>1, HeadTailProperties
    <2>5. /\ spreadDaily' \in [Days -> SUBSET Contracts]
          /\ \A d \in Days : spreadDaily'[d] = IF Head(spreads)[1] = d THEN Head(spreads)[2] ELSE spreadDaily[d]
      BY <1>1, <1>4, <2>4 DEF SpreadRows
    <2>6. EodTypeOK'
      BY <1>2, <1>4, <2>1, <2>2, <2>4, <2>5 DEF EodTypeOK
    <2>7. OneDrains'
      BY <1>1, <1>2, <1>3, <1>4, <2>1, <2>2, DrainsKept DEF DrainsFutures
    <2>8. \A d : (WillDrain(d)' <=> WillDrain(d)) /\ (WillRead(d)' <=> WillRead(d))
      BY <1>1, <2>1, <2>3 DEF WillDrain, WillRead, NotYetRead, NotYetDrained, DrainsFutures
    <2>9. \A k \in EodJobs : \A d : run'[k].docs = run[k].docs /\ (Pushes(k, d)' <=> Pushes(k, d))
      BY <1>1, <2>1, <2>3 DEF Pushes
    <2>10. RowsComing' /\ OneReads'
      BY <1>2, <2>8, <2>9 DEF RowsComing, OneReads
    <2>11. SpreadComing'
      <3>2. \A d : hasTwo(d)' = hasTwo(d) /\ twoNearest(d)' = twoNearest(d)
        BY <1>2 DEF hasTwo, twoNearest, StockFuturesOn
      <3> SUFFICES ASSUME NEW d \in Days \ excused, hasTwo(d), ~WillRead(d)
                   PROVE  /\ \A k \in EodJobs : Pushes(k, d) => AllOf(run[k].docs, d, twoNearest(d))
                          /\ (\A k \in EodJobs : ~Pushes(k, d)) =>
                                EndsAs(spreads', d, spreadDaily'[d], twoNearest(d))
        BY <1>2, <2>8, <2>9, <3>2 DEF SpreadComing, AllOf, EndsAs
      <3>1. ASSUME EndsAs(spreads, d, spreadDaily[d], twoNearest(d))
            PROVE  EndsAs(spreads', d, spreadDaily'[d], twoNearest(d))
        BY <1>1, <1>4, <2>5, <3>1, EndsWritten
      <3> QED BY <3>1 DEF SpreadComing
    <2> QED BY <2>6, <2>7, <2>10, <2>11
  <1>5. CASE spreadReturns(j) /\ UNCHANGED <<spreadDaily, spreads>>
    <2>1. run' = [run EXCEPT ![j] = NoRun]
      BY <1>5 DEF spreadReturns, finishes
    <2>2. OneDrains'
      BY <1>2, <1>3, <1>5, <2>1, NoRunMade, DrainsKept DEF DrainsFutures
    <2>3. \A i \in DOMAIN futures' : \E k \in DOMAIN futures : futures'[i] = futures[k]
      BY <1>2
    <2> QED BY <1>1, <1>2, <1>5, <2>1, <2>2, <2>3, NoRunMade, RunMoves DEF EodTypeOK, NotYetRead, NotYetDrained, DrainsFutures
  <1> QED BY <1>4, <1>5 DEF UpsertSpreadDaily

\* The summary's runs, and the day.
LEMMA SummaryRuns ==
    ASSUME EodIInv, NEW j \in EodJobs, RecomputeSpreadSummary(j) \/ ReplaceSpreadSummaries(j)
    PROVE  EodIInv'
  <1> USE DEF EodIInv
  <1>1. /\ run[j] \in RunStates /\ run \in [EodJobs -> RunStates] /\ run[j].pc \in {"read", "replace"}
        /\ run[j].days \subseteq Days /\ run[j].todo \in SUBSET Contracts /\ run[j].doc \in FutureRows \cup {NoDoc}
        /\ run[j].docs \in Seq(SpreadRows)
        /\ \A i \in DOMAIN run[j].docs : run[j].docs[i][1] \in run[j].days
    BY DEF EodTypeOK, OneDrains, RunStates, RecomputeSpreadSummary, ReplaceSpreadSummaries
  <1>2. UNCHANGED <<futures, spreads, spreadLock, spreadDaily, stockFutures, drainingStockFutures, today, excused>>
    BY DEF RecomputeSpreadSummary, ReplaceSpreadSummaries, eodDayVars, tableVars, queueVars
  <1>3. \A i \in DOMAIN futures' : \E k \in DOMAIN futures : futures'[i] = futures[k]
    BY <1>2
  <1>4. CASE finishes(j)
    <2>1. run' = [run EXCEPT ![j] = NoRun]
      BY <1>4 DEF finishes
    <2>2. OneDrains'
      BY <1>2, <2>1, NoRunMade, DrainsKept DEF DrainsFutures
    <2> QED BY <1>1, <1>2, <1>3, <2>1, <2>2, NoRunMade, RunMoves DEF EodTypeOK, NotYetRead, NotYetDrained, DrainsFutures
  <1>5. CASE run' = [run EXCEPT ![j] = Run("replace", @.days, @.todo, @.doc, @.docs, SpreadDays)]
    <2> DEFINE r == Run("replace", run[j].days, run[j].todo, run[j].doc, run[j].docs, SpreadDays)
    <2>1. r \in RunStates /\ r.pc = "replace" /\ r.days = run[j].days /\ r.docs = run[j].docs
      BY <1>1 DEF Run, RunStates, SpreadDays
    <2>2. run' = [run EXCEPT ![j] = r]
      BY <1>5
    <2> HIDE DEF r
    <2>3. OneDrains'
      BY <1>1, <1>2, <2>1, <2>2, DrainsKept DEF DrainsFutures
    <2> QED BY <1>1, <1>2, <1>3, <2>1, <2>2, <2>3, RunMoves DEF EodTypeOK, NotYetRead, NotYetDrained, DrainsFutures
  <1> QED BY <1>4, <1>5 DEF RecomputeSpreadSummary, ReplaceSpreadSummaries

LEMMA EodHolds ==
    ASSUME EodIInv, today' \in Days,
           UNCHANGED <<futures, spreads, spreadLock, spreadDaily, stockFutures, drainingStockFutures, run, excused>>
    PROVE  EodIInv'
  <1> USE DEF EodIInv
  <1>1. EodTypeOK' /\ OneDrains'
    BY DEF EodTypeOK, OneDrains
  <1>2. RowsComing' /\ OneReads'
    BY DEF RowsComing, OneReads, WillDrain, Pushes
  <1>3. SpreadComing'
    BY DEF SpreadComing, WillRead, Pushes, hasTwo, twoNearest, StockFuturesOn, AllOf, EndsAs
  <1> QED BY <1>1, <1>2, <1>3

\* The inductive invariant of the end-of-day capture (EodCapture's futures and spread drains,
\* ComputeSpreads).
THEOREM EodInvariant == EodSpec => []EodIInv
  <1>1. EodIInv /\ [EodNext]_eodVars => EodIInv'
    <2> SUFFICES ASSUME EodIInv, [EodNext]_eodVars PROVE EodIInv'
      OBVIOUS
    <2>1. today \in Days
      BY DEF EodIInv, EodTypeOK
    <2>2. CASE NextDay
      <3>1. today' \in Days
        BY <2>1, <2>2, EodBounds DEF NextDay, Days
      <3> QED BY <2>2, <3>1, EodHolds DEF NextDay, queueVars, tableVars
    <2>3. CASE captureEodData \/ captureQuotes \/ recomputeTick
      BY <2>3, RunsStart, QuotesQueued
    <2>4. ASSUME NEW j \in Backfills, BackfillStockFutures(j) \/ backfillContract(j) PROVE EodIInv'
      BY <2>4, RunsStart, ContractQueued
    <2>5. ASSUME NEW j \in Checks, checkAndRecompute(j) PROVE EodIInv'
      BY <2>5, RunsStart
    <2>6. ASSUME NEW j \in EodJobs,
                 \/ drainStockFutures(j) \/ drainHead(j) \/ UpsertStockFuture(j) \/ drainPop(j) \/ ComputeSpreads(j)
                 \/ computePush(j) \/ drainSpreadDaily(j) \/ drainSpreadHead(j) \/ UpsertSpreadDaily(j)
                 \/ RecomputeSpreadSummary(j) \/ ReplaceSpreadSummaries(j)
          PROVE  EodIInv'
      BY <2>6, FuturesDrained, FutureWritten, SpreadsComputed, SpreadsPushed, SpreadsDrained, SpreadWritten, SummaryRuns
    <2>7. CASE UNCHANGED eodVars
      BY <2>1, <2>7, EodHolds DEF eodVars, queueVars, tableVars, eodDayVars
    <2> QED BY <2>2, <2>3, <2>4, <2>5, <2>6, <2>7 DEF EodNext
  <1> QED BY <1>1, EodStarts, PTL DEF EodSpec

\* When nothing runs and nothing is queued, a day with two contracts has the spread of its two
\* nearest (ComputeSpreads after the drain).
THEOREM SpreadsAlwaysFollowRows == EodSpec => []SpreadsFollowRows
  <1>1. EodIInv => SpreadsFollowRows
    <2> SUFFICES ASSUME EodIInv, atRest, NEW d \in Days \ excused, hasTwo(d)
                 PROVE  spreadDaily[d] = twoNearest(d)
      BY DEF SpreadsFollowRows
    <2>1. ~WillRead(d) /\ \A k \in EodJobs : ~Pushes(k, d)
      BY DEF atRest, WillRead, Pushes, NotYetRead, NotYetDrained, DrainsFutures
    <2>2. EndsAs(spreads, d, spreadDaily[d], twoNearest(d))
      BY <2>1 DEF EodIInv, SpreadComing
    <2>3. DOMAIN spreads = {}
      BY DEF atRest
    <2> QED BY <2>2, <2>3 DEF EndsAs
  <1> QED BY <1>1, EodInvariant, PTL
=============================================================================
