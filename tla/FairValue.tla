------------------------------ MODULE FairValue ------------------------------
(***************************************************************************)
(* The Fair Value engine's publications: surfaces are computed off the     *)
(* lock from a captured input and published only if nothing they depended  *)
(* on changed; the calculator and the leave-one-out estimates answer from  *)
(* a published pair; published snapshots are persisted in order; and the   *)
(* configuration is restored at boot and replaced by updates.              *)
(*                                                                         *)
(* Source: internal/fairvalue/engine.go, store.go, and of the broker's     *)
(* switch and restore what the engine sees of them                         *)
(* (internal/brokers/registry/switch.go).                                  *)
(*                                                                         *)
(* An input is what identifies it: the broker generation, the feed         *)
(* generation, the configuration version and the watch entry it was built  *)
(* under.  Quotes, universes and the model's numbers are left out; the     *)
(* lane share of this engine is module LaneBudget and its worker pool      *)
(* module WorkerPool.  Configuration 0 is the environment's, 1 the saved   *)
(* one; every update makes a new one.                                      *)
(***************************************************************************)
EXTENDS Integers, Sequences, SequencesExt, FiniteSets

CONSTANTS
    Symbols,            \* underlyings
    MaxUnderlyings,     \* max_underlyings: watched at once
    Captures,           \* capture goroutines
    Watchers,           \* requests that watch an underlying
    MaxGeneration,      \* bound on the broker generation
    MaxHistory,         \* max_queue: snapshots waiting to be persisted
    MaxPublished,       \* bound on surfaces published
    MaxEvents           \* bound on what clients and the world do, the boot's reads among it

ASSUME FairValueBounds ==
    MaxUnderlyings \in Nat \ {0} /\ MaxHistory \in Nat \ {0}
    /\ MaxGeneration \in Nat /\ MaxPublished \in Nat /\ MaxEvents \in Nat

None == [gen |-> 0, feed |-> 0, ver |-> 0, entry |-> 0]
IdleCapture == [pc |-> "idle", sym |-> CHOOSE s \in Symbols : TRUE, input |-> None]
NotAsking == [pc |-> "idle", sym |-> CHOOSE s \in Symbols : TRUE, gen |-> 0]
IdleCall == [pc |-> "idle", kind |-> "none", input |-> None]

VARIABLES
    gen,            \* BrokerGeneration()
    switch,         \* how far a switch is, and the generation it began from
    restore,        \* how far the boot's restore of the generation is, and the one it copied
    superseded,     \* history: the generation the restore replaced
    version,        \* e.config, e.version
    paused,
    disposed,
    feedGen,        \* feedGeneration
    brokerGen,      \* lastBrokerGeneration
    watched,        \* per symbol, its watch entry; 0 = not watched
    entries,        \* watch entries made so far
    asking,         \* per watch request, the symbol it looks for and the generation it read
    doubled,        \* history: watch entries a second request for their symbol replaced
    latest,         \* per symbol, the input of the published surface
    retained,       \* retainedInputs
    cache,          \* independentCache: inputs with a cached estimate
    pending,        \* symbols with a surface job in flight
    capture,
    call,           \* one calculator or estimate request
    sequence,       \* publicationSequence
    historyQueue,
    persisting,     \* the snapshot being appended, 0 when no drain runs
    history,        \* the snapshots stored, in the order they were stored
    disk,           \* the saved configuration
    persisted,      \* configPersisted
    updating,       \* the configuration an update has applied and not yet saved; 0 = none
    boot,           \* the boot's restore: "no", "read" (LoadConfig answered, with what) or "done"
    events,
    early           \* history: versions replaced by the boot's restore

brokerVars == <<gen, switch, restore, superseded>>
worldVars == <<brokerVars, events>>
stateVars == <<paused, disposed>>
genVars == <<feedGen, brokerGen>>
servedVars == <<latest, retained, cache>>
watchVars == <<watched, entries, asking, doubled>>
jobVars == <<pending, capture, call>>
historyVars == <<sequence, historyQueue, persisting, history>>
configVars == <<version, disk, persisted, updating, boot, early>>
fairValueVars == <<worldVars, stateVars, genVars, servedVars, watchVars, jobVars, historyVars, configVars>>

FairValueInit ==
    /\ gen = 1 /\ switch = [pc |-> "no", from |-> 0] /\ events = 0
    /\ restore = [pc |-> "no", gen |-> 0] /\ superseded = {}
    /\ version = 0 /\ paused = FALSE /\ disposed = FALSE
    /\ feedGen = 1 /\ brokerGen = 1
    /\ watched = [s \in Symbols |-> 0] /\ entries = 0
    /\ asking = [w \in Watchers |-> NotAsking] /\ doubled = {}
    /\ latest = [s \in Symbols |-> None] /\ retained = {} /\ cache = {}
    /\ pending = {} /\ capture = [c \in Captures |-> IdleCapture] /\ call = IdleCall
    /\ sequence = 0 /\ historyQueue = <<>> /\ persisting = 0 /\ history = <<>>
    /\ disk = 1 /\ persisted = FALSE /\ updating = 0 /\ boot = [pc |-> "no", ver |-> 0] /\ early = {}

event == events < MaxEvents /\ events' = events + 1

-----------------------------------------------------------------------------
(* The broker's generation (registry.SwitchTo, registry.Restore)           *)

switching == switch.pc # "no"

\* A switch: the engine is invalidated, the generation moves on from the one the switch
\* began with, and the switch ends; nothing invalidates the engine once it has moved.
SwitchBegins ==
    /\ ~switching /\ gen < MaxGeneration /\ event /\ switch' = [pc |-> "stopping", from |-> gen]
    /\ UNCHANGED <<gen, restore, superseded, stateVars, genVars, servedVars, watchVars, jobVars, historyVars, configVars>>

StoreGeneration ==
    /\ switch.pc = "cleared" /\ switch' = [switch EXCEPT !.pc = "stored"]
    /\ gen' \in (switch.from + 1)..MaxGeneration
    /\ UNCHANGED <<restore, superseded, events, stateVars, genVars, servedVars, watchVars, jobVars, historyVars, configVars>>

SwitchEnds ==
    /\ switch.pc = "stored" /\ switch' = [switch EXCEPT !.pc = "no"]
    /\ UNCHANGED <<gen, restore, superseded, events, stateVars, genVars, servedVars, watchVars, jobVars, historyVars, configVars>>

\* The boot adopts the generation of the stored row if it is ahead of the one it copied, with
\* requests served meanwhile, no switch in progress needed and the engine not told.
RestoreCopies ==
    /\ restore.pc = "no" /\ event /\ restore' = [pc |-> "copied", gen |-> gen]
    /\ UNCHANGED <<gen, switch, superseded, stateVars, genVars, servedVars, watchVars, jobVars, historyVars, configVars>>

RestoreStores ==
    /\ restore.pc = "copied" /\ restore' = [restore EXCEPT !.pc = "done"]
    /\ gen' \in restore.gen..MaxGeneration /\ superseded' = {gen}
    /\ UNCHANGED <<switch, events, stateVars, genVars, servedVars, watchVars, jobVars, historyVars, configVars>>

-----------------------------------------------------------------------------
(* Invalidation                                                            *)

\* assertAvailableLocked, for an engine that is enabled.
available == ~paused /\ ~disposed /\ ~switching

\* invalidateLocked: a new feed generation; nothing published before it is served.
invalidate ==
    /\ feedGen' = feedGen + 1 /\ brokerGen' = gen
    /\ latest' = [s \in Symbols |-> None] /\ retained' = {} /\ cache' = {}

invalidateNamespace == watched' = [s \in Symbols |-> 0] /\ invalidate

\* A feed that drops or reconnects, or room given up to browser streams.
Invalidate ==
    /\ event /\ invalidate
    /\ UNCHANGED <<brokerVars, stateVars, watchVars, jobVars, historyVars, configVars>>

\* The switch's hook: the generation recorded is the outgoing one, the new one is not there yet.
InvalidateNamespace ==
    /\ switch.pc = "stopping" /\ switch' = [switch EXCEPT !.pc = "cleared"] /\ invalidateNamespace
    /\ UNCHANGED <<gen, restore, superseded, events, stateVars, entries, asking, doubled, jobVars, historyVars, configVars>>

\* A tick, a cycle, a status or a snapshot request that meets another generation first; the
\* requests do so paused and disposed too.
NoticesGeneration ==
    /\ brokerGen # gen /\ invalidateNamespace
    /\ UNCHANGED <<worldVars, stateVars, entries, asking, doubled, jobVars, historyVars, configVars>>

Pause ==
    /\ event /\ paused' = ~paused
    /\ IF paused' THEN invalidate ELSE UNCHANGED <<genVars, servedVars>>
    /\ UNCHANGED <<brokerVars, disposed, watchVars, jobVars, historyVars, configVars>>

Dispose ==
    /\ ~disposed /\ event /\ disposed' = TRUE
    /\ UNCHANGED <<brokerVars, paused, genVars, servedVars, watchVars, jobVars, historyVars, configVars>>

-----------------------------------------------------------------------------
(* Watching                                                                *)

\* An underlying that is not watched is looked for in the board, off the lock.
WatchAsks(w, s) ==
    /\ event /\ available /\ watched[s] = 0 /\ asking[w].pc = "idle"
    /\ asking' = [asking EXCEPT ![w] = [pc |-> "board", sym |-> s, gen |-> gen]]
    /\ UNCHANGED <<brokerVars, stateVars, genVars, servedVars, watched, entries, doubled, jobVars, historyVars, configVars>>

\* Not there, no longer available or another generation: refused.  Otherwise a new entry,
\* without another look at whether the underlying is watched by now; the least recently
\* touched go when there are too many, with what was published for them.
WatchSets(w) ==
    /\ asking[w].pc = "board" /\ asking' = [asking EXCEPT ![w] = NotAsking]
    /\ LET s == asking[w].sym
           now == {t \in Symbols : watched[t] # 0}
       IN \/ /\ available /\ asking[w].gen = gen /\ entries' = entries + 1
             /\ \E kept \in SUBSET now :
                 /\ Cardinality(kept) < MaxUnderlyings /\ (Cardinality(now) < MaxUnderlyings => kept = now)
                 /\ watched' = [t \in Symbols |-> IF t = s THEN entries'
                                                  ELSE IF t \in kept THEN watched[t] ELSE 0]
                 /\ latest' = [t \in Symbols |-> IF t \in kept THEN latest[t] ELSE None]
                 /\ doubled' = doubled \cup {watched[t] : t \in kept \cap {s}}
          \/ UNCHANGED <<watched, latest, entries, doubled>>
    /\ UNCHANGED <<worldVars, stateVars, genVars, retained, cache, jobVars, historyVars, configVars>>

\* cycle: an underlying nobody asked for is dropped.
CycleDropsIdle(s) ==
    /\ event /\ available /\ watched[s] # 0
    /\ watched' = [watched EXCEPT ![s] = 0] /\ latest' = [latest EXCEPT ![s] = None]
    /\ UNCHANGED <<brokerVars, stateVars, genVars, retained, cache, entries, asking, doubled, jobVars, historyVars, configVars>>

-----------------------------------------------------------------------------
(* Capturing a surface                                                     *)

current(s) == [gen |-> gen, feed |-> feedGen, ver |-> version, entry |-> watched[s]]

\* The identity is taken before the instruments are loaded.
captureBegin(c, s) ==
    /\ sequence < MaxPublished /\ capture[c].pc = "idle" /\ s \notin pending /\ available /\ watched[s] # 0
    /\ capture' = [capture EXCEPT ![c] = [pc |-> "loading", sym |-> s, input |-> current(s)]]
    /\ UNCHANGED <<worldVars, stateVars, genVars, servedVars, watchVars, pending, call, historyVars, configVars>>

\* The universe failed to load, or something moved meanwhile: nothing.  Otherwise the
\* input goes to the workers.
captureInput(c) ==
    /\ capture[c].pc = "loading"
    /\ LET k == capture[c]
           valid == /\ k.sym \notin pending /\ k.input.gen = gen /\ ~switching /\ ~paused
                    /\ k.input.ver = version /\ k.input.feed = feedGen
       IN \/ valid /\ capture' = [capture EXCEPT ![c].pc = "worker"] /\ pending' = pending \cup {k.sym}
          \/ capture' = [capture EXCEPT ![c] = IdleCapture] /\ UNCHANGED pending
    /\ UNCHANGED <<worldVars, stateVars, genVars, servedVars, watchVars, call, historyVars, configVars>>

\* A snapshot worth keeping is queued for the store; an over-full queue drops its oldest.
recordHistory(queue, n) ==
    LET longer == Append(queue, n) IN IF Len(longer) > MaxHistory THEN Tail(longer) ELSE longer

\* Mutation: the result is checked against the configuration and the broker only.
Mut_PublishAnyEntry(c) ==
    /\ capture[c].pc = "worker"
    /\ LET k == capture[c]
       IN /\ pending' = pending \ {k.sym} /\ capture' = [capture EXCEPT ![c] = IdleCapture]
          /\ IF available /\ k.input.ver = version /\ k.input.gen = gen /\ k.input.feed = feedGen
             THEN /\ latest' = [latest EXCEPT ![k.sym] = k.input]
                  /\ retained' = retained \cup {k.input} /\ sequence' = sequence + 1
                  /\ historyQueue' = recordHistory(historyQueue, sequence + 1)
             ELSE UNCHANGED <<latest, retained, sequence, historyQueue>>
    /\ UNCHANGED <<worldVars, stateVars, genVars, cache, watchVars, call, persisting, history, configVars>>

\* The job failed (a replaced or disposed pool, a time budget), or the result is published
\* if its whole identity is still the current one.
capturePublish(c) ==
    /\ capture[c].pc = "worker"
    /\ LET k == capture[c]
       IN /\ pending' = pending \ {k.sym} /\ capture' = [capture EXCEPT ![c] = IdleCapture]
          /\ \/ /\ available /\ k.input = current(k.sym)
                /\ latest' = [latest EXCEPT ![k.sym] = k.input]
                /\ retained' = retained \cup {k.input} /\ sequence' = sequence + 1
                /\ historyQueue' = recordHistory(historyQueue, sequence + 1)
             \/ UNCHANGED <<latest, retained, sequence, historyQueue>>
    /\ UNCHANGED <<worldVars, stateVars, genVars, cache, watchVars, call, persisting, history, configVars>>

-----------------------------------------------------------------------------
(* Persisting the history                                                  *)

\* One drain: it takes the head out of the queue before the store answers.
drainHistory ==
    /\ persisting = 0 /\ historyQueue # <<>> /\ ~disposed
    /\ persisting' = Head(historyQueue) /\ historyQueue' = Tail(historyQueue)
    /\ UNCHANGED <<worldVars, stateVars, genVars, servedVars, watchVars, jobVars, sequence, history, configVars>>

\* Append inserts once per id: a snapshot the database took before it failed is kept and
\* its retry changes nothing.  A failed one goes back to the head.
drainAnswered ==
    /\ persisting # 0 /\ persisting' = 0
    /\ LET inserted == IF Contains(history, persisting) THEN history ELSE Append(history, persisting)
       IN \/ history' = inserted /\ UNCHANGED <<historyQueue, events>>
          \/ /\ event /\ historyQueue' = <<persisting>> \o historyQueue
             /\ history' \in {history, inserted}
    /\ UNCHANGED <<brokerVars, stateVars, genVars, servedVars, watchVars, jobVars, sequence, configVars>>

-----------------------------------------------------------------------------
(* Answering from a published pair                                         *)

\* currentInputsLocked: the retained pair asked for, or the latest, if it is current.
usable(input) ==
    /\ available /\ input # None
    /\ input.gen = gen /\ input.feed = feedGen /\ input.ver = version
    /\ input \in retained \/ \E s \in Symbols : input = latest[s]

callBegin(kind) ==
    /\ call.pc = "idle" /\ event
    /\ \E input \in {latest[s] : s \in Symbols} \cup retained :
        /\ usable(input) /\ (kind = "independent" => input \notin cache)
        /\ call' = [pc |-> "worker", kind |-> kind, input |-> input]
    /\ UNCHANGED <<brokerVars, stateVars, genVars, servedVars, watchVars, pending, capture, historyVars, configVars>>

\* The pair must still be current when the workers have answered; only then is the answer
\* given.
calculateAnswered ==
    /\ call.pc = "worker" /\ call.kind = "calculate" /\ call' = IdleCall
    /\ UNCHANGED <<worldVars, stateVars, genVars, servedVars, watchVars, pending, capture, historyVars, configVars>>

\* Likewise for an estimate, which is then cached.
independentAnswered ==
    /\ call.pc = "worker" /\ call.kind = "independent" /\ call' = IdleCall
    /\ \/ usable(call.input) /\ cache' = cache \cup {call.input}
       \/ UNCHANGED cache
    /\ UNCHANGED <<worldVars, stateVars, genVars, latest, retained, watchVars, pending, capture, historyVars, configVars>>

-----------------------------------------------------------------------------
(* The configuration                                                       *)

LoadConfig ==
    /\ boot.pc = "no" /\ event /\ boot' = [pc |-> "read", ver |-> disk]
    /\ UNCHANGED <<brokerVars, stateVars, genVars, servedVars, watchVars, jobVars, historyVars,
                   version, disk, persisted, updating, early>>

\* Boot: the saved configuration as it was read replaces what is in memory.  The caches
\* are made anew; the surfaces published so far stay.
Boot ==
    /\ boot.pc = "read" /\ boot' = [boot EXCEPT !.pc = "done"]
    /\ version' = boot.ver /\ persisted' = TRUE /\ early' = early \cup {version}
    /\ retained' = {} /\ cache' = {}
    /\ UNCHANGED <<worldVars, stateVars, genVars, latest, watchVars, jobVars, historyVars, disk, updating>>

\* One update at a time: memory first, then (after a rebuild that may fail) the store.
applyConfig ==
    /\ updating = 0 /\ event /\ updating' = events + 2
    /\ version' = events + 2 /\ persisted' = FALSE /\ invalidate
    /\ UNCHANGED <<brokerVars, stateVars, watchVars, jobVars, historyVars, disk, boot, early>>

SaveConfig ==
    /\ updating # 0 /\ updating' = 0
    /\ \/ disk' = updating /\ persisted' = TRUE
       \/ UNCHANGED <<disk, persisted>>
    /\ UNCHANGED <<worldVars, stateVars, genVars, servedVars, watchVars, jobVars, historyVars, version, boot, early>>

FairValueNext ==
    \/ SwitchBegins \/ InvalidateNamespace \/ StoreGeneration \/ SwitchEnds
    \/ RestoreCopies \/ RestoreStores
    \/ Invalidate \/ NoticesGeneration \/ Pause \/ Dispose
    \/ \E s \in Symbols : \/ CycleDropsIdle(s)
                          \/ \E w \in Watchers : WatchAsks(w, s)
                          \/ \E c \in Captures : captureBegin(c, s)
    \/ \E w \in Watchers : WatchSets(w)
    \/ \E c \in Captures : captureInput(c) \/ capturePublish(c)
    \/ \E kind \in {"calculate", "independent"} : callBegin(kind)
    \/ drainHistory \/ drainAnswered \/ calculateAnswered \/ independentAnswered
    \/ LoadConfig \/ Boot \/ applyConfig \/ SaveConfig

FairValueSpec == FairValueInit /\ [][FairValueNext]_fairValueVars

-----------------------------------------------------------------------------
(* Properties                                                              *)

\* The generation the restore stored is not the successor of the one it replaced: a switch
\* stored its own between the copy and the store.
Overtaken == restore.pc = "done" /\ restore.gen \notin superseded

\* What GetSnapshot serves: it notices another generation first.
snapshot(s) == IF brokerGen # gen THEN None ELSE latest[s]

\* What was published or cached is of this broker generation, or of the one the boot's restore
\* replaced without a word to the engine.
OfBroker(input) == input.gen = gen \/ input.gen \in superseded

\* capture publishes only what is still current, and every invalidation takes back what
\* was published: although a switch invalidates under the outgoing generation and leaves the
\* engine behind, nothing of an earlier broker is served after it.  A published surface is of
\* this feed generation, of this watch entry unless a second request for its symbol replaced
\* that, and of this configuration unless the boot restored another one under it; and the
\* snapshot a client gets is of this broker generation.
PublishedCurrent ==
    \A s \in Symbols : latest[s] # None =>
        /\ OfBroker(latest[s]) /\ latest[s].feed = feedGen
        /\ latest[s].entry = watched[s] \/ latest[s].entry \in doubled
        /\ latest[s].ver = version \/ latest[s].ver \in early
        /\ ~Overtaken /\ snapshot(s) # None => snapshot(s).gen = gen

\* A cached estimate or a retained input never outlives what it was computed under.
CachesCurrent ==
    \A i \in retained \cup cache : OfBroker(i) /\ i.feed = feedGen /\ i.ver = version

\* drainHistory persists in order: whatever failed and was put back meanwhile, snapshots
\* reach the store in the order they were published, each at most once.
HistoryInOrder == \A i, j \in DOMAIN history : i < j => history[i] < history[j]

\* What is served and cached is current, and history keeps its order.
ServedCurrent == PublishedCurrent /\ CachesCurrent /\ HistoryInOrder

-----------------------------------------------------------------------------
(* ServedCurrent holds by the parts below                                  *)

SwitchType == [pc : {"no", "stopping", "cleared", "stored"}, from : Nat]
RestoreType == [pc : {"no", "copied", "done"}, gen : Nat]
BootType == [pc : {"no", "read", "done"}, ver : Nat]
InputType == [gen : Nat, feed : Nat, ver : Nat, entry : Nat]

FairValueTypeOK ==
    /\ gen \in Nat /\ brokerGen \in Nat /\ feedGen \in Nat /\ version \in Nat /\ entries \in Nat /\ events \in Nat
    /\ watched \in [Symbols -> Nat] /\ latest \in [Symbols -> InputType]
    /\ disk \in Nat /\ updating \in Nat /\ boot \in BootType
    /\ switch \in SwitchType /\ restore \in RestoreType
    /\ sequence \in Nat /\ persisting \in Nat /\ historyQueue \in Seq(Nat) /\ history \in Seq(Nat)

\* Until the restore has stored its generation, the generation only moves forward, by
\* switches, and the engine's lags behind it; a surface that is not of the current generation
\* is one the engine will notice.
BehindBroker ==
    /\ restore.pc # "done" => brokerGen <= gen /\ superseded = {} /\ (switching => switch.from = gen \/ switch.pc = "stored")
    /\ restore.pc = "copied" => restore.gen <= gen
    /\ \A s \in Symbols : latest[s] # None => (~Overtaken /\ latest[s].gen # gen => brokerGen # gen)

\* From the switch's invalidation until its end there is nothing to serve.
ClearedInSwitch ==
    switch.pc \in {"cleared", "stored"} =>
        retained = {} /\ cache = {} /\ \A s \in Symbols : latest[s] = None

\* What waits to be stored is in the order of publication, behind the snapshot being stored
\* and behind the stored ones; the first one waiting may be stored already, if its failure
\* was reported after the insert.
HistoryLine ==
    /\ \A i \in 1..Len(historyQueue) :
          /\ persisting < historyQueue[i] /\ historyQueue[i] <= sequence
          /\ \A j \in 1..Len(historyQueue) : i < j => historyQueue[i] < historyQueue[j]
          /\ \A k \in 1..Len(history) : history[k] <= historyQueue[i]
    /\ persisting <= sequence
    /\ \A k \in 1..Len(history) : history[k] <= sequence /\ (persisting # 0 => history[k] <= persisting)

FairValueIInv == FairValueTypeOK /\ BehindBroker /\ ClearedInSwitch /\ PublishedCurrent /\ CachesCurrent /\ HistoryLine /\ HistoryInOrder
=============================================================================
