--------------------------- MODULE AnalyticsFrames ---------------------------
(***************************************************************************)
(* The open-interest frames: live captures, broker-history backfills and   *)
(* the warm load fill a fine and a coarse frame that belong to one broker  *)
(* namespace, while the broker is switched, the process restarts and       *)
(* recoveries coalesce.                                                    *)
(*                                                                         *)
(* Source: internal/analytics (analytics, namespace, capture, backfill,    *)
(* frames, warmload, scheduler, snapshots, window).                        *)
(*                                                                         *)
(* Time is counted in fine buckets, a coarse bucket is two of them.  A     *)
(* point is its bucket end, the namespace it was read from and whether it  *)
(* is partial.  The option frames, the futures frames and the previous-    *)
(* close baseline share no state but the scope: a behaviour follows one    *)
(* of them through every chain.  Values, the strike window, the day roll   *)
(* and the chain snapshots are left out; buffered writes are stored at     *)
(* once (WriteBehind models the buffer).                                   *)
(***************************************************************************)
EXTENDS Integers, Sequences, FiniteSets, SequencesExt, FiniteSetsExt

CONSTANTS
    MaxTime,        \* bound on the clock, in fine buckets
    Retention,      \* RetentionMs of both frames, in fine buckets
    MaxEvents,      \* bound on ticks, gap checks, asked baselines, switches and restarts
    RepairMax,      \* partialRepairMaxAttempts, headRepairMaxAttempts
    PrevCloseMax    \* prevCloseMaxAttempts

ASSUME FrameBounds == {MaxTime, Retention, MaxEvents, RepairMax, PrevCloseMax} \subseteq Nat

Slots == 1 .. 2                 \* chains at work at once
Grains == {"fine", "coarse"}
Size == [fine |-> 1, coarse |-> 2]
broker(n) == n % 2
NoBase == [src |-> {}, complete |-> FALSE]

\* A chain that holds nothing it has read, and the free slot.
Started(kind, pc, sc, from) ==
    [kind |-> kind, pc |-> pc, scope |-> sc, t |-> 0, got |-> -1, from |-> from, load |-> {},
     have |-> NoBase]
IdleChain == Started("idle", "idle", <<0, 0>>, 0)

VARIABLES
    family,             \* "opt", "fut" or "prev": what the behaviour follows
    clock, activeNs,
    scope,              \* <<namespace, epoch>>
    scopeWarm, frames, prevAttempts, repairs, heads,
    base,               \* the previous-close baseline: the namespaces its tokens were read in
    backfillRunning, backfillOwner, prevRunning, prevOwner,
    late,               \* history: a capture was applied after its bucket had closed
    started, recoveryRunning, recoveryAgain, readyPending,
    dropped,            \* history: a ready event came before Start and none since
    switching,          \* InvalidateNamespace ran, Publish is to come
    cache,              \* per broker and grain, the stored buckets
    storedBase,         \* per broker, the stored baseline
    chains, spent

scopeVars == <<scope, scopeWarm, frames, base, prevAttempts, repairs, heads, backfillRunning, prevRunning, late>>
ownerVars == <<backfillOwner, prevOwner>>
recoveryVars == <<started, recoveryRunning, recoveryAgain, readyPending, dropped>>
envVars == <<family, clock, activeNs, switching, storedBase>>      \* outside of the process
frameVars == <<envVars, scopeVars, ownerVars, recoveryVars, cache, chains, spent>>

NoFrames == [g \in Grains |-> <<>>]

FreshScope(n, e) ==
    /\ scope' = <<n, e>> /\ scopeWarm' = FALSE /\ frames' = NoFrames
    /\ base' = NoBase /\ prevAttempts' = 0 /\ repairs' = [g \in Grains |-> 0] /\ heads' = [g \in Grains |-> 0]
    /\ backfillRunning' = FALSE /\ prevRunning' = FALSE /\ late' = FALSE

FramesInit ==
    /\ family \in {"opt", "fut", "prev"} /\ clock = 0 /\ activeNs = 0 /\ switching = FALSE
    /\ scope = <<0, 1>> /\ scopeWarm = FALSE /\ frames = NoFrames
    /\ base = NoBase /\ prevAttempts = 0 /\ repairs = [g \in Grains |-> 0] /\ heads = [g \in Grains |-> 0]
    /\ backfillRunning = FALSE /\ prevRunning = FALSE /\ late = FALSE
    /\ backfillOwner = 0 /\ prevOwner = 0
    /\ started = FALSE /\ recoveryRunning = FALSE /\ recoveryAgain = FALSE /\ readyPending = FALSE /\ dropped = FALSE
    /\ cache = [b \in 0 .. 1 |-> [g \in Grains |-> {}]] /\ storedBase = [b \in 0 .. 1 |-> NoBase]
    /\ chains = [i \in Slots |-> IF i = 1 THEN Started("boot", "warm", <<0, 1>>, 0) ELSE IdleChain]
    /\ spent = 0

-----------------------------------------------------------------------------
(* Scope fencing                                                           *)

resetNamespace == FreshScope(activeNs, scope[2] + 1)

\* syncNamespaceLocked; afterwards scope'[1] = activeNs.
syncNamespace == IF scope[1] # activeNs THEN resetNamespace ELSE UNCHANGED scopeVars

scopeCurrent(sc) == sc = scope /\ sc[1] = activeNs

\* beginOperation of a stage: the namespace is synced, and a chain of another scope is refused.
beginOperation(i) == scopeCurrent(chains[i].scope)

\* A chain goes on to another stage.
Proceeded(c, pc) == Started(c.kind, pc, c.scope, IF pc = "backfill" THEN c.from ELSE 0)
Proceed(i, pc) == chains' = [chains EXCEPT ![i] = Proceeded(@, pc)]

\* The stage after one that ended or was refused.
After(i, stage) ==
    LET k == chains[i].kind IN
    CASE stage = "capture" -> IF k = "tick" THEN "done" ELSE IF family = "prev" THEN "prev" ELSE "backfill"
      [] stage = "backfill" -> "coarsen"
      [] stage = "prev" -> "done"

\* The first stage of a chain that captures nothing.
FirstBackfill == IF family = "prev" THEN "prev" ELSE "backfill"

Skip(i, stage) == syncNamespace /\ Proceed(i, After(i, stage))

\* The broker is read: answered by the one that is active at that moment (external: the
\* active broker's REST API), with the baseline that is held then.
Reads(i, next, have) ==
    chains' = [chains EXCEPT ![i] = [kind |-> @.kind, pc |-> next, scope |-> @.scope, t |-> clock,
                                     got |-> activeNs, from |-> @.from, load |-> {}, have |-> have]]

-----------------------------------------------------------------------------
(* Frames                                                                  *)

bucketEnd(t, g) == Size[g] * (t \div Size[g] + 1)
Stamps(s) == {p.t : p \in Range(s)}

\* Points of different stamps in time order: the i-th has i - 1 points before it.
sortedFrame(P) ==
    [i \in 1 .. Cardinality(P) |-> CHOOSE p \in P : Cardinality({q \in P : q.t < p.t}) = i - 1]

\* persistWholeFrame: the buckets to write that are closed at now, and the drop of those
\* that left the frame, under the key of the scope's broker.
Mirror(stored, before, after, write, now) ==
    LET put == {p \in write : p.t <= now}
        gone == Stamps(before) \ Stamps(after)
    IN  {p \in stored : p.t \notin gone /\ \A q \in put : q.t # p.t} \cup put

mirrored(new, write, now) ==
    LET b == broker(scope[1])
    IN  [cache EXCEPT ![b] = [g \in Grains |-> Mirror(@[g], frames[g], new[g], write[g], now)]]

\* One point per stamp: a later write of a field replaces the one before.
lastWrites(s) == {s[k] : k \in {j \in 1 .. Len(s) : \A m \in j + 1 .. Len(s) : s[m].t # s[j].t}}
lastTwo(s) == lastWrites(SubSeq(s, IF Len(s) > 1 THEN Len(s) - 1 ELSE 1, Len(s)))
whole(f) == [g \in Grains |-> lastWrites(f[g])]
tails(f) == [g \in Grains |-> lastTwo(f[g])]

\* appendOiFrameLive for one grain: the tail is updated or a bucket appended, the head pruned.
appendLive(s, g, t, src, partial) ==
    LET p == [t |-> bucketEnd(t, g), src |-> src, partial |-> partial]
        a == IF s # <<>> /\ Last(s).t = p.t THEN [s EXCEPT ![Len(s)] = p] ELSE Append(s, p)
        stale == {k \in 1 .. Len(a) : \A m \in 1 .. k : a[m].t < t - Retention}
    IN  SubSeq(a, Cardinality(stale) + 1, Len(a))

appendFutLive(s, g, t, src) == appendLive(s, g, t, src, FALSE)

\* Mutation: a backfilled bucket replaces whatever the frame holds.
Mut_BackfillWins(s, P, now) ==
    sortedFrame({p \in P \cup {q \in Range(s) : q.t \notin {r.t : r \in P}} : p.t >= now - Retention})

\* mergeOiFrame: a backfilled bucket fills a hole or replaces a partial
\* one; among equal stamps of the frame itself the last wins.
merged(s, P, now) ==
    LET yields == {q \in lastWrites(s) : q.partial /\ \E p \in P : p.t = q.t /\ ~p.partial}
        kept == lastWrites(s) \ yields
    IN  sortedFrame({p \in kept \cup {r \in P : \A q \in kept : q.t # r.t} : p.t >= now - Retention})

\* mergeFutOiFrame: no bucket is partial, an existing one always wins.
mergedFut(s, P, now) ==
    sortedFrame({p \in lastWrites(s) \cup {r \in P : r.t \notin Stamps(s)} : p.t >= now - Retention})

\* coarsenOiFrame: a missing or partial coarse bucket takes the complete fine point that closes it.
coarsened(f, now) ==
    LET closing == {p \in lastWrites(f["fine"]) : p.t % 2 = 0 /\ p.t <= now /\ ~p.partial /\ p.t >= now - Retention}
        fills == {p \in closing : \A q \in lastWrites(f["coarse"]) : q.t = p.t => q.partial}
    IN  IF fills = {} THEN f
        ELSE [f EXCEPT !["coarse"] =
                 sortedFrame({p \in fills \cup {q \in lastWrites(@) : q.t \notin {r.t : r \in fills}} : p.t >= now - Retention})]

\* mergeWarmLoaded: points already in memory win.
warmMerged(s, P) == sortedFrame(lastWrites(s) \cup {p \in P : p.t \notin Stamps(s)})

-----------------------------------------------------------------------------
(* How far back a backfill must ask                                        *)

partials(g) == {p.t : p \in {q \in Range(frames[g]) : q.partial}}

\* missingHeadMs: the session opens at 0, and its first bucket is not there.
headMissing(g) ==
    frames[g] # <<>> /\ Head(frames[g]).t > Size[g] /\ clock <= Retention

\* oiBackfillFromMs: the tail, the whole retention of an empty frame, and while repairs are
\* left the open of a session without its head and the oldest partial bucket.
needFrom(g) ==
    IF frames[g] = <<>> THEN clock - Retention
    ELSE Min({Last(frames[g]).t}
             \cup (IF headMissing(g) /\ heads[g] < RepairMax THEN {0} ELSE {})
             \cup {t - Size[g] : t \in {u \in partials(g) : repairs[g] < RepairMax}})

backfillFrom == Min({clock} \cup {needFrom(g) : g \in Grains})

\* An attempt is counted per frame and reason, unless the last was within 25 minutes.
countRepair(n, due, again) == IF due /\ n < RepairMax /\ (again \/ n = 0) THEN n + 1 ELSE n

CountRepairs == \E again \in BOOLEAN :
    /\ repairs' = [g \in Grains |-> countRepair(repairs[g], partials(g) # {}, again)]
    /\ heads' = [g \in Grains |-> countRepair(heads[g], headMissing(g), again)]

SnapshotFrom(i, pc) ==
    /\ CountRepairs
    /\ chains' = [chains EXCEPT ![i] = Started(@.kind, pc, @.scope, backfillFrom)]
    /\ UNCHANGED <<scope, scopeWarm, frames, base, prevAttempts, backfillRunning, prevRunning, late>>

-----------------------------------------------------------------------------
(* Captures                                                                *)

\* The capture is stamped, then instruments and quotes are read.
captureOi(i) ==
    /\ chains[i].pc = "capture"
    /\ \/ beginOperation(i) /\ Reads(i, "captureApply", NoBase) /\ UNCHANGED scopeVars
       \/ Skip(i, "capture")        \* refused, the readiness gate is shut, or the call failed
    /\ UNCHANGED <<envVars, ownerVars, recoveryVars, cache, spent>>

\* voidBackfillPrevClose after a capture that found no baseline and no backfill running.
AskPrevClose(i) ==
    LET free == {j \in Slots : chains[j].kind = "idle"}
        ask == family = "prev" /\ base = NoBase /\ ~prevRunning /\ free # {} /\ spent < MaxEvents
    IN  IF ask
        THEN /\ spent' = spent + 1
             /\ \E j \in free : chains' = [chains EXCEPT ![i] = Proceeded(@, After(i, "capture")),
                                                        ![j] = Started("prev", "prev", scope, 0)]
        ELSE UNCHANGED spent /\ Proceed(i, After(i, "capture"))

captured(c, partial) == [g \in Grains |->
    CASE family = "opt" -> appendLive(frames[g], g, c.t, c.got, partial)
      [] family = "fut" -> appendFutLive(frames[g], g, c.t, c.got)
      [] family = "prev" -> frames[g]]

captureApply(i) ==
    LET c == chains[i] IN
    /\ c.pc = "captureApply"
    /\ IF scopeCurrent(c.scope)
       THEN \E partial \in (IF family = "opt" THEN BOOLEAN ELSE {FALSE}) :
                /\ frames' = captured(c, partial)
                /\ cache' = mirrored(frames', tails(frames'), c.t)
                /\ late' = (late \/ (c.t < clock /\ family # "prev"))
                /\ AskPrevClose(i)
                /\ UNCHANGED <<scope, scopeWarm, base, prevAttempts, repairs, heads, backfillRunning, prevRunning>>
       ELSE Proceed(i, After(i, "capture")) /\ UNCHANGED <<scopeVars, cache, spent>>
    /\ UNCHANGED <<envVars, ownerVars, recoveryVars>>

-----------------------------------------------------------------------------
(* Backfills: single flight per scope, owned by an epoch                   *)

\* beginBackfill: the flag is taken by the chain's scope, and the candles are read.
backfillBegin(i) ==
    /\ chains[i].pc = "backfill"
    /\ \/ /\ beginOperation(i) /\ ~backfillRunning /\ clock > chains[i].from
          /\ backfillRunning' = TRUE /\ backfillOwner' = scope[2]
          /\ Reads(i, "backfillApply", NoBase)
          /\ UNCHANGED <<scope, scopeWarm, frames, base, prevAttempts, repairs, heads, prevRunning, late>>
       \/ Skip(i, "backfill") /\ UNCHANGED backfillOwner
    /\ UNCHANGED <<envVars, prevOwner, recoveryVars, cache, spent>>

\* The buckets that the minute candles from c.from to c.t fall in, all partial when a
\* token's history could not be fetched (a futures run is abandoned instead).
Rebuilt(c, g, partial) ==
    {[t |-> bucketEnd(m, g), src |-> c.got, partial |-> partial] : m \in {x \in 0 .. c.t : c.from <= x}}

RebuiltFut(c, g) == Rebuilt(c, g, FALSE)

\* endBackfill: the flag is cleared by its owner only.
endBackfill(flag, owner, epoch) == flag /\ owner # epoch

backfilled(c, partial) == [g \in Grains |->
    IF family = "opt" THEN merged(frames[g], Rebuilt(c, g, partial), clock)
    ELSE mergedFut(frames[g], RebuiltFut(c, g), clock)]

backfillApply(i) ==
    LET c == chains[i] IN
    /\ c.pc = "backfillApply" /\ Proceed(i, After(i, "backfill"))
    /\ backfillRunning' = endBackfill(backfillRunning, backfillOwner, c.scope[2])
    /\ \/ /\ scopeCurrent(c.scope)
          /\ \E partial \in (IF family = "opt" THEN BOOLEAN ELSE {FALSE}) :
                frames' = backfilled(c, partial) /\ cache' = mirrored(frames', whole(frames'), clock)
       \/ UNCHANGED <<frames, cache>>       \* stale, or the run failed
    /\ UNCHANGED <<scope, scopeWarm, base, prevAttempts, repairs, heads, prevRunning, late,
                   envVars, ownerVars, recoveryVars, spent>>

\* tryBeginPrevCloseBackfill, and the attempts of the day.
prevCloseBegin(i) ==
    /\ chains[i].pc = "prev"
    /\ \/ /\ beginOperation(i) /\ ~prevRunning /\ ~base.complete /\ prevAttempts < PrevCloseMax
          /\ prevRunning' = TRUE /\ prevOwner' = scope[2] /\ prevAttempts' = prevAttempts + 1
          /\ Reads(i, "prevApply", base)
          /\ UNCHANGED <<scope, scopeWarm, frames, base, repairs, heads, backfillRunning, late>>
       \/ Skip(i, "prev") /\ UNCHANGED prevOwner
    /\ UNCHANGED <<envVars, backfillOwner, recoveryVars, cache, spent>>

\* What the day candles found, beside the tokens already held for that expiry.
baselines(c) == [src : {{c.got}, c.have.src, {c.got} \cup c.have.src} \ {{}}, complete : BOOLEAN]

\* The baseline is stored under the key of the scope's broker.
persistPrevClose(found) == [storedBase EXCEPT ![broker(scope[1])] = found]

prevCloseApply(i) ==
    LET c == chains[i] IN
    /\ c.pc = "prevApply" /\ Proceed(i, After(i, "prev"))
    /\ prevRunning' = endBackfill(prevRunning, prevOwner, c.scope[2])
    /\ \/ /\ scopeCurrent(c.scope)
          /\ \E found \in baselines(c) :
                base' = found /\ storedBase' = persistPrevClose(found)
       \/ UNCHANGED <<base, storedBase>>      \* stale, or no data was found
    /\ UNCHANGED <<scope, scopeWarm, frames, prevAttempts, repairs, heads, backfillRunning, late,
                   family, clock, activeNs, switching, ownerVars, recoveryVars, cache, spent>>

\* coarsenFrames, after a backfill and at the end of a warm load, works on whatever
\* scope is current.
coarsen(i) ==
    /\ \/ chains[i].pc = "coarsen" /\ Proceed(i, "done")
       \/ chains[i].pc = "warmCoarsen" /\ Proceed(i, "warmEnd")
    /\ frames' = coarsened(frames, clock)
    /\ cache' = IF frames' = frames THEN cache ELSE mirrored(frames', whole(frames'), clock)
    /\ UNCHANGED <<envVars, scope, scopeWarm, base, prevAttempts, repairs, heads, backfillRunning, prevRunning, late,
                   ownerVars, recoveryVars, spent>>

-----------------------------------------------------------------------------
(* Warm load                                                               *)

Loaded(c, load, have) ==
    [kind |-> c.kind, pc |-> "warmApply", scope |-> c.scope, t |-> 0, got |-> -1, from |-> c.from,
     load |-> {load}, have |-> have]

\* The stored buckets of a broker that retention has not passed.
readable(stored) == [g \in Grains |-> {p \in stored[g] : p.t >= clock - Retention}]

warmBegin(i) ==
    /\ chains[i].pc = "warm"
    /\ \/ LET b == broker(scope[1]) IN
          /\ beginOperation(i) /\ UNCHANGED scopeVars
          /\ chains' = [chains EXCEPT ![i] = Loaded(@, readable(cache[b]), storedBase[b])]
       \/ beginOperation(i) /\ UNCHANGED scopeVars /\ Proceed(i, "warmEnd")   \* the cache does not answer
       \/ ~beginOperation(i) /\ syncNamespace /\ Proceed(i, "check")
       \/ chains[i].kind = "recovery" /\ scopeWarm /\ UNCHANGED scopeVars /\ Proceed(i, "check")
    /\ UNCHANGED <<envVars, ownerVars, recoveryVars, cache, spent>>

\* The points that were loaded are put under those in memory.
loadedFrames(c) ==
    LET l == CHOOSE x \in c.load : TRUE IN [g \in Grains |-> warmMerged(frames[g], l[g])]

\* What was loaded enters the scope: a stored baseline replaces the one in memory.
Enters(c) ==
    /\ frames' = loadedFrames(c)
    /\ base' = IF c.have = NoBase THEN base ELSE c.have

\* Mutation: what was loaded is merged whatever happened to the scope meanwhile.
Mut_LoadIntoAny(i) ==
    LET c == chains[i] IN
    /\ c.pc = "warmApply" /\ Enters(c) /\ Proceed(i, "warmCoarsen")
    /\ UNCHANGED <<envVars, scope, scopeWarm, prevAttempts, repairs, heads, backfillRunning, prevRunning, late,
                   ownerVars, recoveryVars, cache, spent>>

\* What was loaded enters the scope that is still current; otherwise the load ends.
warmApply(i) ==
    LET c == chains[i] IN
    /\ c.pc = "warmApply"
    /\ IF scopeCurrent(c.scope)
       THEN Enters(c) /\ Proceed(i, "warmCoarsen")
       ELSE UNCHANGED <<frames, base>> /\ Proceed(i, "warmEnd")
    /\ UNCHANGED <<envVars, scope, scopeWarm, prevAttempts, repairs, heads, backfillRunning, prevRunning, late,
                   ownerVars, recoveryVars, cache, spent>>

\* The deferred end: a scope that is still current is warm.
warmEnd(i) ==
    /\ chains[i].pc = "warmEnd" /\ Proceed(i, "check")
    /\ scopeWarm' = (scopeWarm \/ scopeCurrent(chains[i].scope))
    /\ UNCHANGED <<envVars, scope, frames, base, prevAttempts, repairs, heads, backfillRunning, prevRunning, late,
                   ownerVars, recoveryVars, cache, spent>>

-----------------------------------------------------------------------------
(* Chains                                                                  *)

\* goAsync: a chain of the synced scope starts in a free slot.
goAsync(i, kind, pc) ==
    /\ chains[i] = IdleChain /\ syncNamespace
    /\ chains' = [chains EXCEPT ![i] = Started(kind, pc, scope', 0)]

captureTick(i) ==
    /\ started /\ spent < MaxEvents /\ spent' = spent + 1 /\ goAsync(i, "tick", "capture")
    /\ UNCHANGED <<envVars, ownerVars, recoveryVars, cache>>

\* gapCheck: the window is taken before the scope is synced.
gapCheck(i) ==
    /\ started /\ chains[i] = IdleChain /\ spent < MaxEvents /\ spent' = spent + 1
    /\ IF scope[1] # activeNs THEN resetNamespace
       ELSE CountRepairs /\ UNCHANGED <<scope, scopeWarm, frames, base, prevAttempts, backfillRunning, prevRunning, late>>
    /\ chains' = [chains EXCEPT ![i] = Started("gap", FirstBackfill, scope', backfillFrom)]
    /\ UNCHANGED <<envVars, ownerVars, recoveryVars, cache>>

\* startRecovery: one recovery at a time, another is run after it.
startRecovery(i) ==
    \/ /\ recoveryRunning /\ recoveryAgain' = TRUE
       /\ syncNamespace /\ UNCHANGED <<recoveryRunning, chains>>
    \/ /\ ~recoveryRunning /\ recoveryRunning' = TRUE
       /\ goAsync(i, "recovery", "warm") /\ UNCHANGED recoveryAgain

\* Before Start a ready event is dropped.
OnBrokerReady(i) ==
    /\ readyPending /\ readyPending' = FALSE /\ dropped' = ~started
    /\ IF started THEN startRecovery(i)
       ELSE syncNamespace /\ UNCHANGED <<recoveryRunning, recoveryAgain, chains>>
    /\ UNCHANGED <<envVars, ownerVars, started, cache, spent>>

\* A Kite login recovers also before Start.
OnKiteLogin(i) ==
    /\ spent < MaxEvents /\ spent' = spent + 1 /\ startRecovery(i)
    /\ UNCHANGED <<envVars, ownerVars, started, readyPending, dropped, cache>>

\* A stale recovery ends; a current one takes its window and captures.  Boot's chain
\* marks the service started and goes on in the scope of that moment.
check(i) ==
    /\ chains[i].pc = "check"
    /\ \/ /\ chains[i].kind = "boot" /\ started' = TRUE
          /\ IF scope[1] # activeNs THEN resetNamespace
             ELSE CountRepairs /\ UNCHANGED <<scope, scopeWarm, frames, base, prevAttempts, backfillRunning, prevRunning, late>>
          /\ chains' = [chains EXCEPT ![i] = Started("boot", FirstBackfill, scope', backfillFrom)]
       \/ /\ chains[i].kind # "boot" /\ scopeCurrent(chains[i].scope)
          /\ SnapshotFrom(i, "capture") /\ UNCHANGED started
       \/ /\ chains[i].kind # "boot" /\ ~scopeCurrent(chains[i].scope)
          /\ Proceed(i, "done") /\ UNCHANGED <<scopeVars, started>>
    /\ UNCHANGED <<envVars, ownerVars, recoveryRunning, recoveryAgain, readyPending, dropped, cache, spent>>

\* A recovery that ends runs the one asked for meanwhile (OnBrokerReady in its slot).
chainDone(i) ==
    /\ chains[i].pc = "done"
    /\ IF chains[i].kind = "recovery" /\ recoveryAgain
       THEN /\ recoveryAgain' = FALSE /\ UNCHANGED recoveryRunning /\ syncNamespace
            /\ chains' = [chains EXCEPT ![i] = Started("recovery", "warm", scope', 0)]
       ELSE /\ chains' = [chains EXCEPT ![i] = IdleChain] /\ UNCHANGED <<scopeVars, recoveryAgain>>
            /\ recoveryRunning' = (recoveryRunning /\ chains[i].kind # "recovery")
    /\ UNCHANGED <<envVars, ownerVars, started, readyPending, dropped, cache, spent>>

-----------------------------------------------------------------------------
(* The registry, the clock and restarts                                    *)

Tick ==
    /\ clock < MaxTime /\ clock' = clock + 1
    /\ UNCHANGED <<family, activeNs, switching, storedBase, scopeVars, ownerVars, recoveryVars, cache, chains, spent>>

\* A switch cancels the readers, publishes the new namespace, and reports it ready.
InvalidateNamespace ==
    /\ spent < MaxEvents /\ spent' = spent + 1
    /\ ~switching /\ switching' = TRUE /\ resetNamespace
    /\ UNCHANGED <<family, clock, activeNs, storedBase, ownerVars, recoveryVars, cache, chains>>

Publish ==
    /\ switching /\ switching' = FALSE /\ activeNs' = activeNs + 1 /\ readyPending' = TRUE
    /\ UNCHANGED <<family, clock, storedBase, scopeVars, ownerVars, started, recoveryRunning, recoveryAgain, dropped, cache, chains, spent>>

\* The process dies and boots again over the same cache (epochs are counted on, so that
\* scopes stay distinct).
Restart ==
    /\ started /\ ~switching /\ spent < MaxEvents /\ spent' = spent + 1
    /\ FreshScope(activeNs, scope[2] + 1) /\ backfillOwner' = 0 /\ prevOwner' = 0
    /\ started' = FALSE /\ recoveryRunning' = FALSE /\ recoveryAgain' = FALSE /\ readyPending' = FALSE
    /\ dropped' = FALSE
    /\ chains' = [i \in Slots |-> IF i = 1 THEN Started("boot", "warm", scope', 0) ELSE IdleChain]
    /\ UNCHANGED <<envVars, cache>>

ChainStep(i) ==
    \/ captureOi(i) \/ captureApply(i) \/ backfillBegin(i) \/ backfillApply(i)
    \/ prevCloseBegin(i) \/ prevCloseApply(i) \/ coarsen(i)
    \/ warmBegin(i) \/ warmApply(i) \/ warmEnd(i) \/ check(i) \/ chainDone(i)

FramesNext ==
    \/ \E i \in Slots : ChainStep(i) \/ captureTick(i) \/ gapCheck(i) \/ OnBrokerReady(i) \/ OnKiteLogin(i)
    \/ Tick \/ InvalidateNamespace \/ Publish \/ Restart

FramesSpec == FramesInit /\ [][FramesNext]_frameVars

-----------------------------------------------------------------------------
(* Properties                                                              *)

Points == UNION {Range(frames[g]) : g \in Grains}

\* Nothing read from one broker reaches the frames, the baseline or the cache keys of
\* another, however a switch cuts through captures, backfills and the warm load; a
\* baseline stored in an earlier namespace comes back in those of its broker only.
OneBrokersData ==
    /\ \A p \in Points : broker(p.src) = broker(scope[1])
    /\ \A n \in base.src : broker(n) = broker(scope[1])
    /\ \A b \in 0 .. 1 : \A n \in storedBase[b].src : broker(n) = b
    /\ \A b \in 0 .. 1, g \in Grains : \A p \in cache[b][g] : broker(p.src) = b

\* A frame is in time order without two points of one bucket, unless a capture took
\* so long that it was applied after its bucket had closed.
FramesOrdered ==
    late \/ \A g \in Grains : \A k \in 1 .. Len(frames[g]) - 1 : frames[g][k].t < frames[g][k + 1].t

\* A single-flight flag is held exactly while a backfill of this scope is at work: none
\* is left set, and one of an earlier scope that ends late does not clear it.
BackfillFlagOwned ==
    LET at(pc) == {i \in Slots : chains[i].scope = scope /\ chains[i].pc = pc}
    IN  /\ backfillRunning = (at("backfillApply") # {}) /\ Cardinality(at("backfillApply")) <= 1
        /\ prevRunning = (at("prevApply") # {}) /\ Cardinality(at("prevApply")) <= 1

\* A complete bucket stays complete until retention drops it or the scope changes: no
\* backfill, coarsening or warm load degrades it, only a live capture of that bucket may.
KeepsComplete ==
    (scope' = scope /\ ~late') =>
        \A g \in Grains : \A p \in Range(frames[g]) :
            (~p.partial /\ p.t >= clock - Retention)
                => \/ \E q \in Range(frames'[g]) : q.t = p.t /\ ~q.partial
                   \/ \E i \in Slots : chains[i].pc = "captureApply" /\ bucketEnd(chains[i].t, g) = p.t
CompleteKept == [][KeepsComplete]_frameVars

\* When everything has come to rest, the active broker's cached frames are loaded, also
\* when its ready event met a recovery of the broker before it; only an event that came
\* before Start is lost.
RestIsWarm ==
    (started /\ ~switching /\ ~readyPending /\ ~dropped /\ \A i \in Slots : chains[i] = IdleChain)
        => (scopeWarm /\ scope[1] = activeNs /\ ~recoveryRunning)

\* Frames hold one broker's data in order, single flights end, and rest is warm.
FramesSound == OneBrokersData /\ FramesOrdered /\ BackfillFlagOwned /\ RestIsWarm
=============================================================================
