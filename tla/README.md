# A formal model of the CalSpread backend

CalSpread is a Go backend for option traders in India.  It streams live prices of
one of two brokers (Zerodha and Dhan) to browsers, records them for analytics, and
runs several engines on top of them: Fair Value surfaces, synthetic futures and
spike straddles on paper, hourly and end-of-day captures.  This directory holds a
TLA+ model of its concurrent core, the TLC configurations that check it and TLAPS
proofs about it.

Every definition is translated from the code named in `PROJECT.json` under `map`,
with the code's names where TLA+ allows them.  A method body under one mutex is one
action; what runs outside of it (goroutines, callbacks, timers, calls made after an
unlock) takes steps of its own.

## The system

| Part | State it keeps | Operations | What is hard about it |
|---|---|---|---|
| Subscription coordinator (`brokers/subscriptions.go`) | per lane: holders per token and owner, leases | `Acquire`, `Release`, `SetOwnerTokens`, `ResetForBrokerSwitch` | repeated and stale releases, shared tokens, a switch under open streams |
| Registry (`brokers/registry`) | active broker and generation, lanes, Dhan session, providers | `SwitchTo`, `Restore`, subscription routing, logins, instrument loads | a switch has ten steps and streams, logins, loads and crashes fall between any two |
| Dhan feed (`brokers/dhan/feed.go`) | socket, wanted tokens, books, reconnect timer, event queue | subscribe, unsubscribe, stop, dispose, socket and timer callbacks | late callbacks of replaced sockets and cancelled timers; delivery outside the mutex |
| Kite lane feed (`kite/lanefeed.go`, `kite/ticker`) | wanted tokens, socket, frames queued for it, reconnect timer | subscribe, unsubscribe, ensure, stop, callbacks | credentials read outside the mutex; frames of before and after the socket opens |
| Ticker hub (`hub/hub.go`, `kite/ticker`) | the Kite socket, subscribed tokens, cached ticks, clients, listeners | subscribe, unsubscribe, attach, broadcast, fail, stop | callbacks of superseded sockets, a serial queue drained by anyone |
| SSE writer and stream route (`hub/sse.go`, `marketdata/routes.go`) | per stream: frame queue, write lock, close state | attach, write, ping, close, detach | a peer that stops reading while several goroutines write, close and wait |
| Market-data sessions (`marketdata`) | token lists by id, expiry, open streams; quote cache | create, resolve, open, close, sweep, drop all, quotes | expiry and eviction against open streams; broker and generation read before the work |
| Dhan session (`registry/dhansession.go`, `brokerlogin.go`) | access token, rejected token, stored row, lanes | consent login, token service, manual paste, logout, session lost, restore | a lost-session callback of an old feed against a new token |
| Kite session (`core/kitesession.go`, `kite/client.go`) | token in memory, row, queue of writes | login, logout, refusals, restore | a refusal of the old token, a row written later, a restore next to requests |
| Instruments (`registry/instruments.go`, `dhan/instruments.go`) | cache per broker, loads in flight | load, forced load, invalidate | a load of before a switch that ends after it |
| Historical gate (`kite/historical_gate.go`) | one slot, a queue of interactive and background callers | acquire, release, give up, watchdog | the slot is handed over in the moment its receiver leaves |
| Dhan requests (`dhan/http.go`) | the pacing lock and its waiters, the last start, attempts | request, read with retries, cancel | contexts that end while the lock is handed over or during the interval |
| Dhan lane's queue (`registry/serial.go`) | operations queued for a feed, the goroutine that runs them | go, do, run | a delivery holds the feed's gate and waits for a lock whose holder asks the feed for something |
| Fair Value (`fairvalue`) | watched underlyings, tokens, surfaces, history queue, configuration, worker pool | watch, cycle, rebuild, capture, yield, pause, update, calculate | computed outside the mutex, budget shared with browsers, deadlines that fire late |
| Synthetic futures (`synthetic`) | books, candidates, paper trades, lane share, settings, streams | scan, enter, exit, settle, delete, persist, load | storage calls between two looks at the state, midnights, restarts, switches |
| Spike (`spike`) | universe, windows, queued entries, one paper spread per index, the pause | detect, enter, close, pause, reconcile | database calls between two looks at the state; day changes, switches and restarts around queued entries |
| Analytics (`analytics`) | frames in memory, write-behind buffer | capture, flush, warm load, backfill, repair | chains of two brokers' scopes overlap; a flush that failed may have been committed |
| Captures (`captures`) | queues of rows, spreads, single-flight flags | tick, capture, drain, backfill, review, reconcile | who writes what was queued while the writer leaves; spreads of half a day's rows |
| Calendar trades (`calendar`) | trades, ledger | take, close, delete | two closes of one trade; a ledger written after the response |
| Application (`app`, `lifecycle`) | parts that run, boot progress, shutdown progress | boot, signal, shutdown steps | a signal during boot, a step that hangs, a second signal |

How they interact: a browser opens an SSE route, which attaches a client to the hub
and acquires a lease from the coordinator of the futures lane.  The coordinator asks
Fair Value to give up room, then subscribes the first holders' tokens on the feed of
the active broker: the hub's own Kite socket, or the Dhan feed, whose ticks are
ingested into the hub.  The hub fans ticks out to clients and listeners.  A broker
switch stops all feeds, resets the coordinators, drops sessions, books and
instruments, saves and adopts the new selection, reloads and starts the new feed.
Synthetic and Spike have a lane each, declare whole token sets on it and are told of a
switch by hooks; analytics and captures read ticks and history and write rows; all of
them share the historical gate.

## The modules

| Module | Models |
|---|---|
| `Subscriptions` | the coordinator's table and its transport calls |
| `LaneBudget` | browser streams and Fair Value on the futures lane, and the lane's part of a switch; extends `Subscriptions` |
| `BrokerSwitch` | `SwitchTo`, the `active_broker` row, crash and boot, subscription routing of streams |
| `DhanFeed` | the Dhan WebSocket feed |
| `Hub` | the hub's Kite socket, subscriptions, dead-token path and listener queue, with browser streams and engines as holders |
| `SseStream` | one browser's frame queue, writer, pings, close and route |
| `Spike` | the Spike monitor's entries, closes, pause and reconciles, its three tables and its lane |
| `SynthBook`, `PaperBook` | the synthetic engine's positions and their storage; what that storage promises, as an abstract specification |
| `SynthLane` | its universe, refreshes and relinks, and the token sets it declares |
| `SynthTrading` | its rules of entry, confirmation, exit and settlement on one strike |
| `SynthSettings`, `SynthStream` | its saved settings; its SSE streams |
| `FairValue`, `WorkerPool` | Fair Value's publications, history and configuration; its worker pool |
| `AnalyticsFrames`, `WriteBehind` | the open-interest frames; the buffer between them and the cache table |
| `HourlyCapture`, `EodCapture` | hourly rows; end-of-day rows, spreads and summary |
| `CalendarTrades` | take, close and delete of calendar trades, and their ledger |
| `DhanSession`, `KiteSession` | the two brokers' access tokens |
| `KiteLaneFeed` | a lane's Zerodha feed and its sockets |
| `BrowserSessions`, `InstrumentLoads` | browser sessions and quotes; instrument universes |
| `HistoricalGate` | the slot every history request passes |
| `DhanHttp` | pacing, deadlines and retries of Dhan's REST requests |
| `WireQueue` | the serial queue between a lane's coordinator and its Dhan feed, with the locks on both sides |
| `AppLifecycle` | boot and shutdown of the process |
| `LaneProofs` | theorems about `Subscriptions` and `LaneBudget` |
| `SwitchFeedProofs` | theorems about `BrokerSwitch` and `DhanFeed` |
| `HubFramesProofs`, `SpikeProofs` | theorems about `Hub` and `AnalyticsFrames`; about `Spike` |
| `SynthProofs` | theorems about `SynthBook` and its refinement of `PaperBook`, `SynthLane`, `SynthSettings`, `SynthStream` |
| `StoredProofs` | theorems about `FairValue`, `WorkerPool`, `HourlyCapture`, `EodCapture`, `CalendarTrades`, `WriteBehind` |
| `SessionProofs` | theorems about `DhanSession`, `KiteSession`, `KiteLaneFeed`, `BrowserSessions`, `InstrumentLoads` |
| `LiveProofs` | theorems about `HistoricalGate`, `DhanHttp`, `SseStream`, `AppLifecycle`, `SynthTrading`, `WireQueue` |

`MC*` modules give TLC its model values and bounds.  Definitions named `Mut_...` are
deliberate mistakes, at least one per property; none is part of a specification.

Five of the MC modules (`MCSwitchLive`, `MCSynthetic`, `MCStored`, `MCAnalytics`,
`MCSessions`) and `MCLive` put components side by side that share no state.  A
behaviour of such a module picks one component by `part`, which never changes, and the
others rest in their initial states: the run explores the sum of the components' state
spaces, with the same steps and at most the fairness each has alone.  Nothing about interaction is claimed
there; what components do to each other is inside a module (`LaneBudget` has streams,
Fair Value and the switch, `BrokerSwitch` the switch and the streams, `WireQueue` Fair
Value, the coordinator and the Dhan feed, `Hub` the
coordinator's callers, `Spike` and `SynthLane` the registry's hooks).

### Subscriptions

`counts`, `total`, `leases` and `leaseSeq` are the coordinator's maps and counter.
`upstream[t]` counts the transport's subscribe calls for `t` that are not taken back
since the feed was last stopped, which is how the model sees a token subscribed twice.  A
switch stops the feed (`StopLane`, `stopAllLanes`), which drops its tokens, and later resets
the table (`ResetForBrokerSwitch`), which makes no transport call.  Streams may acquire
between the two: `cut` are the held tokens the stop took off the feed, `stray` those first
held after it, which stay asked for although the reset forgets their holders.  `UpstreamExact`
says that these are all the exceptions.  A `stray` token may be off the outgoing feed before
its next stop (taken and given up again between the reset and the new generation), so
`stray` says at most too much.  `live` and `spent` are
history: the leases a caller still holds, and handles that were released or outlived
a switch, which a caller may release again at any time.  Each operation holds the
coordinator's mutex, transport calls included, and is one action.

### LaneBudget

`yieldAnalytics` computes the priority set under the coordinator's mutex
(`StreamYieldRead`), calls Fair Value without it (`StreamYield`), and only then the
lease is entered (`StreamAcquire`).  `rebuildNow` checks, unlocks to load instruments
(`RebuildBegin`), locks and checks again (`RebuildLock`, `StillValid`), counts the
tokens of other owners one coordinator call at a time (`RebuildCount`) and declares
its selection (`RebuildApply`).  Which contracts it selects is left open: any set
within the budget.  The table is changed by the operations of `Subscriptions` only.

### BrokerSwitch

`op` is the switch that holds `opMu` and the step it is at; streams do not take
`opMu`.  `StreamRoute` and `StreamSubscribe` are the two halves of
`subscribeUpstream`: reading the active broker, and asking its feed.  The row is
upserted by `SavedRow`; the save may fail or commit without an answer.  A crash may
fall between any two steps.  `Boot` is a new process that serves requests; its boot
chain then takes the steps of `Restore` (`BootRead`, `BootCopy`, `BootAdopt`) and of
`StartActiveRuntime` (`BootRuntime`, `BootOpen`), none of them under `opMu`, so that a
switch may run between any two.  `overtaken` is history: a switch saved while `Restore`
held a row; `BootAdopt` then puts the old selection back in force.  `late` is history as
well: brokers whose socket was asked for while the selection moved, by a stream or the boot
chain during a switch, or by anybody before `Restore` had adopted the row.

### DhanFeed

Every socket ever opened has its goroutine in `phase`; `sock` is the current one by
epoch.  `timer` is the armed reconnect timer by sequence number, and `fired` the
callbacks that wait for the mutex.  A book is the epoch it was built by; `sent` is
what the server was asked for, which a failing write leaves incomplete.  `Resolvable` are
the tokens that encode a segment and an id: the others are skipped by every request and
stay wanted.  The delivery
gate is held while `OnTicks` runs (`drainer.at = "ticking"`), and `Stop` and
`UnsubscribeTokens` wait for it.

### Hub

`holder` stands for the callers of the futures lane's coordinator: browsers, attached
to the hub while their stream is open, and engines, which never attach.  The hub
reads credentials outside its mutex (`AcquireReadsCreds`).  `onSocketError` is three
steps, as in the code: check, dead-token callback, stop.  `unserved` and `kept` are
history that name the two reasons for a difference between held and subscribed
tokens.  Externally ingested ticks, seeds, `Retain` and the legacy `AddClient` are
not in the model.

### SseStream

Frames are numbered; `seen` is the last one the browser has.  A write ends by itself
only when its deadline has passed or the connection is gone: a peer that stopped
reading is never assumed to read again.  `once` is the progress of the body of
`Close`, which the hub, the writer and the route may all call.

### Spike

`op` is the operation that holds the engine's `opMu`, and where it is: `enter`,
`reconcile`, `SetPaper` and `Close` look at the state under `e.mu`, call the database
or the instrument provider without it, and come back.  Everything else happens
between these steps.  `Write` is the database: it commits and answers, refuses (the
unique index, `status='open'`), fails, or commits and its answer is lost; then `doubt`
is set until the next load.  A tick that makes a sample may or may not qualify: prices
and the crossover rule are left open, except that a signal needs a previous sample.
`prev` is that sample, as history: `"live"`, or `"cut"` when a reported disconnection
or a change of generation lies behind it and the code kept it.  A contract is an index
and the day its universe was built for; `subscribed` is the lane's subscription table,
not what the socket was asked for.  Replacing a token recycles the lane without
telling the engine; until `OnRuntimeReady` a pair of samples may span that moment if
they are at most a minute apart, and the model counts such a pair as live.

### The synthetic engine

`SynthBook` has an action for every stretch between two storage calls of `enter`,
`finalize`, `delete`, the load and the margin estimate.  `rows` is the table; `held` and
its companions are the engine's maps, `closedIDs` and `deletedIDs` among them, which
keep a load that read a row earlier from bringing it back.  `NewID` is some id that
neither a row nor an entry under way has.  An insert, a close and the delete of a held
position are two steps, as they are in the code: the write lands (`InsertLands`, `CloseLands`,
`DeleteLands`), and its answer moves memory later (`finishEnter`, `CloseWon`, `CloseLost`,
`DeleteOpenEnds`); between the two a load or a refused entry may read the row.  A call that
fails may have landed all the same.  Four history variables name the cases in which the
code's memory may differ from the table: a write this process does not know of
(`unseen`), a load that had rows in hand at midnight, when the two sets are emptied
(`staleLoad`), a deletion while a close was about to list the trade (`lateList`), and a
row that was read back before the write behind it was answered (`ahead`): a load lists a
trade that its own close then puts on the list again (`twice`), or adopts a position that
is closed and then put back by the answer to its insert.  The
table's view is a behaviour of `PaperBook` (`ImplementsPaperBook`, a refinement
through `INSTANCE ... WITH`): a trade is opened, closed and deleted at most once and in
this order, one open trade per underlying, and a deleted trade stays as it was.

`SynthLane` numbers namespaces by broker generation.  A refresh resolves its universe
outside the mutex; `superseded` is `staleCheckLocked`.  `effects` is the queue of
`SetTokens` calls made after the mutex is released.  `SynthTrading` prices conversions
and reversals on integer prices at the touch, with charges per order, and follows one
strike from a signal through its confirmations to the exit or the settlement.  The gate of
an entry counts the lock and, with `IncludeCarry`, the carry: the interest on the net premium
until expiry, received on a conversion and paid on a reversal, which is one rate in the first
session and nothing in the last.  A trade records the two apart; exits and settlement look at the
lock only, as `EntryEdge` and `EntryNetEdge` do.  What `EvaluateSynthetic` computes in
floating point is left out beyond that.  `linked` is the
position's absence from `unlinked`, `retrying` the time before its `retryAt`.  `seenBooks` is
history: the signatures of the books on which a signal was found, at every look since it
last broke.  A signature is the versions of the three legs' books; a fresh book is
replaced for the call only (`Moving`), the legs that make a signal come and go.
`SynthSettings` is the queue of turns that the load and the operators' requests take;
parsing is left out.  `SynthStream` numbers the snapshots and leaves out their content.

### Fair Value

An input is the four numbers its publication depends on: broker generation, feed
generation, configuration version and watch entry.  `capturePublish` compares them
again under the mutex, as `capture` does.  A switch is four steps in the order of `SwitchTo`:
it invalidates the engine while the generation is still the outgoing one
(`InvalidateNamespace`), stores the generation and ends, so that `brokerGen` stays behind
until a tick, a cycle, a status or a snapshot request notices (`NoticesGeneration`), and what
is watched and published in between goes then.  The boot's restore of the generation copies
and stores it in two steps, next to served requests and without an invalidation.  A watch
request looks its symbol up off the lock (`WatchAsks`, `WatchSets`).  `WorkerPool` has a slot per worker and, as a
state of its own, a deadline callback that has started and waits for the mutex
(`firing`).  Quotes, universes and the model's numbers are left out.

### Analytics and captures

`AnalyticsFrames` runs at most two chains at once, in one frame family (options,
futures or the previous-close baseline), which `family` chooses: the families share
the scope only.  Every chain reads its scope, works outside the mutex and checks the
scope before it applies.  `captured`, `backfilled`, `coarsened` and `loadedFrames` say what
a stage makes of the frames, `mirrored` what it asks the cache to store and drop; a frame
is sorted by rank (`sortedFrame`: the i-th point has i - 1 points before it).  A warm load
reads the buckets that retention has not passed (`readable`) and the stored baseline
(`storedBase`, which `persistPrevClose` writes), applies them if its scope is current, coarsens
whatever scope is current then, and marks its own scope warm at last (`warmEnd`).  A baseline
is the set of namespaces that its tokens were read in.  `late` is history: a capture
was applied after its bucket had closed, which may put a partial point over a complete
one.  The strike window, the day roll, chain snapshots and the clamp at the session's
close are left out.  `WriteBehind` numbers the versions of each field, so
that the stored one can be compared with the one asked for last; TTLs are left out.
`HourlyCapture` queues the rows of one capture in one step; `EodCapture` has one symbol
with three contracts and represents a spread by the pair it was taken from.
`CalendarTrades` keeps what the routes check and write, and leaves out prices, profit
and margin.  A statement and its answer are two steps (`take` and `takeAnswered`, `close` and
`closeAnswered`): the answer starts the ledger's row or, lost, ends the route without it.

### Sessions, feeds and loads

`DhanSession` numbers tokens as Dhan issues them.  `sessOp` is the holder of `opMu`; a
lost-session callback waits for it in a goroutine of its own.  A lane is the token its
socket runs on.  `ProcessEnds` empties memory; `Restore`, which holds no `opMu`, then reads the row
(`RestoreReads`: none, unreadable, another account's, expired or good) and stores or deletes
it (`RestoreAdopts`, `RestoreClears`), with logins, logouts, switches and subscribers between the
two; only the token service waits for it.  `restoring.changed` is history, whether anyone else has
touched the session since the process began, and `overtaken` that `Restore` had the last word
over them.  Static-IP verification, health and the wording of problems are left
out; that a late subscriber keeps a replaced lane alive is `BrokerSwitch`'s subject.
`KiteSession` has the queue of writes of `core.background`, requests that carry a token
and may be refused after it was replaced, and `onFeedTokenRejected`.
`KiteLaneFeed` has a feed and its ticker connections, whose frames queue until the
socket is open; tick rates, statistics and the backoff's length are left out.
`BrowserSessions` has one token list and leaves the legacy stream, which has no
session, out.  `InstrumentLoads` has the provider's cache over the Dhan store's own.

### Gates, queues and lifecycle

`HistoricalGate` has the code's one queue, in which `queuesAt` puts an interactive caller
behind the interactive ones; a caller may leave at any moment and the owner may
stall for ever.  `DhanHttp` has calls of `Read`, each with its own attempts; timers are
what is left of them in ticks, so that no clock has to be bounded, and `lastAtAge` is the
age of `lastAt`.  A context may end anywhere, also in the step in which the lock is handed
over; of an answer only what decides on a retry is kept.  `WireQueue` has two goroutines
that declare tokens, one of which (Fair Value) holds the lock its tick listener takes, one
that stops, starts or flushes the lane, the goroutine of the queue, and the goroutine that
drains the feed's events, which may be the queue's own.  The gate is a Go `RWMutex`: once
the writer has asked for it no reader gets in.  A feed is what it wants and whether it was
asked to be open.  `AppLifecycle` knows of every part whether it runs; `shutdownSteps` are
the coordinator's in their order, any of which may hang, and those in `MayFail` may
fail.

## What is checked

| Run | Bounds | Shows |
|---|---|---|
| `lane_budget` | 2 tokens, 2 streams, lane of 1, 2 leases, 1 switch | counts, leases and upstream subscriptions agree, but for the tokens cut off by a switch's stop and those its reset leaves behind, and live leases stay; Fair Value's set is what the coordinator counts for it and of the current broker (`AnalyticsShare`); a budget overrun is corrected and a stream that waits gets its lease (`LaneProgress`) |
| `broker_switch` | 2 streams, 2 switches, 1 crash and boot, failing store; the feed with 1 token, 2 sockets, 2 timers | what is stored is what runs, a socket left over needs somebody late, a switch ends; the Dhan feed reconnects and reports a lost session (`FeedProgress`) |
| `broker_switch_one_feed` | 2 streams, 2 switches | a violation, see Findings |
| `dhan_feed` | 3 tokens of which 1 cannot be resolved, 3 sockets, 2 timers, 2 queued events, failing writes | books, ticks and the listener's view belong to the current socket (`ListenersInStep`); a stopped feed stays stopped, and what is wanted is asked for or there is a reason why not (`WantedServed`) |
| `hub` | 2 tokens, 1 browser, 1 engine, 2 sockets | held tokens are served, the wire matches, a leaked token had an attached client, the listener catches up (`HubServes`) |
| `spike` | 1 index, 2 trades, queue of 1, 2 switches or one and a midnight or restart | memory and tables agree, entries are fresh, nothing stays pending (`SpikeSound`); a pause holds and legs stay on the lane (`SpikeSteps`) |
| `synthetic` | book: 2 trades, 2 upsets; lane: 2 underlyings, 1 switch; settings: 2 keys, 2 operators, 1 restart; streams: 2 with room for 2 frames | what the engine shows is what is stored (`BookAgrees`); the table is a `PaperBook`; the lane holds what the scanner wants, of the current namespace; the settings in force are the saved ones; no stream misses a frame or is left waiting |
| `synth_settings_lost` | as in `synthetic` | a violation, see Findings |
| `stored` | Fair Value: 2 underlyings, both watched at most, 2 watch requests, 1 capture, 3 generations, 2 surfaces, 4 events; pool: 4 jobs on 2 workers; hourly: 2 symbols, 1 slot, 2 tasks; EOD: 3 contracts, 3 days, 2 backfills, 1 check; trades: 3 requests, 2 at once, on 1 trade and an old one | what is served was computed from what is in force, but for what a restore at boot or a second watch request replaced under it, and history is stored in order (`ServedCurrent`); every waiting job is queued or running and a deadline fails its own job only (`PoolServes`); no queued row is stranded (`CaptureSound`); spreads follow rows; totals add up and the ledger has the exit of each closed row but one whose answer was lost |
| `analytics` | frames: 3 buckets, 2 chains, 2 events; buffer: 2 fields, 4 writes, 3 failures | frames and baselines are of one broker, frames in order, with their flags owned (`FramesSound`), and a complete point stays complete (`CompleteKept`); no buffered write is lost (`WritesKept`) |
| `sessions` | Dhan: 2 tokens, 3 operations, one of which may be a login next to `Restore`; Kite: 2 logins, 2 days, 1 restart; lane: 2 tokens, 2 sockets; browser: 1 session, 2 switches; loads: 3, 2 switches | memory, row and lanes agree on the Dhan token and a live one is not dropped, but for what a `Restore` leaves that stored over a login; the stored Kite session is the one held; the lane is served; sessions count their streams and quotes are of the active broker; no caller is given the other broker's instruments |
| `live` | 2 signals; queue of 2, 5 frames, 2 pings; 4 requests at the gate; 3 Dhan reads with 2 attempts; 1 token, 3 declarations, 1 stop, start or flush, 1 batch of ticks; 1 strike, 6 events, with carry | a shutdown respects its order and ends; a stream has no gap, writes nothing after its route returned and ends; gate and pacing lock have one owner, interactive callers stay ahead of background ones and Dhan requests keep their interval (`OneAtATime`); a Dhan feed follows the coordinator through the queue and is shut when a stop has returned (`WireSound`); nobody waits for ever, at the gate, for Dhan or for a feed (`NobodyStuck`); entries and exits follow the rules, a close by an exit rule keeps a profit and a settlement pays the gate's minimum less the carry (`RulesKept`), and a position ends |

Why the bounds are enough for the cases that matter: two tokens let two holders
overlap in one and differ in the other; three sockets give one that is current, one
that was replaced and one whose goroutine is still dialling; two timers give one that
was cancelled after it fired and its successor; two leases let a lease outlive a
switch, one be taken between its stop and its reset, and a new one take its place; one crash is enough for a restored selection of
generation 2 or 3 and a switch beside the boot chain; two trades and two switches let a candidate of the first
generation meet one of the third in Spike's queue, and a queue of one fills up.  Spike's
indexes share nothing but the queue and the operations, hence one.  In the synthetic
book two trades let one be closed while its successor on the same underlying opens,
and two upsets let a lost answer meet a midnight.  Four jobs on two workers fill a
queue of two and let a worker be reused while a deadline callback waits.  Two chains
are enough for a chain of an old scope to overlap one of the new.  Two backfills, a check
and the tick give the end-of-day drain three writers that are turned away.  The gate's
four callers are two of each kind.  Three Dhan reads are an owner, a waiter that leaves
and one behind it; an attempt is shorter than the interval, so that the interval matters.
Three declarations let a token be given up by one owner and taken by the other while the
first operation is still queued.  Every bound named `Max...` limits a counter that
grows without end in the code and is a guard of the actions that count.

Deadlock is checked in `lane_budget`, `broker_switch`, `dhan_feed`, `hub` and `spike`.
The other runs contain components that really stop: a stream that ended, a process that
exited, a pool that was closed, a day that is over.

### Fairness

Goroutines that are inside a function keep running (weak fairness of their steps).
Waiting for a mutex is strongly fair, because Go's `sync.Mutex` hands itself to a
waiter that has starved.  Timers expire: the feed's reconnect timer, the gate's
watchdog, the deadline, interval and back-off of a Dhan request, the shutdown's deadline, the synthetic engine's tick.  Fair Value's cycle
timer calls `cycle` again and again, and `cycle` rebuilds when the set is over budget.
For `PositionEnds` storage answers, a failed close is tried again (`RetryDue`), one that is
tried again and again is stored at last (strong fairness of `closeStored`), and the
trading day goes on (`TimePasses`).  Nothing is assumed of
the network, of the peers, of callers, of crashes or of switches; a shutdown step and
the owner of the gate may hang for ever, and Dhan need not answer.  `MCLive` assumes less
than its modules: of several goroutines with finitely many steps, that some one that can
go on does.

### Findings

* `OneBrokerFeeds`: `subscribeUpstream` reads the active broker and asks its feed in
  two steps; a switch that stops the feeds in between leaves the outgoing broker's
  socket open afterwards.  `LeftoverNeedsLateAsk` shows the only other ways: the boot
  chain does the same, and a selection restored at boot makes the sockets left over that
  were opened before it was adopted.
* `NeverUnderDefaults`: `UpdateSettings` saves all settings in force.  Before the first
  load these are the env defaults, so an operator who changes one setting then writes
  the defaults over the others, and the load that follows finds them: entries are
  taken under the defaults although different values had been saved.

More differences are visible in the models, where a history variable or a
premise of a property names them.  A browser stream releases its lease before it
detaches and the hub keeps the tokens of attached clients, so its tokens may stay
subscribed (`kept` in `Hub`).  The error of a socket may stop the hub after a newer
socket took its place (`unserved` in `Hub`).  The first switch of a new database
announces generation 2 and stores 1 (`row.gen <= gen` in `SelectionDurable`).  And
`Restore` takes no `opMu` although requests are served while it runs: a switch between
its read of the row and its store is answered as done, and undone in memory (`overtaken`
in `BrokerSwitch`).  A stream that acquires tokens after the switch stopped the lanes and
before the coordinator is reset leaves them on the outgoing feed with no holder (`stray` in
`Subscriptions`).  `finishFinalize` puts its trade on today's list without looking for it:
when the load of today's trades reads a close that was not answered yet, the trade is on the
list two times, and counts twice in today's P&L until midnight (`twice` in `SynthBook`).
`finishEnter` puts its trade among the positions although it may have been adopted and closed
meanwhile: the closed position is then held again (`ahead` in `SynthBook`).
A switch invalidates Fair Value under the outgoing generation and nothing does so after the
generation has moved: the first tick, cycle or request that compares the two drops what was
watched since the switch.  A generation that `Restore` adopts leaves what was published before
it in place until then (`superseded` in `FairValue`), and a switch that stores its generation
between the copy and the store of `Restore` may hide it for good (`Overtaken`).  A second watch
request that was looking its underlying up replaces the entry of the first and leaves the surface
published for that (`doubled`).  A close of a calendar trade that is stored and whose answer is
lost leaves its route before the ledger: the exit is never recorded, since a second request finds
the trade closed (`unanswered` in `CalendarTrades`).  `WarmLoad` keeps "anything already in memory"
(`warmload.go:90`) of the frames; the stored previous-close baseline replaces the one in memory
(`warmload.go:167`), and a warm load that has read an incomplete one puts it over the complete one
that a backfill found meanwhile, until the next attempt (`Enters` in `AnalyticsFrames`).
A Dhan login or logout while `Restore` runs may be overtaken (`overtaken` in `DhanSession`): the
token `Restore` has read goes over the new one, or its deletion of an expired row removes the new
row, and no lane is restarted.
`EvaluateSynthetic` counts the carry among what an entry earns (`math.go:658`), `EntryEdge`
(`math.go:886`) and `SettleTradeAtExpiry` do not: a position whose carry made it eligible may settle
at a loss of up to that carry, where a comment of `EvaluateExit` says "hold, the lock still pays at
expiry" (`math.go:1067`; `RuleExitsPay` in `SynthTrading`).

## What is proved

The theorems hold for every value of the constants: any sets of tokens, streams,
engines, underlyings, symbols, keys and callers, and any value of the bounds that keep TLC's state
spaces finite.  Assumed of the constants is what the `ASSUME`s of the modules say, which
TLC evaluates in the runs: bounds are natural numbers, Zerodha is not Dhan, a kind of
owner either acquires or declares, there are finitely many tokens and finitely many browser
requests, browsers are not engines, a name that stands for nobody or for the scheduler (`NoJob`,
`"tick"`, `"none"`, `Loader`, `Absent`) is not also the name of a caller, a run, an operator or
a value, and queue, attempts, timeouts, days and the number of confirmations are not zero.
No theorem assumes fairness.

Each safety theorem has the same shape: an inductive invariant `...IInv`, defined next to
the properties of its module and checked by TLC on that module before it was proved
(that of the frames, `FramesInv`, speaks of all sequences of points, which TLC cannot
enumerate, and stands with its proof); a lemma that the initial states satisfy it; a lemma per action, or per group of actions
that disturb the same parts, that it is kept; and a last step that the property follows.

| Theorem | Of | States |
|---|---|---|
| `RefcountsAlwaysExact`, `UpstreamAlwaysExact`, `LiveLeasesAlwaysKept` | `SubsSpec` | counts are exact, upstream subscriptions are exact but for what a stop cuts off and a reset forgets, live leases stay |
| `AnalyticsAlwaysShares` | `LaneSpec` | `AnalyticsShare` |
| `LaneUsesTable`, `LaneCountsExact` | `LaneSpec` | it implements `SubsSpec`, hence all of the first line holds of it |
| `SelectionAlwaysDurable`, `LeftoverAlwaysFromLateAsk` | `SwitchSpec` | `SelectionDurable`, `LeftoverNeedsLateAsk` |
| `ListenersAlwaysInStep`, `WantedAlwaysServed` | `FeedSpec` | `ListenersInStep`, `WantedServed` |
| `HubAlwaysServes` | `HubSpec` | `HubServes` |
| `BookAlwaysAgrees`, `BookIsPaperBook` | `BookSpec` | `BookAgrees`; it implements `PaperBook` |
| `AlwaysOneAtATime` | `LiveSpec` | `OneAtATime`: the gate (`GateAlwaysOneOwner`) and Dhan's pacing (`RestAlwaysPaced`) |
| `TradingAlwaysByRules` | `TradingSpec` | `RulesKept` |
| `StreamAlwaysSound`, `ShutdownAlwaysSound`, `WireAlwaysSound` | `StreamSpec`, `LifecycleSpec`, `WireSpec` | `StreamSound`, `ShutdownSound`, `WireSound` |
| `SpikeAlwaysSound`, `SpikeNeverForbidden` | `SpikeSpec` | `SpikeSound`, `SpikeSteps` |
| `LaneAlwaysFollows`, `SettingsInForceAreSaved`, `StreamsAlwaysServed` | `SynthLaneSpec`, `SettingsSpec`, `SynthStreamSpec` | `LaneFollowsScanner`, `ForceIsSaved`, `StreamsServed` |
| `AlwaysServedCurrent`, `PoolAlwaysServes` | `FairValueSpec`, `PoolSpec` | `ServedCurrent`, `PoolServes` |
| `CaptureAlwaysSound`, `SpreadsAlwaysFollowRows` | `HourlySpec`, `EodSpec` | `CaptureSound`, `SpreadsFollowRows` |
| `TradesAlwaysExplained`, `WritesAlwaysKept` | `CalendarSpec`, `WriteBehindSpec` | `TradesExplained`, `WritesKept` |
| `SessionAlwaysKept`, `StoredAlwaysHeld`, `LaneFeedAlwaysServes` | `DhanSessionSpec`, `KiteSessionSpec`, `LaneFeedSpec` | `SessionKept`, `StoredIsHeld`, `LaneServed` |
| `FramesAlwaysSound`, `CompleteAlwaysKept` | `FramesSpec` | `FramesSound`, `CompleteKept` |
| `SessionsAlwaysSound`, `CallersAlwaysGetTheirUniverse` | `BrowserSpec`, `LoadSpec` | `SessionsSound`, `UniverseOfCaller` |

What the invariants add to the properties, and why the properties alone are not kept:

* **Subscriptions** (`SubsIInv`).  `LeaseKeys`: lease ids are distinct, none is larger than
  `leaseSeq`, and a declaring owner has at most its `:set` lease; without it a new lease
  could overwrite an old one, and `SetOwnerTokens`, which drops a token once, would be
  wrong for an owner with several leases.  `LiveExact`: the acquired leases of the table
  are exactly the live ones and no spent handle names one; without it a stale release
  could remove somebody's lease.  `StopThenReset`: tokens are cut off only between a switch's
  stop and its reset, and forgotten ones are on the feed only outside that window, so the two
  exceptions of `UpstreamExact` never meet.  The counting lemmas say how the number of holders
  changes when a lease comes, goes or is replaced; each operation then has one lemma.
* **LaneBudget** (`LaneIInv`).  `SubsIInv` of the table; an open stream's lease is live or
  spent; `CountingIsCurrent`: while a rebuild counts it holds the engine's mutex, which
  keeps the switch out of `InvalidateNamespace`, so that the generation it read before its
  fetch is still the registry's; `ForgottenUntilStored`: between that step and the store
  nothing is selected; `StoppedInSwitch`: the table is reset only after a stop.  The refinement is by the lemma that every step of `LaneNext`
  is one of `SubsNext` or leaves the table's variables alone.
* **BrokerSwitch** (`SwitchIInv`).  `SelectionDurable` and `LeftoverNeedsLateAsk` speak of
  the time outside a switch; `RowFollows` and `SocketsFollow` say what holds at each of its
  steps: from an answered save to the store the row is the target's, what `Restore` holds
  is the row unless it was overtaken, and of the sockets that nobody asked for late there
  is the active broker's, then at most Dhan's, then none, and none before `Restore` has
  adopted.
  `DownIsIdle`: a crash leaves no switch behind, also between save and store.
* **DhanFeed** (`FeedIInv`).  `SocketIsNewest`: the current socket is the last one opened and
  the feed is connected while it is open.  `TicksBehindNews`: behind ticks of the current
  socket no change of the connection waits, neither in the queue nor in the drainer's
  hand; without it the ticks of a new socket could be delivered before the report that
  the connection is up.
* **Hub** (`HubIInv`).  `HubServes` is nearly inductive: besides types it needs only that the
  leases in the coordinator are those of the open holders (`LeasedAreOpen`).
* **HistoricalGate** (`GateIInv`) and **DhanHttp** (`RestIInv`).  The queue holds every waiting
  caller once and nobody else (injective, with the range of those who wait), which is
  what makes a handover reach a caller that still waits and a cancelled one leave no gap.
  For the gate also that no slot went back before it was given; for the interval
  that a sleep in hand lasts until the interval of the last start is over (`PaceSound`):
  only the owner of the lock could move that start.  The lemmas about queues
  (`Tail`, `Append`, `InsertAt`, `RemoveAt` of a queue without repetitions) are shared.
* **SseStream** (`StreamIInv`).  The write mutex belongs to whoever is inside `WriteFrame`, an
  attached client is neither halted nor closed, and `Consecutive` is `NoGap` by
  position: in the writer's hand, then the queue.
* **AppLifecycle** (`LifeIInv`).  A goroutine that is past a wait has seen the end of what it
  waited for or somebody gave up (`WaitsSeen`), and the steps behind the waits run in
  order (`StepsInOrder`); `ShutdownSound` alone says nothing of a signal that arrives
  between them.
* **SynthBook** (`BookIInv`).  The hard part is what the load, the entries, the closes and
  the deletes have in hand while they wait for storage.  `ReadsOK`: a row read as open still
  is, or it was closed or deleted here and is in `closedIDs` or `deletedIDs`, or it
  is one the history variables excuse; the like for rows read as closed.  `HeldOK`: a held
  position is not in `closedIDs`, unless it was read back ahead of its insert's answer, and
  stays held while its close or delete is on its way.  `LandedOK`: what a write that landed
  has made of its row until it is answered; only a load that read the row lists the trade
  before its close does.  `OpenedOK`: a trade whose insert landed is not held, and so nobody's
  to close, before the answer, or it was read back.  `ListOK`: what is or will be listed is
  closed, and until the load has set the day no close is of a day after the list's.
  `IdsFresh`: an id belongs to one entry, to no row before that entry's insert, and no entry
  is under way before the load is done.

* **SynthTrading** (`TradingIInv`).  `RulesKept` speaks of how many books were seen, the code
  of counters and of the signature it saw last.  `CountsBooks` ties them: a counter is at
  most the number of books seen, and the last signature is the latest of them, leg by
  leg.  With `VersionsGrow` this makes a signature that differs from the last one a new
  one (`OneMoreLook`): the same three versions never come back, neither when a book is
  deleted and comes again nor when all are dropped.  `Pays` and `ClosePays` take what the
  gate asked, with the carry it counted, from the entry to the settlement, which is without it.  The prices and the books of one strike are those of
  the model; the theorem is about every number of confirmations and every sequence of
  steps, however long.

* **SynthLane** (`SynthLaneIInv`).  `LaneFollowsScanner` speaks of a queue that has run and of
  the time outside a switch.  `LastDeclared` says it of every moment, by the last set queued;
  `CurrentNamespace` and `NothingOfTheOld` say what windows and legs hold in each phase of a
  switch; `FlightsCurrent`: a refresh, relink or entry that was not superseded carries
  contracts of the registry's namespace, which is what it declares when it lands.
* **SynthSettings** (`SettingsIInv`).  `TurnsInOrder`: whoever is at work has one place in the
  queue and only the first one saves.  `SavingChange`: while a change is being saved the
  settings it would roll back to are those the table gives back; that is why a failed save
  leaves the settings in force saved.
* **SynthStream** (`StreamIInv`).  `LastIsLast`: behind the snapshot of a dispose nothing is
  queued, so that it is the last one written.
* **Spike** (`SpikeIInv`).  `AgreesButWrite`: memory and tables agree except for the one write
  that the holder of `opMu` has made and not yet taken back to the engine.  `CutIsOld`: a
  sample that a switch cut off, and the candidate it made, are of an earlier generation, so
  that the check before an entry refuses it; without it `EntriesFresh` is not kept.
  `PendingHeld`: a pending candidate is queued or in the hand of `enter`.  `OpSound`: what an
  operation found at one step still holds at its next.
* **FairValue** (`FairValueIInv`).  `BehindBroker`: until the boot's restore stored its generation,
  the registry's only moves forward and the engine's is not ahead of it, so a surface that is not
  of the current generation is one the engine will notice.  `ClearedInSwitch`: from the switch's
  invalidation to its end nothing is served, and so nothing of the outgoing broker afterwards,
  whatever generation the engine recorded.  `HistoryLine`: the queue is in the order of publication, behind the
  snapshot being stored and behind the stored ones; the first one waiting may be stored already,
  when its failure was reported after the insert.
* **WorkerPool** (`PoolIInv`).  Adds `FiringOverran`, a deadline's callback that waits for the
  mutex is that of a job that overran, and the bound on live slots, by the cardinalities of the
  slots that come and go.
* **HourlyCapture** (`HourlyIInv`).  `BackfillHeld` speaks of who is inside the backfill instead
  of counting: one at most, with the flag set.
* **EodCapture** (`EodIInv`).  `SpreadsFollowRows` says something only when all is at rest.
  `OneDrains`: one run at a time drains each queue and finds there the row it writes.
  `RowsComing`: a queued row of a day that nothing excuses belongs to a run that has yet to
  drain it and reads the day after that, which is why the write of a row never changes the
  rows of a day that has been read for the last time.  `SpreadComing`: of such a day the spread
  of now is in the hand of the one run that read it last (`OneReads`), or is the last one
  queued (`EndsAs`), or is stored.
* **CalendarTrades** (`CalendarIInv`).  `CloseHasRead`: every close under way read the row as it
  was while open, so that two closes of one trade agree on the entry.  `ExitLogged`: between a close and its answer
  the route has the exit that its ledger row will state.
* **WriteBehind** (`WriteBehindIInv`).  `NewestBuffered`: a field is buffered as last asked, in the
  batch in hand when it is only there.  `SentIsStored`: what the batch has sent is stored.
  `OneSide`: no field is both written and deleted.
* **AnalyticsFrames** (`FramesInv`).  `FramesData`: a chain carries its own scope, whose epoch is
  the current one only if the scope is; what it has read is that scope's broker's, so that
  `scopeCurrent` under the mutex is enough to apply it; so is every namespace that a baseline, in
memory or stored, was read in; the buckets of a frame and of the cache
  end no later than the clock's, and the stored ones differ in their ends.  The lemmas about the frames'
  operators come first: points of distinct ends sort into a frame in order (`SortedPoints`, by
  counting the points before each one), and merge, coarsening, warm load and capture keep
  every complete point in retention (`Keeps`).  `FlagsHeld`: a flag is owned by the epoch of the
  one chain at work, without which a backfill of an earlier scope that ends late would clear
  the flag of this one.  `WarmHeld`: a scope that is not loaded has a load under way, a recovery
  that will be run again, a ready event or a switch that brings one, or lost its event before
  `Start`; a recovery that finds its scope gone leaves the load to one of the others.
* **DhanSession** (`DhanIInv`).  `LanesFollow` and `LostIsDead` except the time between the adoption
  of a token and the restart of the lanes; `RestartsAll` says which lanes that restart takes, and
  that the token an operation found before it saved its own is still the one in memory.
  `RestoreQuiet`: until somebody else touches the session of a new process it has none, no socket
  is open, and the row is the one `Restore` holds; otherwise what `Restore` stores could be
  anything.
* **KiteSession** (`KiteIInv`).  `QueueFollows`: the queue of writes ends with what is in memory,
  or a handler between its two halves is about to put it there.  `BootQuiet`: while the
  boot restores and nobody disturbs it, the row is the one it read.
* **KiteLaneFeed** (`LaneIInv`).  `CurrentSocket`: the current socket is one that was opened, not
  closed by the feed and not at its end.  `HeardNext`: the last news that waits is the state of the
  connection, or, if none waits, what the listener knows.
* **BrowserSessions** (`BrowserIInv`).  `IdsFresh`: an id is never given out again.  `KeysOfPast`:
  a request's generation is of now or of the past, and of now only with the active broker's
  ticks, so that what it caches cannot be found under a later key.
* **InstrumentLoads** (`LoadIInv`).  `FiledAsBegun`: a cache holds a load of its broker and of the
  generation it is filed under; `JoinedBroker`, `AnsweredByOwn`: so it is with the loads that
  callers join.
* **WireQueue** (`WireIInv`).  `QueueFollowsTable`: the queue, and what the declarer under way has yet
  to send, lead the feed to the coordinator's table.  `OneWaits`: at most one operation is waited
  for, which makes the return of `stop` mean that nothing older is queued.

`BookIsPaperBook` maps a trade to a row, its status to the row's, its underlying to the
row's and the set of trades with a figure to the rows with a margin.  An insert maps to
`Open`, which needs that the id has no row yet (`IdsFresh`) and that the unique index
allows it; a close, by this process or another one, to `CloseOut`; a delete to `Remove`; a
margin figure to `Record`, which needs that the row exists (`FiguresOfRows`).  Everything
else is a stutter, a call that landed without an answer included.

A close that fails leaves a position with the confirmations it had: `closeFailedLocked` sets
`retryAt` and touches neither `exitStreak` nor `exitSig`, so the close that is tried again needs
no new look, and looks that did not happen meanwhile break no streak.  `ActsConfirmed`
states that: the signal held at every look that was taken.  A switch does start the
count again (`InvalidateNamespace`).

Three properties say more than their names suggest.  `OneAtATime` also has
`InteractiveFirst`.  What a listener knows (`ListenerUpToDate` of `Hub`, `ListenerCatchesUp` of `DhanFeed`)
is stated for every moment, by the last news that waits, the one in hand or the last one
told, not only for an empty queue.  `HeldAgrees` of `SynthBook` holds also of positions whose
close or delete is under way; from the landing of that write to its answer the row is ahead,
and the property says so.

Only model-checked are the liveness properties: liveness under fairness and `ENABLED` are
beyond the prover.

`SpreadsFollowRows` allows what the code does not exclude (`excused`): rows that a run left to
another's drain, lost to a failed write, or that two runs had read at once.

## What is not modelled, and the plan

Left out for good: wire formats, CSV and JSON conversion, HTTP clients and route
parsing, floating-point pricing (`fairvalue/model`, most of `synthetic/math.go`,
`jsmath`, `quotes`, `ratecard`), views and their formatting, schema migration,
configuration, TOTP, the rate limiter and the login cookie (one guarded counter and one
signature each).  Within modelled components: externally ingested ticks and seeds of
the hub, Spike's minute bars and rolling window, the strike window and day roll of the
analytics frames, static-IP verification of Dhan.  A Dhan request reads its access token
before it waits for its turn; after a new login it is sent with the old one and refused.
`DhanHttp` has no tokens: the refusal only reaches the caller, and the check that ends a
session holds `opMu`, under which tokens change (`DhanSession`).

Next: Spike's rolling window against a reference definition.
