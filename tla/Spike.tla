-------------------------------- MODULE Spike -------------------------------
(***************************************************************************)
(* The Spike paper monitor: crossover signals on live option chains, the   *)
(* queue of entries, one paper spread per index, its manual close, the     *)
(* control that pauses entries, and what of this survives in PostgreSQL.   *)
(*                                                                         *)
(* Sources: internal/spike (engine.go, actions.go, store.go, types.go,     *)
(* window.go, universe.go), internal/brokers/registry (spikefeed.go,       *)
(* the hooks of SwitchTo).                                                 *)
(*                                                                         *)
(* Two mutexes: e.mu guards the state, and a body under it is one step;    *)
(* opMu serialises the four operations that use the database in between    *)
(* (enter, reconcile, SetPaper, Close), each of which is several steps.    *)
(* Prices are left open: a tick that completes a sample may qualify or     *)
(* not.  Minute bars and the snapshots for watchers are left out.          *)
(***************************************************************************)
EXTENDS Integers, Sequences, FiniteSets

CONSTANTS
    Symbols,        \* NIFTY and SENSEX
    QueueSize,      \* capacity of e.candidates (2)
    MaxTrades,      \* bound on trade ids
    MaxBreaks,      \* bound on midnights and process ends together
    MaxEvents,      \* bound on these and broker switches together
    StoreMayFail    \* the database may fail, or commit without an answer; so may
                    \* the load of instruments fail

ASSUME SpikeBounds ==
    /\ QueueSize \in Nat /\ MaxTrades \in Nat
    /\ MaxBreaks \in Nat /\ MaxEvents \in Nat /\ StoreMayFail \in BOOLEAN

VARIABLES
    reg,        \* registry: generation, whether Dhan is active, session, and how far
                \* a switch or a change of session is
    today,      \* the day of the clock, which decides the nearest expiry
    eng,        \* scalar fields of Engine
    prev,       \* e.previous: "none", "live", or "cut" off from what follows
    open,       \* e.open: trade id per symbol, 0 = none
    pending,    \* e.pending: trade id per symbol, 0 = none
    wanted,     \* e.wanted: contracts, as <<symbol, day of their universe>>
    subscribed, \* the contracts in the spike lane's subscription table
    queue,      \* e.candidates: trade id and namespace
    tick,       \* an OnTicks call that has read the namespace: it, or 0
    op,         \* the operation that holds opMu
    trades,     \* history: per trade id its symbol, contracts and how it was seen
    rows,       \* spike_trades: per id "none", "open" or "closed"
    control,    \* spike_control.paper_enabled
    doubt,      \* history: a write failed that may have been committed
    crashes     \* process ends so far

regVars == <<reg, today>>
viewVars == <<prev, open, pending>>
feedVars == <<wanted, subscribed, tick>>
dbVars == <<rows, control, doubt>>
spikeVars == <<regVars, eng, viewVars, feedVars, queue, op, trades, dbVars, crashes>>

Ids == 1..MaxTrades
NoneOpen == [s \in Symbols |-> 0]
NoPrevious == [s \in Symbols |-> "none"]
NoTrade == [symbol |-> CHOOSE s \in Symbols : TRUE, roll |-> 0, seen |-> "none"]
NoOp == [kind |-> "none", step |-> "none", id |-> 0, gen |-> 0, day |-> 0, ok |-> FALSE]

\* A new process: New, and the Start that reconciles.
NewEngine == [stopped |-> FALSE, loaded |-> FALSE, active |-> FALSE, connected |-> FALSE,
              paper |-> TRUE, day |-> 0, gen |-> 0, roll |-> 0]

switching == reg.step \in {"reset", "stored"}
dataReady == reg.dhan /\ reg.ready /\ ~switching
Breaks == (today - 1) + crashes
MaySwitch == (reg.gen - 1) + Breaks < MaxEvents
MayBreak == MaySwitch /\ Breaks < MaxBreaks
OpFree == op.kind = "none"
Symbol(id) == trades[id].symbol
Legs(id) == <<trades[id].symbol, trades[id].roll>>
UsedIds == {id \in Ids : trades[id].roll > 0}
OpenRows(s) == {id \in UsedIds : rows[id] = "open" /\ Symbol(id) = s}

SpikeInit ==
    /\ reg = [gen |-> 1, dhan |-> TRUE, ready |-> TRUE, step |-> "none"]
    /\ today = 1 /\ eng = NewEngine
    /\ prev = NoPrevious /\ open = NoneOpen /\ pending = NoneOpen
    /\ wanted = {} /\ subscribed = {} /\ queue = <<>> /\ tick = 0 /\ op = NoOp
    /\ trades = [id \in Ids |-> NoTrade] /\ rows = [id \in Ids |-> "none"]
    /\ control = TRUE /\ doubt = FALSE /\ crashes = 0

-----------------------------------------------------------------------------
(* The registry and the clock.  A switch and a change of session exclude   *)
(* each other; Invalidate and OnRuntimeReady are their hooks.              *)

Invalidate ==
    /\ eng' = [eng EXCEPT !.active = FALSE, !.connected = FALSE]
    /\ prev' = NoPrevious /\ pending' = NoneOpen

\* SwitchTo: the lane stops, its table is emptied and the books are
\* invalidated (no tick passes the lane between), the new pair is stored, the
\* switch ends, and the runtime is reported ready.
SwitchReset ==
    /\ reg.step = "none" /\ MaySwitch
    /\ reg' = [reg EXCEPT !.step = "reset"] /\ subscribed' = {} /\ Invalidate
    /\ UNCHANGED <<today, open, wanted, tick, queue, op, trades, dbVars, crashes>>

SwitchStore ==
    /\ reg.step = "reset"
    /\ reg' = [reg EXCEPT !.step = "stored", !.gen = @ + 1, !.dhan = ~@]
    /\ prev' = [s \in Symbols |-> IF prev[s] = "live" THEN "cut" ELSE prev[s]]
    /\ UNCHANGED <<today, eng, open, pending, feedVars, queue, op, trades, dbVars, crashes>>

SwitchEnd ==
    /\ reg.step = "stored" /\ reg' = [reg EXCEPT !.step = "ready"]
    /\ UNCHANGED <<today, eng, viewVars, feedVars, queue, op, trades, dbVars, crashes>>

\* A token expires; or the session is lost, or logged out, and the lane is
\* recycled; or a token is installed, and the lane replayed.
SessionChange(b, step) ==
    /\ reg.step = "none" /\ reg' = [reg EXCEPT !.ready = b, !.step = step]
    /\ UNCHANGED <<today, eng, viewVars, feedVars, queue, op, trades, dbVars, crashes>>

SessionExpires == SessionChange(FALSE, "none")
SessionLost == SessionChange(FALSE, "lost")
SessionInstalled == SessionChange(TRUE, "ready")

SessionInvalidate ==
    /\ reg.step = "lost" /\ reg' = [reg EXCEPT !.step = "none"]
    /\ IF reg.dhan THEN Invalidate ELSE UNCHANGED <<eng, prev, pending>>
    /\ UNCHANGED <<today, open, feedVars, queue, op, trades, dbVars, crashes>>

\* OnRuntimeReady.  The reconcile it asks for may come at any time anyway.
OnRuntimeReady ==
    /\ reg.step = "ready" /\ reg' = [reg EXCEPT !.step = "none"]
    /\ prev' = NoPrevious
    /\ UNCHANGED <<today, eng, open, pending, feedVars, queue, op, trades, dbVars, crashes>>

\* A new day, and with it perhaps a new nearest expiry.
Midnight ==
    /\ MayBreak /\ today' = today + 1
    /\ UNCHANGED <<reg, eng, viewVars, feedVars, queue, op, trades, dbVars, crashes>>

-----------------------------------------------------------------------------
(* The spike lane's callbacks.  Its feed makes them one at a time, and a   *)
(* lane that is stopped waits for the one under way.                       *)

\* Mutation: a reconnect keeps the last sample, as if nothing had been missed.
Mut_ConnectionKeepsPrevious(b) ==
    /\ tick = 0
    /\ eng' = [eng EXCEPT !.connected = b]
    /\ prev' = [s \in Symbols |-> IF ~b /\ prev[s] = "live" THEN "cut" ELSE prev[s]]
    /\ UNCHANGED <<regVars, open, pending, feedVars, queue, op, trades, dbVars, crashes>>

OnConnection(b) ==
    /\ tick = 0
    /\ eng' = [eng EXCEPT !.connected = b]
    /\ prev' = IF b THEN prev ELSE NoPrevious
    /\ UNCHANGED <<regVars, open, pending, feedVars, queue, op, trades, dbVars, crashes>>

\* The lane drops ticks while switching; Engine.OnTicks then reads the
\* namespace, before it takes e.mu.
TicksArrive ==
    /\ tick = 0 /\ ~switching /\ reg.dhan /\ reg.step # "lost" /\ subscribed # {}
    /\ tick' = reg.gen
    /\ UNCHANGED <<regVars, eng, viewVars, wanted, subscribed, queue, op, trades, dbVars, crashes>>

TicksUsed ==
    ~eng.stopped /\ eng.active /\ eng.connected /\ eng.gen = tick /\ eng.day = today

\* Ticks that are dropped, or complete no sample.
TicksIgnored ==
    /\ tick # 0 /\ tick' = 0
    /\ UNCHANGED <<regVars, eng, viewVars, wanted, subscribed, queue, op, trades, dbVars, crashes>>

\* evaluateLocked without a signal, or with one that is only reported.
TicksSample(s) ==
    /\ tick # 0 /\ TicksUsed /\ tick' = 0
    /\ prev' = [prev EXCEPT ![s] = "live"]
    /\ UNCHANGED <<regVars, eng, open, pending, wanted, subscribed, queue, op, trades, dbVars, crashes>>

\* evaluateLocked with a signal that becomes a candidate: Qualify needs a
\* previous sample; the candidate records the contracts and the namespace.
TicksSignal(s) ==
    LET id == Cardinality(UsedIds) + 1 IN
    /\ tick # 0 /\ TicksUsed /\ tick' = 0
    /\ prev[s] # "none" /\ <<s, eng.roll>> \in wanted
    /\ eng.paper /\ open[s] = 0 /\ pending[s] = 0
    /\ Len(queue) < QueueSize /\ id \in Ids
    /\ queue' = Append(queue, [id |-> id, gen |-> eng.gen])
    /\ pending' = [pending EXCEPT ![s] = id]
    /\ trades' = [trades EXCEPT ![id] = [symbol |-> s, roll |-> eng.roll, seen |-> prev[s]]]
    /\ prev' = [prev EXCEPT ![s] = "live"]
    /\ UNCHANGED <<regVars, eng, open, wanted, subscribed, op, dbVars, crashes>>

-----------------------------------------------------------------------------
(* Writes.  What the database does with the write of op, and what the      *)
(* process learns: nothing is learnt of a commit whose answer is lost.     *)

Applicable ==
    CASE op.kind = "enter" -> OpenRows(Symbol(op.id)) = {}     \* unique index
      [] op.kind = "close" -> rows[op.id] = "open"             \* status = 'open'
      [] OTHER -> TRUE

Commit ==
    /\ rows' = CASE op.kind = "enter" -> [rows EXCEPT ![op.id] = "open"]
                 [] op.kind = "close" -> [rows EXCEPT ![op.id] = "closed"]
                 [] OTHER -> rows
    /\ control' = IF op.kind \in {"pause", "resume"} THEN op.kind = "resume" ELSE control

Answer(ok) == op' = [op EXCEPT !.step = "finish", !.ok = ok]

Write ==
    /\ op.step = "write"
    /\ \/ Applicable /\ Commit /\ Answer(TRUE) /\ UNCHANGED doubt
       \/ ~Applicable /\ Answer(FALSE) /\ UNCHANGED dbVars
       \/ StoreMayFail /\ Answer(FALSE) /\ UNCHANGED dbVars
       \/ StoreMayFail /\ Applicable /\ Commit /\ Answer(FALSE) /\ doubt' = TRUE
    /\ UNCHANGED <<regVars, eng, viewVars, feedVars, queue, trades, crashes>>

-----------------------------------------------------------------------------
(* enter: the run loop takes a candidate                                   *)

Valid(cand) ==
    /\ ~eng.stopped /\ eng.paper /\ eng.active /\ eng.connected /\ dataReady
    /\ eng.gen = cand.gen /\ reg.gen = cand.gen

\* young: the candidate is at most five seconds old.
EnterBegin(young) ==
    LET cand == Head(queue)
        already == open[Symbol(cand.id)] # 0 IN
    /\ OpFree /\ queue # <<>> /\ queue' = Tail(queue)
    /\ op' = [NoOp EXCEPT !.kind = "enter", !.id = cand.id,
                          !.step = IF young /\ Valid(cand) /\ ~already THEN "write" ELSE "finish"]
    /\ UNCHANGED <<regVars, eng, viewVars, feedVars, trades, dbVars, crashes>>

EnterFinish ==
    LET s == Symbol(op.id) IN
    /\ op.kind = "enter" /\ op.step = "finish" /\ op' = NoOp
    /\ pending' = IF pending[s] = op.id THEN [pending EXCEPT ![s] = 0] ELSE pending
    /\ open' = IF op.ok THEN [open EXCEPT ![s] = op.id] ELSE open
    /\ UNCHANGED <<regVars, eng, prev, feedVars, queue, trades, dbVars, crashes>>

-----------------------------------------------------------------------------
(* SetPaper and Close                                                      *)

SetPaperBegin(kind) ==
    /\ OpFree /\ ~eng.stopped
    /\ op' = [NoOp EXCEPT !.kind = kind, !.step = "write"]
    /\ UNCHANGED <<regVars, eng, viewVars, feedVars, queue, trades, dbVars, crashes>>

SetPaperFinish ==
    /\ op.kind \in {"pause", "resume"} /\ op.step = "finish" /\ op' = NoOp
    /\ eng' = IF op.ok THEN [eng EXCEPT !.paper = op.kind = "resume"] ELSE eng
    /\ UNCHANGED <<regVars, viewVars, feedVars, queue, trades, dbVars, crashes>>

\* Close of an open trade whose closing depth is fresh.
CloseBegin(s) ==
    /\ OpFree /\ ~eng.stopped /\ open[s] # 0
    /\ eng.active /\ eng.connected /\ dataReady /\ eng.gen = reg.gen
    /\ op' = [NoOp EXCEPT !.kind = "close", !.step = "write", !.id = open[s]]
    /\ UNCHANGED <<regVars, eng, viewVars, feedVars, queue, trades, dbVars, crashes>>

CloseFinish ==
    /\ op.kind = "close" /\ op.step = "finish" /\ op' = NoOp
    /\ open' = IF op.ok THEN [open EXCEPT ![Symbol(op.id)] = 0] ELSE open
    /\ UNCHANGED <<regVars, eng, prev, pending, feedVars, queue, trades, dbVars, crashes>>

-----------------------------------------------------------------------------
(* reconcile: at the start, when asked, every five minutes, and every      *)
(* second while the engine is behind the registry or the day               *)

ReconcileStep(from, to) ==
    op.kind = "reconcile" /\ op.step = from /\ op' = [op EXCEPT !.step = to]

ReconcileEnds(from) ==
    op.kind = "reconcile" /\ op.step = from /\ op' = NoOp

ReconcileBegin ==
    /\ OpFree /\ ~eng.stopped
    /\ op' = [NoOp EXCEPT !.kind = "reconcile", !.gen = reg.gen, !.day = today,
                          !.step = IF ~eng.loaded \/ eng.day # today THEN "load" ELSE "ready"]
    /\ UNCHANGED <<regVars, eng, viewVars, feedVars, queue, trades, dbVars, crashes>>

ReconcileLoad ==
    /\ ReconcileStep("load", "ready")
    /\ eng' = [eng EXCEPT !.day = op.day, !.paper = control, !.loaded = TRUE]
    /\ open' = [s \in Symbols |-> IF OpenRows(s) = {} THEN 0 ELSE CHOOSE id \in OpenRows(s) : TRUE]
    /\ prev' = NoPrevious /\ doubt' = FALSE
    /\ UNCHANGED <<regVars, pending, feedVars, queue, trades, rows, control, crashes>>

\* dataReady, and if so the instruments.
ReconcileReady ==
    /\ op.kind = "reconcile" /\ op.step = "ready"
    /\ op' = IF dataReady THEN [op EXCEPT !.step = "apply"] ELSE [op EXCEPT !.step = "idle"]
    /\ UNCHANGED <<regVars, eng, viewVars, feedVars, queue, trades, dbVars, crashes>>

ReconcileIdle ==
    /\ ReconcileStep("idle", "clear")
    /\ eng' = [eng EXCEPT !.active = FALSE, !.connected = FALSE, !.gen = op.gen]
    /\ prev' = NoPrevious /\ pending' = NoneOpen
    /\ UNCHANGED <<regVars, open, feedVars, queue, trades, dbVars, crashes>>

\* buildUniverses: the contracts of the nearest expiry of a day.
buildUniverses(day) == {<<s, day>> : s \in Symbols}
OpenLegs == {Legs(open[s]) : s \in {x \in Symbols : open[x] # 0}}

\* Mutation: only the nearest expiry's contracts are wanted.
Mut_ApplyForgetsPositions ==
    /\ ReconcileStep("apply", "tokens")
    /\ ~eng.stopped /\ op.gen = reg.gen
    /\ wanted' = buildUniverses(op.day)
    /\ IF eng.gen = op.gen THEN UNCHANGED <<prev, pending>> ELSE prev' = NoPrevious /\ pending' = NoneOpen
    /\ eng' = [eng EXCEPT !.gen = op.gen, !.active = TRUE, !.roll = op.day]
    /\ UNCHANGED <<regVars, open, subscribed, tick, queue, trades, dbVars, crashes>>

ReconcileApply ==
    /\ ReconcileStep("apply", "tokens")
    /\ ~eng.stopped /\ op.gen = reg.gen
    /\ wanted' = buildUniverses(op.day) \cup OpenLegs
    /\ IF eng.gen = op.gen THEN UNCHANGED <<prev, pending>> ELSE prev' = NoPrevious /\ pending' = NoneOpen
    /\ eng' = [eng EXCEPT !.gen = op.gen, !.active = TRUE, !.roll = op.day]
    /\ UNCHANGED <<regVars, open, subscribed, tick, queue, trades, dbVars, crashes>>

\* A failed load; failed instruments, too many of them, or a switch or stop
\* meanwhile.
ReconcileAbort ==
    /\ \/ StoreMayFail /\ ReconcileEnds("load")
       \/ (StoreMayFail \/ eng.stopped \/ op.gen # reg.gen) /\ ReconcileEnds("apply")
    /\ UNCHANGED <<regVars, eng, viewVars, feedVars, queue, trades, dbVars, crashes>>

\* SetTokens, after e.mu is released.
ReconcileTokens ==
    /\ \/ ReconcileEnds("clear") /\ subscribed' = {}
       \/ ReconcileEnds("tokens") /\ subscribed' = wanted
    /\ UNCHANGED <<regVars, eng, viewVars, wanted, tick, queue, trades, dbVars, crashes>>

-----------------------------------------------------------------------------
(* The end of a process                                                    *)

Stop ==
    /\ ~eng.stopped /\ MayBreak /\ eng' = [eng EXCEPT !.stopped = TRUE]
    /\ UNCHANGED <<regVars, viewVars, feedVars, queue, op, trades, dbVars, crashes>>

StopTokens ==
    /\ eng.stopped /\ OpFree /\ subscribed # {} /\ subscribed' = {}
    /\ UNCHANGED <<regVars, eng, viewVars, wanted, tick, queue, op, trades, dbVars, crashes>>

\* The process ends, stopped or not, and another one starts.
Restart ==
    /\ MayBreak /\ crashes' = crashes + 1
    /\ reg' = [reg EXCEPT !.step = "none"] /\ eng' = NewEngine
    /\ prev' = NoPrevious /\ open' = NoneOpen /\ pending' = NoneOpen
    /\ wanted' = {} /\ subscribed' = {} /\ queue' = <<>> /\ tick' = 0 /\ op' = NoOp
    /\ UNCHANGED <<today, trades, dbVars>>

-----------------------------------------------------------------------------
RegistryStep ==
    \/ SwitchReset \/ SwitchStore \/ SwitchEnd
    \/ SessionExpires \/ SessionLost \/ SessionInstalled \/ SessionInvalidate
    \/ OnRuntimeReady \/ Midnight

CallbackStep ==
    \/ \E b \in BOOLEAN : OnConnection(b)
    \/ TicksArrive \/ TicksIgnored
    \/ \E s \in Symbols : TicksSample(s) \/ TicksSignal(s)

\* The steps of an operation that has begun.
OpStep ==
    \/ Write \/ EnterFinish \/ SetPaperFinish \/ CloseFinish
    \/ ReconcileLoad \/ ReconcileReady \/ ReconcileIdle \/ ReconcileApply
    \/ ReconcileAbort \/ ReconcileTokens

OpBegin ==
    \/ ReconcileBegin \/ \E young \in BOOLEAN : EnterBegin(young)
    \/ \E kind \in {"pause", "resume"} : SetPaperBegin(kind)
    \/ \E s \in Symbols : CloseBegin(s)

\* The registry and the callbacks change nothing a stopped engine still does.
SpikeNext ==
    \/ ~eng.stopped /\ (RegistryStep \/ CallbackStep)
    \/ OpBegin \/ OpStep \/ Stop \/ StopTokens \/ Restart

SpikeSpec == SpikeInit /\ [][SpikeNext]_spikeVars


-----------------------------------------------------------------------------
(* Properties                                                              *)

\* What the engine shows is what a restart would restore: between operations
\* the open positions and the control in memory are those of PostgreSQL, from
\* the first load on and across midnight, switches and session changes,
\* unless a write was committed and its answer lost (engine.go enter,
\* actions.go SetPaper and Close).
StoreAgrees ==
    eng.loaded /\ OpFree /\ ~doubt =>
        /\ eng.paper = control
        /\ \A s \in Symbols : OpenRows(s) = IF open[s] = 0 THEN {} ELSE {open[s]}

\* No spread opens while the operator has paused entries, although its
\* candidate was queued before the pause (engine.go enter under opMu); the
\* pause whose answer was lost is not known to the engine.
NoEntryWhilePaused ==
    \A id \in Ids : rows[id] = "none" /\ rows'[id] = "open" => eng.paper /\ (control \/ doubt)

\* No spread is entered on a crossover between samples that a reported
\* disconnection or a change of broker generation lies between (engine.go
\* OnConnection, Invalidate, reconcile and the namespace checks of enter).
EntriesFresh ==
    \A id \in Ids : rows[id] # "none" => trades[id].seen = "live"

\* A candidate cannot block its index for ever: what is pending is in the
\* queue or in the hands of enter, which lets go of it in the end, whatever
\* invalidations, reconciles and newer candidates come between (engine.go
\* enter, evaluateLocked, Invalidate).
PendingBacked ==
    \A s \in Symbols : pending[s] # 0 =>
        pending[s] \in {op.id} \cup {queue[i].id : i \in 1..Len(queue)}

\* The lane keeps the legs of an open position until it is closed, also when
\* the nearest expiry rolls: they are dropped only where the data they are
\* for ends, by a switch, a stop or the end of the process, or by a reconcile
\* that found no usable session (engine.go reconcile and Stop).
PositionKept ==
    \A s \in Symbols :
        open[s] # 0 /\ open'[s] = open[s] /\ Legs(open[s]) \in subscribed \ subscribed' =>
            reg'.step = "reset" \/ op.step = "clear" \/ eng.stopped

\* What the engine believes is true of the store, the market and its queue: it
\* shows what a restart would restore, holds no spread entered across a break in
\* the data, and has no index blocked by a candidate nobody will decide on
\* (engine.go enter, evaluateLocked, reconcile; actions.go SetPaper and Close).
SpikeSound == StoreAgrees /\ EntriesFresh /\ PendingBacked

\* What no step does, whatever was decided before it: open a spread that the
\* operator's pause forbids, or drop the legs of an open position from the lane
\* while their data still flows (engine.go enter under opMu, reconcile, Stop).
SpikeSteps == [][NoEntryWhilePaused /\ PositionKept]_spikeVars
-----------------------------------------------------------------------------
(* SpikeSound and SpikeSteps hold by the parts below                       *)

RegType == [gen : Nat, dhan : BOOLEAN, ready : BOOLEAN,
            step : {"none", "reset", "stored", "ready", "lost"}]
EngineType == [stopped : BOOLEAN, loaded : BOOLEAN, active : BOOLEAN, connected : BOOLEAN,
               paper : BOOLEAN, day : Nat, gen : Nat, roll : Nat]
CandidateType == [id : Ids, gen : Nat]
OpType == [kind : {"none", "enter", "close", "pause", "resume", "reconcile"},
           step : {"none", "write", "finish", "load", "ready", "idle", "clear", "apply", "tokens"},
           id : Ids \cup {0}, gen : Nat, day : Nat, ok : BOOLEAN]

SpikeTypeOK ==
    /\ reg \in RegType /\ today \in Nat \ {0} /\ eng \in EngineType
    /\ prev \in [Symbols -> {"none", "live", "cut"}]
    /\ open \in [Symbols -> Ids \cup {0}] /\ pending \in [Symbols -> Ids \cup {0}]
    /\ wanted \subseteq Symbols \X (Nat \ {0}) /\ queue \in Seq(CandidateType) /\ op \in OpType
    /\ DOMAIN trades = Ids /\ rows \in [Ids -> {"none", "open", "closed"}]
    /\ control \in BOOLEAN /\ doubt \in BOOLEAN

\* Ids are given out in turn; every trade that is stored, open, pending, queued or being worked
\* on has one, and is of the symbol it is kept under.
TradesKnown ==
    /\ \E n \in 0..MaxTrades : UsedIds = 1..n
    /\ \A id \in UsedIds : trades[id] \in [symbol : Symbols, roll : Nat \ {0}, seen : {"live", "cut"}]
    /\ \A id \in Ids : rows[id] # "none" => id \in UsedIds
    /\ \A s \in Symbols : /\ open[s] # 0 => open[s] \in UsedIds /\ Symbol(open[s]) = s
                          /\ pending[s] # 0 => pending[s] \in UsedIds /\ Symbol(pending[s]) = s
    /\ \A i \in 1..Len(queue) : queue[i].id \in UsedIds
    /\ op.kind \in {"enter", "close"} => op.id \in UsedIds

\* The unique index: one open row per symbol.
OneOpenRow == \A i, j \in UsedIds : rows[i] = "open" /\ rows[j] = "open" /\ Symbol(i) = Symbol(j) => i = j

\* A sample that a switch cut off, and a candidate that came of one, are of an earlier generation.
CutIsOld ==
    /\ eng.gen <= reg.gen /\ op.gen <= reg.gen
    /\ \A s \in Symbols : prev[s] = "cut" => eng.gen < reg.gen
    /\ \A i \in 1..Len(queue) : queue[i].gen <= reg.gen /\ (trades[queue[i].id].seen = "cut" => queue[i].gen < reg.gen)

\* What an operation may rely on at each of its steps.
OpSound ==
    /\ op.kind = "none" => op = NoOp
    /\ op.kind \in {"enter", "close", "pause", "resume"} => op.step \in {"write", "finish"}
    /\ op.kind = "reconcile" => /\ op.step \in {"load", "ready", "idle", "clear", "apply", "tokens"}
                                /\ op.day # 0 /\ (op.step # "load" => eng.loaded)
                                /\ op.step = "tokens" => OpenLegs \subseteq wanted
    /\ op.kind = "enter" /\ op.step = "write" => eng.paper /\ eng.loaded /\ trades[op.id].seen = "live"
    /\ op.kind = "close" => open[Symbol(op.id)] = op.id
    /\ op.ok => op.step = "finish"
    /\ eng.active => eng.loaded

\* Memory and store agree but for the write that has just been made.
AgreesButWrite ==
    eng.loaded /\ ~doubt =>
        /\ control = IF op.ok /\ op.kind \in {"pause", "resume"} THEN op.kind = "resume" ELSE eng.paper
        /\ \A s \in Symbols :
            OpenRows(s) = IF op.ok /\ op.kind = "enter" /\ Symbol(op.id) = s THEN {op.id}
                          ELSE IF op.ok /\ op.kind = "close" /\ Symbol(op.id) = s THEN {}
                          ELSE IF open[s] = 0 THEN {} ELSE {open[s]}

\* Only enter holds a pending trade that is no longer queued.
PendingHeld ==
    \A s \in Symbols : pending[s] # 0 =>
        (op.kind = "enter" /\ pending[s] = op.id) \/ \E i \in 1..Len(queue) : queue[i].id = pending[s]

SpikeIInv ==
    /\ SpikeTypeOK /\ TradesKnown /\ OneOpenRow /\ CutIsOld /\ OpSound
    /\ AgreesButWrite /\ PendingHeld /\ EntriesFresh
=============================================================================
