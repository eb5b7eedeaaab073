---------------------------- MODULE BrokerSwitch ----------------------------
(***************************************************************************)
(* Which broker owns the market-data feeds: the (active, generation) pair, *)
(* the switch that replaces it, the row that survives a restart, and the   *)
(* browser streams that subscribe meanwhile.                               *)
(*                                                                         *)
(* Sources: internal/brokers/registry (registry.go, switch.go, store.go,   *)
(* serial.go), internal/marketdata/routes.go (openTickStream).             *)
(*                                                                         *)
(* SwitchTo holds opMu from its first step to its last, so at most one     *)
(* switch runs, but streams do not take opMu: they open and close between  *)
(* any two of its steps.  Nor does the boot chain, which restores the      *)
(* selection while requests are already served: a switch may fall between  *)
(* any two of its steps too.  Both brokers have a session here.  The steps of  *)
(* SwitchTo that only touch instrument caches, books and browser sessions  *)
(* change nothing this module has.                                         *)
(***************************************************************************)
EXTENDS Integers, FiniteSets

CONSTANTS
    Zerodha, Dhan,
    DefaultBroker,      \* the fresh-start broker (DEFAULT_BROKER)
    Streams,            \* browser streams on the futures lane
    MaxGeneration,      \* bound on switches: none starts beyond it
    MaxCrashes,         \* bound on process crashes
    StoreMayFail        \* the database may fail or not answer

Brokers == {Zerodha, Dhan}

ASSUME BrokersAssumption == Zerodha # Dhan /\ DefaultBroker \in {Zerodha, Dhan}
ASSUME BoundsAssumption ==
    MaxGeneration \in Nat /\ MaxCrashes \in Nat /\ StoreMayFail \in BOOLEAN

VARIABLES
    up,         \* the process runs
    active,     \* brokerState.active
    gen,        \* brokerState.gen; active and gen change in one Store
    row,        \* the active_broker row; generation 0 = no row
    synced,     \* history: what runs was stored by an answered save or read from the row
    overtaken,  \* history: a switch saved while Restore held a row it had read
    op,         \* the switch that holds opMu: its next step, what it began from, its target
    boot,       \* the boot chain: its next step, the row it read, the generation it copied
    cmu,        \* streams inside a coordinator call (at most one)
    stream,     \* per stream: pc and the broker it is routed to
    leased,     \* streams whose lease is in the coordinator's table
    socket,     \* brokers whose futures-lane socket is open
    late,       \* history: brokers whose socket was asked for while the selection moved
    crashes     \* number of crashes so far

procVars == <<up, crashes>>
stateVars == <<active, gen>>
rowVars == <<row, synced, overtaken>>
streamVars == <<cmu, stream, leased>>
socketVars == <<socket, late>>
switchVars == <<procVars, stateVars, rowVars, op, boot, streamVars, socketVars>>

NoOp == [step |-> "none", target |-> DefaultBroker, saved |-> 0, from |-> 0]
IdleStream == [pc |-> "idle", via |-> DefaultBroker]
\* Without a row Restore leaves New's defaults, which NoRow stands for.
NoRow == [broker |-> DefaultBroker, gen |-> 0]
BootAt(pc) == [pc |-> pc, row |-> NoRow, gen |-> 0]

Larger(a, b) == IF a > b THEN a ELSE b
Switching == op.step # "none"
\* Restore has not adopted the stored selection yet, and may still do so.
HoldsRow == boot.pc \in {"copy", "adopt"}
Restoring == boot.pc = "read" \/ HoldsRow

\* Whoever asks for b's socket while the selection moves, or when b is no longer active, is late.
LateAsk(b, moving) == IF moving \/ b # active THEN late \cup {b} ELSE late

\* The volatile state of a process that has just started (New).
FreshProcess ==
    /\ op' = NoOp /\ boot' = BootAt("over") /\ cmu' = {}
    /\ stream' = [s \in Streams |-> IdleStream] /\ leased' = {}
    /\ late' = {}

\* The first boot is over: there was no row, and no session to start a feed for.
SwitchInit ==
    /\ up = TRUE /\ active = DefaultBroker /\ gen = 1
    /\ row = NoRow /\ synced = TRUE /\ overtaken = FALSE
    /\ op = NoOp /\ boot = BootAt("over") /\ cmu = {}
    /\ stream = [s \in Streams |-> IdleStream] /\ leased = {}
    /\ socket = {} /\ late = {} /\ crashes = 0

-----------------------------------------------------------------------------
(* SwitchTo, step by step                                                  *)

At(step) == up /\ op.step = step
GoTo(step) == op' = [op EXCEPT !.step = step]

SwitchBegin(target) ==
    /\ At("none") /\ target # active /\ gen < MaxGeneration
    /\ op' = [step |-> "stopHub", target |-> target, saved |-> 0, from |-> gen]
    /\ UNCHANGED <<procVars, stateVars, streamVars, socketVars, rowVars, boot>>

\* stopAllLanes: a stopped feed closes its socket (and forgets its tokens, see LaneBudget).
StopFeed(b) == socket' = socket \ {b} /\ late' = late \ {b}

SwitchStopHub ==
    /\ At("stopHub") /\ StopFeed(Zerodha) /\ GoTo("stopDhan")
    /\ UNCHANGED <<procVars, boot, stateVars, streamVars, rowVars>>

\* Mutation: only the hub is stopped.
Mut_StopHubOnly ==
    /\ At("stopDhan") /\ GoTo("reset")
    /\ UNCHANGED <<procVars, boot, stateVars, streamVars, socketVars, rowVars>>

SwitchStopDhan ==
    /\ At("stopDhan") /\ StopFeed(Dhan) /\ GoTo("reset")
    /\ UNCHANGED <<procVars, boot, stateVars, streamVars, rowVars>>

\* Mutation: the switch waits until the streams have released their leases.
Mut_ResetWaitsForLeases ==
    /\ At("reset") /\ cmu = {} /\ leased = {} /\ GoTo("save")
    /\ UNCHANGED <<procVars, boot, stateVars, socketVars, rowVars, streamVars>>

\* ResetForBrokerSwitch takes the coordinator's mutex; no transport call.
SwitchReset ==
    /\ At("reset") /\ cmu = {} /\ leased' = {} /\ GoTo("save")
    /\ UNCHANGED <<procVars, boot, stateVars, socketVars, rowVars, cmu, stream>>

\* SaveActiveBroker: a first insert stores generation 1, an update adds 1.
SavedRow == [broker |-> op.target, gen |-> row.gen + 1]

\* The upsert commits and answers, commits without an answer, or fails.
SwitchSave ==
    /\ At("save")
    /\ overtaken' = HoldsRow
    /\ \/ /\ row' = SavedRow /\ UNCHANGED synced
          /\ op' = [op EXCEPT !.step = "store", !.saved = SavedRow.gen]
       \/ /\ StoreMayFail
          /\ row' \in {row, SavedRow} /\ synced' = FALSE /\ GoTo("store")
    /\ UNCHANGED <<procVars, boot, stateVars, streamVars, socketVars>>

\* The generation that is advanced is the one the switch began from.
SwitchStore ==
    /\ At("store")
    /\ active' = op.target
    /\ gen' = Larger(op.from + 1, op.saved)
    /\ synced' = (op.saved # 0)
    /\ op' = [op EXCEPT !.step = "start", !.saved = 0, !.from = 0]
    /\ UNCHANGED <<procVars, boot, streamVars, socketVars, row, overtaken>>

\* StartActiveFeed reads the active broker; the hub connects on its first subscription only ...
SwitchStart ==
    /\ At("start")
    /\ op' = IF active = Dhan THEN [op EXCEPT !.step = "open"] ELSE NoOp
    /\ UNCHANGED <<procVars, boot, stateVars, streamVars, socketVars, rowVars>>

\* ... and Dhan's feed is asked for a socket.
SwitchOpen ==
    /\ At("open") /\ op' = NoOp
    /\ socket' = socket \cup {Dhan} /\ late' = LateAsk(Dhan, Restoring)
    /\ UNCHANGED <<procVars, boot, stateVars, streamVars, rowVars>>

SwitchSteps ==
    \/ SwitchStopHub \/ SwitchStopDhan \/ SwitchReset \/ SwitchSave
    \/ SwitchStore \/ SwitchStart \/ SwitchOpen

-----------------------------------------------------------------------------
(* A browser stream: the route's checks, Acquire and Release               *)

SetPc(s, pc) == stream' = [stream EXCEPT ![s].pc = pc]

\* openTickStream up to AcquireBrowserTokens: the readiness and the namespace
\* of the tokens are checked, whether a switch is running is not.
StreamCheck(s) ==
    /\ up /\ stream[s].pc = "idle" /\ SetPc(s, "checked")
    /\ UNCHANGED <<procVars, boot, stateVars, socketVars, rowVars, op, cmu, leased>>

\* Acquire takes the coordinator's mutex and enters the lease.
StreamAcquire(s) ==
    /\ up /\ stream[s].pc = "checked" /\ cmu = {}
    /\ cmu' = {s} /\ leased' = leased \cup {s} /\ SetPc(s, "locked")
    /\ UNCHANGED <<procVars, boot, stateVars, socketVars, rowVars, op>>

\* subscribeUpstream, inside Acquire: the active broker is read first ...
StreamRoute(s) ==
    /\ up /\ stream[s].pc = "locked"
    /\ stream' = [stream EXCEPT ![s] = [@ EXCEPT !.pc = "routed", !.via = active]]
    /\ UNCHANGED <<procVars, boot, stateVars, socketVars, rowVars, op, cmu, leased>>

\* ... and then its feed is asked, which opens the socket.
StreamSubscribe(s) ==
    /\ up /\ stream[s].pc = "routed"
    /\ socket' = socket \cup {stream[s].via}
    /\ cmu' = {} /\ stream' = [stream EXCEPT ![s] = [IdleStream EXCEPT !.pc = "open"]]
    /\ late' = LateAsk(stream[s].via, Switching \/ Restoring)
    /\ UNCHANGED <<procVars, boot, stateVars, rowVars, op, leased>>

\* Release: a lease the switch dropped is unknown; the tokens of another one are unsubscribed
\* on whichever broker is active now.  No socket is closed.
StreamEnd(s) ==
    /\ up /\ stream[s].pc = "open" /\ cmu = {}
    /\ leased' = leased \ {s}
    /\ stream' = [stream EXCEPT ![s] = IdleStream]
    /\ UNCHANGED <<procVars, boot, stateVars, rowVars, op, cmu, socket, late>>

-----------------------------------------------------------------------------
(* Crash and boot                                                          *)

Crash ==
    /\ up /\ crashes < MaxCrashes
    /\ up' = FALSE /\ crashes' = crashes + 1 /\ socket' = {}
    /\ FreshProcess
    /\ UNCHANGED <<stateVars, rowVars>>

\* A new process (New) has the defaults, serves requests and starts the boot chain.
Boot ==
    /\ ~up
    /\ up' = TRUE /\ active' = DefaultBroker /\ gen' = 1 /\ boot' = BootAt("read")
    /\ synced' = (row.gen = 0) /\ overtaken' = FALSE
    /\ UNCHANGED <<streamVars, socketVars, row, op, crashes>>

\* Restore reads the row; without one, or without an answer, nothing is adopted.
BootRead ==
    /\ up /\ boot.pc = "read"
    /\ \/ row.gen # 0 /\ boot' = [boot EXCEPT !.pc = "copy", !.row = row]
       \/ (row.gen = 0 \/ StoreMayFail) /\ boot' = [boot EXCEPT !.pc = "runtime"]
    /\ UNCHANGED <<procVars, stateVars, streamVars, socketVars, rowVars, op>>

\* Restore copies the state in force ...
BootCopy ==
    /\ up /\ boot.pc = "copy" /\ boot' = [boot EXCEPT !.pc = "adopt", !.gen = gen]
    /\ UNCHANGED <<procVars, stateVars, streamVars, socketVars, rowVars, op>>

\* Mutation: the row's generation is not adopted, the count starts again.
Mut_AdoptKeepsCount ==
    /\ up /\ boot.pc = "adopt" /\ boot' = BootAt("runtime")
    /\ active' = boot.row.broker /\ gen' = boot.gen /\ synced' = TRUE
    /\ UNCHANGED <<procVars, streamVars, socketVars, row, overtaken, op>>

\* ... and stores the copy with the row's broker and the larger generation, whatever happened
\* since the read.
BootAdopt ==
    /\ up /\ boot.pc = "adopt" /\ boot' = BootAt("runtime")
    /\ active' = boot.row.broker /\ gen' = Larger(boot.gen, boot.row.gen) /\ synced' = TRUE
    /\ UNCHANGED <<procVars, streamVars, socketVars, row, overtaken, op>>

\* StartActiveRuntime: the runtime stays idle without a session; StartActiveFeed reads the active
\* broker ...
BootRuntime ==
    /\ up /\ boot.pc = "runtime"
    /\ \/ active = Dhan /\ boot' = [boot EXCEPT !.pc = "open"]
       \/ boot' = BootAt("over")
    /\ UNCHANGED <<procVars, stateVars, streamVars, socketVars, rowVars, op>>

\* ... and asks Dhan's feed for a socket.
BootOpen ==
    /\ up /\ boot.pc = "open" /\ boot' = BootAt("over")
    /\ socket' = socket \cup {Dhan} /\ late' = LateAsk(Dhan, Switching)
    /\ UNCHANGED <<procVars, stateVars, streamVars, rowVars, op>>

BootSteps == BootRead \/ BootCopy \/ BootAdopt \/ BootRuntime \/ BootOpen

SwitchNext ==
    \/ \E b \in Brokers : SwitchBegin(b)
    \/ SwitchSteps
    \/ \E s \in Streams :
          \/ StreamCheck(s) \/ StreamAcquire(s) \/ StreamRoute(s) \/ StreamSubscribe(s) \/ StreamEnd(s)
    \/ Crash \/ Boot \/ BootSteps

SwitchSpec == SwitchInit /\ [][SwitchNext]_switchVars

\* A goroutine inside SwitchTo or inside Acquire keeps running; waiting for
\* the coordinator's mutex is strongly fair (sync.Mutex does not starve).
SwitchFairness ==
    /\ SF_switchVars(SwitchReset)
    /\ WF_switchVars(SwitchSteps)
    /\ \A s \in Streams : WF_switchVars(StreamRoute(s)) /\ WF_switchVars(StreamSubscribe(s))

FairSwitchSpec == SwitchSpec /\ SwitchFairness

-----------------------------------------------------------------------------
(* Correctness                                                             *)

\* Once Restore has adopted and outside a switch, a socket of the inactive broker is open only if
\* it was asked for while the selection moved: by a stream or the boot chain while a switch ran,
\* by a stream or a switch before Restore had adopted the row.  The switch's own order leaves none
\* behind, however stream ends, crashes and failed saves interleave.
LeftoverNeedsLateAsk == up /\ ~Switching /\ ~Restoring => socket \subseteq {active} \cup late

\* The stored selection is the running one whenever what runs was stored by an answered save or
\* read from the row, also when the process died between saving a selection and adopting it; and
\* its generation is not ahead.  The one exception: a switch that saves between Restore's read of
\* the row and its Store is overwritten in memory, until the next switch.
SelectionDurable ==
    up /\ ~Switching /\ synced /\ ~overtaken => row.broker = active /\ row.gen <= gen

\* "A switch tears the old broker down before the new one becomes reachable":
\* outside a switch only the active broker's socket is open.
OneBrokerFeeds == up /\ ~Switching => socket \subseteq {active}

\* Every switch that starts ends, unless the process dies: the step that waits
\* for the coordinator's mutex is not starved by streams that keep acquiring,
\* and no stream waits for the switch while holding it.
SwitchCompletes == Switching ~> ~Switching
-----------------------------------------------------------------------------
(* The inductive invariant behind SelectionDurable and LeftoverNeedsLateAsk *)

SwitchTypeOK ==
    /\ up \in BOOLEAN /\ synced \in BOOLEAN /\ overtaken \in BOOLEAN
    /\ active \in Brokers /\ gen \in Nat
    /\ row \in [broker : Brokers, gen : Nat]
    /\ op \in [step : {"none", "stopHub", "stopDhan", "reset", "save", "store", "start", "open"},
               target : Brokers, saved : Nat, from : Nat]
    /\ boot \in [pc : {"over", "read", "copy", "adopt", "runtime", "open"},
                 row : [broker : Brokers, gen : Nat], gen : Nat]
    /\ stream \in [Streams -> [pc : {"idle", "checked", "locked", "routed", "open"}, via : Brokers]]
    /\ socket \subseteq Brokers /\ late \subseteq Brokers

\* From an answered save to the step that adopts it.
Saved == op.step = "store" /\ op.saved # 0

\* What is stored is what runs; from the answered save to the step that adopts it, what is stored
\* is what the switch will adopt; and what Restore holds is stored, unless a switch saved since.
RowFollows ==
    /\ Saved => row = [broker |-> op.target, gen |-> op.saved]
    /\ up /\ synced /\ ~overtaken /\ ~Saved => row.broker = active /\ row.gen <= gen
    /\ HoldsRow /\ ~overtaken => boot.row = row
    /\ op.step # "store" => op.saved = 0
    /\ row.gen = 0 => row.broker = DefaultBroker

\* The sockets nobody asked for late, as the switch goes on: the active broker's, then only
\* Dhan's, then none, then the new active broker's; none before Restore has adopted.
SocketsFollow ==
    /\ Restoring => socket \subseteq late
    /\ CASE op.step = "stopDhan" -> socket \subseteq {Dhan} \cup late
         [] op.step \in {"reset", "save", "store", "start"} -> socket \subseteq late
         [] OTHER -> socket \subseteq {active} \cup late

\* A dead process has no switch, no boot chain and no sockets.
DownIsIdle == ~up => op.step = "none" /\ boot.pc = "over" /\ socket = {}

SwitchIInv == SwitchTypeOK /\ RowFollows /\ SocketsFollow /\ DownIsIdle
=============================================================================
