------------------------------ MODULE WireQueue ------------------------------
(***************************************************************************)
(* The queue between a lane's coordinator and its Dhan feed.               *)
(*                                                                         *)
(* The feed delivers ticks with its gate held, and the listeners take the  *)
(* lock of the consumer (Fair Value's mu).  That consumer declares its     *)
(* tokens with the same lock held, and unsubscribing waits for the gate:   *)
(* the queue is what keeps the two from waiting for each other.            *)
(*                                                                         *)
(* Sources: internal/brokers/registry (serial.go, registry.go), and the    *)
(* locks of internal/brokers/dhan/feed.go, internal/brokers/               *)
(* subscriptions.go and internal/fairvalue/engine.go.  What the feed does  *)
(* with its socket is in DhanFeed, the refcounts in Subscriptions: here a  *)
(* feed is the tokens it wants and whether it was asked to be open.        *)
(***************************************************************************)
EXTENDS Naturals, Sequences

CONSTANTS
    LaneTokens,
    MaxDeclares,    \* bound on declarations of token sets
    MaxLaneOps,     \* bound on stops, starts and flushes
    MaxBatches      \* bound on tick batches

Declarers == {"fairvalue", "browser"}   \* owners of tokens; Fair Value keeps its lock meanwhile
Operator == "operator"                  \* the holder of opMu: switch, login, logout, boot
LaneProcs == Declarers \cup {Operator}
Nobody == "nobody"

VARIABLES
    consumerMu,     \* who holds Fair Value's mu, or Nobody
    coordMu,        \* who holds the coordinator's mu, or Nobody
    table,          \* per owner: its tokens in the coordinator's table
    doing,          \* per goroutine: where it is and what it has to send
    wire,           \* serial.queue: [kind, tokens, waiter]
    runner,         \* serial.run: "off", "loop", "op", "gate" (Lock called), "drain"
    running,        \* the operation taken from the queue
    feed,           \* the tokens the feed wants, and whether its socket is asked for
    batches,        \* tick batches queued for delivery
    drainer,        \* who is inside drain: "reader", "runner" or Nobody
    delivery,       \* of the batch in deliver: "no", "rlock" (to be taken), "lock" (the gate is held)
    wasStopped,     \* history: a stop was asked for
    laneLeft        \* what is left of the bounds

lockVars == <<consumerMu, coordMu>>
runVars == <<runner, running>>
deliverVars == <<batches, drainer, delivery>>
wireQueueVars == <<lockVars, table, doing, wire, runVars, feed, deliverVars, wasStopped, laneLeft>>

IdleProc == [at |-> "idle", unsub |-> {}, sub |-> {}]
Shut == [want |-> {}, open |-> FALSE]
WireOp(kind, T, p) == [kind |-> kind, tokens |-> T, waiter |-> p]
NoWireOp == WireOp("flush", {}, Nobody)

WireInit ==
    /\ consumerMu = Nobody /\ coordMu = Nobody
    /\ table = [o \in Declarers |-> {}] /\ doing = [p \in LaneProcs |-> IdleProc]
    /\ wire = <<>> /\ runner = "off" /\ running = NoWireOp
    /\ feed = Shut
    /\ batches = 0 /\ drainer = Nobody /\ delivery = "no"
    /\ wasStopped = FALSE
    /\ laneLeft = [declares |-> MaxDeclares, ops |-> MaxLaneOps, batches |-> MaxBatches]

HeldTokens == UNION {table[o] : o \in Declarers}

-----------------------------------------------------------------------------
(* The queue *)

\* serial.Go: a goroutine that runs the queue exists only while there is work.
SerialGo(op) ==
    /\ wire' = Append(wire, op)
    /\ runner' = IF runner = "off" THEN "loop" ELSE runner
    /\ UNCHANGED running

\* serial.Do by p: go on at "next" once the operation has run.
SerialDo(p, kind, T, next) ==
    /\ SerialGo(WireOp(kind, T, p))
    /\ doing' = [doing EXCEPT ![p].at = next]

-----------------------------------------------------------------------------
(* Declaring tokens: consumer lock, coordinator, transport *)

\* refreshUniverse and YieldToPriority of Fair Value hold its mu from here to the end.
\* A browser stream has no lock of its own.
Declare(p) ==
    /\ doing[p].at = "idle" /\ laneLeft.declares > 0
    /\ laneLeft' = [laneLeft EXCEPT !.declares = @ - 1]
    /\ IF p = "fairvalue" THEN consumerMu = Nobody /\ consumerMu' = p ELSE UNCHANGED consumerMu
    /\ doing' = [doing EXCEPT ![p].at = "coordinator"]
    /\ UNCHANGED <<coordMu, table, wire, runVars, feed, deliverVars, wasStopped>>

\* SetOwnerTokens, Acquire and releaseLease: the table changes and the difference is sent, all
\* with mu held.
SetTable(p, T) ==
    LET others == UNION {table[o] : o \in Declarers \ {p}} IN
    /\ doing[p].at = "coordinator" /\ coordMu = Nobody
    /\ coordMu' = p
    /\ table' = [table EXCEPT ![p] = T]
    /\ doing' = [doing EXCEPT ![p] = [at |-> "unsub", unsub |-> (table[p] \ T) \ others,
                                      sub |-> (T \ table[p]) \ others]]
    /\ UNCHANGED <<consumerMu, wire, runVars, feed, deliverVars, wasStopped, laneLeft>>

\* Mutation: the transport waits until the feed has dropped the tokens.
Mut_UnsubscribeWaits(p) ==
    /\ doing[p].at = "unsub"
    /\ IF doing[p].unsub # {} THEN SerialDo(p, "unsubscribe", doing[p].unsub, "unsubWait")
       ELSE doing' = [doing EXCEPT ![p].at = "sub"] /\ UNCHANGED <<wire, runVars>>
    /\ UNCHANGED <<lockVars, table, feed, deliverVars, wasStopped, laneLeft>>

\* unsubscribeUpstream on the Dhan lane; nothing to drop, nothing queued.
unsubscribeUpstream(p) ==
    /\ doing[p].at = "unsub" /\ doing' = [doing EXCEPT ![p].at = "sub"]
    /\ IF doing[p].unsub # {} THEN SerialGo(WireOp("unsubscribe", doing[p].unsub, Nobody))
       ELSE UNCHANGED <<wire, runVars>>
    /\ UNCHANGED <<lockVars, table, feed, deliverVars, wasStopped, laneLeft>>

subscribeUpstream(p) ==
    /\ doing[p].at = "sub" /\ doing' = [doing EXCEPT ![p].at = "return"]
    /\ IF doing[p].sub # {} THEN SerialGo(WireOp("subscribe", doing[p].sub, Nobody))
       ELSE UNCHANGED <<wire, runVars>>
    /\ UNCHANGED <<lockVars, table, feed, deliverVars, wasStopped, laneLeft>>

\* The deferred unlocks.
Unlocks(p) ==
    /\ doing[p].at = "return" /\ doing' = [doing EXCEPT ![p] = IdleProc]
    /\ coordMu' = Nobody
    /\ consumerMu' = IF consumerMu = p THEN Nobody ELSE consumerMu
    /\ UNCHANGED <<table, wire, runVars, feed, deliverVars, wasStopped, laneLeft>>

\* Mutation: stop does not wait for the queue.
Mut_StopQueued(kind) ==
    /\ doing[Operator].at = "idle" /\ laneLeft.ops > 0
    /\ laneLeft' = [laneLeft EXCEPT !.ops = @ - 1]
    /\ wasStopped' = (wasStopped \/ kind = "stop")
    /\ SerialGo(WireOp(kind, {}, Nobody)) /\ UNCHANGED doing
    /\ UNCHANGED <<lockVars, table, feed, deliverVars>>

\* stop, ensureSocket and flush of the lane: the caller waits, with no lock a consumer takes.
LaneCall(kind) ==
    /\ doing[Operator].at = "idle" /\ laneLeft.ops > 0
    /\ laneLeft' = [laneLeft EXCEPT !.ops = @ - 1]
    /\ wasStopped' = (wasStopped \/ kind = "stop")
    /\ SerialDo(Operator, kind, {}, "doWait")
    /\ UNCHANGED <<lockVars, table, feed, deliverVars>>

-----------------------------------------------------------------------------
(* The goroutine of the queue *)

RunTakes ==
    /\ runner = "loop"
    /\ IF wire = <<>> THEN runner' = "off" /\ UNCHANGED <<wire, running>>
       ELSE runner' = "op" /\ running' = Head(wire) /\ wire' = Tail(wire)
    /\ UNCHANGED <<lockVars, table, doing, feed, deliverVars, wasStopped, laneLeft>>

\* UnsubscribeTokens and Stop call gate.Lock: from now on no new delivery gets the gate.
TakesGate == running.kind \in {"unsubscribe", "stop"}
RunLocks ==
    /\ runner = "op" /\ TakesGate /\ runner' = "gate"
    /\ UNCHANGED <<lockVars, table, doing, wire, running, feed, deliverVars, wasStopped, laneLeft>>

\* What an operation makes of the feed.
Applied(f, op) ==
    CASE op.kind = "subscribe" -> [want |-> f.want \cup op.tokens, open |-> f.open \/ ~(op.tokens \subseteq f.want)]
      [] op.kind = "unsubscribe" -> [f EXCEPT !.want = @ \ op.tokens]
      [] op.kind = "ensureSocket" -> [f EXCEPT !.open = TRUE]
      [] op.kind = "stop" -> Shut
      [] op.kind = "flush" -> f

\* The operation itself: those that take the gate wait for the delivery in progress.  Batches of
\* a socket that Stop closes no longer pass deliver's check.  flush, and a subscription or an
\* unsubscription that finds nothing to do, return without draining.
RunApplies ==
    /\ runner = IF TakesGate THEN "gate" ELSE "op"
    /\ TakesGate => delivery # "lock"
    /\ feed' = Applied(feed, running)
    /\ batches' = IF running.kind = "stop" THEN 0 ELSE batches
    /\ runner' = "drain"
    /\ LET drains == running.kind \in {"stop", "ensureSocket"} \/ feed' # feed
       IN drainer' = IF drainer = Nobody /\ drains THEN "runner" ELSE drainer
    /\ UNCHANGED <<lockVars, table, doing, wire, running, delivery, wasStopped, laneLeft>>

\* The operation returns (when it drained, after the last event), and done is closed.
After(at) == CASE at = "doWait" -> "idle" [] at = "unsubWait" -> "sub" [] OTHER -> at
RunReturns ==
    /\ runner = "drain" /\ drainer # "runner" /\ runner' = "loop" /\ running' = NoWireOp
    /\ doing' = [p \in LaneProcs |-> IF p = running.waiter THEN [doing[p] EXCEPT !.at = After(@)] ELSE doing[p]]
    /\ UNCHANGED <<lockVars, table, wire, feed, deliverVars, wasStopped, laneLeft>>

-----------------------------------------------------------------------------
(* Deliveries *)

\* The socket's goroutine queues the ticks of a frame and drains, unless somebody does already.
FrameArrives ==
    /\ feed.open /\ laneLeft.batches > 0
    /\ laneLeft' = [laneLeft EXCEPT !.batches = @ - 1]
    /\ batches' = batches + 1
    /\ drainer' = IF drainer = Nobody THEN "reader" ELSE drainer
    /\ UNCHANGED <<lockVars, table, doing, wire, runVars, feed, delivery, wasStopped>>

DrainNext ==
    /\ drainer # Nobody /\ delivery = "no"
    /\ IF batches > 0 THEN batches' = batches - 1 /\ delivery' = "rlock" /\ UNCHANGED drainer
       ELSE drainer' = Nobody /\ UNCHANGED <<batches, delivery>>
    /\ UNCHANGED <<lockVars, table, doing, wire, runVars, feed, wasStopped, laneLeft>>

\* deliver takes the gate unless a writer waits for it, and drops what is no longer wanted.
DeliverLocks ==
    /\ delivery = "rlock" /\ runner # "gate"
    /\ delivery' = IF feed.want = {} THEN "no" ELSE "lock"
    /\ UNCHANGED <<lockVars, table, doing, wire, runVars, feed, batches, drainer, wasStopped, laneLeft>>

\* IngestTicks takes the consumer's mu, reads the ticks and returns; the gate is released.
IngestTicks ==
    /\ delivery = "lock" /\ consumerMu = Nobody /\ delivery' = "no"
    /\ UNCHANGED <<lockVars, table, doing, wire, runVars, feed, batches, drainer, wasStopped, laneLeft>>

-----------------------------------------------------------------------------

DeclarerSteps(p) ==
    (\E T \in SUBSET LaneTokens : SetTable(p, T)) \/ unsubscribeUpstream(p) \/ subscribeUpstream(p) \/ Unlocks(p)
RunnerSteps == RunTakes \/ RunLocks \/ RunApplies \/ RunReturns
DrainSteps == DrainNext \/ DeliverLocks \/ IngestTicks

WireNext ==
    \/ \E p \in Declarers : Declare(p) \/ DeclarerSteps(p)
    \/ \E kind \in {"stop", "ensureSocket", "flush"} : LaneCall(kind)
    \/ RunnerSteps \/ DrainSteps \/ FrameArrives

\* Goroutines that can go on do.  Nobody need declare or call anything, and no tick need come.
WireFairness ==
    /\ \A p \in Declarers : WF_wireQueueVars(DeclarerSteps(p))
    /\ WF_wireQueueVars(RunnerSteps) /\ WF_wireQueueVars(DrainSteps)

WireSpec == WireInit /\ [][WireNext]_wireQueueVars /\ WireFairness

-----------------------------------------------------------------------------
(* Properties *)

\* What is queued, with the operation that has begun but not yet touched the feed.
Queued == (IF runner \in {"op", "gate"} THEN <<running>> ELSE <<>>) \o wire

\* The operations that decide whether t is wanted, and whether the socket is asked for.
Settles(op, t) == op.kind = "stop" \/ (op.kind \in {"subscribe", "unsubscribe"} /\ t \in op.tokens)
Opens(op) == op.kind \in {"subscribe", "ensureSocket"}

\* What feed f will be once the operations of q have run: the last word on each counts.
WantedAfter(f, q) ==
    {t \in LaneTokens :
        \/ \E i \in DOMAIN q : q[i].kind = "subscribe" /\ t \in q[i].tokens
                               /\ \A j \in DOMAIN q : j > i => ~Settles(q[j], t)
        \/ t \in f.want /\ \A j \in DOMAIN q : ~Settles(q[j], t)}
OpenAfter(f, q) ==
    \/ \E i \in DOMAIN q : Opens(q[i]) /\ \A j \in DOMAIN q : j > i => q[j].kind # "stop"
    \/ f.open /\ \A j \in DOMAIN q : q[j].kind # "stop"

\* The feed follows the coordinator: what is queued leads to no token that nobody holds, and to
\* all that are held unless a stop dropped some, whichever goroutines declared meanwhile.  And
\* when stop has returned nothing queued before it can touch the feed: it is shut, and stays so
\* until somebody asks again.
WireSound ==
    /\ coordMu = Nobody => /\ WantedAfter(feed, Queued) \subseteq HeldTokens
                           /\ ~wasStopped => WantedAfter(feed, Queued) = HeldTokens
    /\ ~OpenAfter(feed, Queued) /\ doing[Operator].at = "idle" => feed = Shut

WireOps == [kind : {"subscribe", "unsubscribe", "stop", "ensureSocket", "flush"},
            tokens : SUBSET LaneTokens, waiter : {Operator, Nobody}]
WireTypeOK ==
    /\ coordMu \in Declarers \cup {Nobody} /\ table \in [Declarers -> SUBSET LaneTokens]
    /\ doing \in [LaneProcs -> [at : {"idle", "coordinator", "unsub", "sub", "return", "doWait"},
                                unsub : SUBSET LaneTokens, sub : SUBSET LaneTokens]]
    /\ wire \in Seq(WireOps) /\ runner \in {"off", "loop", "op", "gate", "drain"} /\ running \in WireOps
    /\ feed \in [want : SUBSET LaneTokens, open : BOOLEAN] /\ wasStopped \in BOOLEAN

\* Who is past the coordinator's lock holds it, and the holder of opMu waits or not.
HoldsCoordinator ==
    /\ \A p \in Declarers : /\ doing[p].at # "doWait"
                            /\ doing[p].at \in {"unsub", "sub", "return"} <=> coordMu = p
    /\ doing[Operator].at \in {"idle", "doWait"}

\* The queue and what the declarer under way has yet to send make up the coordinator's table.
Meant(p) ==
    LET queuedFor == WantedAfter(feed, Queued) IN
    IF doing[p].at = "unsub" THEN (queuedFor \ doing[p].unsub) \cup doing[p].sub
    ELSE IF doing[p].at = "sub" THEN queuedFor \cup doing[p].sub ELSE queuedFor
QueueFollowsTable ==
    \A p \in Declarers : coordMu \in {p, Nobody} =>
        /\ Meant(p) \subseteq HeldTokens
        /\ ~wasStopped => Meant(p) = HeldTokens

\* Only the holder of opMu stops a feed, and it waits: at most one operation is waited for.
OneWaits ==
    /\ \A i \in DOMAIN wire : wire[i].kind = "stop" => wire[i].waiter = Operator
    /\ running.kind = "stop" => running.waiter = Operator
    /\ \A i, j \in DOMAIN wire : wire[i].waiter = Operator /\ wire[j].waiter = Operator => i = j
    /\ \A i \in DOMAIN wire : wire[i].waiter = Operator => running.waiter # Operator /\ doing[Operator].at = "doWait"
    /\ running.waiter = Operator => doing[Operator].at = "doWait"

\* A feed that wants tokens was asked to be open.
WantOpens == feed.want # {} => feed.open

\* The inductive invariant of WireSound.
WireIInv == WireTypeOK /\ HoldsCoordinator /\ QueueFollowsTable /\ OneWaits /\ WantOpens

\* Somebody is on the way: it must not be for ever, neither a declarer, nor the holder of opMu,
\* nor a delivery.
WireWaits(p) == IF p = "delivery" THEN delivery = "lock" ELSE p \in LaneProcs /\ doing[p].at # "idle"
=============================================================================
