------------------------------- MODULE MCLive -------------------------------
(* Things that must end: a position, the shutdown, a wait for the historical gate, a       *)
(* browser stream, a Dhan request and whoever waits for a Dhan feed. No two of these       *)
(* modules share state. A behaviour picks one of them, so that one run checks all six over *)
(* the sum, not the product, of their states; the others rest where they begin.            *)
EXTENDS SynthTrading, AppLifecycle, HistoricalGate, SseStream, DhanHttp, WireQueue

CONSTANTS s1, s2, i1, i2, b1, b2, r1, r2, r3, t1

VARIABLE part       \* the component that moves
liveVars == <<part, tradingVars, lifeVars, gateVars, streamVars, restVars, wireQueueVars>>

LiveInit ==
    /\ part \in {"trading", "app", "gate", "stream", "rest", "wire"}
    /\ TradingInit /\ LifecycleInit /\ GateInit /\ StreamInit /\ RestInit /\ WireInit
    /\ part # "stream" => latest = 0

\* Only p moves.
Moves(p) ==
    /\ part = p /\ UNCHANGED part
    /\ p # "trading" => UNCHANGED tradingVars
    /\ p # "app" => UNCHANGED lifeVars
    /\ p # "gate" => UNCHANGED gateVars
    /\ p # "stream" => UNCHANGED streamVars
    /\ p # "rest" => UNCHANGED restVars
    /\ p # "wire" => UNCHANGED wireQueueVars

LiveNext ==
    \/ Moves("trading") /\ TradingNext
    \/ Moves("app") /\ LifecycleNext
    \/ Moves("gate") /\ GateNext
    \/ Moves("stream") /\ StreamNext
    \/ Moves("rest") /\ RestNext
    \/ Moves("wire") /\ WireNext

\* Less than the fairness each module states and justifies: where several goroutines take
\* finitely many steps, it is enough that one that can go on does.
LiveFairness ==
    /\ WF_tradingVars(part = "trading" /\ tick) /\ WF_tradingVars(part = "trading" /\ finishEnter)
    /\ SF_tradingVars(part = "trading" /\ closeStored)
    /\ WF_tradingVars(part = "trading" /\ RetryDue) /\ WF_tradingVars(part = "trading" /\ TimePasses)
    /\ WF_lifeVars(part = "app" /\ \E g \in Signals : Advances(g))
    /\ WF_lifeVars(part = "app" /\ deadlinePasses)
    /\ WF_gateVars(part = "gate" /\ \E c \in Requests : SlotMoves(c))
    /\ WF_streamVars(part = "stream" /\ CloseSteps) /\ WF_streamVars(part = "stream" /\ WriterSteps)
    /\ WF_streamVars(part = "stream" /\ RouteSteps)
    /\ SF_streamVars(part = "stream" /\ WriterLocks) /\ SF_streamVars(part = "stream" /\ RouteLocks)
    /\ WF_streamVars(part = "stream" /\ WriterFreed) /\ WF_streamVars(part = "stream" /\ RouteFreed)
    /\ WF_restVars(part = "rest" /\ ClockTicks)
    /\ WF_restVars(part = "rest" /\ \E c \in Reads : ReadGoesOn(c))
    /\ WF_wireQueueVars(part = "wire" /\ (RunnerSteps \/ DrainSteps \/ \E p \in Declarers : DeclarerSteps(p)))

LiveSpec == LiveInit /\ [][LiveNext]_liveVars /\ LiveFairness

-----------------------------------------------------------------------------
(* Correctness *)

\* Nobody is stuck: a request at the historical gate gets the slot or gives up, although
\* another one stalls for ever (watchdog); Close ends a stream although its peer has stopped
\* reading, whoever is in the stuck write (SSEWriter.Close); a Dhan read ends although no
\* answer ever comes (fifoLock, the attempt's deadline); and nobody who declares tokens, stops
\* a Dhan feed or delivers its ticks waits for one who waits for him (serial).
Stuck ==
    (\E c \in Requests : Waits(c)) \/ ClosedAndOpen \/ ReadPending \/ (\E p \in LaneProcs \cup {"delivery"} : WireWaits(p))
NobodyStuck == Stuck ~> ~Stuck

\* One at a time: however calls are cancelled, handed a slot or timed out, the historical
\* gate's slot and Dhan's pacing lock have one owner or none, interactive callers stay ahead of
\* background ones, and Dhan requests keep their interval (release, fifoLock, Request).
OneAtATime == [][OneOwner' /\ InteractiveFirst' /\ Paced]_<<gateVars, restVars>>
=============================================================================
