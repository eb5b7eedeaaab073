----------------------------- MODULE LaneBudget -----------------------------
(***************************************************************************)
(* The futures lane shared by browser streams and the Fair Value engine.   *)
(*                                                                         *)
(* Before a browser stream acquires its tokens the coordinator asks Fair   *)
(* Value to give room back (yieldAnalytics, with the coordinator's mutex   *)
(* released); Fair Value itself rebuilds its token universe within the     *)
(* budget the other owners leave (rebuildNow).  Both run under Fair        *)
(* Value's own mutex e.mu, and the broker can be switched meanwhile.       *)
(*                                                                         *)
(* Sources: internal/brokers/subscriptions.go (yieldAnalytics),            *)
(* internal/fairvalue/engine.go (yieldToPriority, cycle, rebuildNow,       *)
(* Pause, InvalidateNamespace), internal/brokers/registry (AcquireBrowser- *)
(* Tokens, AnalyticsTokenBudget, the coordinator steps of SwitchTo).       *)
(***************************************************************************)
EXTENDS Subscriptions

CONSTANTS
    Streams,        \* browser SSE streams
    Browser,        \* the owner the streams acquire for
    Analytics,      \* the owner Fair Value declares its tokens for
    LaneReserve,    \* defaultLaneReserve (2800 in the code)
    MaxGeneration   \* bound on the number of broker switches

ASSUME LaneOwnersAssumption == Browser \in LeaseOwners /\ Analytics \in SetOwners
ASSUME LaneReserveAssumption == LaneReserve \in Nat
ASSUME MaxGenerationAssumption == MaxGeneration \in Nat

VARIABLES
    stream,         \* per stream: pc, requested tokens, priority set, lease
    wanted,         \* Engine.wanted
    wantedGen,      \* history: generation of the instruments behind wanted
    fv,             \* the single rebuild flight of the engine
    paused,         \* Engine.paused
    lastGen,        \* Engine.lastBrokerGeneration
    generation,     \* the registry's broker generation
    phase           \* progress of SwitchTo; "none" = not switching

fvVars == <<wanted, wantedGen, fv, paused, lastGen>>
laneVars == <<subVars, stream, fvVars, generation, phase>>

switching == phase # "none"

NoLease == [owner |-> Browser, id |-> 0, tokens |-> {}]
IdleStream == [pc |-> "idle", tokens |-> {}, priority |-> {}, lease |-> NoLease]
IdleFlight == [pc |-> "idle", gen |-> 0, todo |-> {}, priority |-> 0]

\* e.mu is held across the whole second half of rebuildNow.
EngineFree == fv.pc # "counting"

\* Tokens some owner other than analytics holds.
PriorityHeld == {t \in Tokens : total[t] - counts[t][Analytics] > 0}
Spare(n) == IF LaneReserve > n THEN LaneReserve - n ELSE 0
OverBudget == Cardinality(wanted) > Spare(Cardinality(PriorityHeld))

LaneInit ==
    /\ SubsInit
    /\ stream = [s \in Streams |-> IdleStream]
    /\ wanted = {} /\ wantedGen = 1 /\ fv = IdleFlight /\ paused = FALSE
    /\ lastGen = 1 /\ generation = 1 /\ phase = "none"

-----------------------------------------------------------------------------
(* A browser stream: yieldAnalytics, then Acquire, and Release at its end   *)

Starting == {s \in Streams : stream[s].pc \in {"yielding", "yielded"}}

\* The first half of yieldAnalytics: the set that must stay, under c.mu.
StreamYieldRead(s, T) ==
    /\ stream[s].pc = "idle"
    /\ leaseSeq + Cardinality(Starting) < MaxSeq
    /\ stream' = [stream EXCEPT ![s] =
          [@ EXCEPT !.pc = "yielding", !.tokens = T, !.priority = T \cup PriorityHeld]]
    /\ UNCHANGED <<subVars, fvVars, generation, phase>>

\* What yieldToPriority keeps: every shared token and the first exclusive ones
\* that fit beside the priority set.
YieldKeeps(priority) ==
    LET exclusive == wanted \ priority
        room == Spare(Cardinality(priority))
        n == IF Cardinality(exclusive) < room THEN Cardinality(exclusive) ELSE room
    IN {(wanted \cap priority) \cup K : K \in {X \in SUBSET exclusive : Cardinality(X) = n}}

\* yieldToPriority, under e.mu: nothing is declared when nothing changes.
StreamYield(s) ==
    /\ stream[s].pc = "yielding" /\ EngineFree
    /\ \E next \in YieldKeeps(stream[s].priority) :
          IF Cardinality(next) = Cardinality(wanted)
          THEN UNCHANGED <<subVars, wanted, lastGen>>
          ELSE /\ wanted' = next
               /\ SetOwnerTokens(Analytics, next)
               /\ lastGen' = generation
    /\ stream' = [stream EXCEPT ![s].pc = "yielded"]
    /\ UNCHANGED <<wantedGen, fv, paused, generation, phase>>

StreamAcquire(s) ==
    /\ stream[s].pc = "yielded"
    /\ Acquire(Browser, stream[s].tokens)
    /\ stream' = [stream EXCEPT ![s] = [@ EXCEPT
          !.pc = "open", !.lease = NextLease(Browser, stream[s].tokens)]]
    /\ UNCHANGED <<fvVars, generation, phase>>

\* The handler's deferred release, of a lease a switch may have dropped.
StreamEnd(s) ==
    /\ stream[s].pc = "open"
    /\ IF stream[s].lease \in live
       THEN Release(stream[s].lease)
       ELSE ReleaseAgain(stream[s].lease.owner, stream[s].lease.id)
    /\ stream' = [stream EXCEPT ![s] = IdleStream]
    /\ UNCHANGED <<fvVars, generation, phase>>

-----------------------------------------------------------------------------
(* Fair Value                                                               *)

\* releaseSubscriptionsLocked.
ReleaseSubscriptions ==
    /\ SetOwnerTokens(Analytics, {})
    /\ wanted' = {}

\* rebuildNow up to GetAllInstruments, which runs with e.mu released; Watch,
\* a timer cycle, a configuration change or a resume calls it.
RebuildBegin ==
    /\ fv.pc = "idle" /\ ~paused /\ ~switching
    /\ fv' = [fv EXCEPT !.pc = "fetching", !.gen = generation]
    /\ UNCHANGED <<subVars, stream, wanted, wantedGen, paused, lastGen, generation, phase>>

\* Mutation: the state checked before the fetch is not checked again after it.
Mut_StillValid == ~paused

\* The second check of rebuildNow, after instruments arrived.
StillValid == fv.gen = generation /\ ~switching /\ ~paused

\* The instruments could not be loaded, or the check fails: give up.
RebuildAbort ==
    /\ fv.pc = "fetching"
    /\ fv' = IdleFlight
    /\ UNCHANGED <<subVars, stream, wanted, wantedGen, paused, lastGen, generation, phase>>

\* AnalyticsTokenBudget starts: ActiveTokens, then one CountsFor per token.
RebuildLock ==
    /\ fv.pc = "fetching" /\ StillValid
    /\ fv' = [fv EXCEPT !.pc = "counting", !.todo = HeldTokens, !.priority = 0]
    /\ UNCHANGED <<subVars, stream, wanted, wantedGen, paused, lastGen, generation, phase>>

RebuildCount(t) ==
    /\ fv.pc = "counting" /\ t \in fv.todo
    /\ fv' = [fv EXCEPT !.todo = @ \ {t},
                        !.priority = @ + (IF t \in PriorityHeld THEN 1 ELSE 0)]
    /\ UNCHANGED <<subVars, stream, wanted, wantedGen, paused, lastGen, generation, phase>>

\* Mutation: the way out that keeps the set as it is forgets to unlock e.mu.
Mut_ApplyKeepsLock(next) ==
    /\ fv.pc = "counting" /\ fv.todo = {}
    /\ Cardinality(next) <= Spare(fv.priority)
    /\ wanted' = next
    /\ SetOwnerTokens(Analytics, next)
    /\ wantedGen' = fv.gen
    /\ fv' = IF next = wanted THEN fv ELSE IdleFlight
    /\ UNCHANGED <<stream, paused, lastGen, generation, phase>>

\* The selection of contracts is any set within the budget.
RebuildApply(next) ==
    /\ fv.pc = "counting" /\ fv.todo = {}
    /\ Cardinality(next) <= Spare(fv.priority)
    /\ wanted' = next
    /\ SetOwnerTokens(Analytics, next)
    /\ wantedGen' = fv.gen
    /\ fv' = IdleFlight
    /\ UNCHANGED <<stream, paused, lastGen, generation, phase>>

\* A timer cycle finds the generation changed.
CycleInvalidates ==
    /\ EngineFree /\ ~paused /\ lastGen # generation
    /\ ReleaseSubscriptions
    /\ lastGen' = generation
    /\ UNCHANGED <<stream, wantedGen, fv, paused, generation, phase>>

\* The hub's connection listener: Engine.Invalidate drops quotes only.
FeedInvalidates ==
    /\ EngineFree /\ lastGen # generation
    /\ lastGen' = generation
    /\ UNCHANGED <<subVars, stream, wanted, wantedGen, fv, paused, generation, phase>>

Pause ==
    /\ EngineFree /\ ~paused
    /\ paused' = TRUE
    /\ lastGen' = generation
    /\ ReleaseSubscriptions
    /\ UNCHANGED <<stream, wantedGen, fv, generation, phase>>

Resume ==
    /\ EngineFree /\ paused
    /\ paused' = FALSE
    /\ UNCHANGED <<subVars, stream, wanted, wantedGen, fv, lastGen, generation, phase>>

-----------------------------------------------------------------------------
(* The switch, as far as this lane sees it (module BrokerSwitch has all)    *)

SwitchBegin ==
    /\ phase = "none" /\ generation < MaxGeneration
    /\ StopLane
    /\ phase' = "stopped"
    /\ UNCHANGED <<stream, fvVars, generation>>

SwitchReset ==
    /\ phase = "stopped"
    /\ ResetForBrokerSwitch
    /\ phase' = "reset"
    /\ UNCHANGED <<stream, fvVars, generation>>

\* InvalidateBooks: Engine.InvalidateNamespace takes e.mu.
SwitchInvalidate ==
    /\ phase = "reset" /\ EngineFree
    /\ ReleaseSubscriptions
    /\ lastGen' = generation
    /\ phase' = "invalidated"
    /\ UNCHANGED <<stream, wantedGen, fv, paused, generation>>

SwitchStore ==
    /\ phase = "invalidated"
    /\ generation' = generation + 1
    /\ phase' = "stored"
    /\ UNCHANGED <<subVars, stream, fvVars>>

SwitchEnd ==
    /\ phase = "stored"
    /\ phase' = "none"
    /\ UNCHANGED <<subVars, stream, fvVars, generation>>

SwitchSteps == SwitchReset \/ SwitchInvalidate \/ SwitchStore \/ SwitchEnd
RebuildSteps ==
    \/ RebuildBegin \/ RebuildAbort \/ RebuildLock
    \/ \E t \in Tokens : RebuildCount(t)
    \/ \E next \in SUBSET Tokens : RebuildApply(next)

LaneNext ==
    \/ \E s \in Streams :
          \/ \E T \in SUBSET Tokens \ {{}} : StreamYieldRead(s, T)
          \/ StreamYield(s) \/ StreamAcquire(s) \/ StreamEnd(s)
    \/ RebuildSteps
    \/ CycleInvalidates \/ FeedInvalidates \/ Pause \/ Resume
    \/ SwitchBegin \/ SwitchSteps

LaneSpec == LaneInit /\ [][LaneNext]_laneVars

(***************************************************************************)
(* Fairness.  SwitchTo runs to its end.  The engine's refresh timer calls  *)
(* cycle again and again, and cycle rebuilds when wanted is over budget;   *)
(* a flight that began runs to its end, and the instruments it waits for   *)
(* arrive unless the check fails.  A handler goroutine that called Acquire *)
(* goes on; waiting for e.mu is strongly fair because sync.Mutex hands     *)
(* itself to a waiter that has starved.  Nothing is assumed of arrivals,   *)
(* stream ends, pauses or switches.                                        *)
(***************************************************************************)
LaneFairness ==
    /\ WF_laneVars(SwitchReset \/ SwitchStore \/ SwitchEnd)
    /\ SF_laneVars(SwitchInvalidate)
    /\ WF_laneVars(OverBudget /\ RebuildBegin)
    /\ SF_laneVars(RebuildLock)
    /\ WF_laneVars(RebuildAbort /\ ~StillValid)
    /\ WF_laneVars(\E t \in Tokens : RebuildCount(t))
    /\ WF_laneVars(\E next \in SUBSET Tokens : RebuildApply(next))
    /\ \A s \in Streams : SF_laneVars(StreamYield(s)) /\ WF_laneVars(StreamAcquire(s))

FairLaneSpec == LaneSpec /\ LaneFairness

-----------------------------------------------------------------------------
(* Correctness                                                             *)

\* Fair Value's own idea of its subscriptions is what the coordinator counts
\* for it, except inside a switch between the coordinator's reset and
\* Fair Value's own: yields, rebuilds and pauses racing each other and the
\* switch never leave a token subscribed that Engine.wanted has forgotten.
AnalyticsHoldsWanted == phase # "reset" => OwnedTokens(Analytics) = wanted

\* Outside a switch Fair Value holds no token selected from the instruments
\* of an earlier broker generation, although a rebuild reads the generation,
\* releases its mutex to load instruments and applies them afterwards.
AnalyticsNamespace ==
    phase \in {"none", "stored"} /\ wanted # {} => wantedGen = generation

\* A budget overrun (a rebuild counted before a stream that had already
\* yielded acquired its tokens) does not last: unless analytics is paused,
\* Fair Value gets back within what the other owners leave of the lane.
OverBudgetCorrected == OverBudget ~> ~OverBudget

\* A browser stream that asked Fair Value to yield gets its lease even while
\* rebuilds keep taking the engine's mutex: the two never wait on each other.
StreamOpens ==
    \A s \in Streams : stream[s].pc = "yielding" ~> stream[s].pc = "open"

\* Fair Value's share of the lane is what it believes and of the current broker.
AnalyticsShare == AnalyticsHoldsWanted /\ AnalyticsNamespace

\* An overrun is corrected and a stream that waits for Fair Value opens.
LaneProgress == OverBudgetCorrected /\ StreamOpens

-----------------------------------------------------------------------------
(* AnalyticsShare is inductive together with the parts below               *)

LaneTypeOK ==
    /\ stream \in [Streams -> [pc : {"idle", "yielding", "yielded", "open"}, tokens : SUBSET Tokens,
                              priority : SUBSET Tokens, lease : Lease]]
    /\ wanted \in SUBSET Tokens
    /\ phase \in {"none", "stopped", "reset", "invalidated", "stored"}

\* An open stream holds a lease of the browser, live or dropped by a switch.
StreamLeases ==
    \A s \in Streams : stream[s].pc = "open" =>
        LET l == stream[s].lease
        IN  l.owner = Browser /\ (l \in live \/ <<l.owner, l.id>> \in spent)

\* While the engine counts it holds e.mu, so the switch cannot pass InvalidateNamespace and
\* the generation read before the fetch is still the registry's.
CountingIsCurrent ==
    fv.pc = "counting" => fv.gen = generation /\ phase \in {"none", "stopped", "reset"}

\* The tokens Fair Value forgets are selected again only after the new generation is stored.
ForgottenUntilStored == phase = "invalidated" => wanted = {}

\* The lane is stopped exactly while a switch is between its first two steps.
StoppedInSwitch == stopped <=> phase = "stopped"

LaneIInv ==
    /\ SubsIInv /\ LaneTypeOK /\ StreamLeases
    /\ CountingIsCurrent /\ ForgottenUntilStored /\ StoppedInSwitch /\ AnalyticsShare
=============================================================================
