--------------------------- MODULE HistoricalGate ---------------------------
(***************************************************************************)
(* The gate every historical-candle request passes: one slot, handed from  *)
(* caller to caller, interactive callers first, a watchdog that takes the  *)
(* slot from a stalled request, and callers that give up while they wait.  *)
(*                                                                         *)
(* Source: internal/kite/historical_gate.go.                               *)
(***************************************************************************)
EXTENDS Integers, Sequences, SequencesExt, FiniteSets

CONSTANTS
    Interactive,    \* calls a user waits for
    Background      \* calls of schedulers and backfills

Requests == Interactive \cup Background

VARIABLES
    busy,           \* the slot is taken
    waiting,        \* gateWaiters in the order they will be served
    at,             \* per call: "new", "waiting", "handed" (ready was closed), "gap",
                    \* "running" or "over"
    released        \* calls whose slot went back (the sync.Once)

gateVars == <<busy, waiting, at, released>>

GateInit == busy = FALSE /\ waiting = <<>> /\ at = [c \in Requests |-> "new"] /\ released = {}

\* release, with the waiting queue and positions the caller leaves: the slot goes straight
\* to the next waiter.
release(q, pos) ==
    IF q # <<>> THEN waiting' = Tail(q) /\ at' = [pos EXCEPT ![Head(q)] = "handed"] /\ UNCHANGED busy
    ELSE waiting' = q /\ at' = pos /\ busy' = FALSE

\* Ahead of every queued background call, behind the interactive ones; a background call last.
\* No other position qualifies while interactive calls lead the queue.
queuesAt(c, i) ==
    IF c \in Background THEN i = Len(waiting) + 1
    ELSE /\ \A j \in 1 .. i - 1 : waiting[j] \notin Background
         /\ i <= Len(waiting) => waiting[i] \in Background

acquire(c) ==
    /\ at[c] = "new" /\ UNCHANGED released
    /\ IF busy THEN /\ \E i \in 1 .. Len(waiting) + 1 : queuesAt(c, i) /\ waiting' = InsertAt(waiting, i, c)
                    /\ at' = [at EXCEPT ![c] = "waiting"] /\ UNCHANGED busy
       ELSE busy' = TRUE /\ at' = [at EXCEPT ![c] = "gap"] /\ UNCHANGED waiting

granted(c) == at[c] = "handed" /\ at' = [at EXCEPT ![c] = "gap"] /\ UNCHANGED <<busy, waiting, released>>

leaves(c) == \E i \in 1 .. Len(waiting) : waiting[i] = c /\ waiting' = RemoveAt(waiting, i)

\* Mutation: a caller that gives up as the slot is handed to it keeps it.
Mut_GiveUpKeeps(c) ==
    /\ at[c] \in {"waiting", "handed"} /\ UNCHANGED <<busy, released>> /\ at' = [at EXCEPT ![c] = "over"]
    /\ IF at[c] = "waiting" THEN leaves(c) ELSE UNCHANGED waiting

\* The context ends while the caller waits: it leaves the queue, or, when the slot was handed
\* to it at the same moment, passes the slot on.
giveUp(c) ==
    /\ at[c] \in {"waiting", "handed"} /\ UNCHANGED released
    /\ IF at[c] = "waiting"
       THEN leaves(c) /\ at' = [at EXCEPT ![c] = "over"] /\ UNCHANGED busy
       ELSE release(waiting, [at EXCEPT ![c] = "over"])

\* Mutation: no watchdog.
Mut_NoWatchdog(c) == FALSE /\ at[c] = "gap" /\ UNCHANGED gateVars
\* The slot timeout: the slot goes back though the request still runs.
watchdog(c) ==
    /\ at[c] \in {"gap", "running"} /\ c \notin released
    /\ released' = released \cup {c} /\ release(waiting, at)

start(c) == at[c] = "gap" /\ at' = [at EXCEPT ![c] = "running"] /\ UNCHANGED <<busy, waiting, released>>

\* The request returns, or its context ends in the gap: the slot goes back unless the watchdog
\* gave it back before.
Run(c) ==
    /\ at[c] \in {"gap", "running"} /\ released' = released \cup {c}
    /\ LET pos == [at EXCEPT ![c] = "over"]
       IN IF c \in released THEN at' = pos /\ UNCHANGED <<busy, waiting>> ELSE release(waiting, pos)

GateNext == \E c \in Requests : acquire(c) \/ granted(c) \/ giveUp(c) \/ watchdog(c) \/ start(c) \/ Run(c)

\* A closed channel is received from and a timer fires; a request may never return.
SlotMoves(c) == granted(c) \/ watchdog(c)
GateFairness == \A c \in Requests : WF_gateVars(SlotMoves(c))

GateSpec == GateInit /\ [][GateNext]_gateVars /\ GateFairness

--------------------------------------------------------------------------------
(* Properties. *)

SlotOwners == {c \in Requests : at[c] = "handed" \/ (at[c] \in {"gap", "running"} /\ c \notin released)}

\* While the gate is busy exactly one caller owns the slot, and nobody waits at a free gate:
\* whatever cancellations and timeouts coincide, the slot is neither lost nor doubled.
OneOwner ==
    /\ Cardinality(SlotOwners) = IF busy THEN 1 ELSE 0
    /\ waiting # <<>> => busy

\* Interactive callers are queued ahead of every background caller.
InteractiveFirst ==
    \A i, j \in 1 .. Len(waiting) : i < j /\ waiting[i] \in Background => waiting[j] \in Background

\* OneOwner is inductive together with what is queued: every caller that waits, once and nobody
\* else, and no caller whose slot went back before it got it.
GateTypeOK ==
    /\ busy \in BOOLEAN /\ waiting \in Seq(Requests) /\ released \subseteq Requests
    /\ at \in [Requests -> {"new", "waiting", "handed", "gap", "running", "over"}]
GateIInv ==
    /\ GateTypeOK
    /\ IsInjective(waiting) /\ Range(waiting) = {c \in Requests : at[c] = "waiting"}
    /\ \A c \in Requests : at[c] \in {"new", "waiting", "handed"} => c \notin released
    /\ IF busy THEN \E o \in Requests : SlotOwners = {o} ELSE SlotOwners = {}
    /\ waiting # <<>> => busy
    /\ InteractiveFirst

\* c waits for the slot: it must not for ever, also when the owner stalls (watchdog).
Waits(c) == at[c] = "waiting"
================================================================================
