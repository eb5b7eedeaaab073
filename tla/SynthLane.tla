----------------------------- MODULE SynthLane ------------------------------
(***************************************************************************)
(* The synthetic scanner's universe and its share of the lane: strike      *)
(* windows and position legs resolved in the active broker's namespace,    *)
(* and the token sets declared for them.                                   *)
(*                                                                         *)
(* Source: internal/synthetic/engine.go (effects, Start/Stop, refresh,     *)
(* relink, budget, InvalidateNamespace, ReloadUniverse), driven by the     *)
(* hooks of internal/brokers/registry/switch.go and dhansession.go.        *)
(*                                                                         *)
(* Tokens belong to a namespace, numbered by broker generation; 0 is no    *)
(* namespace.  Underlyings are numbered in their selection order.  When a  *)
(* periodic refresh or relink is due, which contracts a dump resolves and  *)
(* whether a window can be built are data and left open.                   *)
(***************************************************************************)
EXTENDS Integers, Sequences, FiniteSets, FiniteSetsExt

CONSTANTS
    MaxUnder,       \* underlyings on the board
    Budget,         \* tokenBudget(), in tokens
    MaxSwitches,    \* bound on broker switches
    MaxChanges,     \* bound on operator requests, position changes and lost sessions
    MaxQueued       \* bound on SetTokens calls waiting

Unders == 1 .. MaxUnder
Levels == {1, 2}
Positions == {1}
NoNs == 0
Unlinked == 0
NoLegs == -1

VARIABLES
    gen,            \* registry generation: the active broker's namespace
    phase,          \* where SwitchTo is
    scanning,       \* e.running
    level,          \* e.strikeLevel
    epoch,          \* e.namespaceEpoch
    stale,          \* e.namespaceStale
    windows,        \* per underlying: its window's namespace and level
    legs,           \* per position: NoLegs, Unlinked, or the namespace of its tokens
    watched,        \* e.watched
    effects,        \* the SetTokens calls queued by unlock
    lane,           \* the tokens the box lane's coordinator holds for the scanner
    refresh,        \* e.refreshing
    relink,         \* e.relinking
    entering,       \* the entry in flight: the epoch and namespace of its tokens
    startWaits,     \* Start waits for a refresh already in flight
    changes

worldVars == <<gen, phase>>
universeVars == <<windows, level, epoch, stale>>
flightVars == <<refresh, relink, entering, startWaits>>
synthLaneVars == <<worldVars, scanning, universeVars, legs, watched, effects, lane, flightVars, changes>>

NoWindow == [ns |-> NoNs, lvl |-> 0]
NoFlight == [at |-> "none", epoch |-> 0, gen |-> 0, ns |-> NoNs, picked |-> {}]

SynthLaneInit ==
    /\ gen = 1 /\ phase = "idle"
    /\ scanning = FALSE /\ level = 1 /\ epoch = 0 /\ stale = FALSE
    /\ windows = [u \in Unders |-> NoWindow]
    /\ legs = [p \in Positions |-> NoLegs]
    /\ watched = {} /\ effects = <<>> /\ lane = {}
    /\ refresh = NoFlight /\ relink = NoFlight /\ entering = NoFlight
    /\ startWaits = FALSE /\ changes = 0

-----------------------------------------------------------------------------
(* The token set                                                           *)

switching == phase # "idle"
heldLegs(l) == {p \in Positions : l[p] # NoLegs}
active(s, l) == s \/ heldLegs(l) # {}
selection(w) == {u \in Unders : w[u].ns # NoNs}

PositionToken(p, n) == [ns |-> n, of |-> "position", key |-> p, k |-> 0]
WindowTokens(u, w) == {[ns |-> w.ns, of |-> "window", key |-> u, k |-> k] : k \in 1 .. w.lvl}

TokensOf(w, l) ==
    {PositionToken(p, l[p]) : p \in {q \in Positions : l[q] > 0}}
    \cup UNION {WindowTokens(u, w[u]) : u \in selection(w)}

\* applySubscriptionsLocked: the windows and the linked legs, declared in one call.
applySubscriptions(w, l, isStale) ==
    LET next == TokensOf(w, l) IN
    IF isStale \/ next = watched THEN UNCHANGED <<watched, effects>>
    ELSE /\ Len(effects) < MaxQueued
         /\ watched' = next /\ effects' = Append(effects, next)

\* unlock runs the queued effects one at a time, in order, without the mutex.
runEffect ==
    /\ effects # <<>>
    /\ lane' = Head(effects) /\ effects' = Tail(effects)
    /\ UNCHANGED <<worldVars, scanning, universeVars, legs, watched, flightVars, changes>>

-----------------------------------------------------------------------------
(* Budget                                                                  *)

\* A window costs as many tokens as its level, a position one.
fits(l, lvl, n) == Cardinality(heldLegs(l)) + n * lvl <= Budget

\* pickWithinBudgetLocked: the longest prefix of order that fits.
pickWithinBudget(order, l, lvl) ==
    {u \in order : fits(l, lvl, Cardinality({v \in order : v <= u}))}

\* fitToBudgetLocked: windows past the budget are dropped.
fitToBudget(w, l, lvl) ==
    LET keep == pickWithinBudget(selection(w), l, lvl)
    IN  [u \in Unders |-> IF u \in keep THEN w[u] ELSE NoWindow]

-----------------------------------------------------------------------------
(* Requests and positions                                                  *)

Change == changes < MaxChanges /\ changes' = changes + 1

Start ==
    /\ ~switching /\ ~scanning /\ Change
    /\ scanning' = TRUE /\ startWaits' = TRUE
    /\ UNCHANGED <<worldVars, universeVars, legs, watched, effects, lane, refresh, relink, entering>>

\* stopLocked: no windows; the legs of open positions stay.
stopped ==
    /\ scanning' = FALSE /\ windows' = [u \in Unders |-> NoWindow]
    /\ applySubscriptions([u \in Unders |-> NoWindow], legs, stale)

Stop ==
    /\ scanning /\ Change /\ stopped
    /\ UNCHANGED <<worldVars, level, epoch, stale, legs, lane, flightVars>>

\* A window whose chain a refresh in flight has already dropped stays as it is.
SetStrikeLevel(lvl) ==
    /\ lvl # level /\ Change /\ level' = lvl
    /\ IF ~scanning THEN UNCHANGED <<windows, watched, effects>>
       ELSE \E built \in IF refresh.at = "build" THEN SUBSET selection(windows)
                         ELSE {selection(windows)} :
              LET rebuilt == [u \in Unders |-> IF u \in built THEN [windows[u] EXCEPT !.lvl = lvl]
                                               ELSE windows[u]]
              IN  /\ windows' = fitToBudget(rebuilt, legs, lvl)
                  /\ applySubscriptions(windows', legs, stale)
    /\ UNCHANGED <<worldVars, scanning, epoch, stale, legs, lane, flightVars>>

\* enterLocked: an opportunity of a window in the current namespace.
enterPosition ==
    /\ scanning /\ ~stale /\ entering = NoFlight /\ heldLegs(legs) = {} /\ Change
    /\ \E u \in selection(windows) :
          entering' = [NoFlight EXCEPT !.at = "insert", !.epoch = epoch, !.ns = windows[u].ns]
    /\ UNCHANGED <<worldVars, scanning, universeVars, legs, watched, effects, lane, refresh,
                   relink, startWaits>>

\* finishEnter: re-linked first when the namespace changed meanwhile.
enterLinks(p) ==
    /\ entering # NoFlight /\ legs[p] = NoLegs
    /\ legs' = [legs EXCEPT ![p] = IF entering.epoch = epoch THEN entering.ns ELSE Unlinked]
    /\ windows' = fitToBudget(windows, legs', level)
    /\ applySubscriptions(windows', legs', stale)
    /\ entering' = NoFlight
    /\ UNCHANGED <<worldVars, scanning, level, epoch, stale, lane, refresh, relink, startWaits, changes>>

\* A stored position is adopted, unlinked.
adoptPosition(p) ==
    /\ legs[p] = NoLegs /\ entering = NoFlight /\ Change
    /\ legs' = [legs EXCEPT ![p] = Unlinked]
    /\ UNCHANGED <<worldVars, scanning, universeVars, watched, effects, lane, flightVars>>

\* A position is closed or deleted.
dropPosition(p) ==
    /\ legs[p] # NoLegs /\ Change
    /\ legs' = [legs EXCEPT ![p] = NoLegs]
    /\ applySubscriptions(windows, legs', stale)
    /\ UNCHANGED <<worldVars, scanning, universeVars, lane, flightVars>>

\* tick: the budget, once per evaluation.
tickFits ==
    /\ active(scanning, legs) /\ ~stale
    /\ windows # fitToBudget(windows, legs, level)
    /\ windows' = fitToBudget(windows, legs, level)
    /\ applySubscriptions(windows', legs, stale)
    /\ UNCHANGED <<worldVars, scanning, level, epoch, stale, legs, lane, flightVars, changes>>

-----------------------------------------------------------------------------
(* Universe refresh: one at a time                                         *)

\* Mutation: staleCheckLocked compares the registry's generation only.
Mut_GenerationOnly(f) == f.gen # gen

superseded(f) == f.epoch # epoch \/ f.gen # gen

beginRefresh ==
    /\ refresh = NoFlight
    /\ refresh' = [NoFlight EXCEPT !.at = "fetch", !.epoch = epoch, !.gen = gen]

\* The tick's, and Start's once the refresh it found is over.
tickRefresh ==
    /\ active(scanning, legs) /\ ~switching /\ beginRefresh
    /\ startWaits' = FALSE
    /\ UNCHANGED <<worldVars, scanning, universeVars, legs, watched, effects, lane, relink, entering, changes>>

endRefresh == refresh' = NoFlight

\* loadUniverse: the dump and board of the broker active when asked, or an error.
loadUniverse ==
    /\ refresh.at = "fetch"
    /\ \/ refresh' = [refresh EXCEPT !.at = "plan", !.ns = gen]
       \/ endRefresh
    /\ UNCHANGED <<worldVars, scanning, universeVars, legs, watched, effects, lane, relink,
                   entering, startWaits, changes>>

\* relinkPositionsLocked: every leg by contract in the dump, or the position is unlinked.
relinked(l, n) ==
    {m \in [Positions -> {NoLegs, Unlinked, n}] : \A p \in Positions : (m[p] = NoLegs) = (l[p] = NoLegs)}

\* runRefresh up to the futures' prices, which are asked without the mutex.
planRefresh ==
    /\ refresh.at = "plan"
    /\ IF superseded(refresh) \/ ~active(scanning, legs) THEN endRefresh /\ UNCHANGED legs
       ELSE /\ legs' \in relinked(legs, refresh.ns)
            /\ refresh' = [refresh EXCEPT !.at = "build",
                              !.picked = IF scanning THEN pickWithinBudget(Unders, legs, level) ELSE {}]
    /\ UNCHANGED <<worldVars, scanning, universeVars, watched, effects, lane, relink,
                   entering, startWaits, changes>>

\* The windows are built and declared, and the namespace is no longer stale.
buildRefresh ==
    /\ refresh.at = "build"
    /\ IF superseded(refresh) \/ ~active(scanning, legs)
       THEN UNCHANGED <<windows, stale, watched, effects>>
       ELSE \E built \in SUBSET (IF scanning THEN refresh.picked ELSE {}) :
              LET made == [u \in Unders |-> IF u \in built THEN [ns |-> refresh.ns, lvl |-> level]
                                            ELSE NoWindow]
              IN  /\ windows' = fitToBudget(made, legs, level)
                  /\ stale' = FALSE
                  /\ applySubscriptions(windows', legs, FALSE)
    /\ endRefresh
    /\ UNCHANGED <<worldVars, scanning, level, epoch, legs, lane, relink, entering, startWaits, changes>>

-----------------------------------------------------------------------------
(* Relinking open positions between refreshes                              *)

tickRelink ==
    /\ \E p \in Positions : legs[p] = Unlinked
    /\ ~stale /\ ~switching /\ relink = NoFlight
    /\ relink' = [NoFlight EXCEPT !.at = "fetch", !.epoch = epoch, !.gen = gen]
    /\ UNCHANGED <<worldVars, scanning, universeVars, legs, watched, effects, lane, refresh,
                   entering, startWaits, changes>>

relinkFetched ==
    /\ relink.at = "fetch"
    /\ \/ relink' = [relink EXCEPT !.at = "link", !.ns = gen]
       \/ relink' = NoFlight
    /\ UNCHANGED <<worldVars, scanning, universeVars, legs, watched, effects, lane, refresh,
                   entering, startWaits, changes>>

relinkEnds ==
    /\ relink.at = "link" /\ relink' = NoFlight
    /\ IF superseded(relink) \/ stale \/ switching THEN UNCHANGED <<legs, watched, effects>>
       ELSE legs' \in relinked(legs, relink.ns) /\ applySubscriptions(windows, legs', stale)
    /\ UNCHANGED <<worldVars, scanning, universeVars, lane, refresh, entering, startWaits, changes>>

-----------------------------------------------------------------------------
(* Broker switches and lost sessions                                       *)

\* The whole lease is released first; nothing is declared until a rebuild.
InvalidateNamespace ==
    /\ Len(effects) < MaxQueued /\ effects' = Append(effects, {})
    /\ epoch' = epoch + 1 /\ stale' = TRUE
    /\ windows' = [u \in Unders |-> NoWindow] /\ watched' = {}
    /\ legs' = [p \in Positions |-> IF legs[p] = NoLegs THEN NoLegs ELSE Unlinked]

\* Logout or a lost session of the active broker: Stop, then InvalidateBooks.
SessionInvalidates ==
    /\ ~switching /\ Change
    /\ scanning' = FALSE /\ InvalidateNamespace
    /\ UNCHANGED <<worldVars, level, lane, flightVars>>

SwitchStops ==
    /\ phase = "idle" /\ gen <= MaxSwitches
    /\ phase' = "stopped" /\ stopped
    /\ UNCHANGED <<gen, level, epoch, stale, legs, lane, flightVars, changes>>

\* The coordinator forgets the lane's registrations.
SwitchResets ==
    /\ phase = "stopped" /\ phase' = "reset" /\ lane' = {}
    /\ UNCHANGED <<gen, scanning, universeVars, legs, watched, effects, flightVars, changes>>

SwitchInvalidates ==
    /\ phase = "reset" /\ phase' = "invalid" /\ InvalidateNamespace
    /\ UNCHANGED <<gen, scanning, level, lane, flightVars, changes>>

SwitchMoves ==
    /\ phase = "invalid" /\ phase' = "moved" /\ gen' = gen + 1
    /\ UNCHANGED <<scanning, universeVars, legs, watched, effects, lane, flightVars, changes>>

\* ReloadUniverse: any refresh in flight is discarded and waited for.
ReloadUniverse ==
    /\ phase = "moved" /\ phase' = "waits" /\ epoch' = epoch + 1
    /\ UNCHANGED <<gen, scanning, level, stale, windows, legs, watched, effects, lane, flightVars, changes>>

ReloadRefreshes ==
    /\ phase = "waits" /\ refresh = NoFlight
    /\ IF active(scanning, legs) THEN beginRefresh /\ phase' = "reloads"
       ELSE phase' = "idle" /\ UNCHANGED refresh
    /\ UNCHANGED <<gen, scanning, universeVars, legs, watched, effects, lane, relink, entering,
                   startWaits, changes>>

SwitchEnds ==
    /\ phase = "reloads" /\ refresh = NoFlight /\ phase' = "idle"
    /\ UNCHANGED <<gen, scanning, universeVars, legs, watched, effects, lane, flightVars, changes>>

SynthLaneNext ==
    \/ runEffect \/ Start \/ Stop \/ enterPosition \/ tickFits
    \/ \E l \in Levels : SetStrikeLevel(l)
    \/ \E p \in Positions : enterLinks(p) \/ adoptPosition(p) \/ dropPosition(p)
    \/ tickRefresh \/ loadUniverse \/ planRefresh \/ buildRefresh
    \/ tickRelink \/ relinkFetched \/ relinkEnds
    \/ SessionInvalidates \/ SwitchStops \/ SwitchResets \/ SwitchInvalidates \/ SwitchMoves
    \/ ReloadUniverse \/ ReloadRefreshes \/ SwitchEnds

SynthLaneSpec == SynthLaneInit /\ [][SynthLaneNext]_synthLaneVars

-----------------------------------------------------------------------------
(* Properties                                                              *)

\* Once the queued calls have run, the lane holds exactly what the scanner
\* watches: no set is lost, applied twice or out of order.
DeclaredIsWatched == (effects = <<>> /\ phase # "reset") => lane = watched

\* Outside a switch the scanner holds no token of another broker's namespace,
\* whatever refresh, relink or entry was in flight when the namespace went.
OwnNamespace == ~switching => \A t \in watched : t.ns = gen

\* The lane carries what the scanner watches, and that of one broker only.
LaneFollowsScanner == DeclaredIsWatched /\ OwnNamespace

-----------------------------------------------------------------------------
(* LaneFollowsScanner holds by the parts below.                            *)

Window == [ns : Nat, lvl : Levels \cup {0}]
Token == [ns : Nat, of : {"position", "window"}, key : Unders \cup Positions, k : Levels \cup {0}]
Flight == [at : {"none", "insert", "fetch", "plan", "build", "link"}, epoch : Nat, gen : Nat,
           ns : Nat, picked : SUBSET Unders]

SynthLaneTypeOK ==
    /\ gen \in Nat \ {0} /\ epoch \in Nat /\ level \in Levels
    /\ windows \in [Unders -> Window] /\ legs \in [Positions -> Nat \cup {NoLegs}]
    /\ watched \in SUBSET Token /\ effects \in Seq(SUBSET Token)
    /\ refresh \in Flight /\ relink \in Flight /\ entering \in Flight

\* What was declared last is what is watched, while it waits and once it has run.
LastDeclared ==
    IF effects = <<>> THEN phase # "reset" => lane = watched ELSE effects[Len(effects)] = watched

\* Windows, legs and the watched tokens are of the registry's namespace, in every phase.
ofNamespace(w, l, n) ==
    /\ \A u \in Unders : w[u].ns \in {NoNs, n}
    /\ \A p \in Positions : l[p] \in {NoLegs, Unlinked, n}
CurrentNamespace == ofNamespace(windows, legs, gen) /\ \A tok \in watched : tok.ns = gen

\* A flight that was not superseded carries contracts of the registry's namespace.
carries(f) == f.epoch <= epoch /\ f.gen <= gen
FlightsCurrent ==
    /\ carries(refresh) /\ carries(relink) /\ carries(entering)
    /\ refresh.at \in {"plan", "build"} /\ ~superseded(refresh) => refresh.ns = gen
    /\ relink.at = "link" /\ ~superseded(relink) => relink.ns = gen
    /\ entering # NoFlight /\ entering.epoch = epoch => entering.ns = gen

\* Between the invalidation and the move no window, leg or flight of the old namespace is left.
NothingOfTheOld ==
    phase = "invalid" =>
        /\ stale /\ watched = {} /\ \A u \in Unders : windows[u].ns = NoNs
        /\ \A p \in Positions : legs[p] \in {NoLegs, Unlinked}
        /\ \A f \in {refresh, relink, entering} : f = NoFlight \/ f.epoch < epoch

SynthLaneIInv == SynthLaneTypeOK /\ LastDeclared /\ CurrentNamespace /\ FlightsCurrent /\ NothingOfTheOld
=============================================================================
