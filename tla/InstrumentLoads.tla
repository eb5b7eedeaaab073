-------------------------- MODULE InstrumentLoads --------------------------
(***************************************************************************)
(* The instrument universes: the provider's cache per broker, scoped to    *)
(* the generation, with its shared and forced loads, over the Dhan store's *)
(* own cache and single-flight fetch; and a switch that empties both while *)
(* loads of before it are still running.                                   *)
(*                                                                         *)
(* Source: internal/brokers/registry/instruments.go, switch.go (steps 5 to *)
(* 7), internal/brokers/dhan/instruments.go (InstrumentStore).             *)
(***************************************************************************)
EXTENDS Integers, FiniteSets

CONSTANTS
    Zerodha, Dhan,  \* the brokers
    Callers,        \* goroutines that call Load
    MaxLoads,       \* bound on provider loads started
    MaxGen,         \* bound on the generation
    MaxCalls        \* bound on calls of Load

ASSUME LoadBounds == Zerodha # Dhan /\ MaxLoads \in Nat

Brokers == {Zerodha, Dhan}
Loads == 1 .. MaxLoads
NoneLoaded == 0
NoCache == [load |-> NoneLoaded, gen |-> 0, old |-> FALSE]
NoLoad == [at |-> "none", broker |-> Zerodha, gen |-> 0, got |-> "none"]
FreeCaller == [at |-> "idle", broker |-> Zerodha, gen |-> 0, on |-> NoneLoaded]
NoSwitch == [at |-> "none", load |-> NoneLoaded]

VARIABLES
    active, gen,    \* the registry's state
    sw,             \* where SwitchTo is
    caches,         \* per broker: the load whose rows it holds, its generationAt, past its hour
    inFlight,       \* per broker: the load callers share
    loads, started, \* the loads and how many there were
    master, call,   \* the Dhan store: its rows (none, fresh, old), its fetch in flight
    caller,         \* per caller: its broker and generation, the load that answers it
    calls

loadVars == <<active, gen, sw, caches, inFlight, loads, started, master, call, caller, calls>>
registryVars == <<active, gen, sw>>
providerVars == <<caches, inFlight, loads, started>>
masterVars == <<master, call>>

LoadInit ==
    /\ active = Zerodha /\ gen = 1 /\ sw = NoSwitch
    /\ caches = [b \in Brokers |-> NoCache] /\ inFlight = [b \in Brokers |-> NoneLoaded]
    /\ loads = [l \in Loads |-> NoLoad] /\ started = 0
    /\ master = "none" /\ call = "none"
    /\ caller = [c \in Callers |-> FreeCaller] /\ calls = 0

--------------------------------------------------------------------------------
(* The Dhan store. *)

\* Concurrent callers, forced or not, share the fetch that is running.
share == call' = "fetching"

\* Load(force = FALSE): fresh rows, or the shared fetch; the rows are those in the store then.
storeAnswers == master = "fresh"

\* What a load has once it was answered.
fetched(l, got) == [at |-> "fetched", broker |-> loads[l].broker, gen |-> loads[l].gen, got |-> got]

\* runLoad: one of the two URLs gave rows, or neither did and the store stays as it is.
runLoad ==
    /\ call = "fetching" /\ call' = "none"
    /\ \E got \in {"rows", "error"} :
         /\ master' = IF got = "rows" THEN "fresh" ELSE master
         /\ loads' = [l \in Loads |-> IF loads[l].at = "master" THEN fetched(l, got) ELSE loads[l]]
         /\ sw' = IF sw.at # "master" THEN sw
                  ELSE IF got = "rows" THEN [at |-> "universe", load |-> sw.load] ELSE NoSwitch
    /\ UNCHANGED <<active, gen, caches, inFlight, started, caller, calls>>

Clear == master' = "none"

--------------------------------------------------------------------------------
(* InstrumentProvider.Load. *)

fresh(b, g) == LET c == caches[b] IN c.load # NoneLoaded /\ c.gen = g /\ ~c.old

start(b, g) ==
    /\ started < MaxLoads /\ started' = started + 1
    /\ loads' = [loads EXCEPT ![started + 1] = [at |-> "begun", broker |-> b, gen |-> g, got |-> "none"]]
    /\ inFlight' = [inFlight EXCEPT ![b] = started + 1]

answered(c, at, l) ==
    caller' = [caller EXCEPT ![c] = [at |-> at, broker |-> @.broker, gen |-> @.gen, on |-> l]]

\* Load reads broker and generation together, and takes the provider's lock after that.
namespaceFor(c) ==
    /\ caller[c].at \in {"idle", "cached", "answered"} /\ calls < MaxCalls /\ calls' = calls + 1
    /\ caller' = [caller EXCEPT ![c] = [at |-> "locking", broker |-> active, gen |-> gen, on |-> NoneLoaded]]
    /\ UNCHANGED <<registryVars, providerVars, masterVars>>

\* A fresh cache answers; an unforced call joins the load in flight, whichever generation it
\* is of; otherwise it starts one, which becomes the load others join.
Load(c, force) ==
    /\ caller[c].at = "locking"
    /\ LET b == caller[c].broker IN
       IF fresh(b, caller[c].gen) /\ ~force
       THEN answered(c, "cached", caches[b].load) /\ UNCHANGED providerVars
       ELSE IF inFlight[b] # NoneLoaded /\ ~force
       THEN answered(c, "waiting", inFlight[b]) /\ UNCHANGED providerVars
       ELSE start(b, caller[c].gen) /\ answered(c, "waiting", started + 1) /\ UNCHANGED caches
    /\ UNCHANGED <<registryVars, masterVars, calls>>

\* fetchFor: Kite is asked for its dump, Dhan's rows come through the store.
fetchFor(l) ==
    /\ loads[l].at = "begun"
    /\ IF loads[l].broker = Zerodha
       THEN /\ \E got \in {"rows", "error"} : loads' = [loads EXCEPT ![l] = fetched(l, got)]
            /\ UNCHANGED call
       ELSE IF storeAnswers
       THEN loads' = [loads EXCEPT ![l] = fetched(l, "rows")] /\ UNCHANGED call
       ELSE loads' = [loads EXCEPT ![l] = [@ EXCEPT !.at = "master"]] /\ share
    /\ UNCHANGED <<registryVars, caches, inFlight, started, master, caller, calls>>

\* Mutation: the rows are filed under the generation of when they arrive.
Mut_LandsNow(l) == [load |-> l, gen |-> gen, old |-> FALSE]
\* The rows are filed under the broker and generation the load began with.
filed(l) == [load |-> l, gen |-> loads[l].gen, old |-> FALSE]

\* The load lands, also after Invalidate; whatever is in flight for the broker is forgotten.
landed(l) ==
    /\ loads[l].at = "fetched"
    /\ LET b == loads[l].broker IN
       /\ caches' = IF loads[l].got = "rows" THEN [caches EXCEPT ![b] = filed(l)] ELSE caches
       /\ inFlight' = [inFlight EXCEPT ![b] = NoneLoaded]
    /\ loads' = [loads EXCEPT ![l] = [@ EXCEPT !.at = "done"]]
    /\ caller' = [c \in Callers |-> IF caller[c].at = "waiting" /\ caller[c].on = l
                                    THEN [caller[c] EXCEPT !.at = "answered"] ELSE caller[c]]
    /\ sw' = IF sw.load = l THEN NoSwitch ELSE sw
    /\ UNCHANGED <<active, gen, started, masterVars, calls>>

\* The caller's request is cancelled; the load goes on.
cancelled(c) ==
    /\ caller[c].at = "waiting" /\ caller' = [caller EXCEPT ![c] = FreeCaller]
    /\ UNCHANGED <<registryVars, providerVars, masterVars, calls>>

\* An hour passes.
hour(b) ==
    /\ \/ ~caches[b].old /\ caches[b].load # NoneLoaded /\ caches' = [caches EXCEPT ![b] = [@ EXCEPT !.old = TRUE]] /\ UNCHANGED master
       \/ b = Dhan /\ master = "fresh" /\ master' = "old" /\ UNCHANGED caches
    /\ UNCHANGED <<registryVars, inFlight, loads, started, call, caller, calls>>

--------------------------------------------------------------------------------
(* SwitchTo. *)

Invalidate == caches' = [b \in Brokers |-> NoCache]

switchInvalidate ==
    /\ sw = NoSwitch /\ gen < MaxGen /\ sw' = [NoSwitch EXCEPT !.at = "store"]
    /\ IF active = Dhan THEN Clear ELSE UNCHANGED master
    /\ Invalidate
    /\ UNCHANGED <<active, gen, inFlight, loads, started, call, caller, calls>>

switchStore ==
    /\ sw.at = "store" /\ gen' = gen + 1
    /\ active' = CHOOSE b \in Brokers : b # active
    /\ IF active' = Dhan THEN sw' = [sw EXCEPT !.at = "master"] /\ share
       ELSE sw' = [sw EXCEPT !.at = "universe"] /\ UNCHANGED call
    /\ UNCHANGED <<providerVars, master, caller, calls>>

\* loadNewUniverse: a forced load of its own, after Dhan's master.
loadNewUniverse ==
    /\ sw.at = "universe" /\ start(active, gen) /\ sw' = [at |-> "loading", load |-> started + 1]
    /\ UNCHANGED <<active, gen, caches, masterVars, caller, calls>>

LoadNext ==
    \/ \E c \in Callers : namespaceFor(c) \/ (\E force \in BOOLEAN : Load(c, force)) \/ cancelled(c)
    \/ \E l \in Loads : fetchFor(l) \/ landed(l)
    \/ \E b \in Brokers : hour(b)
    \/ runLoad \/ switchInvalidate \/ switchStore \/ loadNewUniverse

LoadSpec == LoadInit /\ [][LoadNext]_loadVars

--------------------------------------------------------------------------------
(* Properties *)

\* No call of Load is given the other broker's rows, and one that the cache answers gets rows
\* of a load that began in its own generation, after the last switch to that broker, although
\* loads of earlier generations land whenever they end.
UniverseOfCaller ==
    \A c \in Callers : LET l == loads[caller[c].on] IN
        /\ caller[c].at \in {"cached", "answered"} => l.broker = caller[c].broker
        /\ caller[c].at = "cached" => l.gen = caller[c].gen

\* The loads, the caches, the callers and SwitchTo as the source declares them.
LoadTypeOK ==
    /\ active \in Brokers /\ gen \in Nat /\ started \in 0 .. MaxLoads
    /\ sw \in [at : {"none", "store", "master", "universe", "loading"}, load : 0 .. MaxLoads]
    /\ caches \in [Brokers -> [load : 0 .. MaxLoads, gen : Nat, old : BOOLEAN]]
    /\ inFlight \in [Brokers -> 0 .. MaxLoads]
    /\ loads \in [Loads -> [at : {"none", "begun", "master", "fetched", "done"}, broker : Brokers,
                            gen : Nat, got : {"none", "rows", "error"}]]
    /\ caller \in [Callers -> [at : {"idle", "locking", "waiting", "cached", "answered"}, broker : Brokers,
                              gen : Nat, on : 0 .. MaxLoads]]

\* Load l was started for broker b.
ofBroker(l, b) == l \in 1 .. started /\ loads[l].broker = b

\* A number that was not given out belongs to no load: nothing lands under it.
StartedOnly == \A l \in Loads : loads[l].at # "none" => l <= started

\* What a broker's cache holds came from a load of that broker, of the generation it is filed under.
FiledAsBegun ==
    \A b \in Brokers : caches[b].load # NoneLoaded =>
        ofBroker(caches[b].load, b) /\ loads[caches[b].load].gen = caches[b].gen

\* The load that callers of a broker join is of that broker, whichever generation it is of.
JoinedBroker == \A b \in Brokers : inFlight[b] # NoneLoaded => ofBroker(inFlight[b], b)

\* A caller waits for, and is answered by, a load of its own broker.
AnsweredByOwn ==
    \A c \in Callers :
        /\ caller[c].at \in {"waiting", "cached", "answered"} => ofBroker(caller[c].on, caller[c].broker)
        /\ caller[c].at = "cached" => loads[caller[c].on].gen = caller[c].gen

\* The inductive invariant: what Load answers depends on what was filed and joined long before.
LoadIInv == LoadTypeOK /\ StartedOnly /\ FiledAsBegun /\ JoinedBroker /\ AnsweredByOwn
================================================================================
