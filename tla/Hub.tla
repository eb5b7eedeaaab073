-------------------------------- MODULE Hub ---------------------------------
(***************************************************************************)
(* The ticker hub as the futures lane of Zerodha: the hub's own Kite       *)
(* socket, the tokens subscribed on it, its dead-token path, the serial    *)
(* queue that calls the connection listener, and the holders of tokens     *)
(* (browser streams and engines) that subscribe through the coordinator.   *)
(*                                                                         *)
(* Sources: internal/hub/hub.go, internal/kite/ticker/ticker.go (events of *)
(* a socket), internal/marketdata/routes.go (openTickStream),              *)
(* internal/brokers/registry/registry.go (subscribeUpstream).              *)
(*                                                                         *)
(* A method body under h.mu is one step.  A socket's callbacks run on its  *)
(* goroutine, one after the other, and take h.mu anew each time.  Frames   *)
(* and cached prices are left out; SseStream models the frames.            *)
(***************************************************************************)
EXTENDS Integers, Sequences, FiniteSets

CONSTANTS
    Tokens,             \* instrument tokens
    Browsers,           \* streams: attached to the hub while they are open
    Engines,            \* holders that never attach
    MaxSockets,         \* bound on sockets: none is opened beyond it
    MaxQueue            \* bound on callbacks that wait in the serial queue

ASSUME HubBounds == MaxSockets \in Nat /\ MaxQueue \in Nat
ASSUME HubHolders == Browsers \cap Engines = {}

Holders == Browsers \cup Engines
Ids == 1..MaxSockets

VARIABLES
    creds,      \* Deps.Creds answers an access token
    sock,       \* h.sock: the id of the current socket, 0 = nil
    sockSeq,    \* h.sockSeq
    phase,      \* per socket id: how far its goroutine is
    subscribed, \* h.subscribed
    wire,       \* tokens the current socket was asked for
    connected,  \* h.connected
    queue,      \* h.events
    owed,       \* someone has pushed and not yet called drain
    draining,   \* h.events.draining, and the callback it is in
    told,       \* the connection state the listener was told last
    holder,     \* per holder: pc, tokens and the credentials it read
    leased,     \* holders whose lease is in the coordinator's table
    cmu,        \* holders inside a coordinator call (at most one)
    unserved,   \* history: tokens no subscription was made for, or Stop dropped
    kept        \* history: tokens an attached client kept at their last release

sockVars == <<sock, sockSeq, phase>>
subVars == <<subscribed, wire>>
queueVars == <<queue, owed>>
drainVars == <<draining, told>>
holdVars == <<holder, leased, cmu>>
histVars == <<unserved, kept>>
hubVars == <<creds, sockVars, subVars, connected, queueVars, drainVars, holdVars, histVars>>

Calls == {"up", "down", "dead"}
Free == [pc |-> "free", tokens |-> {}, creds |-> FALSE]

Held == UNION {holder[x].tokens : x \in leased}
\* The hub's clients: browsers from AttachClient until their detach.
Clients == {x \in Browsers : holder[x].pc # "free"}
StillWanted == UNION {holder[x].tokens : x \in Clients}

HubInit ==
    /\ creds = TRUE
    /\ sock = 0 /\ sockSeq = 0 /\ phase = [i \in Ids |-> "none"]
    /\ subscribed = {} /\ wire = {} /\ connected = FALSE
    /\ queue = <<>> /\ owed = FALSE /\ draining = "no" /\ told = FALSE
    /\ holder = [x \in Holders |-> Free] /\ leased = {} /\ cmu = {}
    /\ unserved = {} /\ kept = {}

-----------------------------------------------------------------------------
(* Helpers                                                                 *)

\* Push and, outside h.mu, drain.
Push(call) == Len(queue) < MaxQueue /\ queue' = Append(queue, call) /\ owed' = TRUE

\* notifyLocked: only a change is queued.
notifyLocked(b) ==
    /\ connected' = b
    /\ IF connected = b THEN UNCHANGED queueVars ELSE Push(IF b THEN "up" ELSE "down")

At(x, pc) == holder[x].pc = pc
Goto(x, pc) == holder' = [holder EXCEPT ![x].pc = pc]

\* Mutation: a new socket is opened for the new tokens only.
Mut_EnsureNewOnly(token, T) ==
    IF ~token THEN UNCHANGED <<sockVars, subVars>>
    ELSE /\ subscribed' = subscribed \cup T
         /\ IF sock = 0
            THEN /\ sockSeq < MaxSockets
                 /\ sockSeq' = sockSeq + 1 /\ sock' = sockSeq + 1
                 /\ phase' = [phase EXCEPT ![sockSeq + 1] = "dialing"]
                 /\ wire' = T
            ELSE wire' = wire \cup (T \ subscribed) /\ UNCHANGED sockVars

\* ensureSocketLocked: without an access token nothing happens; otherwise the
\* tokens are recorded and go to a new socket, with all the others, or to the
\* current one.
ensureSocketLocked(token, T) ==
    IF ~token THEN UNCHANGED <<sockVars, subVars>>
    ELSE /\ subscribed' = subscribed \cup T
         /\ IF sock = 0
            THEN /\ sockSeq < MaxSockets
                 /\ sockSeq' = sockSeq + 1 /\ sock' = sockSeq + 1
                 /\ phase' = [phase EXCEPT ![sockSeq + 1] = "dialing"]
                 /\ wire' = subscribed'
            ELSE wire' = wire \cup (T \ subscribed) /\ UNCHANGED sockVars

\* Stop: the socket is closed, its tokens are forgotten, clients stay.
StopHub ==
    /\ sock' = 0 /\ notifyLocked(FALSE)
    /\ subscribed' = {} /\ wire' = {}
    /\ unserved' = unserved \cup Held /\ kept' = {}

-----------------------------------------------------------------------------
(* Holders: openTickStream for a browser, SetOwnerTokens for an engine     *)

\* AttachClient (a browser) or nothing (an engine), then Acquire: the lease is
\* entered under the coordinator's mutex, which the subscription runs inside.
Attach(x, T) ==
    /\ At(x, "free") /\ T # {}
    /\ holder' = [holder EXCEPT ![x] = [Free EXCEPT !.pc = "attached", !.tokens = T]]
    /\ UNCHANGED <<creds, sockVars, subVars, connected, queueVars, drainVars, leased, cmu, histVars>>

\* The hub reads the credentials outside its mutex.
AcquireReadsCreds(x) ==
    /\ At(x, "attached") /\ cmu = {} /\ cmu' = {x}
    /\ holder' = [holder EXCEPT ![x].pc = "acquiring", ![x].creds = creds]
    /\ UNCHANGED <<creds, sockVars, subVars, connected, queueVars, drainVars, leased, histVars>>

\* SubscribeTokens for the tokens nobody held.
AcquireSubscribes(x) ==
    LET fresh == holder[x].tokens \ Held IN
    /\ At(x, "acquiring") /\ cmu' = {}
    /\ leased' = leased \cup {x}
    /\ holder' = [holder EXCEPT ![x].pc = "open", ![x].creds = FALSE]
    /\ IF fresh = {} THEN UNCHANGED <<sockVars, subVars>>
       ELSE ensureSocketLocked(holder[x].creds, fresh)
    /\ unserved' = IF holder[x].creds THEN unserved \ fresh ELSE unserved \cup fresh
    /\ UNCHANGED <<creds, connected, queueVars, drainVars, kept>>

\* Release: UnsubscribeTokens for the tokens nobody holds any more, but those
\* of an attached client stay (the closing browser is attached still).
Release(x) ==
    LET gone == holder[x].tokens \ UNION {holder[y].tokens : y \in leased \ {x}}
        drop == (gone \ StillWanted) \cap subscribed
    IN
    /\ At(x, "open") /\ cmu = {}
    /\ leased' = leased \ {x} /\ Goto(x, "released")
    /\ subscribed' = subscribed \ drop
    /\ wire' = IF sock # 0 THEN wire \ drop ELSE wire
    /\ unserved' = unserved \ gone
    /\ kept' = (kept \ drop) \cup (gone \cap StillWanted)
    /\ UNCHANGED <<creds, sockVars, connected, queueVars, drainVars, cmu>>

\* detach: after the release.
Detach(x) ==
    /\ At(x, "released")
    /\ holder' = [holder EXCEPT ![x] = Free]
    /\ UNCHANGED <<creds, sockVars, subVars, connected, queueVars, drainVars, leased, cmu, histVars>>

-----------------------------------------------------------------------------
(* The goroutine of a socket                                               *)

SetPhase(i, p) == phase' = [phase EXCEPT ![i] = p]

\* onSocketOpen: a superseded socket changes nothing.
SocketOpen(i) ==
    /\ phase[i] = "dialing" /\ SetPhase(i, "open")
    /\ IF sock = i THEN notifyLocked(TRUE) ELSE UNCHANGED <<connected, queueVars>>
    /\ UNCHANGED <<creds, sock, sockSeq, subVars, drainVars, holdVars, histVars>>

\* onSocketClose: the socket is given up, the tokens are kept for the next one.
SocketClose(i) ==
    /\ phase[i] \in {"open", "ended"} /\ SetPhase(i, "gone")
    /\ IF sock = i THEN sock' = 0 /\ wire' = {} /\ notifyLocked(FALSE)
                   ELSE UNCHANGED <<sock, wire, connected, queueVars>>
    /\ UNCHANGED <<creds, sockSeq, subscribed, drainVars, holdVars, histVars>>

\* onSocketError: the id is checked under h.mu, which is then released ...
SocketError(i) ==
    /\ phase[i] \in {"dialing", "open"}
    /\ SetPhase(i, IF sock = i THEN "failing" ELSE "ended")
    /\ UNCHANGED <<creds, sock, sockSeq, subVars, connected, queueVars, drainVars, holdVars, histVars>>

\* ... fail: OnDead goes through the serial queue ...
FailDead(i) ==
    /\ phase[i] = "failing" /\ SetPhase(i, "failed") /\ Push("dead")
    /\ UNCHANGED <<creds, sock, sockSeq, subVars, connected, drainVars, holdVars, histVars>>

\* ... the clients get their kite_error frame, and the hub is stopped.
FailStop(i) ==
    /\ phase[i] = "failed" /\ SetPhase(i, "ended") /\ StopHub
    /\ UNCHANGED <<creds, sockSeq, drainVars, holdVars>>

\* The registry stops the hub (a broker switch).
Stop ==
    /\ sock # 0 \/ subscribed # {}
    /\ StopHub
    /\ UNCHANGED <<creds, sockSeq, phase, drainVars, holdVars>>

-----------------------------------------------------------------------------
(* The serial queue                                                        *)

DrainCall ==
    /\ owed /\ owed' = FALSE
    /\ draining' = IF draining = "no" THEN "loop" ELSE draining
    /\ UNCHANGED <<creds, sockVars, subVars, connected, queue, told, holdVars, histVars>>

DrainTake ==
    /\ draining = "loop" /\ queue # <<>>
    /\ draining' = Head(queue) /\ queue' = Tail(queue)
    /\ UNCHANGED <<creds, sockVars, subVars, connected, owed, told, holdVars, histVars>>

DrainEnd ==
    /\ draining = "loop" /\ queue = <<>> /\ draining' = "no"
    /\ UNCHANGED <<creds, sockVars, subVars, connected, queueVars, told, holdVars, histVars>>

\* The connection listener, or OnDead, which clears the Kite session.
DrainRun ==
    /\ draining \in Calls /\ draining' = "loop"
    /\ told' = IF draining = "dead" THEN told ELSE draining = "up"
    /\ creds' = (creds /\ draining # "dead")
    /\ UNCHANGED <<sockVars, subVars, connected, queueVars, holdVars, histVars>>

\* A Kite login, the first or another one.
Login ==
    /\ creds' = TRUE
    /\ UNCHANGED <<sockVars, subVars, connected, queueVars, drainVars, holdVars, histVars>>

HubNext ==
    \/ \E x \in Holders :
          \/ \E T \in SUBSET Tokens : Attach(x, T)
          \/ AcquireReadsCreds(x) \/ AcquireSubscribes(x) \/ Release(x) \/ Detach(x)
    \/ \E i \in Ids :
          SocketOpen(i) \/ SocketClose(i) \/ SocketError(i) \/ FailDead(i) \/ FailStop(i)
    \/ Stop \/ Login
    \/ DrainCall \/ DrainTake \/ DrainEnd \/ DrainRun

HubSpec == HubInit /\ [][HubNext]_hubVars

-----------------------------------------------------------------------------
(* Correctness                                                             *)

\* Every held token is subscribed, unless the hub was stopped under its holder
\* or had no credentials: a release, also one that races with a new stream for
\* the same token, never takes a token from a holder that still has it.
HeldServed == Held \subseteq subscribed \cup unserved

\* The current socket was asked for exactly the subscribed tokens: those added
\* while it was dialling, those kept from a socket that closed, none dropped.
WireMatches == sock # 0 => wire = subscribed

\* A token stays subscribed after its last release only if an attached client
\* asked for it at that moment.
LeakNeedsAttachedClient == subscribed \subseteq Held \cup kept

\* Once the queue is empty the connection listener knows the hub's state: "a
\* listener can never see an older state after a newer one", and none is lost.
\* The last news that waits, the one being told, or the last one told is that state.
News == {i \in 1..Len(queue) : queue[i] # "dead"}
Telling == draining \in {"up", "down"}
ListenerUpToDate ==
    /\ \A i \in News : (\A j \in News : j <= i) => (connected <=> queue[i] = "up")
    /\ News = {} /\ Telling => (connected <=> draining = "up")
    /\ News = {} /\ ~Telling => (connected <=> told)
    /\ queue # <<>> => owed \/ draining # "no"

\* The hub reports connected only while its current socket is open or failing.
ConnectedMeansSocket ==
    connected => sock # 0 /\ phase[sock] \in {"open", "failing", "failed"}

\* Leases, subscriptions, the wire and what the listener knows agree, whatever
\* sockets, stops, logins and streams interleave.
HubServes ==
    /\ HeldServed /\ WireMatches /\ LeakNeedsAttachedClient
    /\ ListenerUpToDate /\ ConnectedMeansSocket

-----------------------------------------------------------------------------
(* HubServes is inductive together with the types                          *)

HubTypeOK ==
    /\ sock \in 0..MaxSockets /\ sockSeq \in 0..MaxSockets
    /\ phase \in [Ids -> {"none", "dialing", "open", "failing", "failed", "ended", "gone"}]
    /\ queue \in Seq(Calls) /\ draining \in Calls \cup {"no", "loop"}
    /\ DOMAIN holder = Holders
    /\ \A x \in Holders : holder[x].pc \in {"free", "attached", "acquiring", "open", "released"}

\* A lease is in the coordinator's table from the end of Acquire to the release.
LeasedAreOpen == leased = {x \in Holders : At(x, "open")}

HubIInv == HubTypeOK /\ LeasedAreOpen /\ HubServes
=============================================================================
