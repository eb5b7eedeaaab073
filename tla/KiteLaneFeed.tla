---------------------------- MODULE KiteLaneFeed ----------------------------
(***************************************************************************)
(* The Zerodha feed of one lane and the sockets it opens: the wanted set,  *)
(* frames queued before and after a socket opens, callbacks of sockets     *)
(* that are no longer the current one, the reconnect timer and the queue   *)
(* that reports connection changes in order.                               *)
(*                                                                         *)
(* Source: internal/kite/lanefeed.go, internal/kite/ticker/ticker.go.      *)
(***************************************************************************)
EXTENDS Integers, Sequences

CONSTANTS
    Tokens,         \* instruments
    Threads,        \* callers of the feed's methods
    MaxSockets,     \* bound on sockets opened
    MaxLaneCalls    \* bound on calls, ticks, switches and logins together

Sockets == 1 .. MaxSockets
NoSocket == 0

ASSUME LaneAssumption == MaxSockets \in Nat

VARIABLES
    wanted, subscribed, connected, disposed,    \* ZerodhaFeed
    sock,           \* the current socket
    socketGen,      \* socketGeneration
    timer,          \* the reconnect timer: "none" or "armed" (reconnectCancel)
    events,         \* callbacks waiting in the serial queue
    heard,          \* the last connection state the listener was told
    ensuring,       \* per thread and for the timer: where its EnsureSocket is
    conn,           \* per socket: ticker.conn and what Kite has of it
    brokerGen, session,   \* what the Generation and Credentials callbacks answer
    opened, laneCalls,  \* bounds
    idleWhy         \* why the feed last went without a socket, for the properties

feedVars == <<wanted, subscribed, connected, disposed, sock, socketGen>>
envVars == <<brokerGen, session>>
laneFeedVars == <<feedVars, timer, events, heard, ensuring, conn, envVars, opened, laneCalls, idleWhy>>

LaneCallers == Threads \cup {"timer"}
\* A socket: where it is, closed by us, tokens waiting for it to open, frames not yet sent, what Kite
\* streams and the generation an unfinished tick was read under.
Socket(st, pending, out) ==
    [st |-> st, closing |-> FALSE, pending |-> pending, out |-> out, server |-> {}, tickGen |-> -1]
NotYet == Socket("none", {}, <<>>)
Over == Socket("over", {}, <<>>)
Frame(op, tokens) == [op |-> op, tokens |-> tokens]
Away == [at |-> "idle", gen |-> 0]

LaneFeedInit ==
    /\ wanted = {} /\ subscribed = {} /\ connected = FALSE /\ disposed = FALSE /\ sock = NoSocket
    /\ socketGen = 0 /\ timer = "none" /\ events = <<>> /\ heard = FALSE
    /\ ensuring = [t \in LaneCallers |-> Away] /\ conn = [s \in Sockets |-> NotYet]
    /\ brokerGen = 0 /\ session = TRUE /\ opened = 0 /\ laneCalls = 0 /\ idleWhy = "new"

spend == laneCalls < MaxLaneCalls /\ laneCalls' = laneCalls + 1

--------------------------------------------------------------------------------
(* One socket: ticker.conn. The operators give the record that results. *)

\* Mutation: tokens subscribed before the socket is open are forgotten.
Mut_NoPending(c, tokens) == IF c.st = "dialing" THEN c ELSE [c EXCEPT !.out = Append(@, Frame("subscribe", tokens))]
\* Queued until the socket opens, sent as a frame after.
Subscribe(c, tokens) ==
    IF c.st = "dialing" THEN [c EXCEPT !.pending = @ \cup tokens]
    ELSE [c EXCEPT !.out = Append(@, Frame("subscribe", tokens))]
Unsubscribe(c, tokens) ==
    IF c.st = "dialing" THEN [c EXCEPT !.pending = @ \ tokens]
    ELSE [c EXCEPT !.out = Append(@, Frame("unsubscribe", tokens))]
CloseSocket(c) == [c EXCEPT !.closing = TRUE]

applied(server, frame) ==
    IF frame.op = "subscribe" THEN server \cup frame.tokens ELSE server \ frame.tokens
\* What Kite streams once the frames on their way have arrived: the last word on each token counts.
OnWire(c) ==
    {t \in Tokens :
        \/ \E i \in DOMAIN c.out : c.out[i].op = "subscribe" /\ t \in c.out[i].tokens
                                   /\ \A j \in DOMAIN c.out : j > i => t \notin c.out[j].tokens
        \/ t \in c.server /\ \A j \in DOMAIN c.out : t \notin c.out[j].tokens}

\* The dial succeeds: the pending tokens become the first frame. A socket closed meanwhile,
\* and a dial that fails, report an error and then the close.
dialed(s) ==
    /\ conn[s].st = "dialing"
    /\ \/ /\ ~conn[s].closing
          /\ conn' = [conn EXCEPT ![s] = Socket("opened", {},
                        IF @.pending = {} THEN <<>> ELSE <<Frame("subscribe", @.pending)>>)]
       \/ conn' = [conn EXCEPT ![s].st = "error"]
    /\ UNCHANGED <<feedVars, timer, events, heard, ensuring, envVars, opened, laneCalls, idleWhy>>

\* The socket after its first frame has left.
sent(c) == [st |-> c.st, closing |-> c.closing, pending |-> c.pending, out |-> Tail(c.out),
            server |-> applied(c.server, Head(c.out)), tickGen |-> c.tickGen]
writer(s) ==
    /\ conn[s].st \in {"opened", "reading"} /\ conn[s].out # <<>>
    /\ conn' = [conn EXCEPT ![s] = sent(@)]
    /\ UNCHANGED <<feedVars, timer, events, heard, ensuring, envVars, opened, laneCalls, idleWhy>>

\* The read loop ends: a protocol error is reported as an error first, unless we closed it.
readEnds(s) ==
    /\ conn[s].st = "reading" /\ conn[s].tickGen = -1
    /\ \E st \in IF conn[s].closing THEN {"close"} ELSE {"close", "error"} : conn' = [conn EXCEPT ![s].st = st]
    /\ UNCHANGED <<feedVars, timer, events, heard, ensuring, envVars, opened, laneCalls, idleWhy>>

--------------------------------------------------------------------------------
(* The feed's callbacks, each matched to the current socket. *)

currentLocked(s) == sock = s /\ ~disposed

setConnected(to) ==
    /\ connected' = to
    /\ events' = IF connected = to THEN events ELSE Append(events, IF to THEN "up" ELSE "down")

scheduleReconnect ==
    timer' = IF disposed \/ timer # "none" \/ wanted = {} THEN timer ELSE "armed"

onOpen(s) ==
    /\ conn[s].st = "opened" /\ conn' = [conn EXCEPT ![s].st = "reading"]
    /\ IF currentLocked(s) THEN subscribed' = wanted /\ setConnected(TRUE)
       ELSE UNCHANGED <<subscribed, connected, events>>
    /\ UNCHANGED <<wanted, disposed, sock, socketGen, timer, heard, ensuring, envVars, opened, laneCalls, idleWhy>>

\* teardownLocked: the timer is cancelled and the socket closed.
teardown(socks) ==
    /\ timer' = "none" /\ sock' = NoSocket /\ subscribed' = {}
    /\ conn' = IF sock = NoSocket THEN socks ELSE [socks EXCEPT ![sock] = CloseSocket(@)]

\* An error is terminal: OnDead, then the teardown; the wanted set is kept.
onError(s) ==
    /\ conn[s].st = "error"
    /\ LET socks == [conn EXCEPT ![s].st = "close"]
       IN IF currentLocked(s)
          THEN /\ teardown(socks) /\ connected' = FALSE /\ idleWhy' = "dead"
               /\ events' = IF connected THEN Append(Append(events, "dead"), "down") ELSE Append(events, "dead")
          ELSE conn' = socks /\ UNCHANGED <<subscribed, sock, connected, timer, events, idleWhy>>
    /\ UNCHANGED <<wanted, disposed, socketGen, heard, ensuring, envVars, opened, laneCalls>>

onClose(s) ==
    /\ conn[s].st = "close" /\ conn' = [conn EXCEPT ![s] = Over]
    /\ IF currentLocked(s)
       THEN /\ sock' = NoSocket /\ subscribed' = {} /\ setConnected(FALSE) /\ scheduleReconnect
            /\ idleWhy' = IF wanted = {} THEN "empty" ELSE "timer"
       ELSE UNCHANGED <<subscribed, sock, connected, timer, events, idleWhy>>
    /\ UNCHANGED <<wanted, disposed, socketGen, heard, ensuring, envVars, opened, laneCalls>>

\* A tick: the generation is read before the lock, so it may be old when it is compared.
tickArrives(s) ==
    /\ conn[s].st = "reading" /\ conn[s].tickGen = -1 /\ spend
    /\ conn' = [conn EXCEPT ![s].tickGen = brokerGen]
    /\ UNCHANGED <<feedVars, timer, events, heard, ensuring, envVars, opened, idleWhy>>
onTick(s) ==
    /\ conn[s].tickGen # -1 /\ conn' = [conn EXCEPT ![s].tickGen = -1]
    /\ events' = IF currentLocked(s) /\ socketGen = conn[s].tickGen THEN Append(events, "tick") ELSE events
    /\ UNCHANGED <<feedVars, timer, heard, ensuring, envVars, opened, laneCalls, idleWhy>>

\* The serial queue: callbacks run one at a time in the order of the state changes.
drain ==
    /\ events # <<>> /\ events' = Tail(events)
    /\ heard' = IF Head(events) \in {"up", "down"} THEN Head(events) = "up" ELSE heard
    /\ UNCHANGED <<feedVars, timer, ensuring, conn, envVars, opened, laneCalls, idleWhy>>

--------------------------------------------------------------------------------
(* EnsureSocket: look, read the credentials and the generation unlocked, look again. *)

ensure(t, seen) == ensuring' = [ensuring EXCEPT ![t] = IF seen THEN [at |-> "asking", gen |-> 0] ELSE Away]

readCredentials(t) ==
    /\ ensuring[t].at = "asking"
    /\ IF session THEN ensuring' = [ensuring EXCEPT ![t] = [at |-> "opening", gen |-> brokerGen]] /\ UNCHANGED idleWhy
       ELSE ensuring' = [ensuring EXCEPT ![t] = Away] /\ idleWhy' = IF sock = NoSocket THEN "no session" ELSE idleWhy
    /\ UNCHANGED <<feedVars, timer, events, heard, conn, envVars, opened, laneCalls>>

mayNotOpen == disposed \/ sock # NoSocket

EnsureSocket(t) ==
    /\ ensuring[t].at = "opening" /\ opened < MaxSockets
    /\ ensuring' = [ensuring EXCEPT ![t] = Away]
    /\ IF mayNotOpen THEN UNCHANGED <<sock, socketGen, conn, opened>>
       ELSE /\ opened' = opened + 1 /\ sock' = opened + 1 /\ socketGen' = ensuring[t].gen
            /\ conn' = [conn EXCEPT ![opened + 1] = Socket("dialing", wanted, <<>>)]
    /\ UNCHANGED <<wanted, subscribed, connected, disposed, timer, events, heard, envVars, laneCalls, idleWhy>>

\* The reconnect timer passes: still the armed one, so EnsureSocket is called.
reconnect ==
    /\ timer = "armed" /\ ensuring["timer"] = Away
    /\ timer' = "none" /\ ensure("timer", ~disposed /\ sock = NoSocket)
    /\ UNCHANGED <<feedVars, events, heard, conn, envVars, opened, laneCalls, idleWhy>>

--------------------------------------------------------------------------------
(* The lane's callers. *)

\* The whole set: drops are unsubscribed before adds are subscribed.
SetTokens(t, want) ==
    /\ ensuring[t] = Away /\ spend
    /\ wanted' = want
    /\ LET toAdd == want \ wanted
           toDrop == wanted \ want
       IN IF sock = NoSocket
          THEN ensure(t, want # {} /\ ~disposed) /\ UNCHANGED <<subscribed, conn>>
          ELSE /\ LET c == IF toDrop = {} THEN conn[sock] ELSE Unsubscribe(conn[sock], toDrop)
                  IN conn' = [conn EXCEPT ![sock] = IF toAdd = {} THEN c ELSE Subscribe(c, toAdd)]
               /\ subscribed' = (subscribed \ toDrop) \cup toAdd /\ UNCHANGED ensuring
    /\ UNCHANGED <<connected, disposed, sock, socketGen, timer, events, heard, envVars, opened, idleWhy>>

SubscribeTokens(t, tokens) ==
    /\ ensuring[t] = Away /\ spend
    /\ LET fresh == tokens \ wanted
       IN /\ wanted' = wanted \cup fresh
          /\ IF sock = NoSocket THEN ensure(t, ~disposed) /\ UNCHANGED <<subscribed, conn>>
             ELSE /\ conn' = IF fresh = {} THEN conn ELSE [conn EXCEPT ![sock] = Subscribe(@, fresh)]
                  /\ subscribed' = subscribed \cup fresh /\ UNCHANGED ensuring
    /\ UNCHANGED <<connected, disposed, sock, socketGen, timer, events, heard, envVars, opened, idleWhy>>

UnsubscribeTokens(tokens) ==
    /\ spend /\ LET drop == tokens \cap wanted
       IN /\ drop # {} /\ wanted' = wanted \ drop /\ subscribed' = subscribed \ drop
          /\ conn' = IF sock = NoSocket THEN conn ELSE [conn EXCEPT ![sock] = Unsubscribe(@, drop)]
    /\ UNCHANGED <<connected, disposed, sock, socketGen, timer, events, heard, ensuring, envVars, opened, idleWhy>>

Stop ==
    /\ spend /\ ~disposed /\ disposed' = TRUE /\ teardown(conn) /\ setConnected(FALSE) /\ wanted' = {}
    /\ UNCHANGED <<socketGen, heard, ensuring, envVars, opened, idleWhy>>

\* The broker generation moves, a login is lost or made.
EnvChange ==
    /\ spend
    /\ \/ brokerGen = 0 /\ brokerGen' = 1 /\ UNCHANGED session
       \/ session' = ~session /\ UNCHANGED brokerGen
    /\ UNCHANGED <<feedVars, timer, events, heard, ensuring, conn, opened, idleWhy>>

LaneFeedNext ==
    \/ \E s \in Sockets : dialed(s) \/ writer(s) \/ readEnds(s) \/ onOpen(s) \/ onError(s) \/ onClose(s)
                          \/ tickArrives(s) \/ onTick(s)
    \/ \E t \in LaneCallers : readCredentials(t) \/ EnsureSocket(t)
    \/ \E t \in Threads, want \in SUBSET Tokens : SetTokens(t, want)
    \/ \E t \in Threads, tok \in Tokens : SubscribeTokens(t, {tok})
    \/ \E tok \in Tokens : UnsubscribeTokens({tok})
    \/ drain \/ reconnect \/ Stop \/ EnvChange

LaneFeedSpec == LaneFeedInit /\ [][LaneFeedNext]_laneFeedVars

--------------------------------------------------------------------------------
(* Properties. *)

\* What a socket will carry: the tokens that wait for it to open, or what is on the wire.
Carried(c) == IF c.st = "dialing" THEN c.pending ELSE OnWire(c)

\* What Kite streams on the current socket, once the frames on their way have arrived, is
\* exactly the lane's wanted set, from the dial on and whatever was declared in between; and
\* once the socket is reported connected the feed's own books say the same.
WireIsWanted ==
    sock # NoSocket =>
      /\ Carried(conn[sock]) = wanted \/ conn[sock].st \in {"error", "close"}
      /\ connected => subscribed = wanted

\* No socket is left behind: every socket that is not the current one was closed or has
\* ended by itself, though several callers and the timer may be opening one at once.
OneSocket ==
    \A s \in Sockets : conn[s].st \in {"dialing", "opened", "reading"} => s = sock \/ conn[s].closing

\* A lane that wants tokens and has no socket is about to open one, or has a reason not to:
\* its socket ended in an error, which is not retried, or there was no Kite session.
IdleHasReason ==
    sock = NoSocket /\ wanted # {} /\ ~disposed =>
        \/ timer = "armed" \/ \E t \in LaneCallers : ensuring[t].at # "idle"
        \/ idleWhy \in {"dead", "no session"}

\* The listener, once the queue is empty, knows the connection's state.
ListenerKnows == events = <<>> => heard = connected

\* One socket carries what the lane wants, or the lane has a reason to be idle, and the listener is told.
LaneServed == WireIsWanted /\ OneSocket /\ IdleHasReason /\ ListenerKnows

LaneEvents == {"up", "down", "dead", "tick"}
Frames == [op : {"subscribe", "unsubscribe"}, tokens : SUBSET Tokens]
SocketState == [st : {"none", "dialing", "opened", "reading", "error", "close", "over"}, closing : BOOLEAN,
                pending : SUBSET Tokens, out : Seq(Frames), server : SUBSET Tokens, tickGen : Int]
Ensuring == [at : {"idle", "asking", "opening"}, gen : Int]
LaneTypeOK ==
    /\ wanted \subseteq Tokens /\ subscribed \subseteq Tokens /\ connected \in BOOLEAN /\ disposed \in BOOLEAN
    /\ sock \in 0 .. MaxSockets /\ opened \in 0 .. MaxSockets /\ timer \in {"none", "armed"}
    /\ events \in Seq(LaneEvents) /\ heard \in BOOLEAN /\ brokerGen \in Int /\ session \in BOOLEAN
    /\ ensuring \in [LaneCallers -> Ensuring] /\ conn \in [Sockets -> SocketState]

\* The current socket was opened, not closed by us and not seen to its end; one not opened yet has
\* done nothing; only a feed with a socket is connected.
CurrentSocket ==
    /\ sock # NoSocket => /\ sock <= opened /\ ~disposed /\ ~conn[sock].closing
                          /\ conn[sock].st \in {"dialing", "opened", "reading", "error", "close"}
    /\ \A s \in Sockets : s > opened => conn[s] = NotYet
    /\ connected => sock # NoSocket

\* Once queue q has run, a listener told h last is told c last.
Says(e) == e \in {"up", "down"}
TellsIn(q, h, c) ==
    /\ (\A i \in DOMAIN q : ~Says(q[i])) => h = c
    /\ \A i \in DOMAIN q :
          Says(q[i]) /\ (\A j \in DOMAIN q : j > i => ~Says(q[j])) => c = (q[i] = "up")
HeardNext == TellsIn(events, heard, connected)

\* The inductive invariant of LaneServed.
LaneIInv == LaneTypeOK /\ CurrentSocket /\ HeardNext /\ WireIsWanted /\ OneSocket /\ IdleHasReason
================================================================================
