------------------------------ MODULE DhanFeed ------------------------------
(***************************************************************************)
(* The Dhan market-data feed: one WebSocket at a time, the tokens it is    *)
(* asked for, the books built from its packets, the reconnect timer, and   *)
(* the event queue through which listeners hear of ticks, of the           *)
(* connection and of a lost session.                                       *)
(*                                                                         *)
(* Source: internal/brokers/dhan/feed.go.                                  *)
(*                                                                         *)
(* Every method body under f.mu is one step.  What runs outside f.mu takes *)
(* steps of its own: the goroutine of every socket ever opened, the timer  *)
(* callbacks, and the one goroutine that drains the event queue.  A packet *)
(* is the set of tokens it carries; a book is the socket its data came     *)
(* from.  The tokens that have ticked (subscribed) are those with a book.  *)
(***************************************************************************)
EXTENDS Integers, Sequences, FiniteSets

CONSTANTS
    Tokens,             \* instrument tokens
    Resolvable,         \* those of them that encode a segment and an id (Resolve)
    MaxEpoch,           \* bound on sockets: none is opened beyond it
    MaxTimers,          \* bound on reconnect timers: none is armed beyond it
    MaxQueue,           \* bound on events waiting for delivery
    SendMayFail         \* an upstream write may fail

ASSUME FeedBounds ==
    /\ Resolvable \subseteq Tokens
    /\ MaxEpoch \in Nat /\ MaxTimers \in Nat /\ MaxQueue \in Nat
    /\ SendMayFail \in BOOLEAN

VARIABLES
    creds,      \* an access token and a client id exist (external)
    sock,       \* f.sock: the epoch of the current socket, 0 = nil
    epoch,      \* f.epoch: sockets opened so far
    connected,  \* f.connected
    wanted,     \* f.wanted
    book,       \* f.state: per token the epoch its data came from, 0 = none
    timer,      \* f.reconnectTimer: the sequence number it was armed with, 0 = nil
    timerSeq,   \* f.timerSeq
    fired,      \* timer callbacks that wait for f.mu
    disposed,   \* f.disposed
    events,     \* f.events
    owed,       \* some caller has enqueued and not yet called drain
    drainer,    \* the draining goroutine: its phase and the event in its hands
    phase,      \* per epoch: what the goroutine run(s) is doing
    sent,       \* tokens the server of the open socket has been asked for
    failed,     \* a write on the open socket failed
    reported,   \* the connection state the listener was told last
    gaveUp,     \* history: why the feed has neither a socket nor a timer
    stopped     \* history: stopped, and not asked for anything since

sockVars == <<sock, epoch, connected, phase>>
tokenVars == <<wanted, book>>
timerVars == <<timer, timerSeq, fired>>
wireVars == <<sent, failed>>
queueVars == <<events, owed>>
listenVars == <<drainer, reported>>
histVars == <<gaveUp, stopped>>
feedVars == <<creds, sockVars, tokenVars, timerVars, disposed, queueVars,
              listenVars, wireVars, histVars>>

Epochs == 1..MaxEpoch
NoBooks == [t \in Tokens |-> 0]

TicksEv(e, T) == [kind |-> "ticks", epoch |-> e, tokens |-> T, up |-> TRUE]
ConnectionEv(b) == [kind |-> "connection", epoch |-> 0, tokens |-> {}, up |-> b]
LostEv == [kind |-> "lost", epoch |-> 0, tokens |-> {}, up |-> FALSE]
Idle == [at |-> "idle", ev |-> LostEv]
Looping == [at |-> "looping", ev |-> LostEv]

FeedInit ==
    /\ creds \in BOOLEAN
    /\ sock = 0 /\ epoch = 0 /\ connected = FALSE
    /\ wanted = {} /\ book = NoBooks
    /\ timer = 0 /\ timerSeq = 0 /\ fired = {}
    /\ disposed = FALSE
    /\ events = <<>> /\ owed = FALSE
    /\ drainer = Idle /\ reported = FALSE
    /\ phase = [e \in Epochs |-> "none"]
    /\ sent = {} /\ failed = FALSE
    /\ gaveUp = "none" /\ stopped = FALSE

-----------------------------------------------------------------------------
(* Helpers                                                                 *)

Room(n) == Len(events) + n <= MaxQueue

\* enqueueLocked; the caller drains once it has left f.mu.
Enqueue(evs) == events' = events \o evs /\ owed' = TRUE
CallsDrain == owed' = TRUE /\ UNCHANGED events

\* gate is read-locked from the filtering of a tick event until OnTicks
\* returns; Stop, Dispose and UnsubscribeTokens take it for writing.
GateFree == drainer.at # "ticking"

\* Whether ensureSocketLocked opens a socket, and what it changes: the epoch,
\* the socket and its goroutine, which starts dialling.
MayOpen == ~disposed /\ sock = 0 /\ creds

OpenSocket ==
    /\ epoch < MaxEpoch
    /\ epoch' = epoch + 1 /\ sock' = epoch + 1
    /\ phase' = [phase EXCEPT ![epoch + 1] = "dialing"]
    /\ gaveUp' = "none"
    /\ UNCHANGED connected

ensureSocketLocked ==
    IF MayOpen THEN OpenSocket
    ELSE /\ gaveUp' = IF sock = 0 /\ timer' = 0 THEN "noCreds" ELSE gaveUp
         /\ UNCHANGED sockVars

\* sendInstrumentRequestLocked: the server of the open socket, asked for the
\* tokens in old until now, learns that it should send those in new, or a write
\* fails and it learns of a part of the change only.  Tokens that Resolve does
\* not know are skipped: they stay wanted, and the server never hears of them.
SendRequest(old, new) ==
    LET next == new \cap Resolvable IN
    \/ sent' = next /\ UNCHANGED failed
    \/ /\ SendMayFail /\ failed' = TRUE
       /\ sent' \in {P \in SUBSET (old \cup next) : (old \cap next) \subseteq P /\ P # next}

NoSocketNow == sent' = {} /\ failed' = FALSE

\* scheduleReconnectLocked: one timer at a time.
scheduleReconnectLocked ==
    IF disposed \/ timer # 0 THEN UNCHANGED <<timer, timerSeq>>
    ELSE /\ timerSeq < MaxTimers
         /\ timerSeq' = timerSeq + 1 /\ timer' = timerSeq + 1

-----------------------------------------------------------------------------
(* Calls                                                                   *)

\* SubscribeTokens: only tokens not wanted yet reach the socket.
SubscribeTokens(T) ==
    LET fresh == T \ wanted IN
    /\ fresh # {}
    /\ wanted' = wanted \cup fresh
    /\ UNCHANGED timerVars
    /\ ensureSocketLocked
    /\ IF connected THEN SendRequest(sent, sent \cup fresh) ELSE UNCHANGED wireVars
    /\ stopped' = FALSE
    /\ CallsDrain
    /\ UNCHANGED <<creds, book, disposed, listenVars>>

\* UnsubscribeTokens: the books of the dropped tokens go with them.
UnsubscribeTokens(T) ==
    LET drop == T \cap wanted IN
    /\ GateFree /\ drop # {}
    /\ wanted' = wanted \ drop
    /\ book' = [t \in Tokens |-> IF t \in drop THEN 0 ELSE book[t]]
    /\ IF connected THEN SendRequest(sent, sent \ drop) ELSE UNCHANGED wireVars
    /\ CallsDrain
    /\ UNCHANGED <<creds, sockVars, timerVars, disposed, listenVars, histVars>>

EnsureSocket ==
    /\ MayOpen
    /\ UNCHANGED timerVars
    /\ ensureSocketLocked
    /\ stopped' = FALSE
    /\ CallsDrain
    /\ UNCHANGED <<creds, tokenVars, disposed, listenVars, wireVars>>

\* stopLocked: the timer is cancelled (a callback that already fired finds
\* another sequence number), the socket is closed, tokens and books go.
stopLocked ==
    /\ IF timer # 0 THEN timer' = 0 /\ timerSeq' = timerSeq + 1
                    ELSE UNCHANGED <<timer, timerSeq>>
    /\ sock' = 0 /\ connected' = FALSE
    /\ wanted' = {} /\ book' = NoBooks /\ NoSocketNow
    /\ Enqueue(<<ConnectionEv(FALSE)>>)

Stop(forGood) ==
    /\ GateFree /\ Room(1) /\ timerSeq < MaxTimers
    /\ disposed' = (disposed \/ forGood)
    /\ stopLocked
    /\ stopped' = TRUE /\ gaveUp' = "none"
    /\ UNCHANGED <<creds, epoch, phase, fired, listenVars>>

-----------------------------------------------------------------------------
(* The goroutine of a socket, and the timer callbacks                      *)

Ends(e) == phase' = [phase EXCEPT ![e] = "gone"]

\* Mutation: a new socket asks for nothing.
Mut_OpenAsksNothing(e) ==
    /\ phase[e] = "dialing"
    /\ IF sock # e
       THEN /\ Ends(e)
            /\ UNCHANGED <<sock, epoch, connected, book, queueVars, wireVars>>
       ELSE /\ Room(1)
            /\ phase' = [phase EXCEPT ![e] = "open"]
            /\ connected' = TRUE /\ book' = NoBooks
            /\ Enqueue(<<ConnectionEv(TRUE)>>)
            /\ UNCHANGED <<sock, epoch, wireVars>>
    /\ UNCHANGED <<creds, wanted, timerVars, disposed, listenVars, histVars>>

\* The dial succeeded: a superseded socket is closed; the current one resets
\* what belongs to the previous socket and asks for every wanted token.
RunOpen(e) ==
    /\ phase[e] = "dialing"
    /\ IF sock # e
       THEN /\ Ends(e)
            /\ UNCHANGED <<sock, epoch, connected, book, queueVars, wireVars>>
       ELSE /\ Room(1)
            /\ phase' = [phase EXCEPT ![e] = "open"]
            /\ connected' = TRUE /\ book' = NoBooks
            /\ SendRequest({}, wanted)
            /\ Enqueue(<<ConnectionEv(TRUE)>>)
            /\ UNCHANGED <<sock, epoch>>
    /\ UNCHANGED <<creds, wanted, timerVars, disposed, listenVars, histVars>>

\* handleFrameLocked: each packet is attributed to a wanted token that Resolve
\* knows, and merged.  The server may send anything, also what it has just been
\* told to drop.
RunFrame(e, T) ==
    LET ticked == T \cap wanted \cap Resolvable IN
    /\ phase[e] = "open"
    /\ IF sock # e
       THEN Ends(e) /\ UNCHANGED <<book, queueVars>>
       ELSE /\ ticked # {} /\ Room(1)
            /\ book' = [t \in Tokens |-> IF t \in ticked THEN e ELSE book[t]]
            /\ Enqueue(<<TicksEv(e, ticked)>>)
            /\ UNCHANGED phase
    /\ UNCHANGED <<creds, sock, epoch, connected, wanted, timerVars, disposed,
                   listenVars, wireVars, histVars>>

\* handleClose, after a failed dial or a read error: a superseded socket
\* changes nothing; an authentication close code is a lost session, any other
\* one arms the reconnect timer.
RunClose(e, auth) ==
    /\ phase[e] \in {"dialing", "open"} /\ Ends(e)
    /\ IF sock # e
       THEN UNCHANGED <<sock, connected, book, timer, timerSeq, queueVars, wireVars, histVars>>
       ELSE /\ Room(2)
            /\ sock' = 0 /\ connected' = FALSE /\ book' = NoBooks /\ NoSocketNow
            /\ IF auth THEN /\ Enqueue(<<ConnectionEv(FALSE), LostEv>>)
                            /\ UNCHANGED <<timer, timerSeq>>
                       ELSE /\ Enqueue(<<ConnectionEv(FALSE)>>)
                            /\ scheduleReconnectLocked
            /\ gaveUp' = IF timer' = 0 /\ auth THEN "auth" ELSE gaveUp
            /\ UNCHANGED stopped
    /\ UNCHANGED <<creds, epoch, wanted, fired, disposed, listenVars>>

\* The delay is over: the callback runs and waits for f.mu ...
TimerExpires ==
    /\ timer # 0 /\ timer \notin fired
    /\ fired' = fired \cup {timer}
    /\ UNCHANGED <<creds, sockVars, tokenVars, timer, timerSeq, disposed, queueVars,
                   listenVars, wireVars, histVars>>

\* Mutation: the callback was given the sequence number before its timer's.
Mut_TimerStaleSeq(n) ==
    /\ n \in fired /\ fired' = fired \ {n}
    /\ IF timerSeq # n - 1 \/ timer = 0
       THEN UNCHANGED <<timer, sockVars, gaveUp, queueVars>>
       ELSE timer' = 0 /\ ensureSocketLocked /\ CallsDrain
    /\ UNCHANGED <<creds, tokenVars, timerSeq, disposed, listenVars, wireVars, stopped>>

\* ... and reconnects, unless the timer was cancelled or armed anew meanwhile.
TimerCallback(n) ==
    /\ n \in fired /\ fired' = fired \ {n}
    /\ IF timerSeq # n \/ timer = 0
       THEN UNCHANGED <<timer, sockVars, gaveUp, queueVars>>
       ELSE timer' = 0 /\ ensureSocketLocked /\ CallsDrain
    /\ UNCHANGED <<creds, tokenVars, timerSeq, disposed, listenVars, wireVars, stopped>>

-----------------------------------------------------------------------------
(* drain and deliver                                                       *)

\* One goroutine drains; another caller finds draining set and returns.
DrainCall ==
    /\ owed /\ owed' = FALSE
    /\ drainer' = IF drainer = Idle THEN Looping ELSE drainer
    /\ UNCHANGED <<creds, sockVars, tokenVars, timerVars, disposed, events,
                   reported, wireVars, histVars>>

DrainTake ==
    /\ drainer.at = "looping" /\ events # <<>>
    /\ drainer' = [at |-> "holding", ev |-> Head(events)]
    /\ events' = Tail(events)
    /\ UNCHANGED <<creds, sockVars, tokenVars, timerVars, disposed, owed,
                   reported, wireVars, histVars>>

DrainEnd ==
    /\ drainer.at = "looping" /\ events = <<>>
    /\ drainer' = Idle
    /\ UNCHANGED <<creds, sockVars, tokenVars, timerVars, disposed, queueVars,
                   reported, wireVars, histVars>>

\* Mutation: ticks of an earlier socket are delivered as well.
Mut_DeliverAnyEpoch ==
    /\ drainer.at = "holding" /\ drainer.ev.kind = "ticks"
    /\ LET T == drainer.ev.tokens \cap wanted IN
       drainer' = IF T = {} THEN Looping
                  ELSE [at |-> "ticking", ev |-> [drainer.ev EXCEPT !.tokens = T]]
    /\ UNCHANGED <<creds, sockVars, tokenVars, timerVars, disposed, queueVars,
                   reported, wireVars, histVars>>

\* deliver, a tick event: the gate is taken, then what the current socket
\* still stands for and is still wanted is handed to OnTicks.
DeliverTicks ==
    /\ drainer.at = "holding" /\ drainer.ev.kind = "ticks"
    /\ LET T == IF drainer.ev.epoch = sock THEN drainer.ev.tokens \cap wanted ELSE {} IN
       drainer' = IF T = {} THEN Looping
                  ELSE [at |-> "ticking", ev |-> [drainer.ev EXCEPT !.tokens = T]]
    /\ UNCHANGED <<creds, sockVars, tokenVars, timerVars, disposed, queueVars,
                   reported, wireVars, histVars>>

\* OnTicks returns and the gate is released.
TicksDone ==
    /\ drainer.at = "ticking"
    /\ drainer' = Looping
    /\ UNCHANGED <<creds, sockVars, tokenVars, timerVars, disposed, queueVars,
                   reported, wireVars, histVars>>

\* deliver, another event: OnConnection or OnSessionLost is called.
DeliverOther ==
    /\ drainer.at = "holding" /\ drainer.ev.kind # "ticks"
    /\ drainer' = Looping
    /\ reported' = IF drainer.ev.kind = "connection" THEN drainer.ev.up ELSE reported
    /\ UNCHANGED <<creds, sockVars, tokenVars, timerVars, disposed, queueVars,
                   wireVars, histVars>>

\* The steps of the draining goroutine.
DrainLoop == DrainTake \/ DrainEnd \/ DeliverTicks \/ TicksDone \/ DeliverOther

\* The registry installs or drops the Dhan access token.
CredsChange ==
    /\ creds' = ~creds
    /\ UNCHANGED <<sockVars, tokenVars, timerVars, disposed, queueVars,
                   listenVars, wireVars, histVars>>

FeedNext ==
    \/ \E T \in SUBSET Tokens : SubscribeTokens(T) \/ UnsubscribeTokens(T)
    \/ EnsureSocket
    \/ \E forGood \in BOOLEAN : Stop(forGood)
    \/ \E e \in Epochs :
          \/ RunOpen(e)
          \/ \E T \in SUBSET Tokens : RunFrame(e, T)
          \/ \E auth \in BOOLEAN : RunClose(e, auth)
    \/ TimerExpires
    \/ \E n \in 1..MaxTimers : TimerCallback(n)
    \/ DrainCall \/ DrainLoop
    \/ CredsChange

FeedSpec == FeedInit /\ [][FeedNext]_feedVars

\* Timers expire, goroutines that wait for f.mu get it, the draining goroutine
\* keeps running.  Nothing is assumed of the network or of the callers.
FeedFairness ==
    /\ WF_feedVars(TimerExpires)
    /\ \A n \in 1..MaxTimers : WF_feedVars(TimerCallback(n))
    /\ WF_feedVars(DrainCall) /\ WF_feedVars(DrainLoop)

FairFeedSpec == FeedSpec /\ FeedFairness

-----------------------------------------------------------------------------
(* Correctness                                                             *)

\* "Books from an older generation belong to a different socket session": every
\* book was built from packets of the socket that is open now, for a token that
\* is still wanted, however old sockets, their late frames and closes interleave.
BooksOfThisSocket ==
    \A t \in Tokens : book[t] # 0 => connected /\ book[t] = sock /\ t \in wanted

\* A listener inside OnTicks gets wanted tokens only, was told "connected"
\* last, and the ticks come from the socket that is current or that has closed
\* by itself meanwhile: never from one that Stop or a reconnect replaced before
\* the delivery began.
TicksInTheirConnection ==
    drainer.at = "ticking" =>
        /\ drainer.ev.tokens \subseteq wanted
        /\ reported
        /\ sock # 0 => sock >= drainer.ev.epoch
        /\ drainer.ev.epoch # sock => phase[drainer.ev.epoch] = "gone"

\* The connection state the listener has been told, once everything that waits
\* is delivered, is the feed's: no change is lost, reordered or left undelivered.
\* The last news that waits, the one in hand, or the last one told is that state.
News == {i \in 1..Len(events) : events[i].kind = "connection"}
NewsInHand == drainer.at = "holding" /\ drainer.ev.kind = "connection"
ListenerCatchesUp ==
    /\ \A i \in News : (\A j \in News : j <= i) => (connected <=> events[i].up)
    /\ News = {} /\ NewsInHand => (connected <=> drainer.ev.up)
    /\ News = {} /\ ~NewsInHand => (connected <=> reported)
    /\ events # <<>> => owed \/ drainer.at # "idle"

\* A stopped feed does nothing by itself: until it is asked again it has no
\* socket, no book and no token, even when a reconnect was about to fire or a
\* dial was about to succeed as it was stopped.
StoppedStaysStopped ==
    stopped => sock = 0 /\ ~connected /\ timer = 0 /\ book = NoBooks /\ wanted = {}

\* A feed with wanted tokens and neither a socket nor a reconnect under way has
\* a reason: it was disposed, its session was rejected, or it had no
\* credentials when it last tried.  It never just forgets to reconnect.
NeverIdleWithoutReason ==
    wanted # {} /\ sock = 0 /\ timer = 0 => disposed \/ gaveUp # "none"

\* The server is asked for exactly the wanted tokens that can be named to it, on
\* the open socket and unless a write on it failed: tokens added before, during
\* or after a reconnect are asked for, dropped ones are not asked for again, and
\* a skipped token holds up none of the others.
ServerKnowsWanted == connected /\ ~failed => sent = wanted \cap Resolvable

LossPending ==
    \/ drainer.at = "holding" /\ drainer.ev.kind = "lost"
    \/ \E i \in 1..Len(events) : events[i].kind = "lost"

\* A feed that waits to reconnect does, while the bound on sockets allows one:
\* it gets a socket, or it is stopped, or it finds no credentials.
ReconnectDue == timer # 0 /\ sock = 0 /\ epoch < MaxEpoch
ReconnectHappens == ReconnectDue ~> ~ReconnectDue

\* A lost session is always reported, also when it was queued by a goroutine
\* that found another one draining, and however fast ticks keep arriving.
SessionLossReported == LossPending ~> ~LossPending

\* What reaches the listeners belongs to the connection they have been told of.
ListenersInStep == BooksOfThisSocket /\ TicksInTheirConnection /\ ListenerCatchesUp

\* The feed asks for what is wanted, or has a reason not to: it was stopped, its
\* session was rejected, it has no credentials, a write failed, or the token
\* has no name upstream.
WantedServed == StoppedStaysStopped /\ NeverIdleWithoutReason /\ ServerKnowsWanted

\* A reconnect that is due happens, and a lost session is reported.
FeedProgress == ReconnectHappens /\ SessionLossReported

-----------------------------------------------------------------------------
(* ListenersInStep and WantedServed are inductive together with the parts below *)

Event == [kind : {"ticks", "connection", "lost"}, epoch : 0..MaxEpoch, tokens : SUBSET Tokens, up : BOOLEAN]

FeedTypeOK ==
    /\ epoch \in 0..MaxEpoch /\ sock \in {0, epoch}
    /\ phase \in [Epochs -> {"none", "dialing", "open", "gone"}]
    /\ wanted \subseteq Tokens /\ book \in [Tokens -> 0..MaxEpoch]
    /\ timer \in Nat /\ timerSeq \in Nat
    /\ events \in Seq(Event)
    /\ drainer \in [at : {"idle", "looping", "holding", "ticking"}, ev : Event]
    /\ drainer.at = "idle" => drainer = Idle

\* The current socket is the last one opened; the feed is connected while it is open.
SocketIsNewest ==
    /\ \A e \in Epochs : e > epoch => phase[e] = "none"
    /\ sock # 0 => phase[sock] \in {"dialing", "open"}
    /\ connected <=> (sock # 0 /\ phase[sock] = "open")

\* Ticks come from sockets that have opened; behind those of the current socket no change of
\* the connection waits.
FromOpened(ev) == ev.kind = "ticks" => ev.epoch \in Epochs /\ phase[ev.epoch] \in {"open", "gone"}
OfCurrent(ev) == ev.kind = "ticks" /\ ev.epoch = sock
TicksBehindNews ==
    /\ \A i \in 1..Len(events) : FromOpened(events[i]) /\ (OfCurrent(events[i]) => \A j \in News : j < i)
    /\ drainer.at = "holding" => FromOpened(drainer.ev) /\ (OfCurrent(drainer.ev) => News = {})
    /\ drainer.at = "ticking" => drainer.ev.epoch \in Epochs

FeedIInv ==
    /\ FeedTypeOK /\ SocketIsNewest /\ TicksBehindNews
    /\ ListenersInStep /\ WantedServed
=============================================================================
