------------------------- MODULE SwitchFeedProofs -------------------------
(***************************************************************************)
(* Proofs about the Dhan market-data feed, for every set of tokens and any *)
(* number of sockets, timers and waiting events; and about the broker      *)
(* switch, for every set of streams, every number of switches and crashes, *)
(* either default broker, and a database that may fail or may not.         *)
(***************************************************************************)
EXTENDS DhanFeed, BrokerSwitch, SequenceTheorems, TLAPS

-----------------------------------------------------------------------------
(* The event queue                                                         *)

\* The events that the feed enqueues.
LEMMA EventsTyped ==
    /\ \A b \in BOOLEAN : ConnectionEv(b) \in Event /\ ConnectionEv(b).kind = "connection" /\ ConnectionEv(b).up = b
    /\ LostEv \in Event /\ LostEv.kind = "lost"
    /\ \A e \in Epochs, T \in SUBSET Tokens :
          TicksEv(e, T) \in Event /\ TicksEv(e, T).kind = "ticks" /\ TicksEv(e, T).epoch = e
  BY FeedBounds DEF ConnectionEv, LostEv, TicksEv, Event, Epochs

\* One event behind the others.
LEMMA OneMore ==
    ASSUME events \in Seq(Event), NEW ev \in Event, Enqueue(<<ev>>)
    PROVE  /\ events' \in Seq(Event) /\ Len(events) \in Nat /\ Len(events') = Len(events) + 1 /\ owed' = TRUE
           /\ events'[Len(events) + 1] = ev
           /\ \A i \in 1..Len(events) : events'[i] = events[i]
  <1>1. events' = events \o <<ev>> /\ <<ev>> \in Seq(Event) /\ Len(<<ev>>) = 1 /\ <<ev>>[1] = ev
    BY DEF Enqueue
  <1> QED BY <1>1, ConcatProperties, LenProperties DEF Enqueue

\* Two events behind the others, the second of which is no news.
LEMMA TwoMore ==
    ASSUME events \in Seq(Event), NEW ev \in Event, NEW ew \in Event, Enqueue(<<ev, ew>>)
    PROVE  /\ events' \in Seq(Event) /\ Len(events) \in Nat /\ Len(events') = Len(events) + 2 /\ owed' = TRUE
           /\ events'[Len(events) + 1] = ev /\ events'[Len(events) + 2] = ew
           /\ \A i \in 1..Len(events) : events'[i] = events[i]
  <1>1. /\ events' = events \o <<ev, ew>> /\ <<ev, ew>> \in Seq(Event) /\ Len(<<ev, ew>>) = 2
        /\ <<ev, ew>>[1] = ev /\ <<ev, ew>>[2] = ew
    BY DEF Enqueue
  <1> QED BY <1>1, ConcatProperties, LenProperties DEF Enqueue

\* What the listener depends on.
newsVars == <<connected, events, drainer, reported>>

\* Nothing of it changes, and whoever owed a drain still does.
LEMMA ListenerSame ==
    ASSUME ListenerCatchesUp, UNCHANGED newsVars, owed' = owed \/ owed' = TRUE
    PROVE  ListenerCatchesUp'
  BY DEF newsVars, ListenerCatchesUp, News, NewsInHand

\* A change of the connection is the newest news.
LEMMA ChangeIsNews ==
    ASSUME FeedTypeOK, NEW b \in BOOLEAN, connected' = b, UNCHANGED listenVars,
           Enqueue(<<ConnectionEv(b)>>) \/ Enqueue(<<ConnectionEv(b), LostEv>>)
    PROVE  ListenerCatchesUp' /\ events' \in Seq(Event)
  <1> DEFINE n == Len(events) + 1
  <1>1. /\ events' \in Seq(Event) /\ n \in Nat \ {0} /\ owed' = TRUE
        /\ events'[n] = ConnectionEv(b) /\ n <= Len(events') /\ Len(events') \in Nat
        /\ \A i \in 1..Len(events') : i > n => events'[i] = LostEv
    <2>1. CASE Enqueue(<<ConnectionEv(b)>>)
      <3>1. /\ events' \in Seq(Event) /\ Len(events) \in Nat /\ Len(events') = Len(events) + 1 /\ owed' = TRUE
            /\ events'[Len(events) + 1] = ConnectionEv(b)
        BY <2>1, OneMore, EventsTyped DEF FeedTypeOK
      <3> QED BY ONLY <3>1
    <2>2. CASE Enqueue(<<ConnectionEv(b), LostEv>>)
      <3>1. /\ events' \in Seq(Event) /\ Len(events) \in Nat /\ Len(events') = Len(events) + 2 /\ owed' = TRUE
            /\ events'[Len(events) + 1] = ConnectionEv(b) /\ events'[Len(events) + 2] = LostEv
        BY <2>2, TwoMore, EventsTyped DEF FeedTypeOK
      <3>2. \A i \in 1..Len(events') : i > Len(events) + 1 => i = Len(events) + 2
        BY ONLY <3>1
      <3> QED BY ONLY <3>1, <3>2
    <2> QED BY <2>1, <2>2
  <1> HIDE DEF n
  <1>2. n \in News' /\ \A i \in News' : i <= n /\ i \in Nat
    BY <1>1, EventsTyped DEF News
  <1>3. \A i \in News' : (\A j \in News' : j <= i) => i = n
    BY <1>1, <1>2
  <1>4. connected' <=> events'[n].up
    BY <1>1, EventsTyped
  <1> QED BY <1>1, <1>2, <1>3, <1>4 DEF ListenerCatchesUp

\* Ticks are no news.
LEMMA TicksAreNoNews ==
    ASSUME FeedTypeOK, ListenerCatchesUp, NEW e \in Epochs, NEW T \in SUBSET Tokens,
           Enqueue(<<TicksEv(e, T)>>), UNCHANGED <<connected, listenVars>>
    PROVE  ListenerCatchesUp' /\ events' \in Seq(Event) /\ News' = News
  <1>1. /\ events' \in Seq(Event) /\ Len(events) \in Nat /\ Len(events') = Len(events) + 1 /\ owed' = TRUE
        /\ events'[Len(events) + 1] = TicksEv(e, T)
        /\ \A i \in 1..Len(events) : events'[i] = events[i]
    BY OneMore, EventsTyped DEF FeedTypeOK
  <1>2. News' = News /\ \A i \in News : events'[i] = events[i]
    BY <1>1, EventsTyped DEF News
  <1> QED BY <1>1, <1>2 DEF ListenerCatchesUp, NewsInHand, listenVars

-----------------------------------------------------------------------------
(* Calls                                                                   *)

\* A new socket, if one is opened, is newer than every event, book and delivery.
LEMMA EnsureSocketKeeps ==
    ASSUME FeedIInv, ensureSocketLocked, UNCHANGED <<book, events, listenVars>>, owed' = owed \/ owed' = TRUE,
           wanted \subseteq wanted', wanted' \subseteq Tokens, timer' \in Nat, timerSeq' \in Nat
    PROVE  /\ FeedTypeOK' /\ SocketIsNewest' /\ TicksBehindNews' /\ ListenersInStep'
           /\ connected' = connected /\ (sock' = 0 => timer' # 0 \/ gaveUp' # "none")
           /\ sock' = sock \/ ~connected
  <1> USE DEF FeedIInv, ListenersInStep, listenVars, sockVars
  <1>1. /\ connected' = connected
        /\ \/ UNCHANGED <<sock, epoch, phase>> /\ gaveUp' = IF sock = 0 /\ timer' = 0 THEN "noCreds" ELSE gaveUp
           \/ /\ sock = 0 /\ epoch < MaxEpoch /\ epoch' = epoch + 1 /\ sock' = epoch + 1
              /\ phase' = [phase EXCEPT ![epoch + 1] = "dialing"]
    BY DEF ensureSocketLocked, MayOpen, OpenSocket
  <1>2. ListenerCatchesUp'
    BY <1>1, ListenerSame DEF newsVars
  <1>3. CASE UNCHANGED <<sock, epoch, phase>> /\ gaveUp' = IF sock = 0 /\ timer' = 0 THEN "noCreds" ELSE gaveUp
    <2>1. FeedTypeOK' /\ SocketIsNewest'
      BY <1>1, <1>3 DEF FeedTypeOK, SocketIsNewest
    <2>2. TicksBehindNews'
      BY <1>1, <1>3 DEF TicksBehindNews, FromOpened, OfCurrent, News
    <2>3. BooksOfThisSocket' /\ TicksInTheirConnection'
      BY <1>1, <1>3 DEF BooksOfThisSocket, TicksInTheirConnection
    <2> QED BY <1>1, <1>2, <1>3, <2>1, <2>2, <2>3
  <1>4. CASE /\ sock = 0 /\ epoch < MaxEpoch /\ epoch' = epoch + 1 /\ sock' = epoch + 1
             /\ phase' = [phase EXCEPT ![epoch + 1] = "dialing"]
    <2>1. epoch + 1 \in Epochs /\ phase[epoch + 1] = "none" /\ ~connected
      BY <1>4, FeedBounds DEF FeedTypeOK, SocketIsNewest, Epochs
    <2>2. FeedTypeOK'
      BY <1>4, <2>1 DEF FeedTypeOK, Epochs
    <2>3. SocketIsNewest'
      BY <1>1, <1>4, <2>1 DEF FeedTypeOK, SocketIsNewest, Epochs
    <2>4. \A ev \in Event : FromOpened(ev) => FromOpened(ev)' /\ ~OfCurrent(ev)'
      BY <1>4, <2>1 DEF FromOpened, OfCurrent, FeedTypeOK
    <2>5. News' = News
      BY DEF News
    <2>6. TicksBehindNews'
      BY <2>4, <2>5 DEF TicksBehindNews, FeedTypeOK
    <2>7. BooksOfThisSocket'
      BY <1>1, <2>1 DEF BooksOfThisSocket
    <2>8. TicksInTheirConnection'
      <3> SUFFICES ASSUME drainer.at = "ticking" PROVE TicksInTheirConnection'
        BY DEF TicksInTheirConnection
      <3>1. drainer.ev.epoch \in Epochs /\ phase[drainer.ev.epoch] = "gone"
        BY <1>4 DEF TicksBehindNews, TicksInTheirConnection, Epochs
      <3>2. phase'[drainer.ev.epoch] = "gone"
        BY <1>4, <2>1, <3>1 DEF FeedTypeOK
      <3>3. drainer.ev.epoch <= epoch
        BY <3>1, <2>1 DEF SocketIsNewest, FeedTypeOK, Epochs
      <3> QED BY <1>4, <3>1, <3>2, <3>3 DEF TicksInTheirConnection, FeedTypeOK, Epochs
    <2> QED BY <1>1, <1>2, <1>4, <2>1, <2>2, <2>3, <2>6, <2>7, <2>8 DEF FeedTypeOK
  <1> QED BY <1>1, <1>3, <1>4

\* A request brings what the server of the open socket knows in line with what is wanted.
LEMMA RequestKeeps ==
    ASSUME NEW old, NEW new, SendRequest(old, new), new \cap Resolvable = wanted' \cap Resolvable
    PROVE  ServerKnowsWanted'
  BY DEF SendRequest, ServerKnowsWanted

\* The calls of the owners that may open a socket, and the timer's.
LEMMA OpeningKeeps ==
    ASSUME FeedIInv, \/ \E T \in SUBSET Tokens : SubscribeTokens(T)
                     \/ EnsureSocket
                     \/ \E n \in 1..MaxTimers : TimerCallback(n)
    PROVE  FeedIInv'
  <1> USE DEF timerVars, tokenVars, queueVars, wireVars, histVars, CallsDrain
  <1>1. ASSUME NEW T \in SUBSET Tokens, SubscribeTokens(T)
        PROVE  FeedIInv'
    <2>1. /\ wanted' = wanted \cup (T \ wanted) /\ wanted' \subseteq Tokens /\ ensureSocketLocked
          /\ UNCHANGED <<timer, timerSeq, book, events, listenVars, disposed>> /\ owed' = TRUE /\ stopped' = FALSE
          /\ timer \in Nat /\ timerSeq \in Nat
      BY <1>1 DEF SubscribeTokens, FeedIInv, FeedTypeOK
    <2>2. /\ FeedTypeOK' /\ SocketIsNewest' /\ TicksBehindNews' /\ ListenersInStep'
          /\ connected' = connected /\ (sock' = 0 => timer' # 0 \/ gaveUp' # "none")
      BY <2>1, EnsureSocketKeeps
    <2>3. ServerKnowsWanted'
      <3>1. CASE connected
        <4>1. SendRequest(sent, sent \cup (T \ wanted))
          BY <1>1, <3>1 DEF SubscribeTokens
        <4>2. CASE sent = wanted \cap Resolvable
          BY <2>1, <4>1, <4>2, RequestKeeps
        <4>3. CASE sent # wanted \cap Resolvable
          <5>1. failed
            BY <3>1, <4>3 DEF FeedIInv, WantedServed, ServerKnowsWanted
          <5> QED BY <4>1, <5>1 DEF SendRequest, ServerKnowsWanted
        <4> QED BY <4>2, <4>3
      <3>2. CASE ~connected
        BY <2>2, <3>2 DEF ServerKnowsWanted
      <3> QED BY <3>1, <3>2
    <2>4. StoppedStaysStopped' /\ NeverIdleWithoutReason'
      BY <2>1, <2>2 DEF StoppedStaysStopped, NeverIdleWithoutReason
    <2> QED BY <2>2, <2>3, <2>4 DEF FeedIInv, WantedServed
  <1>2. ASSUME EnsureSocket
        PROVE  FeedIInv'
    <2>1. /\ UNCHANGED <<wanted, timer, timerSeq, book, events, listenVars, disposed, sent, failed>>
          /\ ensureSocketLocked /\ owed' = TRUE /\ stopped' = FALSE
          /\ timer \in Nat /\ timerSeq \in Nat /\ wanted \subseteq Tokens
      BY <1>2 DEF EnsureSocket, FeedIInv, FeedTypeOK
    <2>2. /\ FeedTypeOK' /\ SocketIsNewest' /\ TicksBehindNews' /\ ListenersInStep'
          /\ connected' = connected /\ (sock' = 0 => timer' # 0 \/ gaveUp' # "none")
      BY <2>1, EnsureSocketKeeps
    <2>3. StoppedStaysStopped' /\ NeverIdleWithoutReason' /\ ServerKnowsWanted'
      BY <2>1, <2>2 DEF FeedIInv, WantedServed, StoppedStaysStopped, NeverIdleWithoutReason, ServerKnowsWanted
    <2> QED BY <2>2, <2>3 DEF FeedIInv, WantedServed
  <1>3. ASSUME NEW n \in 1..MaxTimers, TimerCallback(n)
        PROVE  FeedIInv'
    <2>1. /\ UNCHANGED <<wanted, timerSeq, book, listenVars, disposed, sent, failed, stopped>>
          /\ timer \in Nat /\ timerSeq \in Nat /\ wanted \subseteq Tokens
      BY <1>3 DEF TimerCallback, FeedIInv, FeedTypeOK
    <2>2. CASE timerSeq # n \/ timer = 0
      <3>1. UNCHANGED <<timer, sock, epoch, connected, phase, gaveUp, events, owed>>
        BY <1>3, <2>2 DEF TimerCallback, sockVars
      <3>2. FeedTypeOK' /\ SocketIsNewest'
        BY <2>1, <3>1 DEF listenVars, FeedIInv, FeedTypeOK, SocketIsNewest
      <3>3. TicksBehindNews'
        BY <2>1, <3>1 DEF listenVars, FeedIInv, TicksBehindNews, FromOpened, OfCurrent, News
      <3>4. ListenerCatchesUp'
        BY <2>1, <3>1, ListenerSame DEF listenVars, newsVars, FeedIInv, ListenersInStep
      <3>5. BooksOfThisSocket' /\ TicksInTheirConnection'
        BY <2>1, <3>1 DEF listenVars, FeedIInv, ListenersInStep, BooksOfThisSocket, TicksInTheirConnection
      <3>6. WantedServed'
        BY <2>1, <3>1 DEF FeedIInv, WantedServed, StoppedStaysStopped, NeverIdleWithoutReason, ServerKnowsWanted
      <3> QED BY <3>2, <3>3, <3>4, <3>5, <3>6 DEF FeedIInv, ListenersInStep
    <2>3. CASE timerSeq = n /\ timer # 0
      <3>1. timer' = 0 /\ ensureSocketLocked /\ UNCHANGED events /\ owed' = TRUE
        BY <1>3, <2>3 DEF TimerCallback
      <3>2. /\ FeedTypeOK' /\ SocketIsNewest' /\ TicksBehindNews' /\ ListenersInStep'
            /\ connected' = connected /\ (sock' = 0 => timer' # 0 \/ gaveUp' # "none")
        BY <2>1, <3>1, EnsureSocketKeeps
      <3>3. ~stopped
        BY <2>3 DEF FeedIInv, WantedServed, StoppedStaysStopped
      <3>4. WantedServed'
        BY <2>1, <3>1, <3>2, <3>3
        DEF FeedIInv, WantedServed, StoppedStaysStopped, NeverIdleWithoutReason, ServerKnowsWanted
      <3> QED BY <3>2, <3>4 DEF FeedIInv
    <2> QED BY <2>2, <2>3
  <1> QED BY <1>1, <1>2, <1>3

\* Tokens are dropped while no tick is being delivered.
LEMMA UnsubscribeKeeps ==
    ASSUME FeedIInv, NEW T \in SUBSET Tokens, UnsubscribeTokens(T)
    PROVE  FeedIInv'
  <1> USE DEF FeedIInv, ListenersInStep, WantedServed
  <1>1. /\ drainer.at # "ticking" /\ T \cap wanted # {} /\ wanted' = wanted \ (T \cap wanted)
        /\ book' = [t \in Tokens |-> IF t \in T \cap wanted THEN 0 ELSE book[t]]
        /\ UNCHANGED <<sock, epoch, connected, phase, timer, timerSeq, disposed, events, drainer, reported, gaveUp, stopped>>
        /\ owed' = TRUE
    BY DEF UnsubscribeTokens, GateFree, CallsDrain, sockVars, timerVars, listenVars, histVars
  <1>2. FeedTypeOK' /\ SocketIsNewest'
    BY <1>1, FeedBounds DEF FeedTypeOK, SocketIsNewest
  <1>3. TicksBehindNews'
    BY <1>1 DEF TicksBehindNews, FromOpened, OfCurrent, News
  <1>4. BooksOfThisSocket' /\ TicksInTheirConnection'
    BY <1>1 DEF BooksOfThisSocket, TicksInTheirConnection, FeedTypeOK
  <1>5. ListenerCatchesUp'
    BY <1>1, ListenerSame DEF newsVars
  <1>6. StoppedStaysStopped' /\ NeverIdleWithoutReason'
    BY <1>1 DEF StoppedStaysStopped, NeverIdleWithoutReason
  <1>7. ServerKnowsWanted'
    <2>1. CASE connected
      <3>1. SendRequest(sent, sent \ (T \cap wanted))
        BY <2>1 DEF UnsubscribeTokens
      <3>2. CASE sent = wanted \cap Resolvable
        BY <1>1, <3>1, <3>2, RequestKeeps
      <3>3. CASE sent # wanted \cap Resolvable
        <4>1. failed
          BY <2>1, <3>3 DEF ServerKnowsWanted
        <4> QED BY <3>1, <4>1 DEF SendRequest, ServerKnowsWanted
      <3> QED BY <3>2, <3>3
    <2>2. CASE ~connected
      BY <1>1, <2>2 DEF ServerKnowsWanted
    <2> QED BY <2>1, <2>2
  <1> QED BY <1>2, <1>3, <1>4, <1>5, <1>6, <1>7

\* With no current socket and no delivery under way, nothing stands against what waits.
LEMMA NoSocketKeeps ==
    ASSUME FeedTypeOK, TicksBehindNews, events' \in Seq(Event), drainer' = drainer, sock' = 0,
           \A e \in Epochs : phase[e] \in {"open", "gone"} => phase'[e] \in {"open", "gone"},
           \/ Enqueue(<<ConnectionEv(FALSE)>>) \/ Enqueue(<<ConnectionEv(FALSE), LostEv>>)
    PROVE  TicksBehindNews'
  <1>1. ASSUME NEW i \in 1..Len(events')
        PROVE  (i \in 1..Len(events) /\ events'[i] = events[i]) \/ events'[i].kind # "ticks"
    <2>1. CASE Enqueue(<<ConnectionEv(FALSE)>>)
      <3>1. /\ Len(events) \in Nat /\ Len(events') = Len(events) + 1
            /\ events'[Len(events) + 1] = ConnectionEv(FALSE) /\ \A k \in 1..Len(events) : events'[k] = events[k]
        BY <2>1, OneMore, EventsTyped DEF FeedTypeOK
      <3>2. \A k \in 1..Len(events') : k \in 1..Len(events) \/ k = Len(events) + 1
        BY ONLY <3>1
      <3> QED BY <3>1, <3>2, EventsTyped
    <2>2. CASE Enqueue(<<ConnectionEv(FALSE), LostEv>>)
      <3>1. /\ Len(events) \in Nat /\ Len(events') = Len(events) + 2
            /\ events'[Len(events) + 1] = ConnectionEv(FALSE) /\ events'[Len(events) + 2] = LostEv
            /\ \A k \in 1..Len(events) : events'[k] = events[k]
        BY <2>2, TwoMore, EventsTyped DEF FeedTypeOK
      <3>2. \A k \in 1..Len(events') : k \in 1..Len(events) \/ k = Len(events) + 1 \/ k = Len(events) + 2
        BY ONLY <3>1
      <3> QED BY <3>1, <3>2, EventsTyped
    <2> QED BY <2>1, <2>2
  <1>2. \A ev : FromOpened(ev) => FromOpened(ev)' /\ ~OfCurrent(ev)'
    BY DEF FromOpened, OfCurrent, Epochs
  <1>3. ASSUME NEW i \in 1..Len(events'), events'[i].kind = "ticks"
        PROVE  events'[i].epoch \in Epochs /\ phase'[events'[i].epoch] \in {"open", "gone"}
    BY <1>1, <1>3 DEF TicksBehindNews, FromOpened
  <1>4. \A e \in Epochs : e # 0
    BY DEF Epochs
  <1> QED BY <1>2, <1>3, <1>4 DEF TicksBehindNews, FromOpened, OfCurrent

\* Stop and Dispose wait for a delivery; then they take socket, timer, tokens and books at once.
LEMMA StopKeeps ==
    ASSUME FeedIInv, NEW forGood \in BOOLEAN, Stop(forGood)
    PROVE  FeedIInv'
  <1> USE DEF FeedIInv, ListenersInStep, WantedServed
  <1>1. /\ drainer.at # "ticking" /\ sock' = 0 /\ connected' = FALSE /\ wanted' = {} /\ book' = NoBooks
        /\ timer' = 0 /\ timerSeq' \in {timerSeq, timerSeq + 1}
        /\ Enqueue(<<ConnectionEv(FALSE)>>)
        /\ UNCHANGED <<epoch, phase, drainer, reported>>
    BY DEF Stop, stopLocked, GateFree, listenVars
  <1>2. ListenerCatchesUp' /\ events' \in Seq(Event)
    BY <1>1, ChangeIsNews DEF listenVars
  <1>3. FeedTypeOK' /\ SocketIsNewest'
    BY <1>1, <1>2, FeedBounds DEF FeedTypeOK, SocketIsNewest, NoBooks
  <1>4. TicksBehindNews'
    BY <1>1, <1>2, NoSocketKeeps
  <1>5. BooksOfThisSocket' /\ TicksInTheirConnection'
    BY <1>1 DEF BooksOfThisSocket, TicksInTheirConnection, NoBooks
  <1>6. StoppedStaysStopped' /\ NeverIdleWithoutReason' /\ ServerKnowsWanted'
    BY <1>1 DEF StoppedStaysStopped, NeverIdleWithoutReason, ServerKnowsWanted
  <1> QED BY <1>2, <1>3, <1>4, <1>5, <1>6

-----------------------------------------------------------------------------
(* Sockets                                                                 *)

\* A socket that is no longer current ends: nothing else changes.
LEMMA SupersededKeeps ==
    ASSUME FeedIInv, NEW e \in Epochs, phase[e] \in {"dialing", "open"}, sock # e, Ends(e),
           UNCHANGED <<sock, epoch, connected, wanted, book, timer, timerSeq, disposed, events, owed,
                       drainer, reported, sent, failed, gaveUp, stopped>>
    PROVE  FeedIInv'
  <1> USE DEF FeedIInv, ListenersInStep, WantedServed
  <1>1. /\ phase' \in [Epochs -> {"none", "dialing", "open", "gone"}]
        /\ \A d \in Epochs : phase'[d] = phase[d] \/ (d = e /\ phase'[d] = "gone")
        /\ phase[e] # "none"
    BY DEF Ends, FeedTypeOK
  <1>2. FeedTypeOK' /\ SocketIsNewest'
    BY <1>1 DEF FeedTypeOK, SocketIsNewest, Epochs
  <1>3. TicksBehindNews'
    <2>1. \A ev : (FromOpened(ev) => FromOpened(ev)') /\ (OfCurrent(ev)' <=> OfCurrent(ev))
      BY <1>1 DEF FromOpened, OfCurrent
    <2> QED BY <2>1 DEF TicksBehindNews, News
  <1>4. BooksOfThisSocket'
    BY DEF BooksOfThisSocket
  <1>5. TicksInTheirConnection'
    BY <1>1 DEF TicksInTheirConnection, TicksBehindNews
  <1>6. ListenerCatchesUp'
    BY ListenerSame DEF newsVars
  <1>7. StoppedStaysStopped' /\ NeverIdleWithoutReason' /\ ServerKnowsWanted'
    BY DEF StoppedStaysStopped, NeverIdleWithoutReason, ServerKnowsWanted
  <1> QED BY <1>2, <1>3, <1>4, <1>5, <1>6, <1>7

\* The current socket opens: no tick of it waits yet.
LEMMA OpenKeeps ==
    ASSUME FeedIInv, NEW e \in Epochs, RunOpen(e)
    PROVE  FeedIInv'
  <1> USE DEF FeedIInv, ListenersInStep, WantedServed, sockVars, tokenVars, timerVars, queueVars, wireVars, listenVars, histVars
  <1>1. CASE sock # e
    BY <1>1, SupersededKeeps DEF RunOpen
  <1>2. CASE sock = e
    <2>1. /\ phase[e] = "dialing" /\ phase' = [phase EXCEPT ![e] = "open"] /\ connected' = TRUE /\ book' = NoBooks
          /\ SendRequest({}, wanted) /\ Enqueue(<<ConnectionEv(TRUE)>>)
          /\ UNCHANGED <<sock, epoch, wanted, timer, timerSeq, disposed, drainer, reported, gaveUp, stopped>>
      BY <1>2 DEF RunOpen
    <2>2. ListenerCatchesUp' /\ events' \in Seq(Event)
      BY <2>1, ChangeIsNews
    <2>3. FeedTypeOK' /\ SocketIsNewest'
      BY <1>2, <2>1, <2>2, FeedBounds DEF FeedTypeOK, SocketIsNewest, NoBooks, Epochs
    <2>4. \A ev : FromOpened(ev) => FromOpened(ev)' /\ ~OfCurrent(ev)'
      BY <1>2, <2>1 DEF FromOpened, OfCurrent, FeedTypeOK
    <2>5. TicksBehindNews'
      <3>1. /\ Len(events) \in Nat /\ Len(events') = Len(events) + 1
            /\ events'[Len(events) + 1] = ConnectionEv(TRUE) /\ \A k \in 1..Len(events) : events'[k] = events[k]
        BY <2>1, OneMore, EventsTyped DEF FeedTypeOK
      <3>2. ASSUME NEW i \in 1..Len(events'), events'[i].kind = "ticks"
            PROVE  /\ events'[i].epoch \in Epochs /\ phase'[events'[i].epoch] \in {"open", "gone"}
                   /\ events'[i].epoch # sock'
        <4>1. \A k \in 1..Len(events') : k \in 1..Len(events) \/ k = Len(events) + 1
          BY ONLY <3>1
        <4>2. i \in 1..Len(events) /\ events'[i] = events[i]
          BY <3>1, <3>2, <4>1, EventsTyped
        <4>3. FromOpened(events[i])
          BY <4>2 DEF TicksBehindNews
        <4> QED BY <1>2, <2>1, <3>2, <4>2, <4>3 DEF FromOpened, FeedTypeOK
      <3> QED BY <2>1, <2>4, <3>2 DEF TicksBehindNews, FromOpened, OfCurrent
    <2>6. BooksOfThisSocket'
      BY <2>1 DEF BooksOfThisSocket, NoBooks
    <2>7. TicksInTheirConnection'
      BY <1>2, <2>1 DEF TicksInTheirConnection, TicksBehindNews, FeedTypeOK
    <2>8. ServerKnowsWanted'
      BY <2>1, RequestKeeps
    <2>9. StoppedStaysStopped' /\ NeverIdleWithoutReason'
      BY <1>2, <2>1 DEF StoppedStaysStopped, NeverIdleWithoutReason, Epochs
    <2> QED BY <2>2, <2>3, <2>5, <2>6, <2>7, <2>8, <2>9
  <1> QED BY <1>1, <1>2

\* A packet of the current socket: its ticks wait behind every change of the connection.
LEMMA FrameKeeps ==
    ASSUME FeedIInv, NEW e \in Epochs, NEW T \in SUBSET Tokens, RunFrame(e, T)
    PROVE  FeedIInv'
  <1> USE DEF FeedIInv, ListenersInStep, WantedServed, sockVars, tokenVars, timerVars, queueVars, wireVars, listenVars, histVars
  <1>1. CASE sock # e
    BY <1>1, SupersededKeeps DEF RunFrame
  <1>2. CASE sock = e
    <2> DEFINE ticked == T \cap wanted \cap Resolvable
    <2>1. /\ phase[e] = "open" /\ ticked # {} /\ ticked \in SUBSET Tokens
          /\ book' = [t \in Tokens |-> IF t \in ticked THEN e ELSE book[t]]
          /\ Enqueue(<<TicksEv(e, ticked)>>)
          /\ UNCHANGED <<sock, epoch, connected, phase, wanted, timer, timerSeq, disposed, drainer, reported,
                         sent, failed, gaveUp, stopped>>
      BY <1>2 DEF RunFrame
    <2>2. connected
      BY <1>2, <2>1 DEF SocketIsNewest, Epochs
    <2>3. ListenerCatchesUp' /\ events' \in Seq(Event) /\ News' = News
      BY <2>1, TicksAreNoNews
    <2>4. FeedTypeOK' /\ SocketIsNewest'
      BY <2>1, <2>3, FeedBounds DEF FeedTypeOK, SocketIsNewest, Epochs
    <2>5. BooksOfThisSocket'
      BY <1>2, <2>1, <2>2 DEF BooksOfThisSocket, FeedTypeOK
    <2>6. TicksInTheirConnection'
      BY <2>1 DEF TicksInTheirConnection
    <2>7. TicksBehindNews'
      <3>1. /\ Len(events) \in Nat /\ Len(events') = Len(events) + 1
            /\ events'[Len(events) + 1] = TicksEv(e, ticked) /\ \A k \in 1..Len(events) : events'[k] = events[k]
        BY <2>1, OneMore, EventsTyped DEF FeedTypeOK
      <3>2. \A k \in 1..Len(events') : k \in 1..Len(events) \/ k = Len(events) + 1
        BY ONLY <3>1
      <3>3. \A j \in News : j < Len(events) + 1
        BY <3>1 DEF News
      <3>4. \A ev : (FromOpened(ev)' <=> FromOpened(ev)) /\ (OfCurrent(ev)' <=> OfCurrent(ev))
        BY <2>1 DEF FromOpened, OfCurrent
      <3>5. ASSUME NEW i \in 1..Len(events'), events'[i].kind = "ticks"
            PROVE  /\ events'[i].epoch \in Epochs /\ phase'[events'[i].epoch] \in {"open", "gone"}
                   /\ events'[i].epoch = sock' => \A j \in News' : j < i
        <4>1. CASE i \in 1..Len(events)
          <5>1. events'[i] = events[i]
            BY <3>1, <4>1
          <5> QED BY <2>1, <2>3, <3>5, <4>1, <5>1 DEF TicksBehindNews, FromOpened, OfCurrent
        <4>2. CASE i = Len(events) + 1
          <5>1. events'[i].epoch = e
            BY <2>1, <3>1, <4>2, EventsTyped
          <5> QED BY <2>1, <2>3, <3>3, <4>2, <5>1
        <4> QED BY <3>2, <4>1, <4>2
      <3> QED BY <2>1, <2>3, <3>4, <3>5 DEF TicksBehindNews, FromOpened, OfCurrent
    <2>8. StoppedStaysStopped' /\ NeverIdleWithoutReason' /\ ServerKnowsWanted'
      BY <1>2, <2>1, <2>2 DEF StoppedStaysStopped, NeverIdleWithoutReason, ServerKnowsWanted
    <2> QED BY <2>3, <2>4, <2>5, <2>6, <2>7, <2>8
  <1> QED BY <1>1, <1>2

\* The current socket closes: its books go, and a timer is armed or there is a reason not to.
LEMMA CloseKeeps ==
    ASSUME FeedIInv, NEW e \in Epochs, NEW auth \in BOOLEAN, RunClose(e, auth)
    PROVE  FeedIInv'
  <1> USE DEF FeedIInv, ListenersInStep, WantedServed, sockVars, tokenVars, timerVars, queueVars, wireVars, listenVars, histVars
  <1>1. CASE sock # e
    BY <1>1, SupersededKeeps DEF RunClose
  <1>2. CASE sock = e
    <2>1. /\ phase[e] \in {"dialing", "open"} /\ phase' = [phase EXCEPT ![e] = "gone"]
          /\ sock' = 0 /\ connected' = FALSE /\ book' = NoBooks
          /\ Enqueue(<<ConnectionEv(FALSE)>>) \/ Enqueue(<<ConnectionEv(FALSE), LostEv>>)
          /\ UNCHANGED <<epoch, wanted, disposed, drainer, reported, stopped>>
      BY <1>2 DEF RunClose, Ends
    <2>2. /\ timer' \in Nat /\ timerSeq' \in Nat
          /\ timer' = 0 => disposed \/ gaveUp' # "none"
      <3>1. CASE auth
        BY <1>2, <3>1 DEF RunClose, FeedTypeOK
      <3>2. CASE ~auth
        BY <1>2, <3>2 DEF RunClose, scheduleReconnectLocked, FeedTypeOK
      <3> QED BY <3>1, <3>2
    <2>3. ListenerCatchesUp' /\ events' \in Seq(Event)
      BY <2>1, ChangeIsNews
    <2>4. \A d \in Epochs : phase'[d] = phase[d] \/ (d = e /\ phase'[d] = "gone")
      BY <2>1 DEF FeedTypeOK
    <2>5. FeedTypeOK' /\ SocketIsNewest'
      BY <1>2, <2>1, <2>2, <2>3, <2>4, FeedBounds DEF FeedTypeOK, SocketIsNewest, NoBooks
    <2>6. TicksBehindNews'
      BY <2>1, <2>3, <2>4, NoSocketKeeps
    <2>7. BooksOfThisSocket'
      BY <2>1 DEF BooksOfThisSocket, NoBooks
    <2>8. TicksInTheirConnection'
      BY <1>2, <2>1, <2>4 DEF TicksInTheirConnection, TicksBehindNews, FeedTypeOK
    <2>9. StoppedStaysStopped' /\ NeverIdleWithoutReason' /\ ServerKnowsWanted'
      <3>1. ~stopped
        BY <1>2 DEF StoppedStaysStopped, Epochs
      <3> QED BY <2>1, <2>2, <3>1 DEF StoppedStaysStopped, NeverIdleWithoutReason, ServerKnowsWanted
    <2> QED BY <2>3, <2>5, <2>6, <2>7, <2>8, <2>9
  <1> QED BY <1>1, <1>2

-----------------------------------------------------------------------------
(* The draining goroutine                                                  *)

\* An event is taken, delivered, and the next one taken; ticks are handed over only while
\* their socket is the current one and after its connection was told.
LEMMA DrainKeeps ==
    ASSUME FeedIInv, DrainCall \/ DrainLoop
    PROVE  FeedIInv'
  <1> USE DEF FeedIInv, ListenersInStep, WantedServed, sockVars, tokenVars, timerVars, queueVars, wireVars, listenVars, histVars
  <1>1. UNCHANGED <<sock, epoch, connected, phase, wanted, book, timer, timerSeq, disposed, sent, failed, gaveUp, stopped>>
    BY DEF DrainCall, DrainLoop, DrainTake, DrainEnd, DeliverTicks, TicksDone, DeliverOther
  <1>2. BooksOfThisSocket' /\ WantedServed' /\ SocketIsNewest'
    BY <1>1 DEF BooksOfThisSocket, StoppedStaysStopped, NeverIdleWithoutReason, ServerKnowsWanted, SocketIsNewest
  <1>3. \A ev : (FromOpened(ev)' <=> FromOpened(ev)) /\ (OfCurrent(ev)' <=> OfCurrent(ev))
    BY <1>1 DEF FromOpened, OfCurrent
  <1>4. Idle.at = "idle" /\ Looping.at = "looping"
        /\ {Idle, Looping} \subseteq [at : {"idle", "looping", "holding", "ticking"}, ev : Event]
    BY EventsTyped DEF Idle, Looping
  <1>5. CASE DrainCall \/ DrainEnd \/ TicksDone
    <2>1. /\ UNCHANGED <<events, reported>> /\ drainer' \in {drainer, Looping, Idle}
          /\ drainer'.at \in {"looping", "idle"} \/ drainer' = drainer
          /\ drainer' # drainer => drainer.at # "holding"
          /\ events # <<>> => owed' \/ drainer'.at # "idle"
      <3>1. CASE DrainCall
        BY <1>4, <3>1 DEF DrainCall, FeedTypeOK
      <3>2. CASE DrainEnd
        BY <1>4, <3>2 DEF DrainEnd
      <3>3. CASE TicksDone
        BY <1>4, <3>3 DEF TicksDone
      <3> QED BY <1>5, <3>1, <3>2, <3>3
    <2>2. News' = News /\ (NewsInHand' <=> NewsInHand) /\ (NewsInHand => drainer' = drainer)
      BY <1>4, <2>1 DEF News, NewsInHand
    <2>3. ListenerCatchesUp'
      BY <1>1, <2>1, <2>2 DEF ListenerCatchesUp
    <2>4. FeedTypeOK'
      BY <1>1, <1>4, <2>1 DEF FeedTypeOK
    <2>5. TicksBehindNews' /\ TicksInTheirConnection'
      BY <1>1, <1>3, <1>4, <2>1, <2>2 DEF TicksBehindNews, TicksInTheirConnection
    <2> QED BY <1>2, <2>3, <2>4, <2>5
  <1>6. CASE DrainTake
    <2>1. /\ drainer.at = "looping" /\ events # <<>> /\ drainer' = [at |-> "holding", ev |-> Head(events)]
          /\ events' = Tail(events) /\ reported' = reported
      BY <1>6 DEF DrainTake
    <2>2. /\ events \in Seq(Event) /\ events' \in Seq(Event) /\ Len(events) \in Nat \ {0}
          /\ Len(events') = Len(events) - 1 /\ events[1] \in Event
          /\ drainer'.at = "holding" /\ drainer'.ev = events[1]
          /\ \A i \in 1..Len(events') : events'[i] = events[i + 1]
      BY <2>1, EmptySeq, HeadTailProperties DEF FeedTypeOK
    <2>3. FeedTypeOK'
      BY <1>1, <2>1, <2>2 DEF FeedTypeOK
    <2>4. \A i \in 1..Len(events') : (i \in News' <=> i + 1 \in News) /\ i + 1 \in 1..Len(events) /\ i \in Nat
      BY <2>2 DEF News
    <2>5. \A i \in News : i = 1 \/ (i - 1 \in News' /\ i > 1 /\ i \in Nat)
      BY <2>2 DEF News
    <2>6. ListenerCatchesUp'
      <3>1. ASSUME NEW i \in News', \A j \in News' : j <= i
            PROVE  connected' <=> events'[i].up
        <4>1. i \in 1..Len(events') /\ i \in Nat /\ i + 1 \in News /\ events'[i] = events[i + 1]
          BY <2>2, <2>4 DEF News
        <4>2. \A j \in News : j <= i + 1
          BY <2>5, <3>1, <4>1
        <4> QED BY <1>1, <4>1, <4>2 DEF ListenerCatchesUp
      <3>2. ASSUME News' = {}
            PROVE  connected' <=> IF NewsInHand' THEN drainer'.ev.up ELSE reported'
        <4>1. \A i \in News : i = 1
          BY <2>5, <3>2
        <4>2. CASE 1 \in News
          <5>1. connected <=> events[1].up
            BY <4>1, <4>2 DEF ListenerCatchesUp
          <5>2. NewsInHand'
            BY <2>2, <4>2 DEF News, NewsInHand
          <5> QED BY <1>1, <2>2, <5>1, <5>2
        <4>3. CASE 1 \notin News
          <5>1. News = {} /\ ~NewsInHand' /\ ~NewsInHand
            BY <2>1, <2>2, <4>1, <4>3 DEF News, NewsInHand
          <5> QED BY <1>1, <2>1, <5>1 DEF ListenerCatchesUp
        <4> QED BY <4>2, <4>3
      <3> QED BY <2>2, <3>1, <3>2 DEF ListenerCatchesUp
    <2>7. TicksBehindNews'
      <3>1. ASSUME NEW i \in 1..Len(events'), events'[i].kind = "ticks"
            PROVE  /\ events'[i].epoch \in Epochs /\ phase'[events'[i].epoch] \in {"open", "gone"}
                   /\ events'[i].epoch = sock' => \A j \in News' : j < i
        <4>1. i + 1 \in 1..Len(events) /\ events'[i] = events[i + 1]
          BY <2>2, <2>4
        <4>2. FromOpened(events[i + 1]) /\ (OfCurrent(events[i + 1]) => \A j \in News : j < i + 1)
          BY <4>1 DEF TicksBehindNews
        <4>3. ASSUME OfCurrent(events[i + 1]), NEW j \in News'
              PROVE  j < i
          <5>1. j \in Nat /\ j + 1 \in News
            BY <2>2, <2>4 DEF News
          <5> QED BY <2>2, <4>2, <4>3, <5>1
        <4> QED BY <1>1, <3>1, <4>1, <4>2, <4>3 DEF FromOpened, OfCurrent
      <3>2. FromOpened(events[1]) /\ (OfCurrent(events[1]) => News' = {})
        <4>1. FromOpened(events[1]) /\ (OfCurrent(events[1]) => \A j \in News : j < 1)
          BY <2>2 DEF TicksBehindNews
        <4>2. ASSUME NEW j \in News', OfCurrent(events[1])
              PROVE  FALSE
          <5>1. j \in Nat /\ j + 1 \in News
            BY <2>2, <2>4 DEF News
          <5>2. j + 1 < 1
            BY <4>1, <4>2, <5>1
          <5> QED BY <5>1, <5>2
        <4> QED BY <4>1, <4>2
      <3> QED BY <1>1, <2>2, <3>1, <3>2 DEF TicksBehindNews, FromOpened, OfCurrent
    <2>8. TicksInTheirConnection'
      BY <2>2 DEF TicksInTheirConnection
    <2> QED BY <1>2, <2>3, <2>6, <2>7, <2>8
  <1>7. CASE DeliverTicks
    <2>1. /\ drainer.at = "holding" /\ drainer.ev.kind = "ticks" /\ UNCHANGED <<events, owed, reported>>
          /\ \/ drainer' = Looping
             \/ /\ OfCurrent(drainer.ev)
                /\ drainer' = [at |-> "ticking", ev |-> [drainer.ev EXCEPT !.tokens = drainer.ev.tokens \cap wanted]]
      BY <1>7 DEF DeliverTicks, OfCurrent
    <2>2. drainer.ev \in Event
      BY DEF FeedTypeOK
    <2>3. FeedTypeOK' /\ drainer'.at \in {"looping", "ticking"}
      <3>1. [drainer.ev EXCEPT !.tokens = drainer.ev.tokens \cap wanted] \in Event
        <4>1. drainer.ev.tokens \cap wanted \in SUBSET Tokens
          BY DEF FeedTypeOK
        <4>2. \A T \in SUBSET Tokens : [drainer.ev EXCEPT !.tokens = T] \in Event
          BY <2>2 DEF Event
        <4> QED BY <4>1, <4>2
      <3>2. /\ drainer' \in [at : {"idle", "looping", "holding", "ticking"}, ev : Event]
            /\ drainer'.at \in {"looping", "ticking"}
        <4>1. CASE drainer' = Looping
          BY <1>4, <4>1
        <4>2. CASE drainer' # Looping
          BY <2>1, <3>1, <4>2
        <4> QED BY <4>1, <4>2
      <3> QED BY <1>1, <2>1, <3>2 DEF FeedTypeOK
    <2>4. News' = News /\ ~NewsInHand' /\ ~NewsInHand
      BY <2>1, <2>3 DEF News, NewsInHand
    <2>5. ListenerCatchesUp'
      BY <1>1, <2>1, <2>3, <2>4 DEF ListenerCatchesUp
    <2>6. drainer'.at = "ticking" =>
              /\ OfCurrent(drainer.ev) /\ drainer'.ev.tokens \subseteq wanted /\ drainer'.ev.epoch = drainer.ev.epoch
      BY <1>4, <2>1, <2>2 DEF Event
    <2>7. drainer'.at = "ticking" => drainer'.ev.epoch \in Epochs /\ drainer'.ev.epoch = sock /\ reported
      <3> SUFFICES ASSUME drainer'.at = "ticking"
                   PROVE  drainer'.ev.epoch \in Epochs /\ drainer'.ev.epoch = sock /\ reported
        OBVIOUS
      <3>1. OfCurrent(drainer.ev) /\ FromOpened(drainer.ev) /\ News = {}
        BY <2>1, <2>6 DEF TicksBehindNews
      <3>2. connected
        BY <3>1 DEF FromOpened, OfCurrent, SocketIsNewest, Epochs
      <3> QED BY <2>4, <2>6, <3>1, <3>2 DEF FromOpened, OfCurrent, ListenerCatchesUp
    <2>8. TicksInTheirConnection'
      BY <1>1, <2>1, <2>6, <2>7 DEF TicksInTheirConnection, Epochs
    <2>9. TicksBehindNews'
      BY <1>1, <1>3, <2>1, <2>3, <2>4, <2>7 DEF TicksBehindNews
    <2> QED BY <1>2, <2>3, <2>5, <2>8, <2>9
  <1>8. CASE DeliverOther
    <2>1. /\ drainer.at = "holding" /\ drainer.ev.kind # "ticks" /\ drainer' = Looping /\ UNCHANGED <<events, owed>>
          /\ reported' = IF drainer.ev.kind = "connection" THEN drainer.ev.up ELSE reported
      BY <1>8 DEF DeliverOther
    <2>2. FeedTypeOK'
      BY <1>1, <1>4, <2>1 DEF FeedTypeOK
    <2>3. News' = News /\ ~NewsInHand' /\ (NewsInHand <=> drainer.ev.kind = "connection") /\ drainer'.at = "looping"
      BY <1>4, <2>1 DEF News, NewsInHand
    <2>4. (NewsInHand => (reported' <=> drainer.ev.up)) /\ (~NewsInHand => (reported' <=> reported))
      BY <2>1, <2>3
    <2>5. ListenerCatchesUp'
      BY <1>1, <2>1, <2>3, <2>4 DEF ListenerCatchesUp
    <2>6. TicksBehindNews' /\ TicksInTheirConnection'
      BY <1>1, <1>3, <2>1, <2>3 DEF TicksBehindNews, TicksInTheirConnection
    <2> QED BY <1>2, <2>2, <2>5, <2>6
  <1> QED BY <1>5, <1>6, <1>7, <1>8 DEF DrainLoop

-----------------------------------------------------------------------------
(* The theorems                                                            *)

\* A feed that was never asked for anything.
LEMMA FeedInitEstablishes == FeedInit => FeedIInv
  <1> SUFFICES ASSUME FeedInit PROVE FeedIInv
    OBVIOUS
  <1> USE DEF FeedInit
  <1>1. FeedTypeOK
    BY FeedBounds, EmptySeq, EventsTyped DEF FeedTypeOK, NoBooks, Idle
  <1>2. News = {} /\ Len(events) = 0 /\ drainer.at = "idle"
    BY EmptySeq DEF News, Idle
  <1>3. SocketIsNewest /\ TicksBehindNews
    BY <1>2 DEF SocketIsNewest, TicksBehindNews
  <1>4. ListenersInStep
    BY <1>2 DEF ListenersInStep, BooksOfThisSocket, TicksInTheirConnection, ListenerCatchesUp, NewsInHand, NoBooks
  <1>5. WantedServed
    BY DEF WantedServed, StoppedStaysStopped, NeverIdleWithoutReason, ServerKnowsWanted
  <1> QED BY <1>1, <1>3, <1>4, <1>5 DEF FeedIInv

\* Steps that leave everything the invariant speaks of alone.
LEMMA OutsideKeeps ==
    ASSUME FeedIInv, TimerExpires \/ CredsChange \/ UNCHANGED feedVars
    PROVE  FeedIInv'
  <1> USE DEF FeedIInv, ListenersInStep, WantedServed, sockVars, tokenVars, timerVars, queueVars, wireVars, listenVars, histVars
  <1>1. UNCHANGED <<sockVars, tokenVars, timer, timerSeq, disposed, queueVars, listenVars, wireVars, histVars>>
    BY DEF TimerExpires, CredsChange, feedVars
  <1>2. FeedTypeOK' /\ SocketIsNewest'
    BY <1>1 DEF FeedTypeOK, SocketIsNewest
  <1>3. TicksBehindNews'
    BY <1>1 DEF TicksBehindNews, FromOpened, OfCurrent, News
  <1>4. BooksOfThisSocket' /\ TicksInTheirConnection'
    BY <1>1 DEF BooksOfThisSocket, TicksInTheirConnection
  <1>5. ListenerCatchesUp'
    BY <1>1, ListenerSame DEF newsVars
  <1>6. WantedServed'
    BY <1>1 DEF StoppedStaysStopped, NeverIdleWithoutReason, ServerKnowsWanted
  <1> QED BY <1>2, <1>3, <1>4, <1>5, <1>6

\* Every step keeps the invariant.
LEMMA FeedStepKeeps == FeedIInv /\ [FeedNext]_feedVars => FeedIInv'
  BY OpeningKeeps, UnsubscribeKeeps, StopKeeps, OpenKeeps, FrameKeeps, CloseKeeps, DrainKeeps, OutsideKeeps
  DEF FeedNext

\* The inductive invariant of the feed.
THEOREM FeedInvariant == FeedSpec => []FeedIInv
  BY FeedInitEstablishes, FeedStepKeeps, PTL DEF FeedSpec

\* What reaches the listeners belongs to the connection they have been told of.
THEOREM ListenersAlwaysInStep == FeedSpec => []ListenersInStep
  <1>1. FeedIInv => ListenersInStep
    BY DEF FeedIInv
  <1> QED BY <1>1, FeedInvariant, PTL

\* What is wanted is asked for, or there is a reason not to.
THEOREM WantedAlwaysServed == FeedSpec => []WantedServed
  <1>1. FeedIInv => WantedServed
    BY DEF FeedIInv
  <1> QED BY <1>1, FeedInvariant, PTL

-----------------------------------------------------------------------------
(* The broker switch                                                       *)

\* A process whose first boot found no row satisfies the invariant (New, Restore).
LEMMA SwitchInitEstablishes == SwitchInit => SwitchIInv
  <1> SUFFICES ASSUME SwitchInit PROVE SwitchIInv
    OBVIOUS
  <1> USE BrokersAssumption DEF SwitchInit, NoRow, NoOp, IdleStream, BootAt, Brokers
  <1>1. SwitchTypeOK
    BY DEF SwitchTypeOK
  <1>2. RowFollows
    BY DEF RowFollows, Saved, HoldsRow
  <1>3. SocketsFollow /\ DownIsIdle
    BY DEF SocketsFollow, DownIsIdle, HoldsRow, Restoring
  <1> QED BY <1>1, <1>2, <1>3 DEF SwitchIInv

\* Starting a switch, and emptying the lease table, move no socket and no row.
LEMMA SwitchFrameKeeps ==
    ASSUME SwitchIInv, (\E b \in Brokers : SwitchBegin(b)) \/ SwitchReset
    PROVE  SwitchIInv'
  BY BrokersAssumption
  DEF SwitchIInv, SwitchTypeOK, RowFollows, SocketsFollow, DownIsIdle, SwitchBegin, SwitchReset,
      At, GoTo, procVars, stateVars, streamVars, socketVars, rowVars, Brokers, Saved, HoldsRow, Restoring

\* Stopping both brokers' feeds leaves only sockets that somebody asked for meanwhile
\* (stopAllLanes).
LEMMA SwitchStopKeeps ==
    ASSUME SwitchIInv, SwitchStopHub \/ SwitchStopDhan
    PROVE  SwitchIInv'
  BY BrokersAssumption
  DEF SwitchIInv, SwitchTypeOK, RowFollows, SocketsFollow, DownIsIdle, SwitchStopHub, SwitchStopDhan,
      StopFeed, At, GoTo, procVars, stateVars, streamVars, rowVars, Brokers, Saved, HoldsRow, Restoring

\* After an answered save the row holds the target and the generation the switch will adopt, an
\* unanswered or failed one is not synced; Restore is overtaken if it holds a row (SaveActiveBroker).
LEMMA SwitchSaveKeeps ==
    ASSUME SwitchIInv, SwitchSave
    PROVE  SwitchIInv'
  <1> USE DEF SwitchIInv, SwitchTypeOK, At, GoTo, procVars, stateVars, streamVars, socketVars
  <1>1. /\ SavedRow = [broker |-> op.target, gen |-> row.gen + 1] /\ SavedRow \in [broker : Brokers, gen : Nat]
        /\ SavedRow.gen # 0 /\ SavedRow.gen \in Nat /\ overtaken' = HoldsRow /\ op.step = "save" /\ op.saved = 0
        /\ UNCHANGED <<up, active, gen, boot, stream, socket, late>> /\ HoldsRow' = HoldsRow /\ HoldsRow \in BOOLEAN
    BY DEF SavedRow, SwitchSave, RowFollows, HoldsRow
  <1>2. Restoring' = Restoring
    BY <1>1 DEF Restoring
  <1>3. CASE /\ row' = SavedRow /\ UNCHANGED synced
             /\ op' = [op EXCEPT !.step = "store", !.saved = SavedRow.gen]
    <2>1. /\ op' \in [step : {"store"}, target : Brokers, saved : Nat, from : Nat]
          /\ op'.step = "store" /\ op'.target = op.target /\ op'.saved = SavedRow.gen
      BY <1>1, <1>3
    <2>2. SwitchTypeOK' /\ DownIsIdle' /\ SocketsFollow'
      BY <1>1, <1>2, <1>3, <2>1 DEF SocketsFollow, DownIsIdle
    <2>3. RowFollows'
      BY <1>1, <1>3, <2>1 DEF RowFollows, Saved
    <2> QED BY <2>2, <2>3
  <1>4. CASE row' \in {row, SavedRow} /\ synced' = FALSE /\ GoTo("store")
    <2>1. row' \in [broker : Brokers, gen : Nat]
      BY <1>1, <1>4
    <2>2. SwitchTypeOK' /\ DownIsIdle' /\ SocketsFollow'
      BY <1>1, <1>2, <1>4, <2>1 DEF SocketsFollow, DownIsIdle
    <2>3. RowFollows'
      BY <1>1, <1>4 DEF RowFollows, Saved
    <2> QED BY <2>2, <2>3
  <1> QED BY <1>3, <1>4 DEF SwitchSave

\* Adopting the target makes the running selection the stored one, with a generation that is not
\* behind it.
LEMMA SwitchStoreKeeps ==
    ASSUME SwitchIInv, SwitchStore
    PROVE  SwitchIInv'
  <1> USE DEF SwitchIInv, At, procVars, streamVars, socketVars
  <1>1. /\ op.step = "store" /\ op'.step = "start" /\ op'.saved = 0 /\ active' = op.target
        /\ gen' = Larger(op.from + 1, op.saved) /\ synced' = (op.saved # 0)
        /\ UNCHANGED <<up, boot, row, overtaken, stream, socket, late>>
        /\ op' \in [step : {"start"}, target : Brokers, saved : Nat, from : Nat]
    BY DEF SwitchStore, SwitchTypeOK
  <1>2. SwitchTypeOK'
    BY <1>1 DEF SwitchTypeOK, Larger
  <1>3. RowFollows'
    BY <1>1 DEF RowFollows, Saved, HoldsRow, Larger, SwitchTypeOK
  <1>4. SocketsFollow' /\ DownIsIdle'
    BY <1>1 DEF SocketsFollow, DownIsIdle, Restoring, HoldsRow
  <1> QED BY <1>2, <1>3, <1>4

\* The feed that is started is the active broker's, or it is asked for late (StartActiveFeed).
LEMMA SwitchStartKeeps ==
    ASSUME SwitchIInv, SwitchStart \/ SwitchOpen
    PROVE  SwitchIInv'
  BY BrokersAssumption
  DEF SwitchIInv, SwitchTypeOK, RowFollows, SocketsFollow, DownIsIdle, SwitchStart, SwitchOpen, LateAsk,
      NoOp, Saved, HoldsRow, Restoring, At, procVars, stateVars, streamVars, socketVars, rowVars, Brokers

\* A stream opens a socket of the active broker, or one that late remembers (openTickStream).
LEMMA StreamStepKeeps ==
    ASSUME SwitchIInv, NEW s \in Streams,
           StreamCheck(s) \/ StreamAcquire(s) \/ StreamRoute(s) \/ StreamSubscribe(s) \/ StreamEnd(s)
    PROVE  SwitchIInv'
  <1> USE DEF SwitchIInv, SwitchTypeOK, RowFollows, SocketsFollow, DownIsIdle, procVars,
              stateVars, socketVars, rowVars, Saved, HoldsRow, Restoring
  <1> DEFINE Pcs == {"idle", "checked", "locked", "routed", "open"}
  <1>1. CASE StreamCheck(s) \/ StreamAcquire(s) \/ StreamRoute(s)
    <2>1. UNCHANGED <<up, synced, overtaken, active, gen, row, op, boot, socket, late>>
      BY <1>1 DEF StreamCheck, StreamAcquire, StreamRoute
    <2>2. ASSUME NEW pc \in Pcs
          PROVE  [stream EXCEPT ![s].pc = pc] \in [Streams -> [pc : Pcs, via : Brokers]]
      OBVIOUS
    <2>3. stream' \in [Streams -> [pc : Pcs, via : Brokers]]
      <3>1. CASE StreamCheck(s) \/ StreamAcquire(s)
        BY <2>2, <3>1 DEF StreamCheck, StreamAcquire, SetPc
      <3>2. CASE StreamRoute(s)
        BY <3>2 DEF StreamRoute
      <3> QED BY <1>1, <3>1, <3>2
    <2> QED BY <2>1, <2>3
  <1>2. CASE StreamSubscribe(s)
    <2>1. /\ stream[s].via \in Brokers
          /\ stream' = [stream EXCEPT ![s] = [IdleStream EXCEPT !.pc = "open"]]
          /\ socket' = socket \cup {stream[s].via}
          /\ late' = LateAsk(stream[s].via, Switching \/ Restoring)
          /\ up /\ UNCHANGED <<up, active, gen, row, synced, overtaken, op, boot>>
      BY <1>2 DEF StreamSubscribe
    <2>2. [IdleStream EXCEPT !.pc = "open"] \in [pc : Pcs, via : Brokers]
      BY BrokersAssumption DEF IdleStream, Brokers
    <2>3. stream' \in [Streams -> [pc : Pcs, via : Brokers]]
      BY <2>1, <2>2
    <2>4. SwitchTypeOK' /\ RowFollows' /\ DownIsIdle'
      BY <2>1, <2>3 DEF LateAsk
    <2>5. SocketsFollow'
      BY <2>1 DEF Switching, LateAsk
    <2> QED BY <2>4, <2>5
  <1>3. CASE StreamEnd(s)
    BY <1>3, BrokersAssumption DEF StreamEnd, IdleStream, Brokers
  <1> QED BY <1>1, <1>2, <1>3

\* A crash empties everything but the row; a new process has the defaults, which are what no row
\* stands for (New).
LEMMA CrashBootKeeps ==
    ASSUME SwitchIInv, Crash \/ Boot
    PROVE  SwitchIInv'
  <1> USE BrokersAssumption DEF SwitchIInv, SwitchTypeOK, RowFollows, SocketsFollow, DownIsIdle,
                                stateVars, rowVars, streamVars, socketVars, BootAt, NoRow, Brokers,
                                Saved, HoldsRow, Restoring
  <1>1. CASE Crash
    <2>1. /\ up' = FALSE /\ socket' = {} /\ late' = {} /\ op' = NoOp /\ boot' = BootAt("over")
          /\ UNCHANGED <<active, gen, row, synced, overtaken>>
          /\ stream' = [q \in Streams |-> IdleStream]
      BY <1>1 DEF Crash, FreshProcess
    <2>2. SwitchTypeOK'
      BY <2>1 DEF NoOp, IdleStream
    <2> QED BY <2>1, <2>2 DEF NoOp
  <1>2. CASE Boot
    <2>1. /\ ~up /\ up' = TRUE /\ active' = DefaultBroker /\ gen' = 1 /\ boot' = BootAt("read")
          /\ synced' = (row.gen = 0) /\ overtaken' = FALSE /\ UNCHANGED <<stream, socket, late, row, op>>
          /\ op.step = "none" /\ socket = {}
      BY <1>2 DEF Boot
    <2>2. SwitchTypeOK' /\ SocketsFollow' /\ DownIsIdle'
      BY <2>1
    <2>3. row.gen = 0 => row.broker = DefaultBroker
      BY DEF RowFollows
    <2> QED BY <2>1, <2>2, <2>3
  <1> QED BY <1>1, <1>2

\* Restore adopts the row it read, which is still the stored one unless it was overtaken; the feed
\* of the runtime is the active broker's, or it is asked for late (Restore, StartActiveRuntime).
LEMMA BootStepsKeep ==
    ASSUME SwitchIInv, BootSteps
    PROVE  SwitchIInv'
  <1> USE BrokersAssumption DEF SwitchIInv, SwitchTypeOK, DownIsIdle, procVars, stateVars, rowVars, streamVars,
                                socketVars, BootAt, NoRow, Brokers, Saved, HoldsRow, Restoring
  <1>1. CASE BootRead
    <2>1. /\ up /\ boot.pc = "read" /\ UNCHANGED <<up, active, gen, row, synced, overtaken, op, stream, socket, late>>
          /\ \/ boot' = [boot EXCEPT !.pc = "copy", !.row = row]
             \/ boot' = [boot EXCEPT !.pc = "runtime"]
      BY <1>1 DEF BootRead
    <2>2. SwitchTypeOK' /\ DownIsIdle'
      BY <2>1
    <2>3. RowFollows'
      BY <2>1 DEF RowFollows
    <2>4. SocketsFollow'
      BY <2>1 DEF SocketsFollow
    <2> QED BY <2>2, <2>3, <2>4
  <1>2. CASE BootCopy
    BY <1>2 DEF BootCopy, RowFollows, SocketsFollow
  <1>3. CASE BootAdopt
    BY <1>3 DEF BootAdopt, Larger, RowFollows, SocketsFollow
  <1>4. CASE BootRuntime
    BY <1>4 DEF BootRuntime, RowFollows, SocketsFollow
  <1>5. CASE BootOpen
    BY <1>5 DEF BootOpen, LateAsk, Switching, RowFollows, SocketsFollow
  <1> QED BY <1>1, <1>2, <1>3, <1>4, <1>5 DEF BootSteps

\* Every step keeps the invariant, and so does a step that changes nothing.
LEMMA SwitchStepKeeps == SwitchIInv /\ [SwitchNext]_switchVars => SwitchIInv'
  <1> SUFFICES ASSUME SwitchIInv, [SwitchNext]_switchVars
               PROVE  SwitchIInv'
    OBVIOUS
  <1>1. CASE UNCHANGED switchVars
    BY <1>1 DEF SwitchIInv, SwitchTypeOK, RowFollows, SocketsFollow, DownIsIdle, switchVars,
                procVars, stateVars, rowVars, streamVars, socketVars, Saved, HoldsRow, Restoring
  <1> QED BY <1>1, SwitchFrameKeeps, SwitchStopKeeps, SwitchSaveKeeps, SwitchStoreKeeps,
             SwitchStartKeeps, StreamStepKeeps, CrashBootKeeps, BootStepsKeep
          DEF SwitchNext, SwitchSteps

\* The inductive invariant holds in every reachable state.
THEOREM SwitchInvariant == SwitchSpec => []SwitchIInv
  BY SwitchInitEstablishes, SwitchStepKeeps, PTL DEF SwitchSpec

\* What runs is what is stored, with a generation that is not behind it, unless the database did
\* not answer or a switch saved while Restore held a row; also after a crash between saving a
\* selection and adopting it.
THEOREM SelectionAlwaysDurable == SwitchSpec => []SelectionDurable
  <1>1. SwitchIInv => SelectionDurable
    BY DEF SwitchIInv, SwitchTypeOK, RowFollows, SelectionDurable, Switching, Saved
  <1> QED BY <1>1, SwitchInvariant, PTL

\* Outside a switch, and once Restore has adopted, a socket of the inactive broker is open only if it
\* was asked for while the selection moved.
THEOREM LeftoverAlwaysFromLateAsk == SwitchSpec => []LeftoverNeedsLateAsk
  <1>1. SwitchIInv => LeftoverNeedsLateAsk
    BY DEF SwitchIInv, SocketsFollow, LeftoverNeedsLateAsk, Switching
  <1> QED BY <1>1, SwitchInvariant, PTL

=============================================================================
