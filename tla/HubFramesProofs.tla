--------------------------- MODULE HubFramesProofs ---------------------------
(***************************************************************************)
(* Proofs about the ticker hub, for every set of tokens, streams and       *)
(* engines, any number of sockets and any queue length; and about the      *)
(* open-interest frames, for every clock, retention and number of events.  *)
(***************************************************************************)
EXTENDS Hub, AnalyticsFrames, SequenceTheorems, FunctionTheorems, FiniteSetTheorems, TLAPS

-----------------------------------------------------------------------------
(* The listener                                                            *)

\* What the listener depends on.
listenerVars == <<connected, queue, owed, draining, told>>

\* A call that waits behind the others is the newest; anything but "dead" is the news.
LEMMA PushIsNewest ==
    ASSUME HubTypeOK, ListenerUpToDate, NEW call \in Calls, Push(call), UNCHANGED <<draining, told>>,
           call = "up" => connected', call = "down" => ~connected',
           call = "dead" => (connected' <=> connected)
    PROVE  ListenerUpToDate' /\ queue' \in Seq(Calls)
  <1>1. /\ queue \in Seq(Calls) /\ queue' = Append(queue, call) /\ owed' /\ queue' \in Seq(Calls)
        /\ Len(queue') = Len(queue) + 1 /\ Len(queue) \in Nat /\ queue'[Len(queue) + 1] = call
        /\ \A i \in 1..Len(queue) : queue'[i] = queue[i]
    BY DEF Push, HubTypeOK
  <1>2. CASE call = "dead"
    <2>1. News' = News
      BY <1>1, <1>2 DEF News
    <2>2. \A i \in News : queue'[i] = queue[i]
      BY <1>1 DEF News
    <2> QED BY <1>1, <1>2, <2>1, <2>2 DEF ListenerUpToDate, Telling
  <1>3. CASE call # "dead"
    <2>1. Len(queue) + 1 \in News' /\ \A i \in News' : i <= Len(queue) + 1 /\ i \in Nat
      BY <1>1, <1>3 DEF News
    <2>2. \A i \in News' : (\A j \in News' : j <= i) => i = Len(queue) + 1
      BY <1>1, <2>1
    <2>3. connected' <=> call = "up"
      BY <1>3 DEF Calls
    <2> QED BY <1>1, <2>1, <2>2, <2>3 DEF ListenerUpToDate
  <1> QED BY <1>2, <1>3

\* notifyLocked queues exactly what changes.
LEMMA NotifyKeeps ==
    ASSUME HubTypeOK, ListenerUpToDate, NEW b \in BOOLEAN, notifyLocked(b), UNCHANGED <<draining, told>>
    PROVE  ListenerUpToDate' /\ queue' \in Seq(Calls) /\ connected' = b
  <1>1. connected' = b
    BY DEF notifyLocked
  <1>2. CASE connected = b
    <2>1. UNCHANGED listenerVars
      BY <1>1, <1>2 DEF notifyLocked, queueVars, listenerVars
    <2> QED BY <1>1, <2>1 DEF listenerVars, HubTypeOK, ListenerUpToDate, News, Telling
  <1>3. CASE connected # b
    <2>1. CASE b = TRUE
      <3>1. Push("up")
        BY <1>3, <2>1 DEF notifyLocked
      <3> QED BY <1>1, <2>1, <3>1, PushIsNewest DEF Calls
    <2>2. CASE b = FALSE
      <3>1. Push("down")
        BY <1>3, <2>2 DEF notifyLocked
      <3> QED BY <1>1, <2>2, <3>1, PushIsNewest DEF Calls
    <2> QED BY <2>1, <2>2
  <1> QED BY <1>2, <1>3

\* The serial queue: the oldest call is taken, run, and nothing is left behind.
LEMMA DrainKeeps ==
    ASSUME HubTypeOK, ListenerUpToDate, DrainCall \/ DrainTake \/ DrainEnd \/ DrainRun
    PROVE  ListenerUpToDate' /\ queue' \in Seq(Calls) /\ draining' \in Calls \cup {"no", "loop"}
  <1> USE DEF queueVars
  <1>1. CASE DrainCall
    <2>1. UNCHANGED <<connected, queue, told>> /\ draining' # "no"
          /\ draining' \in {draining, "loop"} /\ (draining' = draining \/ draining = "no")
      BY <1>1 DEF DrainCall
    <2>2. News' = News /\ (Telling' <=> Telling)
      BY <2>1 DEF News, Telling
    <2>3. Telling => draining' = draining
      BY <2>1 DEF Telling
    <2> QED BY <2>1, <2>2, <2>3 DEF ListenerUpToDate, HubTypeOK, News
  <1>2. CASE DrainTake
    <2>1. /\ draining = "loop" /\ draining' = Head(queue) /\ queue' = Tail(queue) /\ queue # <<>>
          /\ UNCHANGED <<connected, told>>
      BY <1>2 DEF DrainTake
    <2>2. /\ queue \in Seq(Calls) /\ queue' \in Seq(Calls) /\ Len(queue) \in Nat \ {0}
          /\ Len(queue') = Len(queue) - 1 /\ draining' = queue[1] /\ draining' \in Calls
          /\ \A i \in 1..Len(queue') : queue'[i] = queue[i + 1]
      BY <2>1, EmptySeq, HeadTailProperties DEF HubTypeOK
    <2>3. \A i \in 1..Len(queue') : i \in News' <=> i + 1 \in News
      BY <2>2 DEF News
    <2>4. \A i \in News : i = 1 \/ (i - 1 \in News' /\ i > 1)
      BY <2>2 DEF News
    <2>5. ASSUME NEW i \in News', \A j \in News' : j <= i
          PROVE  connected' <=> queue'[i] = "up"
      <3>1. i \in Nat /\ i + 1 \in News /\ queue'[i] = queue[i + 1]
        BY <2>2, <2>3 DEF News
      <3>2. \A j \in News : j <= i + 1
        BY <2>4, <2>5, <3>1 DEF News
      <3> QED BY <2>1, <3>1, <3>2 DEF ListenerUpToDate
    <2>6. ASSUME News' = {}
          PROVE  connected' <=> IF Telling' THEN draining' = "up" ELSE told'
      <3>1. \A i \in News : i = 1
        BY <2>4, <2>6
      <3>2. CASE 1 \in News
        <4>1. connected <=> queue[1] = "up"
          BY <3>1, <3>2 DEF ListenerUpToDate
        <4>2. Telling'
          BY <2>2, <3>2 DEF News, Telling, Calls
        <4> QED BY <2>1, <2>2, <4>1, <4>2
      <3>3. CASE 1 \notin News
        <4>1. News = {} /\ queue[1] = "dead"
          BY <2>2, <3>1, <3>3 DEF News
        <4> QED BY <2>1, <2>2, <4>1 DEF ListenerUpToDate, Telling
      <3> QED BY <3>2, <3>3
    <2>7. draining' # "no"
      BY <2>2 DEF Calls
    <2> QED BY <2>2, <2>5, <2>6, <2>7 DEF ListenerUpToDate
  <1>3. CASE DrainEnd
    <2>1. UNCHANGED <<connected, queue, owed, told>> /\ draining = "loop" /\ draining' = "no" /\ queue = <<>>
      BY <1>3 DEF DrainEnd
    <2>2. News' = News /\ ~Telling /\ ~Telling'
      BY <2>1 DEF News, Telling
    <2> QED BY <2>1, <2>2 DEF ListenerUpToDate, HubTypeOK
  <1>4. CASE DrainRun
    <2>1. UNCHANGED <<connected, queue, owed>> /\ draining \in Calls /\ draining' = "loop"
          /\ told' = IF draining = "dead" THEN told ELSE draining = "up"
      BY <1>4 DEF DrainRun
    <2>2. News' = News /\ ~Telling' /\ queue' = queue
      BY <2>1 DEF News, Telling
    <2>3. Telling => (told' <=> draining = "up")
      BY <2>1 DEF Telling
    <2>4. ~Telling => (told' <=> told)
      BY <2>1 DEF Telling, Calls
    <2> QED BY <2>1, <2>2, <2>3, <2>4 DEF ListenerUpToDate, HubTypeOK, News
  <1> QED BY <1>1, <1>2, <1>3, <1>4

\* Nothing of the listener's changes.
LEMMA ListenerSame ==
    ASSUME ListenerUpToDate, UNCHANGED listenerVars
    PROVE  ListenerUpToDate'
  BY DEF listenerVars, ListenerUpToDate, News, Telling

-----------------------------------------------------------------------------
(* Holders                                                                 *)

\* The subscription for fresh tokens goes to the current socket, or to a new one together with
\* everything that is subscribed.
LEMMA EnsureSubscribes ==
    ASSUME HubTypeOK, WireMatches, ConnectedMeansSocket, NEW token, NEW T,
           ensureSocketLocked(token, T), UNCHANGED connected
    PROVE  /\ subscribed' = IF token THEN subscribed \cup T ELSE subscribed
           /\ WireMatches' /\ ConnectedMeansSocket'
           /\ sock' \in 0..MaxSockets /\ sockSeq' \in 0..MaxSockets
           /\ phase' \in [Ids -> {"none", "dialing", "open", "failing", "failed", "ended", "gone"}]
  <1> USE HubBounds
  <1>1. CASE ~token
    BY <1>1 DEF ensureSocketLocked, sockVars, subVars, HubTypeOK, WireMatches, ConnectedMeansSocket
  <1>2. CASE token /\ sock # 0
    <2>1. subscribed' = subscribed \cup T /\ wire' = wire \cup (T \ subscribed)
          /\ UNCHANGED <<sock, sockSeq, phase>>
      BY <1>2 DEF ensureSocketLocked, sockVars
    <2> QED BY <1>2, <2>1 DEF HubTypeOK, WireMatches, ConnectedMeansSocket
  <1>3. CASE token /\ sock = 0
    <2>1. /\ subscribed' = subscribed \cup T /\ wire' = subscribed'
          /\ sockSeq < MaxSockets /\ sockSeq' = sockSeq + 1 /\ sock' = sockSeq + 1
          /\ phase' = [phase EXCEPT ![sockSeq + 1] = "dialing"]
      BY <1>3 DEF ensureSocketLocked
    <2>2. sockSeq + 1 \in Ids /\ ~connected
      BY <1>3, <2>1 DEF HubTypeOK, ConnectedMeansSocket, Ids
    <2> QED BY <1>3, <2>1, <2>2 DEF HubTypeOK, WireMatches, ConnectedMeansSocket, Ids
  <1> QED BY <1>1, <1>2, <1>3

\* Streams and engines come, subscribe, release and go.
LEMMA HolderStepKeeps ==
    ASSUME HubIInv, NEW x \in Holders,
           \/ \E T \in SUBSET Tokens : Attach(x, T)
           \/ AcquireReadsCreds(x) \/ AcquireSubscribes(x) \/ Release(x) \/ Detach(x)
    PROVE  HubIInv'
  <1> USE DEF HubIInv, HubServes, sockVars, subVars, queueVars, drainVars, holdVars, histVars, At
  <1>1. CASE (\E T \in SUBSET Tokens : Attach(x, T)) \/ AcquireReadsCreds(x) \/ Detach(x)
    <2>1. /\ UNCHANGED <<sockVars, subVars, connected, queueVars, drainVars, leased, histVars>>
          /\ DOMAIN holder' = Holders /\ \A y \in Holders \ {x} : holder'[y] = holder[y]
          /\ holder[x].pc \in {"free", "attached", "released"} /\ holder'[x].pc \in {"attached", "acquiring", "free"}
      <3>1. CASE \E T \in SUBSET Tokens : Attach(x, T)
        BY <3>1 DEF Attach, Free, HubTypeOK
      <3>2. CASE AcquireReadsCreds(x)
        BY <3>2 DEF AcquireReadsCreds, HubTypeOK
      <3>3. CASE Detach(x)
        BY <3>3 DEF Detach, Free, HubTypeOK
      <3> QED BY <1>1, <3>1, <3>2, <3>3
    <2>2. HubTypeOK' /\ LeasedAreOpen'
      BY <2>1 DEF HubTypeOK, LeasedAreOpen
    <2>3. Held' = Held
      <3>1. \A y \in leased : holder'[y].tokens = holder[y].tokens
        BY <2>1 DEF LeasedAreOpen
      <3> QED BY <2>1, <3>1 DEF Held
    <2>4. ListenerUpToDate'
      BY <2>1, ListenerSame DEF listenerVars
    <2> QED BY <2>1, <2>2, <2>3, <2>4 DEF HeldServed, WireMatches, LeakNeedsAttachedClient, ConnectedMeansSocket
  <1>2. CASE AcquireSubscribes(x)
    <2> DEFINE T == holder[x].tokens
               fresh == T \ Held
    <2>1. /\ leased' = leased \cup {x} /\ UNCHANGED <<connected, queueVars, drainVars, kept>>
          /\ holder' = [holder EXCEPT ![x] = [holder[x] EXCEPT !.pc = "open", !.creds = FALSE]]
          /\ unserved' = IF holder[x].creds THEN unserved \ fresh ELSE unserved \cup fresh
          /\ holder[x].pc = "acquiring"
          /\ fresh = {} \/ ensureSocketLocked(holder[x].creds, fresh)
          /\ fresh = {} => UNCHANGED <<sockVars, subVars>>
      BY <1>2 DEF AcquireSubscribes
    <2>2. Held' = Held \cup T
      <3>1. \A y \in leased' : holder'[y].tokens = holder[y].tokens
        BY <2>1 DEF HubTypeOK, LeasedAreOpen
      <3>2. Held' = UNION {holder[y].tokens : y \in leased \cup {x}}
        BY <2>1, <3>1 DEF Held
      <3> QED BY <3>2 DEF Held
    <2>3. HubTypeOK' /\ LeasedAreOpen' /\ WireMatches' /\ ConnectedMeansSocket'
          /\ subscribed' = IF holder[x].creds THEN subscribed \cup fresh ELSE subscribed
      <3>1. CASE fresh = {}
        <4>1. LeasedAreOpen' /\ HubTypeOK'
          BY <2>1, <3>1 DEF HubTypeOK, LeasedAreOpen
        <4> QED BY <2>1, <3>1, <4>1 DEF WireMatches, ConnectedMeansSocket
      <3>2. CASE ensureSocketLocked(holder[x].creds, fresh)
        <4>1. /\ subscribed' = IF holder[x].creds THEN subscribed \cup fresh ELSE subscribed
              /\ WireMatches' /\ ConnectedMeansSocket'
              /\ sock' \in 0..MaxSockets /\ sockSeq' \in 0..MaxSockets
              /\ phase' \in [Ids -> {"none", "dialing", "open", "failing", "failed", "ended", "gone"}]
          BY <2>1, <3>2, EnsureSubscribes
        <4>2. LeasedAreOpen' /\ HubTypeOK'
          BY <2>1, <4>1 DEF HubTypeOK, LeasedAreOpen
        <4> QED BY <4>1, <4>2
      <3> QED BY <2>1, <3>1, <3>2
    <2>4. HeldServed'
      BY <2>1, <2>2, <2>3 DEF HeldServed
    <2>5. LeakNeedsAttachedClient'
      BY <2>1, <2>2, <2>3 DEF LeakNeedsAttachedClient
    <2>6. ListenerUpToDate'
      BY <2>1, ListenerSame DEF listenerVars
    <2> QED BY <2>3, <2>4, <2>5, <2>6
  <1>3. CASE Release(x)
    <2> DEFINE rest == UNION {holder[y].tokens : y \in leased \ {x}}
               gone == holder[x].tokens \ rest
               drop == (gone \ StillWanted) \cap subscribed
    <2>1. /\ holder[x].pc = "open" /\ leased' = leased \ {x}
          /\ holder' = [holder EXCEPT ![x].pc = "released"]
          /\ subscribed' = subscribed \ drop /\ unserved' = unserved \ gone
          /\ wire' = (IF sock # 0 THEN wire \ drop ELSE wire)
          /\ kept' = (kept \ drop) \cup (gone \cap StillWanted)
          /\ UNCHANGED <<sockVars, connected, queueVars, drainVars>>
      BY <1>3 DEF Release, Goto
    <2>2. Held' = rest /\ rest \subseteq Held /\ Held \subseteq rest \cup gone /\ rest \cap gone = {}
      <3>1. \A y \in leased' : holder'[y].tokens = holder[y].tokens
        BY <2>1 DEF HubTypeOK, LeasedAreOpen
      <3>2. Held' = rest
        BY <2>1, <3>1 DEF Held
      <3> QED BY <3>2 DEF Held
    <2>3. HubTypeOK' /\ LeasedAreOpen'
      BY <2>1 DEF HubTypeOK, LeasedAreOpen
    <2> HIDE DEF rest, gone
    <2>4. HeldServed' /\ LeakNeedsAttachedClient'
      BY <2>1, <2>2 DEF HeldServed, LeakNeedsAttachedClient
    <2>5. WireMatches' /\ ConnectedMeansSocket'
      BY <2>1 DEF WireMatches, ConnectedMeansSocket
    <2>6. ListenerUpToDate'
      BY <2>1, ListenerSame DEF listenerVars
    <2> QED BY <2>3, <2>4, <2>5, <2>6
  <1> QED BY <1>1, <1>2, <1>3

-----------------------------------------------------------------------------
(* Sockets                                                                 *)

\* A stop: what was held is known to be unserved, and the listener hears of it.
LEMMA StopKeeps ==
    ASSUME HubIInv, StopHub, phase' \in [Ids -> {"none", "dialing", "open", "failing", "failed", "ended", "gone"}],
           UNCHANGED <<sockSeq, drainVars, holdVars>>
    PROVE  HubIInv'
  <1> USE DEF HubIInv, HubServes, drainVars, holdVars
  <1>1. /\ sock' = 0 /\ notifyLocked(FALSE) /\ subscribed' = {}
        /\ unserved' = unserved \cup Held
    BY DEF StopHub
  <1>2. ListenerUpToDate' /\ queue' \in Seq(Calls) /\ connected' = FALSE
    BY <1>1, NotifyKeeps
  <1>3. HubTypeOK' /\ LeasedAreOpen'
    BY <1>1, <1>2, HubBounds DEF HubTypeOK, LeasedAreOpen, At
  <1>4. Held' = Held
    BY DEF Held
  <1> QED BY <1>1, <1>2, <1>3, <1>4 DEF HeldServed, WireMatches, LeakNeedsAttachedClient, ConnectedMeansSocket

\* The callbacks of a socket, whichever socket is the current one by then.
LEMMA SocketStepKeeps ==
    ASSUME HubIInv, NEW i \in Ids,
           SocketOpen(i) \/ SocketClose(i) \/ SocketError(i) \/ FailDead(i) \/ FailStop(i)
    PROVE  HubIInv'
  <1> USE DEF HubIInv, HubServes, SetPhase, drainVars, holdVars, histVars, subVars, queueVars
  <1>1. CASE FailStop(i)
    BY <1>1, StopKeeps DEF FailStop, HubTypeOK
  <1>2. CASE SocketOpen(i) \/ SocketClose(i) \/ SocketError(i) \/ FailDead(i)
    <2>1. /\ UNCHANGED <<sockSeq, subscribed, draining, told, holder, leased, cmu, unserved, kept>>
          /\ \E p \in {"open", "gone", "failing", "ended", "failed"} : phase' = [phase EXCEPT ![i] = p]
          /\ (sock' = sock /\ wire' = wire) \/ sock' = 0
      BY <1>2 DEF SocketOpen, SocketClose, SocketError, FailDead
    <2>2. ListenerUpToDate' /\ queue' \in Seq(Calls)
      <3>1. CASE SocketOpen(i)
        BY <3>1, NotifyKeeps, ListenerSame DEF SocketOpen, listenerVars, HubTypeOK
      <3>2. CASE SocketClose(i)
        BY <3>2, NotifyKeeps, ListenerSame DEF SocketClose, listenerVars, HubTypeOK
      <3>3. CASE SocketError(i)
        BY <3>3, ListenerSame DEF SocketError, listenerVars, HubTypeOK
      <3>4. CASE FailDead(i)
        BY <3>4, PushIsNewest DEF FailDead, Calls
      <3> QED BY <1>2, <3>1, <3>2, <3>3, <3>4
    <2>3. HubTypeOK' /\ LeasedAreOpen'
      BY <2>1, <2>2, HubBounds DEF HubTypeOK, LeasedAreOpen, At
    <2>4. ConnectedMeansSocket'
      <3>1. CASE SocketOpen(i) /\ sock = i
        BY <3>1 DEF SocketOpen, HubTypeOK, ConnectedMeansSocket, Ids
      <3>2. CASE SocketOpen(i) /\ sock # i
        <4>1. UNCHANGED <<sock, connected>> /\ (sock # 0 => phase'[sock] = phase[sock])
          BY <3>2 DEF SocketOpen, HubTypeOK
        <4> QED BY <4>1 DEF ConnectedMeansSocket
      <3>3. CASE SocketClose(i) /\ sock = i
        <4>1. connected' = FALSE
          BY <3>3 DEF SocketClose, notifyLocked
        <4> QED BY <4>1 DEF ConnectedMeansSocket
      <3>4. CASE SocketClose(i) /\ sock # i
        <4>1. UNCHANGED <<sock, connected>> /\ (sock # 0 => phase'[sock] = phase[sock])
          BY <3>4 DEF SocketClose, HubTypeOK
        <4> QED BY <4>1 DEF ConnectedMeansSocket
      <3>5. CASE SocketError(i)
        BY <3>5 DEF SocketError, HubTypeOK, ConnectedMeansSocket
      <3>6. CASE FailDead(i)
        BY <3>6 DEF FailDead, HubTypeOK, ConnectedMeansSocket
      <3> QED BY <1>2, <3>1, <3>2, <3>3, <3>4, <3>5, <3>6
    <2>5. Held' = Held
      BY <2>1 DEF Held
    <2> QED BY <2>1, <2>2, <2>3, <2>4, <2>5 DEF HeldServed, WireMatches, LeakNeedsAttachedClient
  <1> QED BY <1>1, <1>2

-----------------------------------------------------------------------------
(* The theorem                                                             *)

\* A hub nobody has used yet.
LEMMA HubInitEstablishes == HubInit => HubIInv
  <1> SUFFICES ASSUME HubInit PROVE HubIInv
    OBVIOUS
  <1> USE DEF HubInit
  <1>1. HubTypeOK /\ LeasedAreOpen
    BY HubBounds, EmptySeq DEF HubTypeOK, LeasedAreOpen, At, Free
  <1>2. News = {}
    BY EmptySeq DEF News
  <1>3. ListenerUpToDate /\ Held = {}
    BY <1>2 DEF ListenerUpToDate, Telling, Held
  <1> QED BY <1>1, <1>3 DEF HubIInv, HubServes, HeldServed, WireMatches, LeakNeedsAttachedClient, ConnectedMeansSocket

\* Every step keeps the invariant.
LEMMA HubStepKeeps == HubIInv /\ [HubNext]_hubVars => HubIInv'
  <1> SUFFICES ASSUME HubIInv, [HubNext]_hubVars PROVE HubIInv'
    OBVIOUS
  <1> USE DEF sockVars, subVars, queueVars, drainVars, holdVars, histVars
  <1>1. CASE UNCHANGED hubVars \/ Login
    <2>1. UNCHANGED <<sockVars, subVars, connected, queueVars, drainVars, holdVars, histVars>>
      BY <1>1 DEF hubVars, Login
    <2>2. ListenerUpToDate'
      BY <2>1, ListenerSame DEF listenerVars, HubIInv, HubServes
    <2>3. HubTypeOK' /\ LeasedAreOpen' /\ Held' = Held
      BY <2>1 DEF HubIInv, HubTypeOK, LeasedAreOpen, At, Held
    <2> QED BY <2>1, <2>2, <2>3
        DEF HubIInv, HubServes, HeldServed, WireMatches, LeakNeedsAttachedClient, ConnectedMeansSocket
  <1>2. CASE DrainCall \/ DrainTake \/ DrainEnd \/ DrainRun
    <2>1. UNCHANGED <<sockVars, subVars, connected, holdVars, histVars>>
      BY <1>2 DEF DrainCall, DrainTake, DrainEnd, DrainRun
    <2>2. ListenerUpToDate' /\ queue' \in Seq(Calls) /\ draining' \in Calls \cup {"no", "loop"}
      BY <1>2, DrainKeeps DEF HubIInv, HubServes
    <2>3. HubTypeOK' /\ LeasedAreOpen' /\ Held' = Held
      BY <2>1, <2>2 DEF HubIInv, HubTypeOK, LeasedAreOpen, At, Held
    <2> QED BY <2>1, <2>2, <2>3
        DEF HubIInv, HubServes, HeldServed, WireMatches, LeakNeedsAttachedClient, ConnectedMeansSocket
  <1>3. CASE Stop
    BY <1>3, StopKeeps DEF Stop, HubIInv, HubTypeOK
  <1> QED BY <1>1, <1>2, <1>3, HolderStepKeeps, SocketStepKeeps DEF HubNext

\* Leases, subscriptions, the wire and the listener agree, whatever interleaves.
THEOREM HubAlwaysServes == HubSpec => []HubServes
  <1>1. HubIInv => HubServes
    BY DEF HubIInv
  <1> QED BY <1>1, HubInitEstablishes, HubStepKeeps, PTL DEF HubSpec

-----------------------------------------------------------------------------
(* The points of a frame                                                   *)

Point == [t : Int, src : Nat, partial : BOOLEAN]

\* One point per stamp.
OnePerStamp(P) == \A p, q \in P : p.t = q.t => p = q

\* Points of one broker, none later than top.
Fits(P, b, top) == \A p \in P : p \in Point /\ broker(p.src) = b /\ p.t <= top

\* What a frame and what the cache may hold.
FrameFits(s, b, top) == s \in Seq(Point) /\ Fits(Range(s), b, top)
StoredFits(P, b, top) == IsFiniteSet(P) /\ OnePerStamp(P) /\ Fits(P, b, top)

InOrder(s) == \A j, k \in 1 .. Len(s) : j < k => s[j].t < s[k].t

\* The range of a sequence, by index, and it is finite.
LEMMA RangeOfPoints ==
    ASSUME NEW s \in Seq(Point)
    PROVE  /\ Range(s) = {s[k] : k \in 1..Len(s)} /\ IsFiniteSet(Range(s)) /\ Range(s) \subseteq Point
           /\ Len(s) \in Nat /\ \A k \in 1..Len(s) : s[k] \in Point
  <1>1. Len(s) \in Nat /\ DOMAIN s = 1..Len(s) /\ s \in [1..Len(s) -> Point]
        /\ \A k \in 1..Len(s) : s[k] \in Point
    OBVIOUS
  <1>2. Range(s) = {s[k] : k \in 1..Len(s)}
    BY <1>1 DEF Range
  <1>3. s \in Surjection(1..Len(s), Range(s))
    BY <1>1, Fun_RangeProperties
  <1>4. IsFiniteSet(1..Len(s))
    BY <1>1, FS_Interval
  <1>5. IsFiniteSet(Range(s))
    BY <1>3, <1>4, FS_Surjection
  <1> QED BY <1>1, <1>2, <1>5

\* The last write of each stamp: one point per stamp, and all points of a frame in order.
LEMMA OwnPoints ==
    ASSUME NEW s \in Seq(Point)
    PROVE  /\ lastWrites(s) \subseteq Range(s) /\ IsFiniteSet(lastWrites(s)) /\ OnePerStamp(lastWrites(s))
           /\ InOrder(s) => lastWrites(s) = Range(s)
  <1>1. lastWrites(s) \subseteq Range(s)
    BY RangeOfPoints DEF lastWrites
  <1>2. IsFiniteSet(lastWrites(s))
    BY <1>1, RangeOfPoints, FS_Subset
  <1>3. OnePerStamp(lastWrites(s))
    <2> SUFFICES ASSUME NEW p \in lastWrites(s), NEW q \in lastWrites(s), p.t = q.t
                 PROVE  p = q
      BY DEF OnePerStamp
    <2>1. PICK j \in 1..Len(s) : p = s[j] /\ \A m \in j + 1 .. Len(s) : s[m].t # s[j].t
      BY DEF lastWrites
    <2>2. PICK k \in 1..Len(s) : q = s[k] /\ \A m \in k + 1 .. Len(s) : s[m].t # s[k].t
      BY DEF lastWrites
    <2>3. Len(s) \in Nat
      BY RangeOfPoints
    <2>4. ~(j < k) /\ ~(k < j)
      BY <2>1, <2>2, <2>3
    <2> QED BY <2>1, <2>2, <2>3, <2>4
  <1>4. ASSUME InOrder(s) PROVE Range(s) \subseteq lastWrites(s)
    <2> SUFFICES ASSUME NEW k \in 1..Len(s) PROVE s[k] \in lastWrites(s)
      BY RangeOfPoints
    <2>1. \A m \in k + 1 .. Len(s) : s[m].t # s[k].t
      BY <1>4, RangeOfPoints DEF InOrder, Point
    <2> QED BY <2>1 DEF lastWrites
  <1> QED BY <1>1, <1>2, <1>3, <1>4

\* How many points come before each: a count below the number of points, which grows with the stamp.
LEMMA RankOfPoints ==
    ASSUME NEW P, P \subseteq Point, IsFiniteSet(P)
    PROVE  \E r \in [P -> 0 .. Cardinality(P) - 1] :
              /\ \A p \in P : r[p] = Cardinality({q \in P : q.t < p.t})
              /\ \A p, q \in P : p.t < q.t => r[p] < r[q]
  <1> DEFINE n == Cardinality(P)
             before(p) == {q \in P : q.t < p.t}
             r == [p \in P |-> Cardinality(before(p))]
  <1>1. n \in Nat
    BY FS_CardinalityType
  <1>2. \A p \in P : IsFiniteSet(before(p)) /\ Cardinality(before(p)) \in 0 .. n - 1
    <2> TAKE p \in P
    <2>1. before(p) \subseteq P /\ p \notin before(p) /\ p.t \in Int
      BY DEF Point
    <2>2. IsFiniteSet(before(p)) /\ Cardinality(before(p)) <= n /\ Cardinality(before(p)) # n
      BY <2>1, FS_Subset
    <2>3. Cardinality(before(p)) \in Nat
      BY <2>2, FS_CardinalityType
    <2> QED BY <1>1, <2>2, <2>3
  <1>3. r \in [P -> 0 .. n - 1]
    BY <1>2
  <1>4. ASSUME NEW p \in P, NEW q \in P, p.t < q.t
        PROVE  Cardinality(before(p)) < Cardinality(before(q))
    <2>1. before(p) \subseteq before(q) /\ p \in before(q) /\ p \notin before(p)
      BY <1>4 DEF Point
    <2> HIDE DEF before
    <2>2. IsFiniteSet(before(q)) /\ Cardinality(before(p)) \in Nat /\ Cardinality(before(q)) \in Nat
      BY <1>1, <1>2
    <2>3. Cardinality(before(p)) <= Cardinality(before(q)) /\ Cardinality(before(p)) # Cardinality(before(q))
      BY <2>1, <2>2, FS_Subset
    <2> QED BY <2>2, <2>3
  <1>5. \A p \in P : r[p] = Cardinality(before(p))
    OBVIOUS
  <1>6. \A p, q \in P : p.t < q.t => r[p] < r[q]
    <2> HIDE DEF r, before
    <2> QED BY <1>4, <1>5
  <1> QED BY <1>3, <1>5, <1>6

\* Sorting keeps the points, one per place, in the order of their stamps.
LEMMA SortedPoints ==
    ASSUME NEW P, P \subseteq Point, IsFiniteSet(P), OnePerStamp(P)
    PROVE  sortedFrame(P) \in Seq(Point) /\ Range(sortedFrame(P)) = P /\ InOrder(sortedFrame(P))
  <1> DEFINE n == Cardinality(P)
             s == sortedFrame(P)
  <1>1. n \in Nat
    BY FS_CardinalityType
  <1>2. PICK r \in [P -> 0 .. n - 1] :
            /\ \A p \in P : r[p] = Cardinality({q \in P : q.t < p.t})
            /\ \A p, q \in P : p.t < q.t => r[p] < r[q]
    BY RankOfPoints
  <1>3. s = [i \in 1 .. n |-> CHOOSE p \in P : Cardinality({q \in P : q.t < p.t}) = i - 1]
    BY DEF sortedFrame
  <1>4. \A p \in P : r[p] \in Int /\ 0 <= r[p] /\ r[p] < n
    BY <1>1
  <1>5. \A p, q \in P : r[p] = r[q] => p = q
    <2> SUFFICES ASSUME NEW p \in P, NEW q \in P, r[p] = r[q] PROVE p = q
      OBVIOUS
    <2>1. ~(p.t < q.t) /\ ~(q.t < p.t)
      BY <1>2, <1>4
    <2> QED BY <2>1 DEF Point, OnePerStamp
  <1>6. \A k \in 0 .. n - 1 : \E p \in P : r[p] = k
    <2>1. r \in Injection(P, 0 .. n - 1)
      BY <1>5, Fun_IsInj
    <2>2. IsFiniteSet(0 .. n - 1) /\ Cardinality(0 .. n - 1) = n
      BY <1>1, FS_Interval
    <2>3. r \in Surjection(P, 0 .. n - 1)
      BY <2>1, <2>2, FS_Injection
    <2>4. \A k \in 0 .. n - 1 : \E p \in P : r[p] = k
      <3> HIDE DEF n, s
      <3> QED BY <2>3 DEF Surjection
    <2> QED BY <2>4
  <1>7. ASSUME NEW i \in 1 .. n PROVE s[i] \in P /\ r[s[i]] = i - 1
    <2>1. i - 1 \in 0 .. n - 1
      BY <1>1
    <2>2. \E p \in P : Cardinality({q \in P : q.t < p.t}) = i - 1
      BY <1>2, <1>6, <2>1
    <2>3. s[i] = CHOOSE p \in P : Cardinality({q \in P : q.t < p.t}) = i - 1
      BY <1>3
    <2>4. s[i] \in P /\ Cardinality({q \in P : q.t < s[i].t}) = i - 1
      <3> HIDE DEF s
      <3> QED BY <2>2, <2>3
    <2> HIDE DEF s
    <2> QED BY <1>2, <2>4
  <1> HIDE DEF s, n
  <1>8. s \in Seq(Point) /\ Len(s) = n
    <2>1. s \in [1 .. n -> Point]
      BY <1>3, <1>7
    <2> QED BY <1>1, <2>1
  <1>9. InOrder(s)
    <2> SUFFICES ASSUME NEW j \in 1 .. n, NEW k \in 1 .. n, j < k PROVE s[j].t < s[k].t
      BY <1>8 DEF InOrder
    <2>1. r[s[j]] = j - 1 /\ r[s[k]] = k - 1 /\ s[j] \in P /\ s[k] \in P
      BY <1>7
    <2>2. ~(s[k].t < s[j].t)
      BY <1>1, <1>2, <2>1
    <2>3. s[j].t # s[k].t
      BY <1>1, <2>1 DEF OnePerStamp
    <2> QED BY <2>1, <2>2, <2>3 DEF Point
  <1>10. Range(s) = P
    <2>1. Range(s) = {s[k] : k \in 1 .. n}
      BY <1>8, RangeOfPoints
    <2>2. ASSUME NEW p \in P PROVE p \in Range(s)
      <3>1. r[p] + 1 \in 1 .. n /\ (r[p] + 1) - 1 = r[p]
        BY <1>1, <1>4
      <3>2. s[r[p] + 1] \in P /\ r[s[r[p] + 1]] = r[p]
        BY <1>7, <3>1
      <3>3. s[r[p] + 1] = p
        BY <1>5, <3>2
      <3> QED BY <2>1, <3>1, <3>3
    <2> QED BY <1>7, <2>1, <2>2
  <1> QED BY <1>8, <1>9, <1>10 DEF s

\* Complete points within retention stay.
Keeps(old, new, now) ==
    \A p \in Range(old) : (~p.partial /\ p.t >= now - Retention) => \E q \in Range(new) : q.t = p.t /\ ~q.partial

LEMMA OwnFits ==
    ASSUME NEW s, NEW b, NEW top, FrameFits(s, b, top)
    PROVE  StoredFits(lastWrites(s), b, top) /\ lastWrites(s) \subseteq Range(s) /\ (InOrder(s) => lastWrites(s) = Range(s))
  BY OwnPoints DEF FrameFits, StoredFits, Fits

LEMMA SubsetFits ==
    ASSUME NEW P, NEW b, NEW top, StoredFits(P, b, top), NEW Q \in SUBSET P
    PROVE  StoredFits(Q, b, top)
  <1>1. IsFiniteSet(Q)
    BY FS_Subset DEF StoredFits
  <1> QED BY <1>1 DEF StoredFits, OnePerStamp, Fits

LEMMA SortedFits ==
    ASSUME NEW P, NEW b, NEW top, StoredFits(P, b, top)
    PROVE  FrameFits(sortedFrame(P), b, top) /\ InOrder(sortedFrame(P)) /\ Range(sortedFrame(P)) = P
  <1>1. P \subseteq Point
    BY DEF StoredFits, Fits
  <1> QED BY <1>1, SortedPoints DEF StoredFits, FrameFits

\* Two sets without a stamp in common.
LEMMA UnionFits ==
    ASSUME NEW A, NEW B, NEW b, NEW top, StoredFits(A, b, top), StoredFits(B, b, top),
           \A p \in A, q \in B : p.t # q.t, NEW C \in SUBSET (A \cup B)
    PROVE  StoredFits(C, b, top)
  <1>1. IsFiniteSet(A \cup B)
    BY FS_Union DEF StoredFits
  <1>2. OnePerStamp(A \cup B)
    BY DEF StoredFits, OnePerStamp
  <1>3. Fits(A \cup B, b, top)
    BY DEF StoredFits, Fits
  <1>4. StoredFits(A \cup B, b, top)
    BY <1>1, <1>2, <1>3 DEF StoredFits
  <1> QED BY <1>4, SubsetFits

\* The merges: what they return is a frame in order, and keeps what is complete.
LEMMA MergedFits ==
    ASSUME NEW s, NEW P, NEW now, NEW b, NEW top, FrameFits(s, b, top), StoredFits(P, b, top)
    PROVE  /\ FrameFits(merged(s, P, now), b, top) /\ InOrder(merged(s, P, now))
           /\ InOrder(s) => Keeps(s, merged(s, P, now), now)
  <1> DEFINE yields == {q \in lastWrites(s) : q.partial /\ \E p \in P : p.t = q.t /\ ~p.partial}
             stays == lastWrites(s) \ yields
             fill == {r \in P : \A q \in stays : q.t # r.t}
             all == {p \in stays \cup fill : p.t >= now - Retention}
  <1>1. merged(s, P, now) = sortedFrame(all)
    BY DEF merged
  <1>2. StoredFits(stays, b, top) /\ StoredFits(fill, b, top)
    <2>1. stays \subseteq lastWrites(s) /\ fill \subseteq P
      OBVIOUS
    <2> HIDE DEF stays, fill
    <2> QED BY <2>1, OwnFits, SubsetFits
  <1>3. \A p \in stays, q \in fill : p.t # q.t
    OBVIOUS
  <1>4. StoredFits(all, b, top)
    <2>1. all \subseteq stays \cup fill
      OBVIOUS
    <2> HIDE DEF all, stays, fill
    <2> QED BY <1>2, <1>3, <2>1, UnionFits
  <1>5. FrameFits(sortedFrame(all), b, top) /\ InOrder(sortedFrame(all)) /\ Range(sortedFrame(all)) = all
    <2> HIDE DEF all
    <2> QED BY <1>4, SortedFits
  <1>6. ASSUME InOrder(s), NEW p \in Range(s), ~p.partial, p.t >= now - Retention PROVE p \in all
    BY <1>6, OwnFits
  <1> HIDE DEF all
  <1> QED BY <1>1, <1>5, <1>6 DEF Keeps

LEMMA MergedFutFits ==
    ASSUME NEW s, NEW P, NEW now, NEW b, NEW top, FrameFits(s, b, top), StoredFits(P, b, top)
    PROVE  /\ FrameFits(mergedFut(s, P, now), b, top) /\ InOrder(mergedFut(s, P, now))
           /\ InOrder(s) => Keeps(s, mergedFut(s, P, now), now)
  <1> DEFINE fill == {r \in P : r.t \notin Stamps(s)}
             all == {p \in lastWrites(s) \cup fill : p.t >= now - Retention}
  <1>1. mergedFut(s, P, now) = sortedFrame(all)
    BY DEF mergedFut
  <1>2. StoredFits(lastWrites(s), b, top) /\ StoredFits(fill, b, top)
    <2>1. fill \subseteq P
      OBVIOUS
    <2> HIDE DEF fill
    <2> QED BY <2>1, OwnFits, SubsetFits
  <1>3. \A p \in lastWrites(s), q \in fill : p.t # q.t
    BY OwnFits DEF Stamps
  <1>4. StoredFits(all, b, top)
    <2>1. all \subseteq lastWrites(s) \cup fill
      OBVIOUS
    <2> HIDE DEF all, fill
    <2> QED BY <1>2, <1>3, <2>1, UnionFits
  <1>5. FrameFits(sortedFrame(all), b, top) /\ InOrder(sortedFrame(all)) /\ Range(sortedFrame(all)) = all
    <2> HIDE DEF all
    <2> QED BY <1>4, SortedFits
  <1>6. ASSUME InOrder(s), NEW p \in Range(s), ~p.partial, p.t >= now - Retention PROVE p \in all
    BY <1>6, OwnFits
  <1> HIDE DEF all
  <1> QED BY <1>1, <1>5, <1>6 DEF Keeps

LEMMA WarmMergedFits ==
    ASSUME NEW s, NEW P, NEW b, NEW top, FrameFits(s, b, top), StoredFits(P, b, top)
    PROVE  /\ FrameFits(warmMerged(s, P), b, top) /\ InOrder(warmMerged(s, P))
           /\ InOrder(s) => Range(s) \subseteq Range(warmMerged(s, P))
  <1> DEFINE fill == {p \in P : p.t \notin Stamps(s)}
             all == lastWrites(s) \cup fill
  <1>1. warmMerged(s, P) = sortedFrame(all)
    BY DEF warmMerged
  <1>2. StoredFits(lastWrites(s), b, top) /\ StoredFits(fill, b, top)
    <2>1. fill \subseteq P
      OBVIOUS
    <2> HIDE DEF fill
    <2> QED BY <2>1, OwnFits, SubsetFits
  <1>3. \A p \in lastWrites(s), q \in fill : p.t # q.t
    BY OwnFits DEF Stamps
  <1>4. StoredFits(all, b, top)
    <2> HIDE DEF fill
    <2> QED BY <1>2, <1>3, UnionFits
  <1>5. FrameFits(sortedFrame(all), b, top) /\ InOrder(sortedFrame(all)) /\ Range(sortedFrame(all)) = all
    <2> HIDE DEF all
    <2> QED BY <1>4, SortedFits
  <1> QED BY <1>1, <1>5, OwnFits

\* Buckets end after the moments in them, and later for later moments.
LEMMA BucketEnds ==
    ASSUME NEW t \in Nat, NEW u \in Nat, t <= u, NEW g \in Grains
    PROVE  bucketEnd(t, g) \in Nat /\ t < bucketEnd(t, g) /\ bucketEnd(t, g) <= bucketEnd(u, g)
  <1>1. CASE g = "fine"
    BY <1>1 DEF bucketEnd, Size
  <1>2. CASE g = "coarse"
    BY <1>2 DEF bucketEnd, Size
  <1> QED BY <1>1, <1>2 DEF Grains

\* The buckets of a backfill that was read by time t.
LEMMA RebuiltFits ==
    ASSUME NEW c, NEW g \in Grains, NEW partial \in BOOLEAN, NEW u \in Nat, c.t \in Nat, c.t <= u, c.got \in Nat
    PROVE  StoredFits(Rebuilt(c, g, partial), broker(c.got), bucketEnd(u, g))
  <1> DEFINE minutes == {x \in 0 .. c.t : c.from <= x}
             point == [m \in minutes |-> [t |-> bucketEnd(m, g), src |-> c.got, partial |-> partial]]
  <1>1. IsFiniteSet(minutes)
    <2>1. minutes \subseteq 0 .. c.t
      OBVIOUS
    <2>2. IsFiniteSet(0 .. c.t)
      BY c.t \in Int, 0 \in Int, FS_Interval
    <2> QED BY <2>1, <2>2, FS_Subset
  <1>2. Rebuilt(c, g, partial) = Range(point)
    BY DEF Rebuilt, Range
  <1>3. \A m \in minutes : /\ bucketEnd(m, g) \in Int /\ bucketEnd(m, g) <= bucketEnd(u, g)
    BY BucketEnds
  <1>4. \A m \in minutes : point[m] = [t |-> bucketEnd(m, g), src |-> c.got, partial |-> partial]
    OBVIOUS
  <1>5. Fits(Range(point), broker(c.got), bucketEnd(u, g)) /\ OnePerStamp(Range(point))
    <2>1. Range(point) = {point[m] : m \in minutes}
      BY DEF Range
    <2>2. \A m \in minutes : point[m] \in Point /\ point[m].t = bucketEnd(m, g) /\ point[m].src = c.got
      BY <1>3 DEF Point
    <2>3. \A m, k \in minutes : point[m].t = point[k].t => point[m] = point[k]
      BY <1>4, <2>2
    <2> HIDE DEF minutes, point
    <2> QED BY <1>3, <2>1, <2>2, <2>3 DEF Fits, OnePerStamp
  <1>6. IsFiniteSet(Range(point))
    <2>1. point \in [minutes -> Point]
      BY <1>3 DEF Point
    <2> HIDE DEF minutes, point
    <2> QED BY <1>1, <2>1, Fun_RangeProperties, FS_Surjection
  <1> HIDE DEF point
  <1> QED BY <1>2, <1>5, <1>6 DEF StoredFits

\* What the cache holds after a frame was mirrored.
LEMMA MirrorFits ==
    ASSUME NEW stored, NEW before, NEW after, NEW write, NEW now, NEW b, NEW top,
           StoredFits(stored, b, top), StoredFits(write, b, top)
    PROVE  StoredFits(Mirror(stored, before, after, write, now), b, top)
  <1> DEFINE put == {p \in write : p.t <= now}
             gone == Stamps(before) \ Stamps(after)
             rest == {p \in stored : p.t \notin gone /\ \A q \in put : q.t # p.t}
  <1>1. Mirror(stored, before, after, write, now) = rest \cup put
    BY DEF Mirror
  <1>2. rest \subseteq stored /\ put \subseteq write
    OBVIOUS
  <1>3. \A p \in rest, q \in put : p.t # q.t
    OBVIOUS
  <1> HIDE DEF rest, put
  <1>4. StoredFits(rest, b, top) /\ StoredFits(put, b, top)
    BY <1>2, SubsetFits
  <1> QED BY <1>1, <1>3, <1>4, UnionFits

LEMMA LastTwoFits ==
    ASSUME NEW s, NEW b, NEW top, FrameFits(s, b, top)
    PROVE  StoredFits(lastTwo(s), b, top)
  <1> DEFINE m == IF Len(s) > 1 THEN Len(s) - 1 ELSE 1
             u == SubSeq(s, m, Len(s))
  <1>1. /\ s \in Seq(Point) /\ Len(s) \in Nat /\ m \in Int /\ \A k \in m .. Len(s) : k \in 1 .. Len(s)
        /\ \A k \in m .. Len(s) : s[k] \in Point
    BY RangeOfPoints DEF FrameFits
  <1>2. /\ u \in Seq(Point) /\ Len(u) = (IF m <= Len(s) THEN Len(s) - m + 1 ELSE 0)
        /\ \A i \in 1 .. Len(s) - m + 1 : u[i] = s[m + i - 1]
    <2> HIDE DEF m
    <2> QED BY <1>1, SubSeqProperties
  <1>3. Range(u) \subseteq Range(s)
    <2>0. Range(u) = {u[k] : k \in 1 .. Len(u)}
      <3> HIDE DEF u
      <3> QED BY <1>2, RangeOfPoints
    <2> SUFFICES ASSUME NEW k \in 1 .. Len(u) PROVE u[k] \in Range(s)
      <3> HIDE DEF u
      <3> QED BY <2>0
    <2>1. k \in 1 .. Len(s) - m + 1 /\ m + k - 1 \in 1 .. Len(s)
      BY <1>1, <1>2
    <2> QED BY <1>1, <1>2, <2>1, RangeOfPoints
  <1>4. FrameFits(u, b, top)
    BY <1>2, <1>3 DEF FrameFits, Fits
  <1> HIDE DEF u
  <1>5. lastTwo(s) = lastWrites(u)
    BY DEF lastTwo, u, m
  <1> QED BY <1>4, <1>5, OwnFits

\* The two halves of a live capture: the tail is updated or a bucket appended; the stale prefix.
Tailed(s, p) == IF s # <<>> /\ Last(s).t = p.t THEN [s EXCEPT ![Len(s)] = p] ELSE Append(s, p)
StalePrefix(a, floor) == {k \in 1 .. Len(a) : \A m \in 1 .. k : a[m].t < floor}
Pruned(a, floor) == SubSeq(a, Cardinality(StalePrefix(a, floor)) + 1, Len(a))

\* A frame after its tail was updated, or a bucket appended, but before it is pruned.
LEMMA TailFits ==
    ASSUME NEW s, NEW b, NEW top \in Int, FrameFits(s, b, top), NEW p \in Point, broker(p.src) = b, p.t <= top,
           NEW a, a = Tailed(s, p)
    PROVE  /\ FrameFits(a, b, top)
           /\ p.t = top /\ InOrder(s) => InOrder(a)
           /\ \A k \in 1 .. Len(s) : (k \in 1 .. Len(a) /\ a[k] = s[k]) \/ s[k].t = p.t
  <1>1. s \in Seq(Point) /\ Len(s) \in Nat /\ \A k \in 1 .. Len(s) : s[k] \in Point /\ s[k] \in Range(s)
    BY RangeOfPoints DEF FrameFits
  <1>2. CASE s # <<>> /\ Last(s).t = p.t
    <2>1. a = [s EXCEPT ![Len(s)] = p] /\ Len(s) \in 1 .. Len(s) /\ s[Len(s)].t = p.t
      BY <1>1, <1>2 DEF Last, Tailed
    <2>2. a \in Seq(Point) /\ Len(a) = Len(s) /\ a[Len(s)] = p /\ \A k \in 1 .. Len(s) : k # Len(s) => a[k] = s[k]
      BY <1>1, <2>1
    <2>3. \A k \in 1 .. Len(s) : a[k].t = s[k].t
      BY <2>1, <2>2
    <2>4. Range(a) = {a[k] : k \in 1 .. Len(a)}
      BY <2>2, RangeOfPoints
    <2>5. \A k \in 1 .. Len(a) : a[k] = p \/ a[k] \in Range(s)
      BY <1>1, <2>2
    <2>6. FrameFits(a, b, top)
      BY <2>2, <2>4, <2>5 DEF FrameFits, Fits
    <2> QED BY <1>1, <2>1, <2>2, <2>3, <2>6 DEF InOrder
  <1>3. CASE ~(s # <<>> /\ Last(s).t = p.t)
    <2>1. a = Append(s, p)
      BY <1>3 DEF Tailed
    <2>2. a \in Seq(Point) /\ Len(a) = Len(s) + 1 /\ a[Len(s) + 1] = p /\ \A k \in 1 .. Len(s) : a[k] = s[k]
      BY <1>1, <2>1
    <2>3. \A k \in 1 .. Len(a) : a[k] = p \/ a[k] \in Range(s)
      BY <1>1, <2>2
    <2>4. Range(a) = {a[k] : k \in 1 .. Len(a)}
      BY <2>2, RangeOfPoints
    <2>5. FrameFits(a, b, top)
      BY <2>2, <2>3, <2>4 DEF FrameFits, Fits
    <2>6. ASSUME p.t = top, InOrder(s) PROVE InOrder(a)
      <3>1. \A k \in 1 .. Len(s) : s[k].t <= top /\ s[k].t \in Int
        BY <1>1 DEF FrameFits, Fits, Point
      <3>2. s # <<>> => s[Len(s)].t < top /\ Len(s) \in 1 .. Len(s)
        BY <1>1, <1>3, <2>6, <3>1 DEF Last
      <3>3. \A k \in 1 .. Len(s) : s[k].t < top
        BY <1>1, <2>6, <3>1, <3>2 DEF InOrder
      <3> QED BY <1>1, <2>2, <2>6, <3>3 DEF InOrder
    <2> QED BY <1>1, <2>2, <2>5, <2>6
  <1> QED BY <1>2, <1>3

\* The stale prefix is counted: what is not stale comes after it.
LEMMA StaleCount ==
    ASSUME NEW a \in Seq(Point), NEW floor \in Int
    PROVE  /\ Cardinality(StalePrefix(a, floor)) \in 0 .. Len(a)
           /\ \A k \in 1 .. Len(a) : a[k].t >= floor => Cardinality(StalePrefix(a, floor)) < k
  <1>1. Len(a) \in Nat /\ \A k \in 1 .. Len(a) : a[k].t \in Int
    BY RangeOfPoints DEF Point
  <1>2. Cardinality(StalePrefix(a, floor)) \in 0 .. Len(a)
    <2>1. 1 \in Int /\ Len(a) \in Int
      BY <1>1
    <2>2. IsFiniteSet(1 .. Len(a)) /\ Cardinality(1 .. Len(a)) = Len(a)
      <3>1. IsFiniteSet(1 .. Len(a)) /\ Cardinality(1 .. Len(a)) = IF 1 > Len(a) THEN 0 ELSE Len(a) - 1 + 1
        BY <2>1, FS_Interval
      <3> QED BY <1>1, <3>1
    <2>3. StalePrefix(a, floor) \subseteq 1 .. Len(a)
      BY DEF StalePrefix
    <2>4. IsFiniteSet(StalePrefix(a, floor)) /\ Cardinality(StalePrefix(a, floor)) <= Len(a)
      BY <2>2, <2>3, FS_Subset
    <2>5. Cardinality(StalePrefix(a, floor)) \in Nat
      BY <2>4, FS_CardinalityType
    <2> QED BY <1>1, <2>4, <2>5
  <1>3. ASSUME NEW k \in 1 .. Len(a), a[k].t >= floor PROVE Cardinality(StalePrefix(a, floor)) < k
    <2>1. ASSUME NEW j \in StalePrefix(a, floor) PROVE j \in 1 .. k - 1
      <3>1. j \in 1 .. Len(a) /\ \A m \in 1 .. j : a[m].t < floor
        BY <2>1 DEF StalePrefix
      <3>2. k \notin 1 .. j
        BY <1>1, <1>3, <3>1
      <3> QED BY <1>1, <3>1, <3>2
    <2>2. 1 \in Int /\ k - 1 \in Int /\ k - 1 >= 0
      BY <1>1
    <2>3. IsFiniteSet(1 .. k - 1) /\ Cardinality(1 .. k - 1) = k - 1
      BY <2>2, FS_Interval
    <2>4. StalePrefix(a, floor) \subseteq 1 .. k - 1
      BY <2>1
    <2>5. Cardinality(StalePrefix(a, floor)) <= k - 1
      BY <2>3, <2>4, FS_Subset
    <2> QED BY <1>1, <1>2, <2>5
  <1> QED BY <1>2, <1>3

\* A frame without its first n points.
LEMMA DropIndices ==
    ASSUME NEW a \in Seq(Point), NEW n \in 0 .. Len(a), NEW rest \in Seq(Point),
           Len(rest) = (IF n + 1 <= Len(a) THEN Len(a) - (n + 1) + 1 ELSE 0),
           \A i \in 1 .. Len(a) - (n + 1) + 1 : rest[i] = a[(n + 1) + i - 1]
    PROVE  Len(rest) = Len(a) - n /\ \A i \in 1 .. Len(rest) : n + i \in 1 .. Len(a) /\ rest[i] = a[n + i]
  <1>1. Len(a) \in Nat
    OBVIOUS
  <1>2. Len(rest) = Len(a) - n
    BY <1>1
  <1>3. ASSUME NEW i \in 1 .. Len(rest) PROVE n + i \in 1 .. Len(a) /\ rest[i] = a[n + i]
    <2>1. i \in 1 .. Len(a) - (n + 1) + 1 /\ (n + 1) + i - 1 = n + i /\ n + i \in 1 .. Len(a)
      BY <1>1, <1>2
    <2> QED BY <2>1
  <1> QED BY <1>2, <1>3

LEMMA DropFirst ==
    ASSUME NEW a \in Seq(Point), NEW n \in 0 .. Len(a), NEW rest, rest = SubSeq(a, n + 1, Len(a))
    PROVE  /\ rest \in Seq(Point) /\ Len(rest) = Len(a) - n
           /\ \A i \in 1 .. Len(rest) : n + i \in 1 .. Len(a) /\ rest[i] = a[n + i]
  <1>1. Len(a) \in Nat /\ \A k \in 1 .. Len(a) : a[k] \in Point
    BY RangeOfPoints
  <1>2. n + 1 \in Int /\ Len(a) \in Int /\ \A i \in n + 1 .. Len(a) : a[i] \in Point
    BY <1>1
  <1>3. /\ rest \in Seq(Point) /\ Len(rest) = (IF n + 1 <= Len(a) THEN Len(a) - (n + 1) + 1 ELSE 0)
        /\ \A i \in 1 .. Len(a) - (n + 1) + 1 : rest[i] = a[(n + 1) + i - 1]
    BY <1>2, SubSeqProperties
  <1> QED BY <1>3, DropIndices

\* Pruning drops a prefix of stale points.
LEMMA PrunedFits ==
    ASSUME NEW a, NEW b, NEW top, FrameFits(a, b, top), NEW floor \in Int
    PROVE  /\ FrameFits(Pruned(a, floor), b, top)
           /\ InOrder(a) => InOrder(Pruned(a, floor))
           /\ \A k \in 1 .. Len(a) : a[k].t >= floor => a[k] \in Range(Pruned(a, floor))
  <1>1. a \in Seq(Point) /\ Len(a) \in Nat /\ \A k \in 1 .. Len(a) : a[k] \in Point /\ a[k] \in Range(a)
    BY RangeOfPoints DEF FrameFits
  <1>2. PICK n \in 0 .. Len(a) : n = Cardinality(StalePrefix(a, floor))
    BY <1>1, StaleCount
  <1>3. \A k \in 1 .. Len(a) : a[k].t >= floor => n < k
    BY <1>1, <1>2, StaleCount
  <1> DEFINE rest == Pruned(a, floor)
  <1>4. /\ rest \in Seq(Point) /\ Len(rest) = Len(a) - n
        /\ \A i \in 1 .. Len(rest) : n + i \in 1 .. Len(a) /\ rest[i] = a[n + i]
    BY <1>1, <1>2, DropFirst DEF Pruned
  <1> HIDE DEF rest
  <1>5. Range(rest) = {rest[k] : k \in 1 .. Len(rest)}
    BY <1>4, RangeOfPoints
  <1>7. FrameFits(rest, b, top)
    BY <1>1, <1>4, <1>5 DEF FrameFits, Fits
  <1>8. InOrder(a) => InOrder(rest)
    <2> SUFFICES ASSUME InOrder(a), NEW j \in 1 .. Len(rest), NEW k \in 1 .. Len(rest), j < k
                 PROVE  rest[j].t < rest[k].t
      BY DEF InOrder
    <2>1. n + j < n + k
      BY <1>1, <1>4
    <2> QED BY <1>4, <2>1 DEF InOrder
  <1>9. ASSUME NEW k \in 1 .. Len(a), a[k].t >= floor PROVE a[k] \in Range(rest)
    <2>1. n < k
      BY <1>3, <1>9
    <2>2. k - n \in 1 .. Len(rest) /\ n + (k - n) = k
      BY <1>1, <1>4, <2>1
    <2> QED BY <1>4, <1>5, <2>2
  <1> QED BY <1>7, <1>8, <1>9 DEF rest

\* A capture at t into a frame of time u: in order, and the complete points stay, but for the
\* bucket of the capture, when the capture is not late.
LEMMA AppendLiveFits ==
    ASSUME NEW s, NEW g \in Grains, NEW t \in Nat, NEW u \in Nat, t <= u, NEW src \in Nat, NEW partial \in BOOLEAN,
           FrameFits(s, broker(src), bucketEnd(u, g))
    PROVE  /\ FrameFits(appendLive(s, g, t, src, partial), broker(src), bucketEnd(u, g))
           /\ t = u /\ InOrder(s) => InOrder(appendLive(s, g, t, src, partial))
           /\ \A p \in Range(s) : p.t >= t - Retention =>
                    p \in Range(appendLive(s, g, t, src, partial)) \/ p.t = bucketEnd(t, g)
  <1>1. PICK p : p = [t |-> bucketEnd(t, g), src |-> src, partial |-> partial]
    OBVIOUS
  <1>2. PICK a : a = Tailed(s, p)
    OBVIOUS
  <1>3. PICK floor \in Int : floor = t - Retention
    BY FrameBounds
  <1>4. PICK new : new = Pruned(a, floor)
    OBVIOUS
  <1>5. appendLive(s, g, t, src, partial) = new
    BY <1>1, <1>2, <1>3, <1>4 DEF appendLive, Tailed, StalePrefix, Pruned
  <1>6. PICK top \in Int : top = bucketEnd(u, g)
    BY BucketEnds
  <1>7. /\ p \in Point /\ broker(p.src) = broker(src) /\ p.t = bucketEnd(t, g) /\ p.t <= top
        /\ t = u => p.t = top
    BY <1>1, <1>6, BucketEnds DEF Point
  <1>8. /\ FrameFits(a, broker(src), top)
        /\ p.t = top /\ InOrder(s) => InOrder(a)
        /\ \A k \in 1 .. Len(s) : (k \in 1 .. Len(a) /\ a[k] = s[k]) \/ s[k].t = p.t
    <2>1. FrameFits(s, broker(src), top)
      BY <1>6
    <2> QED BY <1>2, <1>7, <2>1, TailFits
  <1>9. /\ FrameFits(new, broker(src), top)
        /\ InOrder(a) => InOrder(new)
        /\ \A k \in 1 .. Len(a) : a[k].t >= floor => a[k] \in Range(new)
    BY <1>4, <1>8, PrunedFits
  <1>10. Range(s) = {s[k] : k \in 1 .. Len(s)}
    BY RangeOfPoints DEF FrameFits
  <1> QED BY <1>3, <1>5, <1>6, <1>7, <1>8, <1>9, <1>10

-----------------------------------------------------------------------------
(* Both frames at once                                                     *)

FramesFit(f, b, t) ==
    f \in [Grains -> Seq(Point)] /\ \A g \in Grains : FrameFits(f[g], b, bucketEnd(t, g))
AllInOrder(f) == \A g \in Grains : InOrder(f[g])
AllKeep(f, h, now) == \A g \in Grains : Keeps(f[g], h[g], now)

\* Coarse buckets that fine points close.
LEMMA CoarsenedFits ==
    ASSUME NEW f, NEW b, NEW now \in Nat, FramesFit(f, b, now)
    PROVE  /\ FramesFit(coarsened(f, now), b, now)
           /\ AllInOrder(f) => AllInOrder(coarsened(f, now)) /\ AllKeep(f, coarsened(f, now), now)
  <1> DEFINE closing == {p \in lastWrites(f["fine"]) : p.t % 2 = 0 /\ p.t <= now /\ ~p.partial /\ p.t >= now - Retention}
             fills == {p \in closing : \A q \in lastWrites(f["coarse"]) : q.t = p.t => q.partial}
             rest == {q \in lastWrites(f["coarse"]) : q.t \notin {r.t : r \in fills}}
             all == {p \in fills \cup rest : p.t >= now - Retention}
             top == bucketEnd(now, "coarse")
  <1>1. coarsened(f, now) = IF fills = {} THEN f ELSE [f EXCEPT !["coarse"] = sortedFrame(all)]
    BY DEF coarsened
  <1>2. "fine" \in Grains /\ "coarse" \in Grains /\ \A g \in Grains : g = "fine" \/ g = "coarse"
    BY DEF Grains
  <1>3. AllKeep(f, f, now)
    BY DEF AllKeep, Keeps
  <1>4. CASE fills = {}
    BY <1>1, <1>3, <1>4
  <1>5. CASE fills # {}
    <2>1. StoredFits(fills, b, top)
      <3>1. StoredFits(lastWrites(f["fine"]), b, bucketEnd(now, "fine"))
        BY <1>2, OwnFits DEF FramesFit
      <3>2. fills \subseteq lastWrites(f["fine"])
        OBVIOUS
      <3>3. StoredFits(fills, b, bucketEnd(now, "fine"))
        <4> HIDE DEF fills
        <4> QED BY <3>1, <3>2, SubsetFits
      <3>4. \A p \in fills : p.t <= now
        OBVIOUS
      <3>5. now < top /\ top \in Nat
        BY <1>2, BucketEnds
      <3> HIDE DEF fills, top
      <3> QED BY <3>3, <3>4, <3>5 DEF StoredFits, Fits, Point
    <2>2. StoredFits(lastWrites(f["coarse"]), b, top) /\ lastWrites(f["coarse"]) \subseteq Range(f["coarse"])
          /\ (InOrder(f["coarse"]) => lastWrites(f["coarse"]) = Range(f["coarse"]))
      BY <1>2, OwnFits DEF FramesFit
    <2>3. StoredFits(rest, b, top)
      <3>1. rest \subseteq lastWrites(f["coarse"])
        OBVIOUS
      <3> HIDE DEF rest, top
      <3> QED BY <2>2, <3>1, SubsetFits
    <2>4. \A p \in fills, q \in rest : p.t # q.t
      OBVIOUS
    <2>5. StoredFits(all, b, top)
      <3>1. all \subseteq fills \cup rest
        OBVIOUS
      <3> HIDE DEF all, fills, rest, top
      <3> QED BY <2>1, <2>3, <2>4, <3>1, UnionFits
    <2>6. FrameFits(sortedFrame(all), b, top) /\ InOrder(sortedFrame(all)) /\ Range(sortedFrame(all)) = all
      <3> HIDE DEF all, top
      <3> QED BY <2>5, SortedFits
    <2>7. ASSUME InOrder(f["coarse"]) PROVE Keeps(f["coarse"], sortedFrame(all), now)
      <3> SUFFICES ASSUME NEW p \in Range(f["coarse"]), ~p.partial, p.t >= now - Retention
                   PROVE  \E q \in all : q.t = p.t /\ ~q.partial
        BY <2>6 DEF Keeps
      <3>1. CASE p.t \in {r.t : r \in fills}
        <4>1. PICK r \in fills : r.t = p.t
          BY <3>1
        <4>2. ~r.partial /\ r.t >= now - Retention
          OBVIOUS
        <4>3. r \in all
          BY <4>2
        <4> QED BY <4>1, <4>2, <4>3
      <3>2. CASE p.t \notin {r.t : r \in fills}
        <4>1. p \in lastWrites(f["coarse"])
          BY <2>2, <2>7
        <4> QED BY <3>2, <4>1
      <3> QED BY <3>1, <3>2
    <2> DEFINE h == coarsened(f, now)
    <2>8. /\ h \in [Grains -> Seq(Point)] /\ h["coarse"] = sortedFrame(all) /\ h["fine"] = f["fine"]
      <3>1. h = [f EXCEPT !["coarse"] = sortedFrame(all)]
        BY <1>1, <1>5
      <3>2. sortedFrame(all) \in Seq(Point) /\ f \in [Grains -> Seq(Point)]
        BY <2>6 DEF FrameFits, FramesFit
      <3> HIDE DEF h, all
      <3> QED BY <1>2, <3>1, <3>2
    <2> HIDE DEF h, all, fills, rest, closing
    <2>9. FramesFit(h, b, now)
      BY <1>2, <2>6, <2>8 DEF FramesFit
    <2>10. AllInOrder(f) => AllInOrder(h) /\ AllKeep(f, h, now)
      BY <1>2, <1>3, <2>6, <2>7, <2>8 DEF AllInOrder, AllKeep
    <2> QED BY <2>9, <2>10 DEF h
  <1> QED BY <1>4, <1>5

-----------------------------------------------------------------------------
(* The state                                                               *)

\* Buckets of one broker, as the cache keeps them and a warm load reads them.
LoadFits(l, b, t) == \A g \in Grains : StoredFits(l[g], b, bucketEnd(t, g))

\* A baseline of one broker: every namespace it was read in is the broker's.
BaseFits(h, b) == \A n \in h.src : broker(n) = b

\* A chain belongs to this scope or an earlier one; what it has read is its own broker's.
ChainFits(c, sc, t) ==
    /\ c.pc # "idle" => c.kind # "idle"
    /\ c.scope \in Nat \X Nat /\ c.scope[2] <= sc[2] /\ (c.scope[2] = sc[2] => c.scope = sc)
    /\ c.t \in Nat /\ c.t <= t
    /\ c.pc \in {"captureApply", "backfillApply", "prevApply"} => c.got = c.scope[1]
    /\ c.pc = "warmApply" => c.load # {} /\ \A l \in c.load : LoadFits(l, broker(c.scope[1]), t)
    /\ c.pc \in {"prevApply", "warmApply"} => BaseFits(c.have, broker(c.scope[1]))

ScopeData ==
    /\ clock \in Nat /\ activeNs \in Nat /\ scope \in Nat \X Nat /\ scope[2] >= 1
    /\ FramesFit(frames, broker(scope[1]), clock)
    /\ late \in BOOLEAN /\ (late \/ AllInOrder(frames))
    /\ BaseFits(base, broker(scope[1]))
CacheData ==
    /\ cache = [b \in 0 .. 1 |-> cache[b]] /\ \A b \in 0 .. 1 : LoadFits(cache[b], b, clock)
    /\ storedBase = [b \in 0 .. 1 |-> storedBase[b]] /\ \A b \in 0 .. 1 : BaseFits(storedBase[b], b)
ChainData == chains = [i \in Slots |-> chains[i]] /\ \A i \in Slots : ChainFits(chains[i], scope, clock)
FramesData == family \in {"opt", "fut", "prev"} /\ ScopeData /\ CacheData /\ ChainData

\* The scope stays, or a new epoch begins.
ScopeStep == scope' = scope \/ (scope' \in Nat \X Nat /\ scope'[2] = scope[2] + 1)

LEMMA LaterFits ==
    ASSUME NEW t \in Nat, NEW u \in Nat, t <= u, NEW b
    PROVE  /\ \A l : LoadFits(l, b, t) => LoadFits(l, b, u)
           /\ \A f : FramesFit(f, b, t) => FramesFit(f, b, u)
  <1>1. \A g \in Grains : bucketEnd(t, g) \in Int /\ bucketEnd(u, g) \in Int /\ bucketEnd(t, g) <= bucketEnd(u, g)
    BY BucketEnds
  <1>2. \A P : \A g \in Grains : Fits(P, b, bucketEnd(t, g)) => Fits(P, b, bucketEnd(u, g))
    BY <1>1 DEF Fits, Point
  <1> QED BY <1>2 DEF LoadFits, FramesFit, StoredFits, FrameFits

LEMMA ChainLater ==
    ASSUME NEW c, NEW sc, NEW t \in Nat, ChainFits(c, sc, t), NEW u \in Nat, t <= u,
           NEW sd, sc \in Nat \X Nat, sd = sc \/ (sd \in Nat \X Nat /\ sd[2] = sc[2] + 1)
    PROVE  ChainFits(c, sd, u)
  <1>1. \A l : LoadFits(l, broker(c.scope[1]), t) => LoadFits(l, broker(c.scope[1]), u)
    BY LaterFits
  <1>2. c.scope[2] \in Nat /\ sc[2] \in Nat /\ c.t \in Nat
    BY DEF ChainFits
  <1> QED BY <1>1, <1>2 DEF ChainFits

\* One chain moves.
LEMMA ChainMoves ==
    ASSUME FramesData, ScopeStep, clock' \in Nat, clock <= clock', NEW i \in Slots, NEW c, ChainFits(c, scope', clock'),
           chains' = [chains EXCEPT ![i] = c]
    PROVE  ChainData' /\ chains'[i] = c /\ \A j \in Slots : j # i => chains'[j] = chains[j]
  <1>1. chains'[i] = c /\ \A j \in Slots : j # i => chains'[j] = chains[j]
    BY DEF FramesData, ChainData
  <1>2. chains' = [j \in Slots |-> chains'[j]]
    BY DEF FramesData, ChainData
  <1>3. \A j \in Slots : ChainFits(chains[j], scope', clock')
    BY ChainLater DEF FramesData, ChainData, ScopeData, ScopeStep
  <1> QED BY <1>1, <1>2, <1>3 DEF ChainData

\* A chain that has read nothing.
LEMMA StartedFits ==
    ASSUME NEW kind, kind # "idle", NEW pc, pc \notin {"captureApply", "backfillApply", "prevApply", "warmApply"},
           NEW sc, NEW sd, sc \in Nat \X Nat, sd \in Nat \X Nat, sc[2] <= sd[2], sc[2] = sd[2] => sc = sd,
           NEW t \in Nat, NEW from
    PROVE  ChainFits(Started(kind, pc, sc, from), sd, t)
  BY DEF ChainFits, Started

\* A scope that begins is empty.
LEMMA FreshFits ==
    ASSUME ScopeData, NEW n \in Nat, NEW e \in Nat, e >= 1, FreshScope(n, e), UNCHANGED <<clock, activeNs>>
    PROVE  ScopeData'
  <1>1. \A g \in Grains : NoFrames[g] = <<>> /\ NoFrames \in [Grains -> Seq(Point)]
    BY DEF NoFrames
  <1>2. Range(<<>>) = {} /\ Len(<<>>) = 0
    BY DEF Range
  <1>3. \A b, top : FrameFits(<<>>, b, top) /\ InOrder(<<>>)
    BY <1>2 DEF FrameFits, Fits, InOrder
  <1>4. FramesFit(NoFrames, broker(n), clock) /\ AllInOrder(NoFrames)
    BY <1>1, <1>3 DEF FramesFit, AllInOrder, NoFrames
  <1>5. scope' = <<n, e>> /\ scope' \in Nat \X Nat /\ scope'[1] = n /\ scope'[2] = e
    BY DEF FreshScope
  <1>6. frames' = NoFrames /\ late' = FALSE /\ BaseFits(base', broker(n))
    BY DEF FreshScope, NoBase, BaseFits
  <1> QED BY <1>4, <1>5, <1>6 DEF ScopeData

LEMMA SyncFits ==
    ASSUME ScopeData, syncNamespace \/ resetNamespace \/ UNCHANGED scopeVars, UNCHANGED <<clock, activeNs>>
    PROVE  ScopeData' /\ ScopeStep
  <1>1. CASE resetNamespace
    <2>1. activeNs \in Nat /\ scope[2] + 1 \in Nat /\ scope[2] + 1 >= 1 /\ FreshScope(activeNs, scope[2] + 1)
      BY <1>1 DEF ScopeData, resetNamespace
    <2>2. scope' = <<activeNs, scope[2] + 1>>
      BY <2>1 DEF FreshScope
    <2> QED BY <2>1, <2>2, FreshFits DEF ScopeStep
  <1>2. CASE UNCHANGED scopeVars
    BY <1>2 DEF ScopeData, ScopeStep, scopeVars
  <1> QED BY <1>1, <1>2 DEF syncNamespace

\* What a stage goes on to is not a stage that holds what was read.
Resting == {"warm", "warmCoarsen", "warmEnd", "check", "capture", "backfill", "prev", "coarsen", "done"}

LEMMA AfterRests ==
    ASSUME NEW i
    PROVE  /\ After(i, "capture") \in Resting /\ After(i, "backfill") \in Resting /\ After(i, "prev") \in Resting
           /\ FirstBackfill \in Resting
  BY DEF After, FirstBackfill, Resting

LEMMA ProceedData ==
    ASSUME FramesData, ScopeData', ScopeStep, UNCHANGED clock, NEW i \in Slots, chains[i].pc # "idle",
           NEW pc \in Resting, Proceed(i, pc)
    PROVE  ChainData'
  <1> DEFINE c == chains[i]
             d == Proceeded(c, pc)
  <1>1. ChainFits(c, scope, clock) /\ clock \in Nat /\ scope \in Nat \X Nat
    BY DEF FramesData, ChainData, ScopeData
  <1>2. ChainFits(c, scope', clock')
    BY <1>1, ChainLater DEF ScopeStep
  <1>3. PICK from : d = Started(c.kind, pc, c.scope, from)
    BY DEF Proceeded
  <1>4. ChainFits(d, scope', clock')
    <2>1. c.scope[2] \in Nat /\ c.scope \in Nat \X Nat /\ c.kind # "idle" /\ scope' \in Nat \X Nat /\ clock' \in Nat
      BY <1>1, <1>2 DEF ChainFits, ScopeData
    <2>2. c.scope[2] <= scope'[2] /\ (c.scope[2] = scope'[2] => c.scope = scope')
      BY <1>2 DEF ChainFits
    <2>3. pc \notin {"captureApply", "backfillApply", "prevApply", "warmApply"}
      BY DEF Resting
    <2> HIDE DEF c, d
    <2> QED BY <1>3, <2>1, <2>2, <2>3, StartedFits
  <1>5. chains' = [chains EXCEPT ![i] = d]
    BY DEF Proceed
  <1>6. clock' \in Nat /\ clock <= clock'
    BY <1>1
  <1> HIDE DEF c, d
  <1> QED BY <1>4, <1>5, <1>6, ChainMoves

\* What is read is the broker's of the chain's scope.
LEMMA ReadsData ==
    ASSUME FramesData, UNCHANGED <<clock, scope>>, NEW i \in Slots, chains[i].pc # "idle", beginOperation(i),
           NEW next \in {"captureApply", "backfillApply", "prevApply"}, NEW have, BaseFits(have, broker(scope[1])),
           Reads(i, next, have)
    PROVE  ChainData'
  <1> DEFINE c == chains[i]
             d == [kind |-> c.kind, pc |-> next, scope |-> c.scope, t |-> clock,
                   got |-> activeNs, from |-> c.from, load |-> {}, have |-> have]
  <1>1. ChainFits(c, scope, clock) /\ clock \in Nat
    BY DEF FramesData, ChainData, ScopeData
  <1>2. c.scope[1] = activeNs /\ c.scope = scope
    BY DEF beginOperation, scopeCurrent
  <1>3. ChainFits(d, scope', clock')
    BY <1>1, <1>2 DEF ChainFits
  <1>4. chains' = [chains EXCEPT ![i] = d]
    BY DEF Reads
  <1>5. clock' \in Nat /\ clock <= clock' /\ ScopeStep
    BY <1>1 DEF ScopeStep
  <1> HIDE DEF c, d
  <1> QED BY <1>3, <1>4, <1>5, ChainMoves

\* A chain of the current scope starts.
LEMMA StartData ==
    ASSUME FramesData, ScopeData', ScopeStep, UNCHANGED clock, NEW i \in Slots,
           NEW kind, kind # "idle", NEW pc \in Resting, NEW from,
           chains' = [chains EXCEPT ![i] = Started(kind, pc, scope', from)]
    PROVE  ChainData'
  <1>1. clock' \in Nat /\ clock <= clock' /\ scope' \in Nat \X Nat
    BY DEF FramesData, ScopeData
  <1>2. ChainFits(Started(kind, pc, scope', from), scope', clock')
    <2>1. pc \notin {"captureApply", "backfillApply", "prevApply", "warmApply"}
      BY DEF Resting
    <2>2. scope'[2] <= scope'[2]
      BY <1>1
    <2> QED BY <1>1, <2>1, <2>2, StartedFits
  <1> QED BY <1>1, <1>2, ChainMoves

\* What a frame asks to store is its own points.
LEMMA MirroredFits ==
    ASSUME ScopeData, CacheData, NEW new, NEW write, NEW now, UNCHANGED <<clock, storedBase>>,
           \A g \in Grains : StoredFits(write[g], broker(scope[1]), bucketEnd(clock, g)),
           cache' = mirrored(new, write, now)
    PROVE  CacheData'
  <1> DEFINE b == broker(scope[1])
             put == [g \in Grains |-> Mirror(cache[b][g], frames[g], new[g], write[g], now)]
  <1>1. b \in 0 .. 1
    BY DEF ScopeData, broker
  <1>2. cache' = [cache EXCEPT ![b] = put]
    BY DEF mirrored
  <1>3. LoadFits(put, b, clock)
    <2> SUFFICES ASSUME NEW g \in Grains PROVE StoredFits(put[g], b, bucketEnd(clock, g))
      BY DEF LoadFits
    <2>1. StoredFits(cache[b][g], b, bucketEnd(clock, g))
      BY <1>1 DEF CacheData, LoadFits
    <2>2. StoredFits(write[g], b, bucketEnd(clock, g))
      OBVIOUS
    <2>3. put[g] = Mirror(cache[b][g], frames[g], new[g], write[g], now)
      OBVIOUS
    <2> HIDE DEF b, put
    <2> QED BY <2>1, <2>2, <2>3, MirrorFits
  <1> HIDE DEF b, put
  <1> QED BY <1>1, <1>2, <1>3 DEF CacheData

-----------------------------------------------------------------------------
(* The data of every step                                                  *)

\* Steps that leave the frames, or the scope, behind.
LEMMA SameFramesKeep ==
    ASSUME frames' = frames \/ scope' # scope
    PROVE  KeepsComplete
  BY DEF KeepsComplete

LEMMA SyncKeeps ==
    ASSUME ScopeData, syncNamespace \/ resetNamespace \/ UNCHANGED scopeVars
    PROVE  KeepsComplete
  <1>1. CASE resetNamespace
    <2>1. scope' = <<activeNs, scope[2] + 1>>
      BY <1>1 DEF resetNamespace, FreshScope
    <2>2. scope'[2] = scope[2] + 1 /\ scope[2] \in Nat
      BY <2>1 DEF ScopeData
    <2>3. scope' # scope
      BY <2>2
    <2> QED BY <2>3, SameFramesKeep
  <1>2. CASE UNCHANGED scopeVars
    BY <1>2, SameFramesKeep DEF scopeVars
  <1> QED BY <1>1, <1>2 DEF syncNamespace

\* A stage that is refused.
LEMMA SkipData ==
    ASSUME FramesData, NEW i \in Slots, chains[i].pc # "idle", NEW stage \in {"capture", "backfill", "prev"},
           Skip(i, stage), UNCHANGED <<envVars, cache>>
    PROVE  FramesData' /\ KeepsComplete
  <1>1. UNCHANGED <<family, clock, activeNs, cache, storedBase>> /\ syncNamespace /\ Proceed(i, After(i, stage))
    BY DEF Skip, envVars
  <1>2. ScopeData' /\ ScopeStep
    BY <1>1, SyncFits DEF FramesData
  <1>3. ChainData'
    BY <1>1, <1>2, AfterRests, ProceedData
  <1> QED BY <1>1, <1>2, <1>3, SyncKeeps DEF FramesData, CacheData

LEMMA NoBaseFits ==
    ASSUME NEW b
    PROVE  BaseFits(NoBase, b)
  BY DEF NoBase, BaseFits

LEMMA CaptureOiData ==
    ASSUME FramesData, NEW i \in Slots, captureOi(i)
    PROVE  FramesData' /\ KeepsComplete
  <1>1. CASE Skip(i, "capture")
    BY <1>1, SkipData DEF captureOi
  <1>2. CASE beginOperation(i) /\ Reads(i, "captureApply", NoBase) /\ UNCHANGED scopeVars
    <2>1. UNCHANGED <<family, clock, activeNs, scope, cache, storedBase>> /\ chains[i].pc # "idle"
      BY <1>2 DEF captureOi, envVars, scopeVars
    <2>2. ScopeData' /\ ScopeStep /\ KeepsComplete
      BY <1>2, <2>1, SyncFits, SyncKeeps DEF FramesData
    <2>3. ChainData'
      BY <1>2, <2>1, NoBaseFits, ReadsData
    <2> QED BY <2>1, <2>2, <2>3 DEF FramesData, CacheData
  <1> QED BY <1>1, <1>2 DEF captureOi

LEMMA BackfillBeginData ==
    ASSUME FramesData, NEW i \in Slots, backfillBegin(i)
    PROVE  FramesData' /\ KeepsComplete
  <1>1. CASE Skip(i, "backfill")
    BY <1>1, SkipData DEF backfillBegin
  <1>2. CASE ~Skip(i, "backfill")
    <2>1. UNCHANGED <<family, clock, activeNs, scope, cache, storedBase, frames, base, late>> /\ chains[i].pc # "idle"
          /\ beginOperation(i) /\ Reads(i, "backfillApply", NoBase)
      BY <1>2 DEF backfillBegin, envVars
    <2>2. ChainData'
      BY <2>1, NoBaseFits, ReadsData
    <2> QED BY <2>1, <2>2, SameFramesKeep DEF FramesData, CacheData, ScopeData
  <1> QED BY <1>1, <1>2

LEMMA PrevCloseBeginData ==
    ASSUME FramesData, NEW i \in Slots, prevCloseBegin(i)
    PROVE  FramesData' /\ KeepsComplete
  <1>1. CASE Skip(i, "prev")
    BY <1>1, SkipData DEF prevCloseBegin
  <1>2. CASE ~Skip(i, "prev")
    <2>1. UNCHANGED <<family, clock, activeNs, scope, cache, storedBase, frames, base, late>> /\ chains[i].pc # "idle"
          /\ beginOperation(i) /\ Reads(i, "prevApply", base)
      BY <1>2 DEF prevCloseBegin, envVars
    <2>2. ChainData'
      BY <2>1, ReadsData DEF FramesData, ScopeData
    <2> QED BY <2>1, <2>2, SameFramesKeep DEF FramesData, CacheData, ScopeData
  <1> QED BY <1>1, <1>2

LEMMA PrevCloseApplyData ==
    ASSUME FramesData, NEW i \in Slots, prevCloseApply(i)
    PROVE  FramesData' /\ KeepsComplete
  <1>1. UNCHANGED <<family, clock, activeNs, scope, cache, frames, late>> /\ chains[i].pc = "prevApply"
        /\ Proceed(i, After(i, "prev"))
    BY DEF prevCloseApply
  <1>2. BaseFits(base', broker(scope[1])) /\ CacheData'
    <2>1. CASE UNCHANGED <<base, storedBase>>
      BY <1>1, <2>1 DEF FramesData, ScopeData, CacheData
    <2>2. CASE ~UNCHANGED <<base, storedBase>>
      <3>1. PICK found \in baselines(chains[i]) :
               /\ scopeCurrent(chains[i].scope) /\ base' = found
               /\ storedBase' = [storedBase EXCEPT ![broker(scope[1])] = found]
        BY <2>2 DEF prevCloseApply, persistPrevClose
      <3>2. chains[i].scope = scope /\ chains[i].got = scope[1] /\ BaseFits(chains[i].have, broker(scope[1]))
        BY <1>1, <3>1 DEF FramesData, ChainData, ChainFits, scopeCurrent
      <3>3. found.src \subseteq {scope[1]} \cup chains[i].have.src
        BY <3>2 DEF baselines
      <3>4. BaseFits(found, broker(scope[1]))
        BY <3>2, <3>3 DEF BaseFits
      <3>5. broker(scope[1]) \in 0 .. 1
        BY DEF FramesData, ScopeData, broker
      <3>6. /\ storedBase' = [b \in 0 .. 1 |-> storedBase'[b]]
            /\ \A b \in 0 .. 1 : storedBase'[b] = IF b = broker(scope[1]) THEN found ELSE storedBase[b]
        BY <3>1, <3>5 DEF FramesData, CacheData
      <3> QED BY <1>1, <3>1, <3>4, <3>6 DEF FramesData, CacheData
    <2> QED BY <2>1, <2>2
  <1>3. ScopeData' /\ ScopeStep
    BY <1>1, <1>2 DEF FramesData, ScopeData, ScopeStep
  <1>4. ChainData'
    BY <1>1, <1>3, AfterRests, ProceedData
  <1> QED BY <1>1, <1>2, <1>3, <1>4, SameFramesKeep DEF FramesData

\* New frames in the same scope, stored at once or not at all.
LEMMA NewFramesData ==
    ASSUME FramesData, NEW f, FramesFit(f, broker(scope[1]), clock), frames' = f,
           UNCHANGED <<family, clock, activeNs, scope, base, storedBase>>, late' \in BOOLEAN, late' \/ AllInOrder(f),
           NEW w, NEW now, cache' = cache \/ cache' = mirrored(f, w, now), w = whole(f) \/ w = tails(f), ChainData'
    PROVE  FramesData'
  <1>1. \A g \in Grains : StoredFits(w[g], broker(scope[1]), bucketEnd(clock, g))
    <2> SUFFICES ASSUME NEW g \in Grains PROVE StoredFits(w[g], broker(scope[1]), bucketEnd(clock, g))
      OBVIOUS
    <2>1. FrameFits(f[g], broker(scope[1]), bucketEnd(clock, g))
      BY DEF FramesFit
    <2>2. w[g] = lastWrites(f[g]) \/ w[g] = lastTwo(f[g])
      BY DEF whole, tails
    <2> QED BY <2>1, <2>2, OwnFits, LastTwoFits
  <1>2. CacheData'
    <2>1. CASE cache' = cache
      BY <2>1 DEF FramesData, CacheData
    <2>2. CASE cache' = mirrored(f, w, now)
      BY <1>1, <2>2, MirroredFits DEF FramesData
    <2> QED BY <2>1, <2>2
  <1>3. ScopeData'
    BY DEF FramesData, ScopeData
  <1> QED BY <1>2, <1>3 DEF FramesData

\* The frames of a live capture.
LEMMA CapturedFits ==
    ASSUME FramesData, NEW i \in Slots, chains[i].pc = "captureApply", scopeCurrent(chains[i].scope),
           NEW partial \in BOOLEAN, NEW f, f = captured(chains[i], partial)
    PROVE  /\ FramesFit(f, broker(scope[1]), clock)
           /\ late \/ (chains[i].t < clock /\ family # "prev") \/ AllInOrder(f)
           /\ (chains[i].t = clock \/ family = "prev")
                => \A g \in Grains : \A p \in Range(frames[g]) :
                       p.t >= clock - Retention => p \in Range(f[g]) \/ p.t = bucketEnd(chains[i].t, g)
  <1> DEFINE t == chains[i].t
             src == chains[i].got
  <1>1. t \in Nat /\ t <= clock /\ clock \in Nat /\ src \in Nat /\ src = scope[1]
        /\ \A g \in Grains : FrameFits(frames[g], broker(src), bucketEnd(clock, g)) /\ frames[g] \in Seq(Point)
    BY DEF FramesData, ChainData, ChainFits, scopeCurrent, ScopeData, FramesFit
  <1>2. CASE family = "prev"
    <2>2. f = frames
      BY <1>2 DEF FramesData, ScopeData, FramesFit, captured
    <2> QED BY <1>2, <2>2 DEF FramesData, ScopeData
  <1>3. CASE family # "prev"
    <2> DEFINE part == IF family = "opt" THEN partial ELSE FALSE
    <2>1. part \in BOOLEAN /\ f = [g \in Grains |-> appendLive(frames[g], g, t, src, part)]
      BY <1>3 DEF FramesData, appendFutLive, captured
    <2> HIDE DEF part, t, src
    <2>0. t \in Nat /\ src \in Nat /\ t <= clock /\ clock \in Nat
          /\ \A g \in Grains : FrameFits(frames[g], broker(src), bucketEnd(clock, g))
      BY <1>1
    <2>2. ASSUME NEW g \in Grains
          PROVE  /\ FrameFits(f[g], broker(src), bucketEnd(clock, g)) /\ f[g] \in Seq(Point)
                 /\ t = clock /\ InOrder(frames[g]) => InOrder(f[g])
                 /\ \A p \in Range(frames[g]) :
                        p.t >= t - Retention => p \in Range(f[g]) \/ p.t = bucketEnd(t, g)
      <3>1. f[g] = appendLive(frames[g], g, t, src, part)
        BY <2>1
      <3>2. FrameFits(f[g], broker(src), bucketEnd(clock, g))
        <4>1. FrameFits(frames[g], broker(src), bucketEnd(clock, g))
          BY <2>0
        <4>2. FrameFits(appendLive(frames[g], g, t, src, part), broker(src), bucketEnd(clock, g))
          BY <2>0, <2>1, <4>1, AppendLiveFits
        <4> QED BY <3>1, <4>2
      <3>3. t = clock /\ InOrder(frames[g]) => InOrder(f[g])
        BY <2>0, <2>1, <3>1, AppendLiveFits
      <3>4. \A p \in Range(frames[g]) : p.t >= t - Retention => p \in Range(f[g]) \/ p.t = bucketEnd(t, g)
        <4>1. FrameFits(frames[g], broker(src), bucketEnd(clock, g))
          BY <2>0
        <4>2. \A p \in Range(frames[g]) :
                  p.t >= t - Retention => p \in Range(appendLive(frames[g], g, t, src, part)) \/ p.t = bucketEnd(t, g)
          BY <2>0, <2>1, <4>1, AppendLiveFits
        <4> QED BY <3>1, <4>2
      <3> QED BY <3>2, <3>3, <3>4 DEF FrameFits
    <2>3. FramesFit(f, broker(scope[1]), clock)
      <3>1. f = [g \in Grains |-> f[g]]
        BY <2>1
      <3> QED BY <1>1, <2>2, <3>1 DEF FramesFit
    <2>4. ~late /\ t = clock => AllInOrder(f)
      BY <2>2 DEF AllInOrder, FramesData, ScopeData
    <2>5. late \/ (t < clock /\ family # "prev") \/ AllInOrder(f)
      BY <1>1, <1>3, <2>4 DEF FramesData, ScopeData
    <2> QED BY <1>3, <2>2, <2>3, <2>5 DEF t
  <1> QED BY <1>2, <1>3

LEMMA CaptureApplyData ==
    ASSUME FramesData, NEW i \in Slots, captureApply(i)
    PROVE  FramesData' /\ KeepsComplete
  <1>1. UNCHANGED <<family, clock, activeNs, storedBase>> /\ chains[i].pc = "captureApply"
    BY DEF captureApply, envVars
  <1>2. CASE ~scopeCurrent(chains[i].scope)
    <2>1. UNCHANGED scopeVars /\ UNCHANGED cache /\ Proceed(i, After(i, "capture"))
      BY <1>2 DEF captureApply
    <2>2. ScopeData' /\ ScopeStep /\ KeepsComplete
      BY <1>1, <2>1, SyncFits, SyncKeeps DEF FramesData
    <2>3. ChainData'
      BY <1>1, <2>1, <2>2, AfterRests, ProceedData
    <2> QED BY <1>1, <2>1, <2>2, <2>3 DEF FramesData, CacheData
  <1>3. CASE scopeCurrent(chains[i].scope)
    <2>1. PICK f : \E partial \in BOOLEAN :
             /\ f = captured(chains[i], partial) /\ frames' = f
             /\ cache' = mirrored(f, tails(f), chains[i].t)
             /\ late' = (late \/ (chains[i].t < clock /\ family # "prev"))
             /\ AskPrevClose(i)
             /\ UNCHANGED <<scope, base>>
      <3>1. \E partial \in BOOLEAN :
             /\ frames' = captured(chains[i], partial)
             /\ cache' = mirrored(frames', tails(frames'), chains[i].t)
             /\ late' = (late \/ (chains[i].t < clock /\ family # "prev"))
             /\ AskPrevClose(i)
             /\ UNCHANGED <<scope, base>>
        BY <1>3 DEF captureApply
      <3> QED BY <3>1
    <2>2. /\ FramesFit(f, broker(scope[1]), clock)
          /\ late \/ (chains[i].t < clock /\ family # "prev") \/ AllInOrder(f)
          /\ (chains[i].t = clock \/ family = "prev")
                => \A g \in Grains : \A p \in Range(frames[g]) :
                       p.t >= clock - Retention => p \in Range(f[g]) \/ p.t = bucketEnd(chains[i].t, g)
      BY <1>1, <1>3, <2>1, CapturedFits
    <2>3. late' \in BOOLEAN /\ (late' \/ AllInOrder(f))
      BY <2>1, <2>2 DEF FramesData, ScopeData
    <2>4. ScopeData' /\ ScopeStep
      BY <1>1, <2>1, <2>2, <2>3 DEF FramesData, ScopeData, ScopeStep
    <2>5. ChainData'
      <3>1. CASE Proceed(i, After(i, "capture"))
        BY <1>1, <2>4, <3>1, AfterRests, ProceedData
      <3>2. CASE ~Proceed(i, After(i, "capture"))
        <4>1. PICK j \in Slots : /\ chains[j].kind = "idle"
                                 /\ chains' = [chains EXCEPT ![i] = Proceeded(@, After(i, "capture")),
                                                             ![j] = Started("prev", "prev", scope, 0)]
          BY <2>1, <3>2 DEF AskPrevClose
        <4>2. PICK mid : mid = [chains EXCEPT ![i] = Proceeded(@, After(i, "capture"))]
          OBVIOUS
        <4>3. ChainFits(Proceeded(chains[i], After(i, "capture")), scope, clock)
          <5>1. ChainFits(chains[i], scope, clock) /\ clock \in Nat /\ scope \in Nat \X Nat /\ chains[i].pc # "idle"
            BY <1>1 DEF FramesData, ChainData, ScopeData
          <5>2. After(i, "capture") \notin {"captureApply", "backfillApply", "prevApply", "warmApply"}
            BY AfterRests DEF Resting
          <5>3. chains[i].kind # "idle" /\ chains[i].scope \in Nat \X Nat /\ chains[i].scope[2] <= scope[2]
                /\ (chains[i].scope[2] = scope[2] => chains[i].scope = scope)
            BY <5>1 DEF ChainFits
          <5> QED BY <5>1, <5>2, <5>3, StartedFits DEF Proceeded
        <4>4. ChainFits(Started("prev", "prev", scope, 0), scope, clock)
          <5>1. clock \in Nat /\ scope \in Nat \X Nat /\ scope[2] <= scope[2]
            BY DEF FramesData, ScopeData
          <5> QED BY <5>1, StartedFits
        <4>5. chains' = [mid EXCEPT ![j] = Started("prev", "prev", scope, 0)]
          BY <4>1, <4>2
        <4>6. mid = [k \in Slots |-> mid[k]] /\ \A k \in Slots : ChainFits(mid[k], scope, clock)
          BY <4>2, <4>3 DEF FramesData, ChainData
        <4> QED BY <1>1, <2>1, <4>4, <4>5, <4>6 DEF ChainData
      <3> QED BY <3>1, <3>2
    <2>6. FramesData'
      BY <1>1, <2>1, <2>2, <2>3, <2>5, NewFramesData
    <2>7. KeepsComplete
      <3> SUFFICES ASSUME ~late', NEW g \in Grains, NEW p \in Range(frames[g]), ~p.partial, p.t >= clock - Retention
                   PROVE  \/ \E q \in Range(f[g]) : q.t = p.t /\ ~q.partial
                          \/ \E k \in Slots : chains[k].pc = "captureApply" /\ bucketEnd(chains[k].t, g) = p.t
        BY <2>1 DEF KeepsComplete
      <3>1. chains[i].t = clock \/ family = "prev"
        <4>1. chains[i].t \in Nat /\ chains[i].t <= clock /\ clock \in Nat
          BY DEF FramesData, ChainData, ChainFits, ScopeData
        <4>2. late' = (late \/ (chains[i].t < clock /\ family # "prev")) /\ late \in BOOLEAN
          BY <2>1 DEF FramesData, ScopeData
        <4>3. ~(chains[i].t < clock /\ family # "prev")
          BY <4>2
        <4> QED BY <4>1, <4>3
      <3> QED BY <1>1, <2>2, <3>1
    <2> QED BY <2>6, <2>7
  <1> QED BY <1>2, <1>3

\* The frames of a backfill.
LEMMA BackfilledFits ==
    ASSUME FramesData, NEW i \in Slots, chains[i].pc = "backfillApply", scopeCurrent(chains[i].scope),
           NEW partial \in BOOLEAN, NEW f, f = backfilled(chains[i], partial)
    PROVE  /\ FramesFit(f, broker(scope[1]), clock) /\ AllInOrder(f)
           /\ AllInOrder(frames) => AllKeep(frames, f, clock)
  <1> DEFINE c == chains[i]
  <1>1. c.t \in Nat /\ c.t <= clock /\ clock \in Nat /\ c.got \in Nat /\ c.got = scope[1]
        /\ \A g \in Grains : FrameFits(frames[g], broker(c.got), bucketEnd(clock, g))
    BY DEF FramesData, ChainData, ChainFits, scopeCurrent, ScopeData, FramesFit
  <1>2. f = [g \in Grains |-> f[g]]
        /\ \A g \in Grains : \/ f[g] = merged(frames[g], Rebuilt(c, g, partial), clock)
                             \/ f[g] = mergedFut(frames[g], Rebuilt(c, g, FALSE), clock)
    BY DEF backfilled, RebuiltFut
  <1> HIDE DEF c
  <1>3. ASSUME NEW g \in Grains
        PROVE  /\ FrameFits(f[g], broker(c.got), bucketEnd(clock, g)) /\ InOrder(f[g])
               /\ InOrder(frames[g]) => Keeps(frames[g], f[g], clock)
    <2>1. FrameFits(frames[g], broker(c.got), bucketEnd(clock, g))
      BY <1>1
    <2>2. /\ StoredFits(Rebuilt(c, g, partial), broker(c.got), bucketEnd(clock, g))
          /\ StoredFits(Rebuilt(c, g, FALSE), broker(c.got), bucketEnd(clock, g))
      BY <1>1, RebuiltFits
    <2>3. CASE f[g] = merged(frames[g], Rebuilt(c, g, partial), clock)
      BY <2>1, <2>2, <2>3, MergedFits
    <2>4. CASE f[g] = mergedFut(frames[g], Rebuilt(c, g, FALSE), clock)
      BY <2>1, <2>2, <2>4, MergedFutFits
    <2> QED BY <1>2, <2>3, <2>4
  <1>4. FramesFit(f, broker(scope[1]), clock)
    <2>1. \A g \in Grains : f[g] \in Seq(Point)
      BY <1>3 DEF FrameFits
    <2>2. f \in [Grains -> Seq(Point)]
      BY <1>2, <2>1
    <2> QED BY <1>1, <1>3, <2>2 DEF FramesFit
  <1> QED BY <1>3, <1>4 DEF AllInOrder, AllKeep

\* The frames of a warm load.
LEMMA LoadedFits ==
    ASSUME FramesData, NEW i \in Slots, chains[i].pc = "warmApply", scopeCurrent(chains[i].scope),
           NEW f, f = loadedFrames(chains[i])
    PROVE  /\ FramesFit(f, broker(scope[1]), clock) /\ AllInOrder(f)
           /\ AllInOrder(frames) => AllKeep(frames, f, clock)
  <1> DEFINE c == chains[i]
             b == broker(scope[1])
  <1>1. /\ FramesFit(frames, b, clock) /\ c.load # {} /\ \A l \in c.load : LoadFits(l, b, clock)
    BY DEF FramesData, ChainData, ChainFits, scopeCurrent, ScopeData
  <1>2. PICK l : l = (CHOOSE x \in c.load : TRUE) /\ l \in c.load
    BY <1>1
  <1>3. f = [g \in Grains |-> warmMerged(frames[g], l[g])]
    BY <1>2 DEF loadedFrames
  <1> HIDE DEF c, b
  <1>4. ASSUME NEW g \in Grains
        PROVE  /\ FrameFits(f[g], b, bucketEnd(clock, g)) /\ InOrder(f[g])
               /\ InOrder(frames[g]) => Range(frames[g]) \subseteq Range(f[g])
    <2>1. FrameFits(frames[g], b, bucketEnd(clock, g)) /\ StoredFits(l[g], b, bucketEnd(clock, g))
      BY <1>1, <1>2 DEF FramesFit, LoadFits
    <2>2. f[g] = warmMerged(frames[g], l[g])
      BY <1>3
    <2> QED BY <2>1, <2>2, WarmMergedFits
  <1>5. FramesFit(f, b, clock) /\ AllInOrder(f)
    <2>1. \A g \in Grains : f[g] \in Seq(Point)
      BY <1>4 DEF FrameFits
    <2>2. f \in [Grains -> Seq(Point)]
      BY <1>3, <2>1
    <2> QED BY <1>4, <2>2 DEF FramesFit, AllInOrder
  <1>6. AllInOrder(frames) => AllKeep(frames, f, clock)
    BY <1>4 DEF AllKeep, Keeps, AllInOrder
  <1> QED BY <1>5, <1>6 DEF b

\* Frames that keep what is complete keep it.
LEMMA AllKeepComplete ==
    ASSUME FramesData, late' = late, AllInOrder(frames) => AllKeep(frames, frames', clock)
    PROVE  KeepsComplete
  BY DEF KeepsComplete, AllKeep, Keeps, FramesData, ScopeData

LEMMA BackfillApplyData ==
    ASSUME FramesData, NEW i \in Slots, backfillApply(i)
    PROVE  FramesData' /\ KeepsComplete
  <1>1. UNCHANGED <<family, clock, activeNs, scope, base, late, storedBase>> /\ chains[i].pc = "backfillApply"
        /\ Proceed(i, After(i, "backfill")) /\ late \in BOOLEAN /\ (late \/ AllInOrder(frames))
    BY DEF backfillApply, envVars, FramesData, ScopeData
  <1>2. CASE UNCHANGED <<frames, cache>>
    <2>1. ScopeData' /\ ScopeStep
      BY <1>1, <1>2 DEF FramesData, ScopeData, ScopeStep
    <2>2. ChainData'
      BY <1>1, <2>1, AfterRests, ProceedData
    <2> QED BY <1>1, <1>2, <2>1, <2>2, SameFramesKeep DEF FramesData, CacheData
  <1>3. CASE ~UNCHANGED <<frames, cache>>
    <2>1. PICK partial \in BOOLEAN : /\ scopeCurrent(chains[i].scope) /\ frames' = backfilled(chains[i], partial)
                                     /\ cache' = mirrored(frames', whole(frames'), clock)
      BY <1>3 DEF backfillApply
    <2>2. PICK f : f = backfilled(chains[i], partial) /\ frames' = f /\ cache' = mirrored(f, whole(f), clock)
      BY <2>1
    <2>3. /\ FramesFit(f, broker(scope[1]), clock) /\ AllInOrder(f)
          /\ AllInOrder(frames) => AllKeep(frames, f, clock)
      BY <1>1, <2>1, <2>2, BackfilledFits
    <2>4. ScopeData' /\ ScopeStep
      BY <1>1, <2>2, <2>3 DEF FramesData, ScopeData, ScopeStep
    <2>5. ChainData'
      BY <1>1, <2>4, AfterRests, ProceedData
    <2>6. FramesData'
      BY <1>1, <2>2, <2>3, <2>5, NewFramesData
    <2> QED BY <1>1, <2>2, <2>3, <2>6, AllKeepComplete
  <1> QED BY <1>2, <1>3

LEMMA CoarsenData ==
    ASSUME FramesData, NEW i \in Slots, coarsen(i)
    PROVE  FramesData' /\ KeepsComplete
  <1>1. UNCHANGED <<family, clock, activeNs, scope, base, late, storedBase>> /\ chains[i].pc # "idle"
        /\ (Proceed(i, "done") \/ Proceed(i, "warmEnd"))
        /\ late \in BOOLEAN /\ (late \/ AllInOrder(frames)) /\ clock \in Nat
        /\ FramesFit(frames, broker(scope[1]), clock)
    BY DEF coarsen, envVars, FramesData, ScopeData
  <1>2. PICK f : f = coarsened(frames, clock) /\ frames' = f /\ (cache' = cache \/ cache' = mirrored(f, whole(f), clock))
    BY DEF coarsen
  <1>3. FramesFit(f, broker(scope[1]), clock) /\ (AllInOrder(frames) => AllInOrder(f) /\ AllKeep(frames, f, clock))
    BY <1>1, <1>2, CoarsenedFits
  <1>4. ScopeData' /\ ScopeStep
    BY <1>1, <1>2, <1>3 DEF FramesData, ScopeData, ScopeStep
  <1>5. ChainData'
    <2>1. "done" \in Resting /\ "warmEnd" \in Resting
      BY DEF Resting
    <2> QED BY <1>1, <1>4, <2>1, ProceedData
  <1>6. FramesData'
    BY <1>1, <1>2, <1>3, <1>5, NewFramesData
  <1> QED BY <1>1, <1>2, <1>3, <1>6, AllKeepComplete

LEMMA WarmApplyData ==
    ASSUME FramesData, NEW i \in Slots, warmApply(i)
    PROVE  FramesData' /\ KeepsComplete
  <1>1. UNCHANGED <<family, clock, activeNs, scope, late, cache, storedBase>> /\ chains[i].pc = "warmApply"
        /\ late \in BOOLEAN /\ (late \/ AllInOrder(frames))
    BY DEF warmApply, envVars, FramesData, ScopeData
  <1>2. "warmCoarsen" \in Resting /\ "warmEnd" \in Resting
    BY DEF Resting
  <1>3. CASE ~scopeCurrent(chains[i].scope)
    <2>1. frames' = frames /\ base' = base /\ Proceed(i, "warmEnd")
      BY <1>3 DEF warmApply
    <2>2. ScopeData' /\ ScopeStep
      BY <1>1, <2>1 DEF FramesData, ScopeData, ScopeStep
    <2>3. ChainData'
      BY <1>1, <1>2, <2>1, <2>2, ProceedData
    <2> QED BY <1>1, <2>1, <2>2, <2>3, SameFramesKeep DEF FramesData, CacheData
  <1>4. CASE scopeCurrent(chains[i].scope)
    <2>1. Proceed(i, "warmCoarsen") /\ Enters(chains[i])
      BY <1>4 DEF warmApply
    <2>2. PICK f : f = loadedFrames(chains[i]) /\ frames' = f
      BY <2>1 DEF Enters
    <2>3. /\ FramesFit(f, broker(scope[1]), clock) /\ AllInOrder(f)
          /\ AllInOrder(frames) => AllKeep(frames, f, clock)
      BY <1>1, <1>4, <2>2, LoadedFits
    <2>4. BaseFits(base', broker(scope[1]))
      <3>1. BaseFits(chains[i].have, broker(scope[1])) /\ BaseFits(base, broker(scope[1]))
        BY <1>1, <1>4 DEF FramesData, ChainData, ChainFits, scopeCurrent, ScopeData
      <3>2. base' = base \/ base' = chains[i].have
        BY <2>1 DEF Enters
      <3> QED BY <3>1, <3>2
    <2>5. ScopeData' /\ ScopeStep
      BY <1>1, <2>2, <2>3, <2>4 DEF FramesData, ScopeData, ScopeStep
    <2>6. ChainData'
      BY <1>1, <1>2, <2>1, <2>5, ProceedData
    <2>7. FramesData'
      BY <1>1, <2>5, <2>6 DEF FramesData, CacheData
    <2> QED BY <1>1, <2>2, <2>3, <2>7, AllKeepComplete
  <1> QED BY <1>3, <1>4

LEMMA WarmEndData ==
    ASSUME FramesData, NEW i \in Slots, warmEnd(i)
    PROVE  FramesData' /\ KeepsComplete
  <1>1. UNCHANGED <<family, clock, activeNs, scope, frames, base, late, cache, storedBase>>
        /\ chains[i].pc # "idle" /\ Proceed(i, "check") /\ "check" \in Resting
    BY DEF warmEnd, envVars, Resting
  <1>2. ScopeData' /\ ScopeStep
    BY <1>1 DEF FramesData, ScopeData, ScopeStep
  <1>3. ChainData'
    BY <1>1, <1>2, ProceedData
  <1> QED BY <1>1, <1>2, <1>3, SameFramesKeep DEF FramesData, CacheData

LEMMA WarmBeginData ==
    ASSUME FramesData, NEW i \in Slots, warmBegin(i)
    PROVE  FramesData' /\ KeepsComplete
  <1>1. UNCHANGED <<family, clock, activeNs, cache, storedBase>> /\ chains[i].pc = "warm"
        /\ "check" \in Resting /\ "warmEnd" \in Resting
    BY DEF warmBegin, envVars, Resting
  <1>2. syncNamespace \/ resetNamespace \/ UNCHANGED scopeVars
    BY DEF warmBegin
  <1>3. ScopeData' /\ ScopeStep /\ KeepsComplete
    BY <1>1, <1>2, SyncFits, SyncKeeps DEF FramesData
  <1>4. ChainData'
    <2>1. CASE Proceed(i, "check") \/ Proceed(i, "warmEnd")
      BY <1>1, <1>3, <2>1, ProceedData
    <2>2. CASE ~(Proceed(i, "check") \/ Proceed(i, "warmEnd"))
      <3> DEFINE b == broker(scope[1])
                 load == readable(cache[b])
      <3>1. /\ beginOperation(i) /\ UNCHANGED scopeVars
            /\ chains' = [chains EXCEPT ![i] = Loaded(chains[i], load, storedBase[b])]
        BY <2>2 DEF warmBegin
      <3>2. chains[i].scope = scope /\ ChainFits(chains[i], scope, clock) /\ scope' = scope
            /\ b \in 0 .. 1 /\ clock \in Nat /\ clock' = clock
        BY <1>1, <3>1 DEF beginOperation, scopeCurrent, FramesData, ChainData, ScopeData, scopeVars, broker
      <3>3. LoadFits(load, b, clock) /\ BaseFits(storedBase[b], b)
        <4>1. LoadFits(cache[b], b, clock) /\ BaseFits(storedBase[b], b)
          BY <3>2 DEF FramesData, CacheData
        <4> QED BY <4>1, SubsetFits DEF LoadFits, readable
      <3>4. ChainFits(Loaded(chains[i], load, storedBase[b]), scope', clock')
        <4>1. b = broker(chains[i].scope[1])
          BY <3>2
        <4> HIDE DEF load, b
        <4> QED BY <1>1, <3>2, <3>3, <4>1 DEF Loaded, ChainFits
      <3>5. clock' \in Nat /\ clock <= clock'
        BY <3>2
      <3> HIDE DEF load, b
      <3> QED BY <1>3, <3>1, <3>4, <3>5, ChainMoves
    <2> QED BY <2>1, <2>2
  <1> QED BY <1>1, <1>3, <1>4 DEF FramesData, CacheData

\* The scope of a step that may have counted repairs: synced, or as it was.
LEMMA WindowFits ==
    ASSUME ScopeData, UNCHANGED <<clock, activeNs>>,
           resetNamespace \/ UNCHANGED <<scope, scopeWarm, frames, base, prevAttempts, backfillRunning, prevRunning, late>>
    PROVE  ScopeData' /\ ScopeStep /\ KeepsComplete
  <1>1. CASE resetNamespace
    BY <1>1, SyncFits, SyncKeeps
  <1>2. CASE ~resetNamespace
    BY <1>2, SameFramesKeep DEF ScopeData, ScopeStep
  <1> QED BY <1>1, <1>2

LEMMA CheckData ==
    ASSUME FramesData, NEW i \in Slots, check(i)
    PROVE  FramesData' /\ KeepsComplete
  <1>1. UNCHANGED <<family, clock, activeNs, cache, storedBase>> /\ chains[i].pc = "check" /\ "done" \in Resting /\ "capture" \in Resting
    BY DEF check, envVars, Resting
  <1>2. CASE Proceed(i, "done") /\ UNCHANGED scopeVars
    <2>1. ScopeData' /\ ScopeStep /\ KeepsComplete
      BY <1>1, <1>2, SyncFits, SyncKeeps DEF FramesData
    <2>2. ChainData'
      BY <1>1, <1>2, <2>1, ProceedData
    <2> QED BY <1>1, <2>1, <2>2 DEF FramesData, CacheData
  <1>3. CASE SnapshotFrom(i, "capture") /\ chains[i].kind # "boot" /\ scopeCurrent(chains[i].scope)
    <2>1. UNCHANGED <<scope, scopeWarm, frames, base, prevAttempts, backfillRunning, prevRunning, late>>
          /\ chains' = [chains EXCEPT ![i] = Started(chains[i].kind, "capture", chains[i].scope, backfillFrom)]
      BY <1>3 DEF SnapshotFrom
    <2>2. ScopeData' /\ ScopeStep /\ KeepsComplete
      BY <1>1, <2>1, WindowFits DEF FramesData
    <2>3. chains[i].scope = scope' /\ chains[i].kind # "idle"
      BY <1>1, <1>3, <2>1 DEF scopeCurrent, FramesData, ChainData, ChainFits
    <2>4. ChainData'
      BY <1>1, <2>1, <2>2, <2>3, StartData
    <2> QED BY <1>1, <2>2, <2>4 DEF FramesData, CacheData
  <1>4. CASE /\ resetNamespace \/ UNCHANGED <<scope, scopeWarm, frames, base, prevAttempts, backfillRunning, prevRunning, late>>
             /\ chains' = [chains EXCEPT ![i] = Started("boot", FirstBackfill, scope', backfillFrom)]
    <2>1. ScopeData' /\ ScopeStep /\ KeepsComplete
      BY <1>1, <1>4, WindowFits DEF FramesData
    <2>2. ChainData'
      BY <1>1, <1>4, <2>1, AfterRests, StartData
    <2> QED BY <1>1, <2>1, <2>2 DEF FramesData, CacheData
  <1> QED BY <1>2, <1>3, <1>4 DEF check

LEMMA ChainDoneData ==
    ASSUME FramesData, NEW i \in Slots, chainDone(i)
    PROVE  FramesData' /\ KeepsComplete
  <1>1. UNCHANGED <<family, clock, activeNs, cache, storedBase>> /\ "warm" \in Resting
    BY DEF chainDone, envVars, Resting
  <1>2. syncNamespace \/ UNCHANGED scopeVars
    BY DEF chainDone
  <1>3. ScopeData' /\ ScopeStep /\ KeepsComplete
    BY <1>1, <1>2, SyncFits, SyncKeeps DEF FramesData
  <1>4. CASE chains' = [chains EXCEPT ![i] = Started("recovery", "warm", scope', 0)]
    BY <1>1, <1>3, <1>4, StartData DEF FramesData, CacheData
  <1>5. CASE chains' = [chains EXCEPT ![i] = IdleChain]
    <2>1. clock' \in Nat /\ clock <= clock' /\ scope' \in Nat \X Nat /\ scope'[2] >= 1
      BY <1>1, <1>3 DEF FramesData, ScopeData
    <2>2. ChainFits(IdleChain, scope', clock')
      BY <2>1 DEF ChainFits, IdleChain, Started
    <2>3. ChainData'
      BY <1>3, <1>5, <2>1, <2>2, ChainMoves
    <2> QED BY <1>1, <1>3, <2>3 DEF FramesData, CacheData
  <1> QED BY <1>4, <1>5 DEF chainDone

LEMMA GoAsyncData ==
    ASSUME FramesData, NEW i \in Slots, NEW kind, kind # "idle", NEW pc \in Resting, goAsync(i, kind, pc),
           UNCHANGED <<envVars, cache>>
    PROVE  FramesData' /\ KeepsComplete
  <1>1. UNCHANGED <<family, clock, activeNs, cache, storedBase>> /\ syncNamespace
        /\ chains' = [chains EXCEPT ![i] = Started(kind, pc, scope', 0)]
    BY DEF goAsync, envVars
  <1>2. ScopeData' /\ ScopeStep /\ KeepsComplete
    BY <1>1, SyncFits, SyncKeeps DEF FramesData
  <1>3. ChainData'
    BY <1>1, <1>2, StartData
  <1> QED BY <1>1, <1>2, <1>3 DEF FramesData, CacheData

\* The chains stay while the scope may move on.
LEMMA SyncData ==
    ASSUME FramesData, syncNamespace \/ resetNamespace \/ UNCHANGED scopeVars,
           UNCHANGED <<family, clock, activeNs, cache, storedBase, chains>>
    PROVE  FramesData' /\ KeepsComplete
  <1>1. ScopeData' /\ ScopeStep /\ KeepsComplete
    BY SyncFits, SyncKeeps DEF FramesData
  <1>2. \A j \in Slots : ChainFits(chains[j], scope', clock)
    BY <1>1, ChainLater DEF FramesData, ChainData, ScopeData, ScopeStep
  <1> QED BY <1>1, <1>2 DEF FramesData, CacheData, ChainData

LEMMA StartRecoveryData ==
    ASSUME FramesData, NEW i \in Slots, startRecovery(i), UNCHANGED <<envVars, cache>>
    PROVE  FramesData' /\ KeepsComplete
  <1>1. CASE goAsync(i, "recovery", "warm")
    <2>1. "warm" \in Resting
      BY DEF Resting
    <2> QED BY <1>1, <2>1, GoAsyncData
  <1>2. CASE syncNamespace /\ UNCHANGED chains
    BY <1>2, SyncData DEF envVars
  <1> QED BY <1>1, <1>2 DEF startRecovery

LEMMA GapCheckData ==
    ASSUME FramesData, NEW i \in Slots, gapCheck(i)
    PROVE  FramesData' /\ KeepsComplete
  <1>1. /\ UNCHANGED <<family, clock, activeNs, cache, storedBase>>
        /\ resetNamespace \/ UNCHANGED <<scope, scopeWarm, frames, base, prevAttempts, backfillRunning, prevRunning, late>>
        /\ chains' = [chains EXCEPT ![i] = Started("gap", FirstBackfill, scope', backfillFrom)]
    BY DEF gapCheck, envVars
  <1>2. ScopeData' /\ ScopeStep /\ KeepsComplete
    BY <1>1, WindowFits DEF FramesData
  <1>3. ChainData'
    BY <1>1, <1>2, AfterRests, StartData
  <1> QED BY <1>1, <1>2, <1>3 DEF FramesData, CacheData

LEMMA TickData ==
    ASSUME FramesData, Tick
    PROVE  FramesData' /\ KeepsComplete
  <1>1. clock' = clock + 1 /\ UNCHANGED <<family, activeNs, scope, frames, base, late, cache, storedBase, chains>>
    BY DEF Tick, scopeVars
  <1>2. clock \in Nat /\ clock' \in Nat /\ clock <= clock' /\ scope \in Nat \X Nat
    BY <1>1 DEF FramesData, ScopeData
  <1>3. ScopeData'
    BY <1>1, <1>2, LaterFits DEF FramesData, ScopeData
  <1>4. CacheData'
    BY <1>1, <1>2, LaterFits DEF FramesData, CacheData
  <1>5. \A j \in Slots : ChainFits(chains[j], scope, clock')
    BY <1>2, ChainLater DEF FramesData, ChainData
  <1>6. ChainData'
    BY <1>1, <1>5 DEF FramesData, ChainData
  <1> QED BY <1>1, <1>3, <1>4, <1>6, SameFramesKeep DEF FramesData

LEMMA RestartData ==
    ASSUME FramesData, Restart
    PROVE  FramesData' /\ KeepsComplete
  <1>1. UNCHANGED <<family, clock, activeNs, cache, storedBase>> /\ resetNamespace
        /\ chains' = [i \in Slots |-> IF i = 1 THEN Started("boot", "warm", scope', 0) ELSE IdleChain]
    BY DEF Restart, envVars, resetNamespace
  <1>2. ScopeData' /\ ScopeStep /\ KeepsComplete
    BY <1>1, SyncFits, SyncKeeps DEF FramesData
  <1>3. clock' \in Nat /\ scope' \in Nat \X Nat /\ scope'[2] >= 1
    BY <1>2 DEF ScopeData
  <1>4. ChainFits(IdleChain, scope', clock') /\ ChainFits(Started("boot", "warm", scope', 0), scope', clock')
    BY <1>3 DEF ChainFits, IdleChain, Started
  <1>5. ChainData'
    BY <1>1, <1>4 DEF ChainData
  <1> QED BY <1>1, <1>2, <1>5 DEF FramesData, CacheData

LEMMA PublishData ==
    ASSUME FramesData, Publish
    PROVE  FramesData' /\ KeepsComplete
  <1>1. activeNs' = activeNs + 1 /\ UNCHANGED <<family, clock, scope, frames, base, late, cache, storedBase, chains>>
    BY DEF Publish, scopeVars
  <1> QED BY <1>1, SameFramesKeep DEF FramesData, ScopeData, CacheData, ChainData

LEMMA FramesDataStep ==
    ASSUME FramesData, [FramesNext]_frameVars
    PROVE  FramesData' /\ KeepsComplete
  <1>1. ASSUME NEW i \in Slots, ChainStep(i) PROVE FramesData' /\ KeepsComplete
    BY <1>1, CaptureOiData, CaptureApplyData, BackfillBeginData, BackfillApplyData, PrevCloseBeginData,
       PrevCloseApplyData, CoarsenData, WarmBeginData, WarmApplyData, WarmEndData, CheckData, ChainDoneData DEF ChainStep
  <1>2. ASSUME NEW i \in Slots, captureTick(i) PROVE FramesData' /\ KeepsComplete
    <2>1. "capture" \in Resting
      BY DEF Resting
    <2> QED BY <1>2, <2>1, GoAsyncData DEF captureTick
  <1>3. ASSUME NEW i \in Slots, gapCheck(i) PROVE FramesData' /\ KeepsComplete
    BY <1>3, GapCheckData
  <1>4. ASSUME NEW i \in Slots, OnBrokerReady(i) PROVE FramesData' /\ KeepsComplete
    <2>1. UNCHANGED <<envVars, cache>> /\ UNCHANGED <<family, clock, activeNs, storedBase>>
      BY <1>4 DEF OnBrokerReady, envVars
    <2>2. startRecovery(i) \/ (syncNamespace /\ UNCHANGED chains)
      BY <1>4 DEF OnBrokerReady
    <2> QED BY <2>1, <2>2, StartRecoveryData, SyncData
  <1>5. ASSUME NEW i \in Slots, OnKiteLogin(i) PROVE FramesData' /\ KeepsComplete
    BY <1>5, StartRecoveryData DEF OnKiteLogin
  <1>6. CASE InvalidateNamespace
    BY <1>6, SyncData DEF InvalidateNamespace
  <1>7. CASE UNCHANGED frameVars
    BY <1>7, SyncData DEF frameVars, envVars, scopeVars
  <1> QED BY <1>1, <1>2, <1>3, <1>4, <1>5, <1>6, <1>7, TickData, PublishData, RestartData DEF FramesNext

LEMMA FramesDataInit ==
    ASSUME FramesInit
    PROVE  FramesData
  <1>1. \A g \in Grains : NoFrames[g] = <<>> /\ NoFrames \in [Grains -> Seq(Point)]
    BY DEF NoFrames
  <1>2. Range(<<>>) = {} /\ Len(<<>>) = 0
    BY DEF Range
  <1>3. \A b, top : FrameFits(<<>>, b, top) /\ InOrder(<<>>)
    BY <1>2 DEF FrameFits, Fits, InOrder
  <1>4. FramesFit(NoFrames, broker(0), 0) /\ AllInOrder(NoFrames)
    BY <1>1, <1>3 DEF FramesFit, AllInOrder, NoFrames
  <1>5. scope = <<0, 1>> /\ scope \in Nat \X Nat /\ scope[1] = 0 /\ scope[2] = 1
    BY DEF FramesInit
  <1>6. ScopeData
    <2>1. frames = NoFrames /\ late = FALSE /\ BaseFits(base, broker(scope[1])) /\ clock = 0 /\ activeNs = 0
      BY DEF FramesInit, NoBase, BaseFits
    <2>2. FramesFit(frames, broker(scope[1]), clock) /\ AllInOrder(frames)
      BY <1>4, <1>5, <2>1
    <2>3. clock \in Nat /\ activeNs \in Nat /\ late \in BOOLEAN
      BY <2>1
    <2>4. scope \in Nat \X Nat /\ scope[2] >= 1
      BY <1>5
    <2> QED BY <2>1, <2>2, <2>3, <2>4 DEF ScopeData
  <1>7. CacheData
    <2>1. \A b, top : StoredFits({}, b, top)
      BY FS_EmptySet DEF StoredFits, OnePerStamp, Fits
    <2>2. cache = [b \in 0 .. 1 |-> [g \in Grains |-> {}]] /\ clock = 0
      BY DEF FramesInit
    <2>3. storedBase = [b \in 0 .. 1 |-> NoBase] /\ \A b : BaseFits(NoBase, b)
      BY DEF FramesInit, NoBase, BaseFits
    <2> QED BY <2>1, <2>2, <2>3 DEF CacheData, LoadFits
  <1>8. ChainData
    <2>1. ChainFits(IdleChain, scope, 0) /\ ChainFits(Started("boot", "warm", <<0, 1>>, 0), scope, 0)
      BY <1>5 DEF ChainFits, IdleChain, Started
    <2>2. chains = [i \in Slots |-> IF i = 1 THEN Started("boot", "warm", <<0, 1>>, 0) ELSE IdleChain] /\ clock = 0
      BY DEF FramesInit
    <2> QED BY <2>1, <2>2 DEF ChainData
  <1> QED BY <1>6, <1>7, <1>8 DEF FramesData, FramesInit

-----------------------------------------------------------------------------
(* Single flights and recoveries                                           *)

AtWork(ch, sc, i, pc) == ch[i].scope = sc /\ ch[i].pc = pc

\* A flag is held by the one chain of the scope that is at work, and owned by its epoch.
FlagHeld(flag, owner, pc, ch, sc) ==
    /\ flag = (\E i \in Slots : AtWork(ch, sc, i, pc))
    /\ flag => owner = sc[2]
    /\ \A i, j \in Slots : AtWork(ch, sc, i, pc) /\ AtWork(ch, sc, j, pc) => i = j
FlagsHeld ==
    /\ FlagHeld(backfillRunning, backfillOwner, "backfillApply", chains, scope)
    /\ FlagHeld(prevRunning, prevOwner, "prevApply", chains, scope)

\* A chain that will load the scope.
LoadStages == {"warm", "warmApply", "warmCoarsen", "warmEnd"}
Loading(i) == chains[i].pc \in LoadStages /\ chains[i].scope = scope

\* At most one recovery runs; the scope is the active namespace's, and it is loaded, or something
\* that will see to it is under way.
WarmHeld ==
    /\ recoveryRunning = (\E i \in Slots : chains[i].kind = "recovery")
    /\ \A i, j \in Slots : chains[i].kind = "recovery" /\ chains[j].kind = "recovery" => i = j
    /\ ~switching /\ ~readyPending => scope[1] = activeNs
    /\ \/ scopeWarm \/ \E i \in Slots : Loading(i)
       \/ (recoveryRunning /\ recoveryAgain) \/ switching \/ readyPending \/ dropped

FramesInv == FramesData /\ FlagsHeld /\ WarmHeld

Working == {"backfillApply", "prevApply"}

\* The steps of a flag: it stays with its chains, or a new epoch clears it.
LEMMA HeldStays ==
    ASSUME NEW ch, NEW dh, NEW sc, NEW sd, NEW flag, NEW flagN, NEW owner, NEW ownerN, NEW pc,
           sc[2] \in Nat, \A j \in Slots : ch[j].scope[2] \in Nat /\ ch[j].scope[2] <= sc[2],
           FlagHeld(flag, owner, pc, ch, sc),
           \/ sd = sc /\ flagN = flag /\ ownerN = owner /\ \A j \in Slots : AtWork(ch, sc, j, pc) => dh[j] = ch[j]
           \/ sd[2] = sc[2] + 1 /\ flagN = FALSE,
           \A j \in Slots : dh[j].pc = pc => dh[j] = ch[j]
    PROVE  FlagHeld(flagN, ownerN, pc, dh, sd)
  <1>1. CASE sd = sc /\ flagN = flag /\ ownerN = owner /\ \A j \in Slots : AtWork(ch, sc, j, pc) => dh[j] = ch[j]
    <2>1. \A j \in Slots : AtWork(dh, sd, j, pc) <=> AtWork(ch, sc, j, pc)
      BY <1>1 DEF AtWork
    <2> QED BY <1>1, <2>1 DEF FlagHeld
  <1>2. CASE sd[2] = sc[2] + 1 /\ flagN = FALSE
    <2>1. \A j \in Slots : ~AtWork(dh, sd, j, pc)
      BY <1>2 DEF AtWork
    <2> QED BY <1>2, <2>1 DEF FlagHeld
  <1> QED BY <1>1, <1>2

\* No chain at work moves, and none begins to work.
Quiet == \A j \in Slots : chains'[j] = chains[j] \/ (chains[j].pc \notin Working /\ chains'[j].pc \notin Working)
FlagStep ==
    \/ UNCHANGED <<scope, backfillRunning, prevRunning, backfillOwner, prevOwner>>
    \/ scope'[2] = scope[2] + 1 /\ backfillRunning' = FALSE /\ prevRunning' = FALSE

LEMMA EpochsOfChains ==
    ASSUME FramesData
    PROVE  scope[2] \in Nat /\ \A j \in Slots : chains[j].scope[2] \in Nat /\ chains[j].scope[2] <= scope[2]
  BY DEF FramesData, ScopeData, ChainData, ChainFits

LEMMA QuietFlags ==
    ASSUME FramesData, FlagsHeld, Quiet, FlagStep
    PROVE  FlagsHeld'
  <1>1. \A pc \in Working : /\ \A j \in Slots : AtWork(chains, scope, j, pc) => chains'[j] = chains[j]
                            /\ \A j \in Slots : chains'[j].pc = pc => chains'[j] = chains[j]
    BY DEF Quiet, AtWork
  <1>2. FlagHeld(backfillRunning', backfillOwner', "backfillApply", chains', scope')
    <2>1. "backfillApply" \in Working /\ FlagHeld(backfillRunning, backfillOwner, "backfillApply", chains, scope)
      BY DEF Working, FlagsHeld
    <2>2. (scope' = scope /\ backfillRunning' = backfillRunning /\ backfillOwner' = backfillOwner)
          \/ (scope'[2] = scope[2] + 1 /\ backfillRunning' = FALSE)
      BY DEF FlagStep
    <2> QED BY <1>1, <2>1, <2>2, EpochsOfChains, HeldStays
  <1>3. FlagHeld(prevRunning', prevOwner', "prevApply", chains', scope')
    <2>1. "prevApply" \in Working /\ FlagHeld(prevRunning, prevOwner, "prevApply", chains, scope)
      BY DEF Working, FlagsHeld
    <2>2. (scope' = scope /\ prevRunning' = prevRunning /\ prevOwner' = prevOwner)
          \/ (scope'[2] = scope[2] + 1 /\ prevRunning' = FALSE)
      BY DEF FlagStep
    <2> QED BY <1>1, <2>1, <2>2, EpochsOfChains, HeldStays
  <1> QED BY <1>2, <1>3 DEF FlagsHeld

LEMMA SyncFlags ==
    ASSUME syncNamespace \/ resetNamespace \/ UNCHANGED scopeVars, UNCHANGED ownerVars, scope[2] \in Nat
    PROVE  FlagStep
  <1>1. CASE resetNamespace
    <2>1. scope' = <<activeNs, scope[2] + 1>> /\ backfillRunning' = FALSE /\ prevRunning' = FALSE
      BY <1>1 DEF resetNamespace, FreshScope
    <2> QED BY <2>1 DEF FlagStep
  <1>2. CASE UNCHANGED scopeVars
    BY <1>2 DEF scopeVars, ownerVars, FlagStep
  <1> QED BY <1>1, <1>2 DEF syncNamespace

\* A chain takes a flag that is free.
LEMMA HeldBegins ==
    ASSUME NEW ch, NEW dh, NEW sc, NEW pc, \A j \in Slots : ~AtWork(ch, sc, j, pc),
           NEW i \in Slots, dh[i].pc = pc, dh[i].scope = sc, \A j \in Slots : j # i => dh[j] = ch[j]
    PROVE  FlagHeld(TRUE, sc[2], pc, dh, sc)
  <1>1. \A j \in Slots : AtWork(dh, sc, j, pc) <=> j = i
    BY DEF AtWork
  <1> QED BY <1>1 DEF FlagHeld

\* A chain that ends clears the flag of its own scope, and no other.
LEMMA HeldEnds ==
    ASSUME NEW ch, NEW dh, NEW sc, NEW flag, NEW owner, NEW pc, FlagHeld(flag, owner, pc, ch, sc),
           NEW i \in Slots, ch[i].pc = pc, dh[i].pc # pc, \A j \in Slots : j # i => dh[j] = ch[j],
           ch[i].scope[2] = sc[2] => ch[i].scope = sc
    PROVE  FlagHeld(endBackfill(flag, owner, ch[i].scope[2]), owner, pc, dh, sc)
  <1>1. \A j \in Slots : AtWork(dh, sc, j, pc) <=> (AtWork(ch, sc, j, pc) /\ j # i)
    BY DEF AtWork
  <1>2. CASE ch[i].scope = sc
    <2>1. AtWork(ch, sc, i, pc)
      BY <1>2 DEF AtWork
    <2>2. flag /\ owner = sc[2] /\ \A j \in Slots : AtWork(ch, sc, j, pc) => j = i
      BY <2>1 DEF FlagHeld
    <2>3. endBackfill(flag, owner, ch[i].scope[2]) = FALSE
      BY <1>2, <2>2 DEF endBackfill
    <2> QED BY <1>1, <2>2, <2>3 DEF FlagHeld
  <1>3. CASE ch[i].scope # sc
    <2>1. ~AtWork(ch, sc, i, pc) /\ ch[i].scope[2] # sc[2]
      BY <1>3 DEF AtWork
    <2>2. \A j \in Slots : AtWork(dh, sc, j, pc) <=> AtWork(ch, sc, j, pc)
      BY <1>1, <2>1
    <2>3. flag \in BOOLEAN /\ (flag => owner # ch[i].scope[2])
      BY <2>1 DEF FlagHeld
    <2>4. endBackfill(flag, owner, ch[i].scope[2]) = flag
      BY <2>3 DEF endBackfill
    <2> QED BY <2>2, <2>4 DEF FlagHeld
  <1> QED BY <1>2, <1>3

\* The same recoveries, the same registry; the scope stays, as warm as it was and with the chains
\* that load it, or it follows the active namespace.
WarmStep ==
    /\ \A j \in Slots : (chains'[j].kind = "recovery") <=> (chains[j].kind = "recovery")
    /\ UNCHANGED <<activeNs, switching, recoveryRunning, recoveryAgain, readyPending, dropped>>
    /\ \/ /\ scope' = scope /\ (scopeWarm => scopeWarm')
          /\ \A j \in Slots : Loading(j) => Loading(j)' \/ scopeWarm' \/ scope[1] # activeNs
       \/ scope[1] # activeNs /\ scope'[1] = activeNs

LEMMA WarmStays ==
    ASSUME WarmHeld, WarmStep
    PROVE  WarmHeld'
  <1>1. recoveryRunning' = (\E i \in Slots : chains'[i].kind = "recovery")
        /\ \A i, j \in Slots : chains'[i].kind = "recovery" /\ chains'[j].kind = "recovery" => i = j
    BY DEF WarmHeld, WarmStep
  <1>2. ~switching' /\ ~readyPending' => scope'[1] = activeNs'
    BY DEF WarmHeld, WarmStep
  <1>3. \/ scopeWarm' \/ (\E i \in Slots : Loading(i)')
        \/ (recoveryRunning' /\ recoveryAgain') \/ switching' \/ readyPending' \/ dropped'
    <2>1. CASE scope[1] # activeNs
      BY <2>1 DEF WarmHeld, WarmStep
    <2>2. CASE scope[1] = activeNs
      <3>1. UNCHANGED <<switching, recoveryRunning, recoveryAgain, readyPending, dropped>> /\ (scopeWarm => scopeWarm')
            /\ \A j \in Slots : Loading(j) => Loading(j)' \/ scopeWarm'
        BY <2>2 DEF WarmStep
      <3> QED BY <3>1 DEF WarmHeld
    <2> QED BY <2>1, <2>2
  <1> QED BY <1>1, <1>2, <1>3 DEF WarmHeld

LEMMA SyncWarm ==
    ASSUME syncNamespace \/ UNCHANGED scopeVars
    PROVE  (scope' = scope /\ scopeWarm' = scopeWarm) \/ (scope[1] # activeNs /\ scope'[1] = activeNs)
  BY DEF syncNamespace, resetNamespace, FreshScope, scopeVars

\* One chain's record is replaced.
LEMMA OneMoves ==
    ASSUME FramesData, NEW i \in Slots, NEW c, chains' = [chains EXCEPT ![i] = c]
    PROVE  chains'[i] = c /\ \A j \in Slots : j # i => chains'[j] = chains[j]
  BY DEF FramesData, ChainData

LEMMA ProceedMoves ==
    ASSUME FramesData, NEW i \in Slots, NEW pc, Proceed(i, pc)
    PROVE  /\ chains'[i].pc = pc /\ chains'[i].kind = chains[i].kind /\ chains'[i].scope = chains[i].scope
           /\ \A j \in Slots : j # i => chains'[j] = chains[j]
  BY DEF FramesData, ChainData, Proceed, Proceeded, Started

LEMMA ReadsMoves ==
    ASSUME FramesData, NEW i \in Slots, NEW next, NEW have, Reads(i, next, have)
    PROVE  /\ chains'[i].pc = next /\ chains'[i].kind = chains[i].kind /\ chains'[i].scope = chains[i].scope
           /\ \A j \in Slots : j # i => chains'[j] = chains[j]
  BY DEF FramesData, ChainData, Reads

\* A chain that neither holds a flag nor loads goes on to a stage that holds none.
LEMMA StageHeld ==
    ASSUME FramesInv, NEW i \in Slots, chains[i].pc \notin Working, chains[i].pc \notin LoadStages,
           chains'[i].pc \notin Working, (chains'[i].kind = "recovery") <=> (chains[i].kind = "recovery"),
           \A j \in Slots : j # i => chains'[j] = chains[j],
           UNCHANGED <<activeNs, switching, recoveryRunning, recoveryAgain, readyPending, dropped>>, FlagStep,
           (scope' = scope /\ scopeWarm' = scopeWarm) \/ (scope[1] # activeNs /\ scope'[1] = activeNs)
    PROVE  FlagsHeld' /\ WarmHeld'
  <1>1. Quiet
    BY DEF Quiet
  <1>2. WarmStep
    BY DEF WarmStep, Loading
  <1> QED BY <1>1, <1>2, QuietFlags, WarmStays DEF FramesInv

LEMMA SkipHeld ==
    ASSUME FramesInv, NEW i \in Slots, NEW stage \in {"capture", "backfill", "prev"}, chains[i].pc = stage,
           Skip(i, stage), UNCHANGED <<envVars, ownerVars, recoveryVars>>
    PROVE  FlagsHeld' /\ WarmHeld'
  <1>1. syncNamespace /\ Proceed(i, After(i, stage)) /\ After(i, stage) \in Resting
    BY AfterRests DEF Skip
  <1>2. FlagStep
    BY <1>1, SyncFlags, EpochsOfChains DEF FramesInv
  <1>3. UNCHANGED <<activeNs, switching, recoveryRunning, recoveryAgain, readyPending, dropped>>
    BY DEF envVars, recoveryVars
  <1>4. chains[i].pc \notin Working /\ chains[i].pc \notin LoadStages /\ After(i, stage) \notin Working
    BY <1>1 DEF Working, Resting, LoadStages
  <1> QED BY <1>1, <1>2, <1>3, <1>4, ProceedMoves, SyncWarm, StageHeld DEF FramesInv

LEMMA CaptureOiHeld ==
    ASSUME FramesInv, NEW i \in Slots, captureOi(i)
    PROVE  FlagsHeld' /\ WarmHeld'
  <1>1. CASE Skip(i, "capture")
    BY <1>1, SkipHeld DEF captureOi
  <1>2. CASE Reads(i, "captureApply", NoBase) /\ UNCHANGED scopeVars
    <2>1. FlagStep
      BY <1>2, SyncFlags, EpochsOfChains DEF captureOi, FramesInv
    <2>2. UNCHANGED <<activeNs, switching, recoveryRunning, recoveryAgain, readyPending, dropped>>
          /\ chains[i].pc = "capture"
      BY DEF captureOi, envVars, recoveryVars
    <2>3. chains[i].pc \notin Working /\ chains[i].pc \notin LoadStages /\ "captureApply" \notin Working
      BY <2>2 DEF Working, LoadStages
    <2> QED BY <1>2, <2>1, <2>2, <2>3, ReadsMoves, SyncWarm, StageHeld DEF FramesInv
  <1> QED BY <1>1, <1>2 DEF captureOi

LEMMA CaptureApplyHeld ==
    ASSUME FramesInv, NEW i \in Slots, captureApply(i)
    PROVE  FlagsHeld' /\ WarmHeld'
  <1>1. /\ UNCHANGED <<activeNs, switching, recoveryRunning, recoveryAgain, readyPending, dropped>>
        /\ chains[i].pc = "captureApply" /\ UNCHANGED <<scope, scopeWarm, backfillRunning, prevRunning>>
        /\ UNCHANGED <<backfillOwner, prevOwner>>
    BY DEF captureApply, envVars, recoveryVars, scopeVars, ownerVars
  <1>2. FlagStep /\ chains[i].pc \notin Working /\ chains[i].pc \notin LoadStages
    BY <1>1 DEF FlagStep, Working, LoadStages
  <1>3. After(i, "capture") \notin Working
    BY AfterRests DEF Resting, Working
  <1>4. CASE Proceed(i, After(i, "capture"))
    BY <1>1, <1>2, <1>3, <1>4, ProceedMoves, StageHeld DEF FramesInv
  <1>5. CASE ~Proceed(i, After(i, "capture"))
    <2>1. PICK j \in Slots : /\ chains[j].kind = "idle"
                             /\ chains' = [chains EXCEPT ![i] = Proceeded(@, After(i, "capture")),
                                                         ![j] = Started("prev", "prev", scope, 0)]
      BY <1>5 DEF captureApply, AskPrevClose
    <2>2. j # i /\ chains[j].pc = "idle"
      BY <1>1, <2>1 DEF FramesInv, FramesData, ChainData, ChainFits
    <2>3. /\ chains'[i] = Proceeded(chains[i], After(i, "capture")) /\ chains'[j] = Started("prev", "prev", scope, 0)
          /\ \A k \in Slots : k # i /\ k # j => chains'[k] = chains[k]
      BY <2>1, <2>2 DEF FramesInv, FramesData, ChainData
    <2>4. /\ chains'[i].pc \notin Working /\ chains'[i].kind = chains[i].kind
          /\ chains'[j].pc \notin Working /\ chains[j].pc \notin Working
          /\ chains'[j].kind # "recovery" /\ chains[j].kind # "recovery"
      BY <1>3, <2>1, <2>2, <2>3 DEF Proceeded, Started, Working
    <2>5. Quiet
      BY <1>2, <2>3, <2>4 DEF Quiet
    <2>6. \A k \in Slots : Loading(k) => Loading(k)'
      BY <1>1, <1>2, <2>2, <2>3 DEF Loading, LoadStages
    <2>7. \A k \in Slots : (chains'[k].kind = "recovery") <=> (chains[k].kind = "recovery")
      BY <2>3, <2>4
    <2>8. WarmStep
      BY <1>1, <2>6, <2>7 DEF WarmStep
    <2> QED BY <1>2, <2>5, <2>8, QuietFlags, WarmStays DEF FramesInv
  <1> QED BY <1>4, <1>5

\* The two flags: what a step of one says of both.
LEMMA OtherFlag ==
    ASSUME FramesInv, NEW flag, NEW owner, NEW pc \in Working, FlagHeld(flag, owner, pc, chains, scope), scope' = scope,
           \A j \in Slots : chains'[j] = chains[j] \/ (chains[j].pc # pc /\ chains'[j].pc # pc)
    PROVE  FlagHeld(flag, owner, pc, chains', scope')
  <1>1. \A j \in Slots : AtWork(chains', scope', j, pc) <=> AtWork(chains, scope, j, pc)
    BY DEF AtWork
  <1> QED BY <1>1 DEF FlagHeld

LEMMA BackfillBeginHeld ==
    ASSUME FramesInv, NEW i \in Slots, backfillBegin(i)
    PROVE  FlagsHeld' /\ WarmHeld'
  <1>1. CASE Skip(i, "backfill") /\ UNCHANGED backfillOwner
    BY <1>1, SkipHeld DEF backfillBegin, ownerVars
  <1>2. CASE ~(Skip(i, "backfill") /\ UNCHANGED backfillOwner)
    <2>1. /\ chains[i].pc = "backfill" /\ beginOperation(i) /\ ~backfillRunning
          /\ backfillRunning' = TRUE /\ backfillOwner' = scope[2] /\ Reads(i, "backfillApply", NoBase)
          /\ UNCHANGED <<scope, scopeWarm, prevRunning, prevOwner>>
          /\ UNCHANGED <<activeNs, switching, recoveryRunning, recoveryAgain, readyPending, dropped>>
      BY <1>2 DEF backfillBegin, envVars, recoveryVars
    <2>2. /\ chains'[i].pc = "backfillApply" /\ chains'[i].kind = chains[i].kind /\ chains'[i].scope = scope
          /\ \A j \in Slots : j # i => chains'[j] = chains[j]
      BY <2>1, ReadsMoves DEF FramesInv, beginOperation, scopeCurrent
    <2>3. FlagHeld(backfillRunning', backfillOwner', "backfillApply", chains', scope')
      <3>1. \A j \in Slots : ~AtWork(chains, scope, j, "backfillApply")
        BY <2>1 DEF FramesInv, FlagsHeld, FlagHeld
      <3>2. FlagHeld(TRUE, scope[2], "backfillApply", chains', scope)
        BY <2>1, <2>2, <3>1, HeldBegins
      <3> QED BY <2>1, <3>2
    <2>4. FlagHeld(prevRunning', prevOwner', "prevApply", chains', scope')
      BY <2>1, <2>2, OtherFlag DEF FramesInv, FlagsHeld, Working
    <2>5. WarmStep
      BY <2>1, <2>2 DEF WarmStep, Loading, LoadStages
    <2> QED BY <2>3, <2>4, <2>5, WarmStays DEF FramesInv, FlagsHeld
  <1> QED BY <1>1, <1>2

LEMMA PrevCloseBeginHeld ==
    ASSUME FramesInv, NEW i \in Slots, prevCloseBegin(i)
    PROVE  FlagsHeld' /\ WarmHeld'
  <1>1. CASE Skip(i, "prev") /\ UNCHANGED prevOwner
    BY <1>1, SkipHeld DEF prevCloseBegin, ownerVars
  <1>2. CASE ~(Skip(i, "prev") /\ UNCHANGED prevOwner)
    <2>1. /\ chains[i].pc = "prev" /\ beginOperation(i) /\ ~prevRunning
          /\ prevRunning' = TRUE /\ prevOwner' = scope[2] /\ Reads(i, "prevApply", base)
          /\ UNCHANGED <<scope, scopeWarm, backfillRunning, backfillOwner>>
          /\ UNCHANGED <<activeNs, switching, recoveryRunning, recoveryAgain, readyPending, dropped>>
      BY <1>2 DEF prevCloseBegin, envVars, recoveryVars
    <2>2. /\ chains'[i].pc = "prevApply" /\ chains'[i].kind = chains[i].kind /\ chains'[i].scope = scope
          /\ \A j \in Slots : j # i => chains'[j] = chains[j]
      BY <2>1, ReadsMoves DEF FramesInv, beginOperation, scopeCurrent
    <2>3. FlagHeld(prevRunning', prevOwner', "prevApply", chains', scope')
      <3>1. \A j \in Slots : ~AtWork(chains, scope, j, "prevApply")
        BY <2>1 DEF FramesInv, FlagsHeld, FlagHeld
      <3>2. FlagHeld(TRUE, scope[2], "prevApply", chains', scope)
        BY <2>1, <2>2, <3>1, HeldBegins
      <3> QED BY <2>1, <3>2
    <2>4. FlagHeld(backfillRunning', backfillOwner', "backfillApply", chains', scope')
      BY <2>1, <2>2, OtherFlag DEF FramesInv, FlagsHeld, Working
    <2>5. WarmStep
      BY <2>1, <2>2 DEF WarmStep, Loading, LoadStages
    <2> QED BY <2>3, <2>4, <2>5, WarmStays DEF FramesInv, FlagsHeld
  <1> QED BY <1>1, <1>2

LEMMA BackfillApplyHeld ==
    ASSUME FramesInv, NEW i \in Slots, backfillApply(i)
    PROVE  FlagsHeld' /\ WarmHeld'
  <1>1. /\ chains[i].pc = "backfillApply" /\ Proceed(i, After(i, "backfill"))
        /\ backfillRunning' = endBackfill(backfillRunning, backfillOwner, chains[i].scope[2])
        /\ UNCHANGED <<scope, scopeWarm, prevRunning, prevOwner, backfillOwner>>
        /\ UNCHANGED <<activeNs, switching, recoveryRunning, recoveryAgain, readyPending, dropped>>
    BY DEF backfillApply, envVars, recoveryVars, ownerVars
  <1>2. /\ chains'[i].pc \notin Working /\ chains'[i].kind = chains[i].kind
        /\ \A j \in Slots : j # i => chains'[j] = chains[j]
    BY <1>1, ProceedMoves, AfterRests DEF FramesInv, Resting, Working
  <1>3. FlagHeld(backfillRunning', backfillOwner', "backfillApply", chains', scope')
    <2>1. chains[i].scope[2] = scope[2] => chains[i].scope = scope
      BY DEF FramesInv, FramesData, ChainData, ChainFits
    <2>2. chains'[i].pc # "backfillApply"
      BY <1>2 DEF Working
    <2>3. FlagHeld(backfillRunning, backfillOwner, "backfillApply", chains, scope)
      BY DEF FramesInv, FlagsHeld
    <2> QED BY <1>1, <1>2, <2>1, <2>2, <2>3, HeldEnds
  <1>4. FlagHeld(prevRunning', prevOwner', "prevApply", chains', scope')
    BY <1>1, <1>2, OtherFlag DEF FramesInv, FlagsHeld, Working
  <1>5. WarmStep
    BY <1>1, <1>2 DEF WarmStep, Loading, LoadStages
  <1> QED BY <1>3, <1>4, <1>5, WarmStays DEF FramesInv, FlagsHeld

LEMMA PrevCloseApplyHeld ==
    ASSUME FramesInv, NEW i \in Slots, prevCloseApply(i)
    PROVE  FlagsHeld' /\ WarmHeld'
  <1>1. /\ chains[i].pc = "prevApply" /\ Proceed(i, After(i, "prev"))
        /\ prevRunning' = endBackfill(prevRunning, prevOwner, chains[i].scope[2])
        /\ UNCHANGED <<scope, scopeWarm, backfillRunning, prevOwner, backfillOwner>>
        /\ UNCHANGED <<activeNs, switching, recoveryRunning, recoveryAgain, readyPending, dropped>>
    BY DEF prevCloseApply, recoveryVars, ownerVars
  <1>2. /\ chains'[i].pc \notin Working /\ chains'[i].kind = chains[i].kind
        /\ \A j \in Slots : j # i => chains'[j] = chains[j]
    BY <1>1, ProceedMoves, AfterRests DEF FramesInv, Resting, Working
  <1>3. FlagHeld(prevRunning', prevOwner', "prevApply", chains', scope')
    <2>1. chains[i].scope[2] = scope[2] => chains[i].scope = scope
      BY DEF FramesInv, FramesData, ChainData, ChainFits
    <2>2. chains'[i].pc # "prevApply"
      BY <1>2 DEF Working
    <2>3. FlagHeld(prevRunning, prevOwner, "prevApply", chains, scope)
      BY DEF FramesInv, FlagsHeld
    <2> QED BY <1>1, <1>2, <2>1, <2>2, <2>3, HeldEnds
  <1>4. FlagHeld(backfillRunning', backfillOwner', "backfillApply", chains', scope')
    BY <1>1, <1>2, OtherFlag DEF FramesInv, FlagsHeld, Working
  <1>5. WarmStep
    BY <1>1, <1>2 DEF WarmStep, Loading, LoadStages
  <1> QED BY <1>3, <1>4, <1>5, WarmStays DEF FramesInv, FlagsHeld

\* A chain that loads goes on loading.
LEMMA LoadHeld ==
    ASSUME FramesInv, NEW i \in Slots, chains[i].pc \in LoadStages, NEW pc \in LoadStages, Proceed(i, pc),
           UNCHANGED <<scope, scopeWarm, backfillRunning, prevRunning, prevOwner, backfillOwner>>,
           UNCHANGED <<activeNs, switching, recoveryRunning, recoveryAgain, readyPending, dropped>>
    PROVE  FlagsHeld' /\ WarmHeld'
  <1>1. /\ chains'[i].pc = pc /\ chains'[i].kind = chains[i].kind /\ chains'[i].scope = chains[i].scope
        /\ \A j \in Slots : j # i => chains'[j] = chains[j]
    BY ProceedMoves DEF FramesInv
  <1>2. FlagStep /\ Quiet
    BY <1>1 DEF FlagStep, Quiet, Working, LoadStages
  <1>3. WarmStep
    BY <1>1 DEF WarmStep, Loading
  <1> QED BY <1>2, <1>3, QuietFlags, WarmStays DEF FramesInv

LEMMA CoarsenHeld ==
    ASSUME FramesInv, NEW i \in Slots, coarsen(i)
    PROVE  FlagsHeld' /\ WarmHeld'
  <1>1. /\ UNCHANGED <<scope, scopeWarm, backfillRunning, prevRunning, prevOwner, backfillOwner>>
        /\ UNCHANGED <<activeNs, switching, recoveryRunning, recoveryAgain, readyPending, dropped>>
    BY DEF coarsen, envVars, recoveryVars, ownerVars
  <1>2. CASE chains[i].pc = "coarsen" /\ Proceed(i, "done")
    <2>1. FlagStep /\ chains[i].pc \notin Working /\ "done" \notin Working /\ chains[i].pc \notin LoadStages
      BY <1>1, <1>2 DEF FlagStep, Working, LoadStages
    <2> QED BY <1>1, <1>2, <2>1, ProceedMoves, StageHeld DEF FramesInv
  <1>3. CASE chains[i].pc = "warmCoarsen" /\ Proceed(i, "warmEnd")
    BY <1>1, <1>3, LoadHeld DEF LoadStages
  <1> QED BY <1>2, <1>3 DEF coarsen

\* The warm load begins, or finds its scope gone or warm already.
LEMMA WarmBeginHeld ==
    ASSUME FramesInv, NEW i \in Slots, warmBegin(i)
    PROVE  FlagsHeld' /\ WarmHeld'
  <1>1. /\ chains[i].pc = "warm" /\ UNCHANGED ownerVars
        /\ UNCHANGED <<activeNs, switching, recoveryRunning, recoveryAgain, readyPending, dropped>>
    BY DEF warmBegin, envVars, recoveryVars
  <1>2. syncNamespace \/ UNCHANGED scopeVars
    BY DEF warmBegin
  <1>3. FlagStep
    BY <1>1, <1>2, SyncFlags, EpochsOfChains DEF FramesInv
  <1>4. CASE UNCHANGED scopeVars /\ Proceed(i, "warmEnd")
    BY <1>1, <1>4, LoadHeld DEF LoadStages, scopeVars, ownerVars
  <1>5. CASE UNCHANGED scopeVars /\ \E load, have : chains' = [chains EXCEPT ![i] = Loaded(chains[i], load, have)]
    <2>1. PICK load, have : chains' = [chains EXCEPT ![i] = Loaded(chains[i], load, have)]
      BY <1>5
    <2>2. chains'[i] = Loaded(chains[i], load, have) /\ \A j \in Slots : j # i => chains'[j] = chains[j]
      BY <2>1, OneMoves DEF FramesInv
    <2>3. chains'[i].pc = "warmApply" /\ chains'[i].kind = chains[i].kind /\ chains'[i].scope = chains[i].scope
      BY <2>2 DEF Loaded
    <2>4. Quiet
      BY <1>1, <2>2, <2>3 DEF Quiet, Working
    <2>5. WarmStep
      BY <1>1, <1>5, <2>2, <2>3 DEF WarmStep, Loading, LoadStages, scopeVars
    <2> QED BY <1>3, <2>4, <2>5, QuietFlags, WarmStays DEF FramesInv
  <1>6. CASE /\ (~beginOperation(i) /\ syncNamespace) \/ (scopeWarm /\ UNCHANGED scopeVars)
             /\ Proceed(i, "check")
    <2>1. /\ chains'[i].pc = "check" /\ chains'[i].kind = chains[i].kind
          /\ \A j \in Slots : j # i => chains'[j] = chains[j]
      BY <1>6, ProceedMoves DEF FramesInv
    <2>2. Quiet
      BY <1>1, <2>1 DEF Quiet, Working
    <2>3. (scope' = scope /\ scopeWarm' = scopeWarm) \/ (scope[1] # activeNs /\ scope'[1] = activeNs)
      BY <1>2, SyncWarm
    <2>4. \A j \in Slots : j # i => (Loading(j) /\ scope' = scope => Loading(j)')
      BY <2>1 DEF Loading
    <2>5. Loading(i) => scopeWarm \/ scope[1] # activeNs
      BY <1>6 DEF Loading, beginOperation, scopeCurrent
    <2>6. WarmStep
      BY <1>1, <2>1, <2>3, <2>4, <2>5 DEF WarmStep
    <2> QED BY <1>3, <2>2, <2>6, QuietFlags, WarmStays DEF FramesInv
  <1> QED BY <1>4, <1>5, <1>6 DEF warmBegin

LEMMA WarmApplyHeld ==
    ASSUME FramesInv, NEW i \in Slots, warmApply(i)
    PROVE  FlagsHeld' /\ WarmHeld'
  <1>1. /\ chains[i].pc = "warmApply" /\ (Proceed(i, "warmCoarsen") \/ Proceed(i, "warmEnd"))
        /\ UNCHANGED <<scope, scopeWarm, backfillRunning, prevRunning, prevOwner, backfillOwner>>
        /\ UNCHANGED <<activeNs, switching, recoveryRunning, recoveryAgain, readyPending, dropped>>
    BY DEF warmApply, envVars, recoveryVars, ownerVars
  <1> QED BY <1>1, LoadHeld DEF LoadStages

LEMMA WarmEndHeld ==
    ASSUME FramesInv, NEW i \in Slots, warmEnd(i)
    PROVE  FlagsHeld' /\ WarmHeld'
  <1>1. /\ chains[i].pc = "warmEnd" /\ Proceed(i, "check")
        /\ UNCHANGED <<scope, backfillRunning, prevRunning, prevOwner, backfillOwner>>
        /\ UNCHANGED <<activeNs, switching, recoveryRunning, recoveryAgain, readyPending, dropped>>
        /\ (scopeWarm => scopeWarm') /\ (scopeCurrent(chains[i].scope) => scopeWarm')
    BY DEF warmEnd, envVars, recoveryVars, ownerVars
  <1>2. /\ chains'[i].pc = "check" /\ chains'[i].kind = chains[i].kind
        /\ \A j \in Slots : j # i => chains'[j] = chains[j]
    BY <1>1, ProceedMoves DEF FramesInv
  <1>3. FlagStep /\ Quiet
    BY <1>1, <1>2 DEF FlagStep, Quiet, Working
  <1>4. WarmStep
    BY <1>1, <1>2 DEF WarmStep, Loading, scopeCurrent
  <1> QED BY <1>3, <1>4, QuietFlags, WarmStays DEF FramesInv

\* The scope of a chain that takes its window: synced, or counted on.
LEMMA WindowSteps ==
    ASSUME FramesData, UNCHANGED ownerVars,
           \/ scope[1] # activeNs /\ resetNamespace
           \/ UNCHANGED <<scope, scopeWarm, backfillRunning, prevRunning>>
    PROVE  FlagStep /\ ((scope' = scope /\ scopeWarm' = scopeWarm) \/ (scope[1] # activeNs /\ scope'[1] = activeNs))
  <1>1. CASE scope[1] # activeNs /\ resetNamespace
    BY <1>1, SyncFlags, EpochsOfChains DEF resetNamespace, FreshScope
  <1>2. CASE UNCHANGED <<scope, scopeWarm, backfillRunning, prevRunning>>
    BY <1>2 DEF FlagStep, ownerVars
  <1> QED BY <1>1, <1>2

LEMMA CheckHeld ==
    ASSUME FramesInv, NEW i \in Slots, check(i)
    PROVE  FlagsHeld' /\ WarmHeld'
  <1>1. /\ UNCHANGED <<activeNs, switching, recoveryRunning, recoveryAgain, readyPending, dropped>> /\ UNCHANGED ownerVars
        /\ chains[i].pc = "check"
    BY DEF check, envVars
  <1>2. chains[i].pc \notin Working /\ chains[i].pc \notin LoadStages /\ FramesData
    BY <1>1 DEF Working, FramesInv, LoadStages
  <1>3. FlagStep /\ ((scope' = scope /\ scopeWarm' = scopeWarm) \/ (scope[1] # activeNs /\ scope'[1] = activeNs))
    <2>1. \/ scope[1] # activeNs /\ resetNamespace
          \/ UNCHANGED <<scope, scopeWarm, backfillRunning, prevRunning>>
      BY DEF check, SnapshotFrom, scopeVars
    <2> QED BY <1>1, <1>2, <2>1, WindowSteps
  <1>4. /\ chains'[i].pc \notin Working /\ chains'[i].kind = chains[i].kind
        /\ \A j \in Slots : j # i => chains'[j] = chains[j]
    <2>1. CASE Proceed(i, "done")
      BY <1>2, <2>1, ProceedMoves DEF Working
    <2>2. CASE \E pc \in {"capture", FirstBackfill} : \E sc : chains' = [chains EXCEPT ![i] = Started(chains[i].kind, pc, sc, backfillFrom)]
      <3>1. PICK pc \in {"capture", FirstBackfill} : \E sc : chains' = [chains EXCEPT ![i] = Started(chains[i].kind, pc, sc, backfillFrom)]
        BY <2>2
      <3>2. /\ \E sc : chains'[i] = Started(chains[i].kind, pc, sc, backfillFrom)
            /\ \A j \in Slots : j # i => chains'[j] = chains[j]
        <4>1. PICK sc : chains' = [chains EXCEPT ![i] = Started(chains[i].kind, pc, sc, backfillFrom)]
          BY <3>1
        <4>2. chains'[i] = Started(chains[i].kind, pc, sc, backfillFrom) /\ \A j \in Slots : j # i => chains'[j] = chains[j]
          BY <1>2, <4>1, OneMoves
        <4> QED BY <4>2
      <3>3. pc \notin Working
        BY DEF FirstBackfill, Working
      <3> QED BY <3>2, <3>3 DEF Started
    <2>3. CASE chains[i].kind = "boot" /\ chains' = [chains EXCEPT ![i] = Started("boot", FirstBackfill, scope', backfillFrom)]
      BY <2>2, <2>3
    <2>4. CASE SnapshotFrom(i, "capture")
      BY <2>2, <2>4 DEF SnapshotFrom
    <2> QED BY <2>1, <2>3, <2>4 DEF check
  <1> QED BY <1>1, <1>2, <1>3, <1>4, StageHeld

\* A chain that is no recovery starts in a free slot.
LEMMA StartHeld ==
    ASSUME FramesInv, NEW i \in Slots, chains[i] = IdleChain, NEW kind, kind # "recovery", NEW pc \in Resting, NEW from,
           chains' = [chains EXCEPT ![i] = Started(kind, pc, scope', from)],
           UNCHANGED <<activeNs, switching, recoveryRunning, recoveryAgain, readyPending, dropped>>, FlagStep,
           (scope' = scope /\ scopeWarm' = scopeWarm) \/ (scope[1] # activeNs /\ scope'[1] = activeNs)
    PROVE  FlagsHeld' /\ WarmHeld'
  <1>1. chains[i].pc = "idle" /\ chains[i].kind = "idle"
    BY DEF IdleChain, Started
  <1>2. chains'[i] = Started(kind, pc, scope', from) /\ \A j \in Slots : j # i => chains'[j] = chains[j]
    BY OneMoves DEF FramesInv
  <1>3. chains'[i].pc = pc /\ chains'[i].kind = kind
    BY <1>2 DEF Started
  <1>4. chains[i].pc \notin Working /\ chains[i].pc \notin LoadStages /\ chains'[i].pc \notin Working
    BY <1>1, <1>3 DEF Working, Resting, LoadStages
  <1> QED BY <1>1, <1>2, <1>3, <1>4, StageHeld

LEMMA CaptureTickHeld ==
    ASSUME FramesInv, NEW i \in Slots, captureTick(i)
    PROVE  FlagsHeld' /\ WarmHeld'
  <1>1. /\ chains[i] = IdleChain /\ syncNamespace /\ chains' = [chains EXCEPT ![i] = Started("tick", "capture", scope', 0)]
        /\ UNCHANGED <<activeNs, switching, recoveryRunning, recoveryAgain, readyPending, dropped>> /\ UNCHANGED ownerVars
    BY DEF captureTick, goAsync, envVars, recoveryVars
  <1>2. FlagStep
    BY <1>1, SyncFlags, EpochsOfChains DEF FramesInv
  <1>3. "capture" \in Resting
    BY DEF Resting
  <1> QED BY <1>1, <1>2, <1>3, SyncWarm, StartHeld

LEMMA GapCheckHeld ==
    ASSUME FramesInv, NEW i \in Slots, gapCheck(i)
    PROVE  FlagsHeld' /\ WarmHeld'
  <1>1. /\ chains[i] = IdleChain /\ chains' = [chains EXCEPT ![i] = Started("gap", FirstBackfill, scope', backfillFrom)]
        /\ UNCHANGED <<activeNs, switching, recoveryRunning, recoveryAgain, readyPending, dropped>> /\ UNCHANGED ownerVars
        /\ \/ scope[1] # activeNs /\ resetNamespace
           \/ UNCHANGED <<scope, scopeWarm, backfillRunning, prevRunning>>
    BY DEF gapCheck, envVars, recoveryVars
  <1>2. FlagStep /\ ((scope' = scope /\ scopeWarm' = scopeWarm) \/ (scope[1] # activeNs /\ scope'[1] = activeNs))
    BY <1>1, WindowSteps DEF FramesInv
  <1>3. FirstBackfill \in Resting
    BY AfterRests
  <1> QED BY <1>1, <1>2, <1>3, StartHeld

\* What a new recovery says: it will load the scope, and it is the only one.
LEMMA RecoveryBegins ==
    ASSUME FramesInv, NEW i \in Slots, \A j \in Slots : chains[j].kind = "recovery" => j = i,
           chains' = [chains EXCEPT ![i] = Started("recovery", "warm", scope', 0)], recoveryRunning' = TRUE,
           scope'[1] = activeNs'
    PROVE  WarmHeld'
  <1>1. chains'[i] = Started("recovery", "warm", scope', 0) /\ \A j \in Slots : j # i => chains'[j] = chains[j]
    BY OneMoves DEF FramesInv
  <1>2. chains'[i].kind = "recovery" /\ chains'[i].pc = "warm" /\ chains'[i].scope = scope'
    BY <1>1 DEF Started
  <1>3. \A j \in Slots : chains'[j].kind = "recovery" <=> j = i
    BY <1>1, <1>2
  <1>4. Loading(i)'
    BY <1>2 DEF Loading, LoadStages
  <1> QED BY <1>3, <1>4 DEF WarmHeld

\* A synced scope is the active namespace's.
LEMMA SyncActive ==
    ASSUME syncNamespace, UNCHANGED activeNs
    PROVE  scope'[1] = activeNs'
  BY DEF syncNamespace, resetNamespace, FreshScope, scopeVars

LEMMA StartRecoveryHeld ==
    ASSUME FramesInv, NEW i \in Slots, startRecovery(i), UNCHANGED <<envVars, ownerVars>>
    PROVE  FlagsHeld' /\ WarmHeld'
  <1>1. syncNamespace /\ UNCHANGED activeNs /\ UNCHANGED switching
    BY DEF startRecovery, goAsync, envVars
  <1>2. FlagStep
    BY <1>1, SyncFlags, EpochsOfChains DEF FramesInv
  <1>3. scope'[1] = activeNs'
    BY <1>1, SyncActive
  <1>4. CASE recoveryRunning /\ recoveryAgain' = TRUE /\ UNCHANGED <<recoveryRunning, chains>>
    <2>1. Quiet
      BY <1>4 DEF Quiet
    <2>2. WarmHeld'
      BY <1>3, <1>4 DEF FramesInv, WarmHeld
    <2> QED BY <1>2, <2>1, <2>2, QuietFlags DEF FramesInv
  <1>5. CASE ~recoveryRunning /\ recoveryRunning' = TRUE /\ goAsync(i, "recovery", "warm")
    <2>1. chains[i] = IdleChain /\ chains' = [chains EXCEPT ![i] = Started("recovery", "warm", scope', 0)]
      BY <1>5 DEF goAsync
    <2>2. chains'[i].pc \notin Working /\ chains[i].pc \notin Working /\ \A j \in Slots : j # i => chains'[j] = chains[j]
      BY <2>1, OneMoves DEF FramesInv, IdleChain, Started, Working
    <2>3. Quiet
      BY <2>2 DEF Quiet
    <2>4. \A j \in Slots : chains[j].kind # "recovery"
      BY <1>5 DEF FramesInv, WarmHeld
    <2>5. WarmHeld'
      BY <1>3, <1>5, <2>1, <2>4, RecoveryBegins
    <2> QED BY <1>2, <2>3, <2>5, QuietFlags DEF FramesInv
  <1> QED BY <1>4, <1>5 DEF startRecovery

LEMMA OnBrokerReadyHeld ==
    ASSUME FramesInv, NEW i \in Slots, OnBrokerReady(i)
    PROVE  FlagsHeld' /\ WarmHeld'
  <1>1. CASE startRecovery(i)
    BY <1>1, StartRecoveryHeld DEF OnBrokerReady
  <1>2. CASE ~started /\ syncNamespace /\ UNCHANGED <<recoveryRunning, recoveryAgain, chains>>
    <2>1. UNCHANGED ownerVars /\ UNCHANGED <<activeNs, switching>> /\ dropped' = TRUE
      BY <1>2 DEF OnBrokerReady, envVars
    <2>2. FlagStep /\ Quiet
      BY <1>2, <2>1, SyncFlags, EpochsOfChains DEF FramesInv, Quiet
    <2>3. scope'[1] = activeNs'
      BY <1>2, <2>1, SyncActive
    <2>4. WarmHeld'
      BY <1>2, <2>1, <2>3 DEF FramesInv, WarmHeld
    <2> QED BY <2>2, <2>4, QuietFlags DEF FramesInv
  <1> QED BY <1>1, <1>2 DEF OnBrokerReady

LEMMA ChainDoneHeld ==
    ASSUME FramesInv, NEW i \in Slots, chainDone(i)
    PROVE  FlagsHeld' /\ WarmHeld'
  <1>1. /\ chains[i].pc = "done" /\ chains[i].pc \notin Working
        /\ UNCHANGED ownerVars /\ UNCHANGED <<activeNs, switching, readyPending, dropped>>
    BY DEF chainDone, envVars, Working
  <1>2. FlagStep
    <2>1. syncNamespace \/ UNCHANGED scopeVars
      BY DEF chainDone
    <2> QED BY <1>1, <2>1, SyncFlags, EpochsOfChains DEF FramesInv
  <1>3. CASE chains[i].kind = "recovery" /\ recoveryAgain
    <2>1. /\ UNCHANGED recoveryRunning /\ syncNamespace
          /\ chains' = [chains EXCEPT ![i] = Started("recovery", "warm", scope', 0)]
      BY <1>3 DEF chainDone
    <2>2. scope'[1] = activeNs'
      BY <1>1, <2>1, SyncActive
    <2>3. recoveryRunning' = TRUE /\ \A j \in Slots : chains[j].kind = "recovery" => j = i
      BY <1>3, <2>1 DEF FramesInv, WarmHeld
    <2>4. WarmHeld'
      BY <2>1, <2>2, <2>3, RecoveryBegins
    <2>5. chains'[i] = Started("recovery", "warm", scope', 0) /\ \A j \in Slots : j # i => chains'[j] = chains[j]
      BY <2>1, OneMoves DEF FramesInv
    <2>6. Quiet
      BY <1>1, <2>5 DEF Quiet, Started, Working
    <2> QED BY <1>2, <2>4, <2>6, QuietFlags DEF FramesInv
  <1>4. CASE ~(chains[i].kind = "recovery" /\ recoveryAgain)
    <2>1. /\ chains' = [chains EXCEPT ![i] = IdleChain] /\ UNCHANGED <<scope, scopeWarm, recoveryAgain>>
          /\ recoveryRunning' = (recoveryRunning /\ chains[i].kind # "recovery")
      BY <1>4 DEF chainDone, scopeVars
    <2>2. chains'[i] = IdleChain /\ \A j \in Slots : j # i => chains'[j] = chains[j]
      BY <2>1, OneMoves DEF FramesInv
    <2>3. chains'[i].pc \notin Working /\ chains'[i].kind # "recovery"
      BY <2>2 DEF IdleChain, Started, Working
    <2>4. Quiet
      BY <1>1, <2>2, <2>3 DEF Quiet
    <2>5. \A j \in Slots : Loading(j) => Loading(j)'
      BY <1>1, <2>1, <2>2 DEF Loading, LoadStages
    <2>6. WarmHeld'
      <3>1. /\ recoveryRunning = (\E j \in Slots : chains[j].kind = "recovery")
            /\ \A j, k \in Slots : chains[j].kind = "recovery" /\ chains[k].kind = "recovery" => j = k
        BY DEF FramesInv, WarmHeld
      <3>2. /\ recoveryRunning' = (\E j \in Slots : chains'[j].kind = "recovery")
            /\ \A j, k \in Slots : chains'[j].kind = "recovery" /\ chains'[k].kind = "recovery" => j = k
        BY <2>1, <2>2, <2>3, <3>1
      <3>3. recoveryRunning /\ recoveryAgain => recoveryRunning' /\ recoveryAgain'
        BY <1>4, <2>1
      <3>4. \/ scopeWarm' \/ (\E j \in Slots : Loading(j)')
            \/ (recoveryRunning' /\ recoveryAgain') \/ switching' \/ readyPending' \/ dropped'
        BY <1>1, <2>1, <2>5, <3>3 DEF FramesInv, WarmHeld
      <3>5. ~switching' /\ ~readyPending' => scope'[1] = activeNs'
        BY <1>1, <2>1 DEF FramesInv, WarmHeld
      <3> QED BY <3>2, <3>4, <3>5 DEF WarmHeld
    <2> QED BY <1>2, <2>4, <2>6, QuietFlags DEF FramesInv
  <1> QED BY <1>3, <1>4

LEMMA InvalidateNamespaceHeld ==
    ASSUME FramesInv, InvalidateNamespace
    PROVE  FlagsHeld' /\ WarmHeld'
  <1>1. switching' /\ resetNamespace /\ UNCHANGED ownerVars /\ UNCHANGED <<chains, recoveryRunning>>
    BY DEF InvalidateNamespace, recoveryVars
  <1>2. FlagStep /\ Quiet
    BY <1>1, SyncFlags, EpochsOfChains DEF FramesInv, Quiet
  <1>3. WarmHeld'
    BY <1>1 DEF FramesInv, WarmHeld
  <1> QED BY <1>2, <1>3, QuietFlags DEF FramesInv

LEMMA PublishHeld ==
    ASSUME FramesInv, Publish
    PROVE  FlagsHeld' /\ WarmHeld'
  <1>1. readyPending' /\ UNCHANGED <<chains, recoveryRunning>>
        /\ UNCHANGED <<scope, backfillRunning, prevRunning, backfillOwner, prevOwner>>
    BY DEF Publish, scopeVars, ownerVars
  <1>2. FlagStep /\ Quiet
    BY <1>1 DEF FlagStep, Quiet
  <1>3. WarmHeld'
    BY <1>1 DEF FramesInv, WarmHeld
  <1> QED BY <1>2, <1>3, QuietFlags DEF FramesInv

LEMMA IdleStepHeld ==
    ASSUME FramesInv, Tick \/ UNCHANGED frameVars
    PROVE  FlagsHeld' /\ WarmHeld'
  <1>1. /\ UNCHANGED <<scope, backfillRunning, prevRunning, backfillOwner, prevOwner>> /\ UNCHANGED <<chains, scopeWarm>>
        /\ UNCHANGED <<activeNs, switching, recoveryRunning, recoveryAgain, readyPending, dropped>>
    BY DEF Tick, frameVars, envVars, scopeVars, ownerVars, recoveryVars
  <1>2. FlagStep /\ Quiet /\ WarmStep
    BY <1>1 DEF FlagStep, Quiet, WarmStep, Loading
  <1> QED BY <1>2, QuietFlags, WarmStays DEF FramesInv

\* No chain but boot's, which will load the scope, and no flag is held.
LEMMA BootHeld ==
    ASSUME NEW ch, NEW sc, \A i \in Slots : ch[i] = IF i = 1 THEN Started("boot", "warm", sc, 0) ELSE IdleChain
    PROVE  /\ \A owner : \A pc \in Working : FlagHeld(FALSE, owner, pc, ch, sc)
           /\ \A i \in Slots : ch[i].kind # "recovery"
           /\ 1 \in Slots /\ ch[1].pc = "warm" /\ ch[1].scope = sc
  <1>1. 1 \in Slots /\ ch[1] = Started("boot", "warm", sc, 0) /\ \A i \in Slots : i # 1 => ch[i] = IdleChain
    BY DEF Slots
  <1>2. \A i \in Slots : ch[i].pc \in {"warm", "idle"} /\ ch[i].kind \in {"boot", "idle"}
    BY <1>1 DEF Started, IdleChain
  <1>3. \A i \in Slots : \A pc \in Working : ~AtWork(ch, sc, i, pc)
    BY <1>2 DEF AtWork, Working
  <1>4. \A owner : \A pc \in Working : FlagHeld(FALSE, owner, pc, ch, sc)
    BY <1>3 DEF FlagHeld
  <1>5. ch[1].pc = "warm" /\ ch[1].scope = sc
    BY <1>1 DEF Started
  <1> QED BY <1>1, <1>2, <1>4, <1>5

LEMMA RestartHeld ==
    ASSUME FramesInv, Restart
    PROVE  FlagsHeld' /\ WarmHeld'
  <1>1. /\ \A i \in Slots : chains'[i] = IF i = 1 THEN Started("boot", "warm", scope', 0) ELSE IdleChain
        /\ scope' = <<activeNs, scope[2] + 1>> /\ backfillRunning' = FALSE /\ prevRunning' = FALSE
        /\ recoveryRunning' = FALSE /\ activeNs' = activeNs
    BY DEF Restart, FreshScope, envVars
  <1>2. /\ \A owner : \A pc \in Working : FlagHeld(FALSE, owner, pc, chains', scope')
        /\ \A i \in Slots : chains'[i].kind # "recovery"
        /\ 1 \in Slots /\ chains'[1].pc = "warm" /\ chains'[1].scope = scope'
    BY <1>1, BootHeld
  <1>3. Loading(1)'
    BY <1>2 DEF Loading, LoadStages
  <1>4. FlagsHeld'
    BY <1>1, <1>2 DEF FlagsHeld, Working
  <1>5. scope'[1] = activeNs' /\ recoveryRunning' = (\E i \in Slots : chains'[i].kind = "recovery")
    <2>1. ~\E i \in Slots : chains'[i].kind = "recovery"
      BY <1>2
    <2>2. scope'[1] = activeNs'
      BY <1>1
    <2> QED BY <1>1, <2>1, <2>2
  <1>6. WarmHeld'
    BY <1>2, <1>3, <1>5 DEF WarmHeld
  <1> QED BY <1>4, <1>6

LEMMA FramesInvInit ==
    ASSUME FramesInit
    PROVE  FramesInv
  <1>1. /\ \A i \in Slots : chains[i] = IF i = 1 THEN Started("boot", "warm", scope, 0) ELSE IdleChain
        /\ scope[1] = activeNs /\ backfillRunning = FALSE /\ prevRunning = FALSE /\ recoveryRunning = FALSE
    BY DEF FramesInit
  <1>2. /\ \A owner : \A pc \in Working : FlagHeld(FALSE, owner, pc, chains, scope)
        /\ \A i \in Slots : chains[i].kind # "recovery"
        /\ 1 \in Slots /\ chains[1].pc = "warm" /\ chains[1].scope = scope
    BY <1>1, BootHeld
  <1>3. Loading(1)
    BY <1>2 DEF Loading, LoadStages
  <1>4. FlagsHeld
    BY <1>1, <1>2 DEF FlagsHeld, Working
  <1>5. WarmHeld
    BY <1>1, <1>2, <1>3 DEF WarmHeld
  <1> QED BY <1>4, <1>5, FramesDataInit DEF FramesInv

LEMMA FramesInvStep ==
    ASSUME FramesInv, [FramesNext]_frameVars
    PROVE  FramesInv'
  <1>1. FramesData'
    BY FramesDataStep DEF FramesInv
  <1>2. FlagsHeld' /\ WarmHeld'
    <2>1. ASSUME NEW i \in Slots, ChainStep(i) PROVE FlagsHeld' /\ WarmHeld'
      BY <2>1, CaptureOiHeld, CaptureApplyHeld, BackfillBeginHeld, BackfillApplyHeld, PrevCloseBeginHeld,
         PrevCloseApplyHeld, CoarsenHeld, WarmBeginHeld, WarmApplyHeld, WarmEndHeld, CheckHeld, ChainDoneHeld DEF ChainStep
    <2>2. ASSUME NEW i \in Slots, OnKiteLogin(i) PROVE FlagsHeld' /\ WarmHeld'
      BY <2>2, StartRecoveryHeld DEF OnKiteLogin
    <2> QED BY <2>1, <2>2, CaptureTickHeld, GapCheckHeld, OnBrokerReadyHeld, IdleStepHeld, InvalidateNamespaceHeld,
               PublishHeld, RestartHeld DEF FramesNext
  <1> QED BY <1>1, <1>2 DEF FramesInv

-----------------------------------------------------------------------------
(* The theorems                                                            *)

\* The invariant of the frames, through every interleaving of captures, backfills, warm loads,
\* recoveries, switches and restarts: what a chain of the current scope, its frames and the cache
\* hold is one broker's, every flag is held by the one chain at work for it, and an unloaded scope
\* has a load, a recovery or a ready event coming.
THEOREM FramesInvariant == FramesSpec => []FramesInv
  <1>1. FramesInit => FramesInv
    BY FramesInvInit
  <1>2. FramesInv /\ [FramesNext]_frameVars => FramesInv'
    BY FramesInvStep
  <1> QED BY <1>1, <1>2, PTL DEF FramesSpec

\* The points of the frames, the baseline and the cache keys are one broker's.
LEMMA DataIsOneBrokers ==
    ASSUME FramesData
    PROVE  OneBrokersData
  <1>1. \A p \in Points : broker(p.src) = broker(scope[1])
    BY DEF FramesData, ScopeData, FramesFit, FrameFits, Fits, Points
  <1>2. \A b \in 0 .. 1, g \in Grains : \A p \in cache[b][g] : broker(p.src) = b
    BY DEF FramesData, CacheData, LoadFits, StoredFits, Fits
  <1>3. /\ \A n \in base.src : broker(n) = broker(scope[1])
        /\ \A b \in 0 .. 1 : \A n \in storedBase[b].src : broker(n) = b
    BY DEF FramesData, ScopeData, CacheData, BaseFits
  <1> QED BY <1>1, <1>2, <1>3 DEF OneBrokersData

LEMMA DataIsOrdered ==
    ASSUME FramesData
    PROVE  FramesOrdered
  <1>1. ASSUME AllInOrder(frames), NEW g \in Grains, NEW k \in 1 .. Len(frames[g]) - 1
        PROVE  frames[g][k].t < frames[g][k + 1].t
    <2>1. frames[g] \in Seq(Point)
      BY DEF FramesData, ScopeData, FramesFit, FrameFits
    <2>2. Len(frames[g]) \in Nat
      BY <2>1
    <2>3. k \in 1 .. Len(frames[g]) /\ k + 1 \in 1 .. Len(frames[g]) /\ k < k + 1
      BY <2>2
    <2> QED BY <1>1, <2>3 DEF AllInOrder, InOrder
  <1> QED BY <1>1 DEF FramesOrdered, FramesData, ScopeData

\* A set of chains of which any two are the same one has at most one.
LEMMA OneAtMost ==
    ASSUME NEW S \in SUBSET Slots, \A i, j \in S : i = j
    PROVE  Cardinality(S) <= 1
  <1>1. CASE S = {}
    BY <1>1, FS_EmptySet
  <1>2. CASE S # {}
    <2>1. PICK i \in S : TRUE
      BY <1>2
    <2>2. S = {i}
      BY <2>1
    <2> QED BY <2>2, FS_Singleton
  <1> QED BY <1>1, <1>2

LEMMA HeldIsOwned ==
    ASSUME FlagsHeld
    PROVE  BackfillFlagOwned
  <1> DEFINE at(pc) == {i \in Slots : chains[i].scope = scope /\ chains[i].pc = pc}
  <1>1. ASSUME NEW flag, NEW owner, NEW pc, FlagHeld(flag, owner, pc, chains, scope)
        PROVE  flag = (at(pc) # {}) /\ Cardinality(at(pc)) <= 1
    <2>1. flag = (at(pc) # {}) /\ \A i, j \in at(pc) : i = j
      BY <1>1 DEF FlagHeld, AtWork
    <2>2. at(pc) \in SUBSET Slots
      OBVIOUS
    <2> HIDE DEF at
    <2> QED BY <2>1, <2>2, OneAtMost
  <1> QED BY <1>1 DEF FlagsHeld, BackfillFlagOwned

LEMMA HeldIsWarm ==
    ASSUME WarmHeld
    PROVE  RestIsWarm
  <1>1. ASSUME \A i \in Slots : chains[i] = IdleChain
        PROVE  \A i \in Slots : chains[i].kind # "recovery" /\ ~Loading(i)
    BY <1>1 DEF IdleChain, Started, Loading, LoadStages
  <1> QED BY <1>1 DEF RestIsWarm, WarmHeld

\* Nothing read from one broker reaches another's frames, baseline or cache keys, frames stay in
\* time order, each single-flight flag is held exactly while a backfill of the scope is at work, and
\* at rest the active broker's cached frames are loaded: syncNamespaceLocked, scopeCurrent,
\* beginBackfill/endBackfill and the coalesced recoveries.
THEOREM FramesAlwaysSound == FramesSpec => []FramesSound
  <1>1. FramesInv => FramesSound
    BY DataIsOneBrokers, DataIsOrdered, HeldIsOwned, HeldIsWarm DEF FramesInv, FramesSound
  <1> QED BY <1>1, FramesInvariant, PTL

\* No backfill, coarsening or warm load degrades a complete bucket within retention: mergeOiFrame,
\* mergeFutOiFrame, coarsenOiFrame and mergeWarmLoaded.
THEOREM CompleteAlwaysKept == FramesSpec => CompleteKept
  <1>1. FramesInv /\ [FramesNext]_frameVars => [KeepsComplete]_frameVars
    BY FramesDataStep DEF FramesInv
  <1> QED BY <1>1, FramesInvariant, PTL DEF FramesSpec, CompleteKept
=============================================================================
