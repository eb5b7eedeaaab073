---------------------------- MODULE SessionProofs ----------------------------
(***************************************************************************)
(* Proofs about the logins and what hangs on them: the browser sessions    *)
(* and their quotes, the instrument universes, the Kite session, the Dhan   *)
(* session and the Kite lane's socket, for every number of requests,       *)
(* sessions, loads, tokens, sockets, logins, switches and restarts.        *)
(***************************************************************************)
EXTENDS DhanSession, KiteSession, KiteLaneFeed, BrowserSessions, InstrumentLoads, FiniteSetTheorems,
        SequenceTheorems, TLAPS

-----------------------------------------------------------------------------
(* The browser sessions                                                    *)

\* An empty store and no request (NewSessionStore).
LEMMA BrowserInitEstablishes == BrowserInit => BrowserIInv
  <1> SUFFICES ASSUME BrowserInit PROVE BrowserIInv
    OBVIOUS
  <1> USE BrowserAssumption DEF BrowserInit
  <1>1. BrowserTypeOK
    BY DEF BrowserTypeOK, Ids, Gone, FreeHandler
  <1>2. IdsFresh /\ KeysOfPast
    BY DEF IdsFresh, KeysOfPast, FreeHandler, at
  <1>3. SessionsSound
    BY DEF SessionsSound, ConnectionsExact, QuotesOfBroker, stored, cached
  <1> QED BY <1>1, <1>2, <1>3 DEF BrowserIInv

\* The streams that hold a session are finitely many.
LEMMA StreamsFinite == ASSUME NEW i PROVE IsFiniteSet(Streams(i)) /\ Cardinality(Streams(i)) \in Nat
  <1>1. Streams(i) \subseteq Handlers
    BY DEF Streams
  <1> QED BY <1>1, BrowserAssumption, FS_Subset, FS_CardinalityType

\* Steps that give no stream to a session and take none, and leave a session its count or drop it.
LEMMA StreamsKept ==
    ASSUME BrowserIInv,
           \A c \in Handlers : \/ h'[c].id = h[c].id /\ h'[c].at \in {"opened", "streaming"} /\ h[c].at \in {"opened", "streaming"}
                               \/ h'[c].at \notin {"opened", "streaming"} /\ h[c].at \notin {"opened", "streaming"},
           \A i \in Ids : sessions'[i] # Gone => \/ sessions[i] # Gone /\ sessions'[i].conns = sessions[i].conns
                                                 \/ i > created /\ sessions'[i].conns = 0
    PROVE  ConnectionsExact'
  <1>1. \A i \in Ids : Streams(i)' = Streams(i)
    BY DEF Streams, at
  <1>2. \A i \in Ids : i > created => Streams(i) = {}
    BY DEF BrowserIInv, BrowserTypeOK, IdsFresh, Streams, at, Ids
  <1>3. \A i \in Ids : sessions[i] # Gone => sessions[i].conns = Cardinality(Streams(i))
    BY DEF BrowserIInv, SessionsSound, ConnectionsExact, stored
  <1>4. Cardinality({}) = 0
    BY FS_EmptySet
  <1> QED BY <1>1, <1>2, <1>3, <1>4 DEF ConnectionsExact, stored

\* What a handler holds, as the source declares it.
HandlerState == [at : {"idle", "create", "quotes", "stream", "creating", "resolving", "keyed",
                       "resolved", "opened", "streaming", "missed", "asked"},
                 b : Registered \cup {NoBroker}, g : Nat, id : 0 .. MaxCreated,
                 src : Registered \cup {NoBroker}]

\* One handler goes to state r, the others stay where they are.
LEMMA HandlerGoes ==
    ASSUME BrowserIInv, NEW c \in Handlers, NEW r \in HandlerState, go(c, r)
    PROVE  /\ h' \in [Handlers -> HandlerState] /\ h'[c] = r
           /\ \A d \in Handlers : d # c => h'[d] = h[d]
  <1>1. h \in [Handlers -> HandlerState]
    BY DEF BrowserIInv, BrowserTypeOK, HandlerState
  <1>2. h' = [h EXCEPT ![c] = r]
    BY DEF go
  <1> HIDE DEF HandlerState
  <1> QED BY <1>1, <1>2

\* A handler that keeps its broker and its session.
LEMMA HandlerStep ==
    ASSUME BrowserIInv, NEW c \in Handlers, NEW g \in Nat, NEW src \in Registered \cup {NoBroker},
           NEW step \in {"creating", "resolving", "keyed", "resolved", "opened", "streaming", "missed", "asked"},
           goWith(c, step, g, src)
    PROVE  /\ h' \in [Handlers -> HandlerState]
           /\ h'[c] = [at |-> step, b |-> h[c].b, g |-> g, id |-> h[c].id, src |-> src]
           /\ \A d \in Handlers : d # c => h'[d] = h[d]
  <1>1. [at |-> step, b |-> h[c].b, g |-> g, id |-> h[c].id, src |-> src] \in HandlerState
    BY DEF BrowserIInv, BrowserTypeOK, HandlerState
  <1> QED BY <1>1, HandlerGoes DEF goWith

\* An answered or refused request leaves nothing behind.
LEMMA HandlerFrees ==
    ASSUME BrowserIInv, NEW c \in Handlers, go(c, FreeHandler)
    PROVE  /\ h' \in [Handlers -> HandlerState] /\ h'[c].at = "idle"
           /\ \A d \in Handlers : d # c => h'[d] = h[d]
  <1>1. FreeHandler \in HandlerState /\ FreeHandler.at = "idle"
    BY BrowserAssumption DEF FreeHandler, HandlerState
  <1> QED BY <1>1, HandlerGoes

\* Quotes go from the cache, none come in, and the registry stays: what holds of the keys and the
\* ticks goes on holding.
LEMMA QuotesKept ==
    ASSUME BrowserIInv, UNCHANGED <<activeBroker, generation>>, cache' \subseteq cache,
           \A c \in Handlers :
              h'[c] # h[c] => /\ h'[c].at \in {"keyed", "missed", "asked"} => h'[c].g <= generation
                              /\ h'[c].at = "asked" /\ h'[c].g = generation => h'[c].src = activeBroker
    PROVE  KeysOfPast' /\ QuotesOfBroker'
  <1>1. KeysOfPast'
    BY DEF BrowserIInv, KeysOfPast, at, quoteCacheKey
  <1>2. QuotesOfBroker'
    BY DEF BrowserIInv, SessionsSound, QuotesOfBroker, cached, quoteCacheKey
  <1> QED BY <1>1, <1>2

\* The steps before a route acts: it reads the broker, is refused, or reads the generation.
LEMMA RequestComes ==
    ASSUME BrowserIInv, NEW c \in Handlers, NEW i \in 0 .. created, NEW kind \in {"create", "quotes", "stream"},
           kind = "stream" => i \in 1 .. created, enter(c, kind, i)
    PROVE  BrowserIInv'
  <1>0. /\ activeBroker \in Registered /\ created \in 0 .. MaxCreated /\ MaxCreated \in Nat
        /\ h \in [Handlers -> HandlerState]
    BY BrowserAssumption DEF BrowserIInv, BrowserTypeOK, HandlerState
  <1> DEFINE r == [at |-> kind, b |-> activeBroker, g |-> 0, id |-> i, src |-> NoBroker]
  <1>1. r \in HandlerState
    BY <1>0 DEF HandlerState
  <1>2. go(c, r) /\ at(c, "idle") /\ UNCHANGED <<activeBroker, generation, sessions, created, cache, now>>
    BY DEF enter, regVars, storeVars, quoteVars
  <1>3. h' \in [Handlers -> HandlerState] /\ h'[c] = r /\ \A d \in Handlers : d # c => h'[d] = h[d]
    BY <1>1, <1>2, HandlerGoes
  <1>4. BrowserTypeOK'
    BY <1>2, <1>3 DEF BrowserIInv, BrowserTypeOK, HandlerState
  <1>5. IdsFresh'
    BY <1>2, <1>3 DEF BrowserIInv, IdsFresh
  <1>6. KeysOfPast' /\ QuotesOfBroker'
    BY <1>2, <1>3, QuotesKept
  <1>7. ConnectionsExact'
    BY <1>2, <1>3, StreamsKept DEF at
  <1> QED BY <1>4, <1>5, <1>6, <1>7 DEF BrowserIInv, SessionsSound

LEMMA RequestGoesOn == ASSUME BrowserIInv, NEW c \in Handlers, refuse(c) \/ readGeneration(c) PROVE BrowserIInv'
  <1>0. generation \in Nat /\ h \in [Handlers -> HandlerState]
    BY DEF BrowserIInv, BrowserTypeOK, HandlerState
  <1>1. UNCHANGED <<activeBroker, generation, sessions, created, cache, now>>
    BY DEF refuse, readGeneration, regVars, storeVars, quoteVars
  <1>2. /\ h' \in [Handlers -> HandlerState]
        /\ \A d \in Handlers : d # c => h'[d] = h[d]
        /\ h[c].at \in {"create", "quotes", "stream"}
        /\ \/ h'[c].at \in {"idle", "creating"}
           \/ h[c].at = "stream" /\ h'[c].at = "resolving" /\ h'[c].id = h[c].id
           \/ h'[c].at = "keyed" /\ h'[c].g = generation
    <2>1. CASE refuse(c)
      BY <2>1, HandlerFrees DEF refuse, at
    <2>2. CASE readGeneration(c)
      <3>1. \/ goWith(c, "creating", generation, h[c].src) /\ h[c].at = "create"
            \/ goWith(c, "resolving", generation, h[c].src) /\ h[c].at = "stream"
            \/ goWith(c, "keyed", generation, h[c].src) /\ h[c].at = "quotes"
        BY <2>2 DEF readGeneration, at
      <3>2. h[c].src \in Registered \cup {NoBroker}
        BY <1>0 DEF HandlerState
      <3>3. ASSUME NEW step \in {"creating", "resolving", "keyed"}, goWith(c, step, generation, h[c].src)
            PROVE  /\ h' \in [Handlers -> HandlerState]
                   /\ h'[c] = [at |-> step, b |-> h[c].b, g |-> generation, id |-> h[c].id, src |-> h[c].src]
                   /\ \A d \in Handlers : d # c => h'[d] = h[d]
        <4>1. CASE step = "creating"
          BY <1>0, <3>2, <3>3, <4>1, HandlerStep
        <4>2. CASE step = "resolving"
          BY <1>0, <3>2, <3>3, <4>2, HandlerStep
        <4>3. CASE step = "keyed"
          BY <1>0, <3>2, <3>3, <4>3, HandlerStep
        <4> QED BY <4>1, <4>2, <4>3
      <3>4. CASE goWith(c, "creating", generation, h[c].src) /\ h[c].at = "create"
        BY <3>3, <3>4
      <3>5. CASE goWith(c, "resolving", generation, h[c].src) /\ h[c].at = "stream"
        BY <3>3, <3>5
      <3>6. CASE goWith(c, "keyed", generation, h[c].src) /\ h[c].at = "quotes"
        BY <3>3, <3>6
      <3> QED BY <3>1, <3>4, <3>5, <3>6
    <2> QED BY <2>1, <2>2
  <1>3. BrowserTypeOK'
    BY <1>1, <1>2 DEF BrowserIInv, BrowserTypeOK, HandlerState
  <1>4. IdsFresh'
    BY <1>1, <1>2 DEF BrowserIInv, IdsFresh
  <1>5. KeysOfPast' /\ QuotesOfBroker'
    BY <1>0, <1>1, <1>2, QuotesKept
  <1>6. ConnectionsExact'
    BY <1>1, <1>2, StreamsKept
  <1> QED BY <1>3, <1>4, <1>5, <1>6 DEF BrowserIInv, SessionsSound

-----------------------------------------------------------------------------
(* The session store                                                       *)

\* Sweeping and evicting only take sessions out (sweepLocked, evictIfFullLocked).
LEMMA SweepTakes ==
    ASSUME NEW S \in [Ids -> [broker : Registered \cup {NoBroker}, gen : Nat, used : Nat, conns : Nat]]
    PROVE  /\ sweep(S) \in [Ids -> [broker : Registered \cup {NoBroker}, gen : Nat, used : Nat, conns : Nat]]
           /\ evictIfFull(S) \in [Ids -> [broker : Registered \cup {NoBroker}, gen : Nat, used : Nat, conns : Nat]]
           /\ \A i \in Ids : sweep(S)[i] \in {S[i], Gone} /\ evictIfFull(S)[i] \in {S[i], Gone}
  <1>1. Gone \in [broker : Registered \cup {NoBroker}, gen : Nat, used : Nat, conns : Nat]
    BY DEF Gone
  <1>2. evictIfFull(S) = S \/ \E k : evictIfFull(S) = [S EXCEPT ![k] = Gone]
    BY DEF evictIfFull
  <1>3. /\ evictIfFull(S) \in [Ids -> [broker : Registered \cup {NoBroker}, gen : Nat, used : Nat, conns : Nat]]
        /\ \A i \in Ids : evictIfFull(S)[i] \in {S[i], Gone}
    BY <1>1, <1>2
  <1>4. sweep(S) = [i \in Ids |-> IF S[i].conns = 0 /\ S[i].used < now - SessionTTL THEN Gone ELSE S[i]]
    BY DEF sweep
  <1>5. /\ sweep(S) \in [Ids -> [broker : Registered \cup {NoBroker}, gen : Nat, used : Nat, conns : Nat]]
        /\ \A i \in Ids : sweep(S)[i] \in {S[i], Gone}
    BY <1>1, <1>4
  <1> QED BY <1>3, <1>5

\* Sessions go, none comes, nobody moves: the reaper, and the switch that drops them all.
LEMMA SessionsGo == ASSUME BrowserIInv, Sweep \/ DropAll PROVE BrowserIInv'
  <1>0. sessions \in [Ids -> [broker : Registered \cup {NoBroker}, gen : Nat, used : Nat, conns : Nat]]
    BY DEF BrowserIInv, BrowserTypeOK
  <1>1. UNCHANGED <<activeBroker, generation, created, cache, h, now>>
    BY DEF Sweep, DropAll, regVars, quoteVars
  <1>2. /\ sessions' \in [Ids -> [broker : Registered \cup {NoBroker}, gen : Nat, used : Nat, conns : Nat]]
        /\ \A i \in Ids : sessions'[i] \in {sessions[i], Gone}
    <2>1. CASE Sweep
      BY <1>0, <2>1, SweepTakes DEF Sweep
    <2>2. CASE DropAll
      BY <2>2 DEF DropAll, Gone
    <2> QED BY <2>1, <2>2
  <1>3. BrowserTypeOK'
    BY <1>1, <1>2 DEF BrowserIInv, BrowserTypeOK
  <1>4. IdsFresh'
    BY <1>1, <1>2 DEF BrowserIInv, IdsFresh
  <1>5. KeysOfPast' /\ QuotesOfBroker'
    BY <1>1, QuotesKept
  <1>6. ConnectionsExact'
    BY <1>1, <1>2, StreamsKept
  <1> QED BY <1>3, <1>4, <1>5, <1>6 DEF BrowserIInv, SessionsSound

\* A session of its own id, with no stream (Create).
LEMMA SessionComes == ASSUME BrowserIInv, NEW c \in Handlers, Create(c) PROVE BrowserIInv'
  <1>0. /\ sessions \in [Ids -> [broker : Registered \cup {NoBroker}, gen : Nat, used : Nat, conns : Nat]]
        /\ h \in [Handlers -> HandlerState] /\ now \in Nat /\ created \in 0 .. MaxCreated /\ MaxCreated \in Nat
    BY BrowserAssumption DEF BrowserIInv, BrowserTypeOK, HandlerState
  <1> DEFINE R == [broker : Registered \cup {NoBroker}, gen : Nat, used : Nat, conns : Nat]
             S == evictIfFull(sweep(sessions))
             new == [broker |-> h[c].b, gen |-> h[c].g, used |-> now, conns |-> 0]
  <1>1. /\ UNCHANGED <<activeBroker, generation, cache, now>> /\ go(c, FreeHandler)
        /\ at(c, "creating") /\ created < MaxCreated /\ created' = created + 1
        /\ sessions' = [S EXCEPT ![created + 1] = new]
    BY DEF Create, regVars, quoteVars
  <1>2. h' \in [Handlers -> HandlerState] /\ h'[c].at = "idle" /\ \A d \in Handlers : d # c => h'[d] = h[d]
    BY <1>1, HandlerFrees
  <1>3. S \in [Ids -> R] /\ \A i \in Ids : S[i] \in {sessions[i], Gone}
    BY <1>0, SweepTakes
  <1>4. new \in R /\ new.conns = 0
    BY <1>0 DEF HandlerState
  <1>5. created + 1 \in Ids /\ created' \in 0 .. MaxCreated
    BY <1>0, <1>1 DEF Ids
  <1> HIDE DEF R, S, new
  <1>6. /\ sessions' \in [Ids -> R] /\ sessions'[created + 1] = new
        /\ \A i \in Ids : i # created + 1 => sessions'[i] \in {sessions[i], Gone}
    BY <1>1, <1>3, <1>4, <1>5
  <1>7. BrowserTypeOK'
    BY <1>1, <1>2, <1>5, <1>6 DEF BrowserIInv, BrowserTypeOK, HandlerState, R
  <1>8. IdsFresh'
    <2>1. \A i \in Ids : sessions'[i] # Gone => i <= created'
      BY <1>0, <1>1, <1>6 DEF BrowserIInv, IdsFresh, Ids
    <2>2. \A d \in Handlers :
             h'[d].at \in {"stream", "resolving", "resolved", "opened", "streaming"} => h'[d].id \in 1 .. created'
      BY <1>0, <1>1, <1>2 DEF BrowserIInv, IdsFresh
    <2> QED BY <2>1, <2>2 DEF IdsFresh
  <1>9. KeysOfPast' /\ QuotesOfBroker'
    BY <1>1, <1>2, QuotesKept
  <1>10. ConnectionsExact'
    <2>1. \A i \in Ids : sessions'[i] # Gone =>
             \/ sessions[i] # Gone /\ sessions'[i].conns = sessions[i].conns
             \/ i > created /\ sessions'[i].conns = 0
      <3>1. created + 1 > created
        BY <1>0
      <3> QED BY <1>4, <1>6, <3>1
    <2> QED BY <1>1, <1>2, <2>1, StreamsKept DEF at
  <1> QED BY <1>7, <1>8, <1>9, <1>10 DEF BrowserIInv, SessionsSound

\* A stream finds its session, or has it deleted (Resolve).
LEMMA SessionFound == ASSUME BrowserIInv, NEW c \in Handlers, Resolve(c) PROVE BrowserIInv'
  <1>0. /\ sessions \in [Ids -> [broker : Registered \cup {NoBroker}, gen : Nat, used : Nat, conns : Nat]]
        /\ h \in [Handlers -> HandlerState] /\ now \in Nat
    BY DEF BrowserIInv, BrowserTypeOK, HandlerState
  <1> DEFINE R == [broker : Registered \cup {NoBroker}, gen : Nat, used : Nat, conns : Nat]
             S == sweep(sessions)
             k == h[c].id
             live == S[k] # Gone /\ S[k].broker = h[c].b /\ S[k].gen = h[c].g
  <1>1. /\ UNCHANGED <<activeBroker, generation, created, cache, now>> /\ at(c, "resolving")
        /\ sessions' = [S EXCEPT ![k] = IF live THEN [@ EXCEPT !.used = now] ELSE Gone]
        /\ IF live THEN goTo(c, "resolved") ELSE go(c, FreeHandler)
    BY DEF Resolve, regVars, quoteVars
  <1>2. h[c].g \in Nat /\ h[c].src \in Registered \cup {NoBroker}
    BY <1>0 DEF HandlerState
  <1>3. /\ h' \in [Handlers -> HandlerState] /\ \A d \in Handlers : d # c => h'[d] = h[d]
        /\ h'[c].at = "idle" \/ (h'[c].at = "resolved" /\ h'[c].id = h[c].id)
    <2>1. CASE goTo(c, "resolved")
      <3>1. /\ h' \in [Handlers -> HandlerState]
            /\ h'[c] = [at |-> "resolved", b |-> h[c].b, g |-> h[c].g, id |-> h[c].id, src |-> h[c].src]
            /\ \A d \in Handlers : d # c => h'[d] = h[d]
        BY <1>2, <2>1, HandlerStep DEF goTo
      <3> QED BY <3>1
    <2>2. CASE go(c, FreeHandler)
      BY <2>2, HandlerFrees
    <2> QED BY <1>1, <2>1, <2>2
  <1>4. S \in [Ids -> R] /\ \A i \in Ids : S[i] \in {sessions[i], Gone}
    BY <1>0, SweepTakes
  <1>5. k \in Ids
    BY <1>1, BrowserAssumption DEF BrowserIInv, BrowserTypeOK, IdsFresh, at, Ids
  <1>6. S[k] \in R /\ Gone \in R
    BY <1>4, <1>5 DEF Gone
  <1> HIDE DEF S
  <1>7. /\ [S[k] EXCEPT !.used = now] \in R /\ [S[k] EXCEPT !.used = now].conns = S[k].conns
    BY <1>0, <1>6
  <1>8. /\ sessions' \in [Ids -> R]
        /\ \A i \in Ids : sessions'[i] # Gone => sessions[i] # Gone /\ sessions'[i].conns = sessions[i].conns
    BY <1>1, <1>4, <1>5, <1>6, <1>7
  <1>9. BrowserTypeOK'
    BY <1>1, <1>3, <1>8 DEF BrowserIInv, BrowserTypeOK, HandlerState
  <1>10. IdsFresh'
    BY <1>1, <1>3, <1>8 DEF BrowserIInv, IdsFresh, at
  <1>11. KeysOfPast' /\ QuotesOfBroker'
    BY <1>1, <1>3, QuotesKept
  <1>12. ConnectionsExact'
    BY <1>1, <1>3, <1>8, StreamsKept DEF at
  <1> QED BY <1>9, <1>10, <1>11, <1>12 DEF BrowserIInv, SessionsSound

-----------------------------------------------------------------------------
(* Streams and quotes                                                      *)

\* A session's count and last use change, when it is there; nobody else's do.
LEMMA CountChanges ==
    ASSUME BrowserIInv, NEW k \in Ids, NEW n \in Nat, used(k, n)
    PROVE  /\ sessions' \in [Ids -> [broker : Registered \cup {NoBroker}, gen : Nat, used : Nat, conns : Nat]]
           /\ sessions'[k] # Gone => sessions[k] # Gone /\ sessions'[k].conns = n
           /\ \A i \in Ids : i # k => sessions'[i] = sessions[i]
  <1> DEFINE R == [broker : Registered \cup {NoBroker}, gen : Nat, used : Nat, conns : Nat]
             r == [broker |-> sessions[k].broker, gen |-> sessions[k].gen, used |-> now, conns |-> n]
  <1>1. sessions \in [Ids -> R] /\ now \in Nat
    BY DEF BrowserIInv, BrowserTypeOK
  <1>2. sessions' = [sessions EXCEPT ![k] = IF sessions[k] = Gone THEN sessions[k] ELSE r]
    BY DEF used
  <1>3. r \in R /\ r.conns = n
    BY <1>1
  <1> HIDE DEF R, r
  <1>4. sessions' \in [Ids -> R]
    BY <1>1, <1>2, <1>3
  <1>5. /\ sessions'[k] # Gone => sessions[k] # Gone /\ sessions'[k].conns = n
        /\ \A i \in Ids : i # k => sessions'[i] = sessions[i]
    BY <1>1, <1>2, <1>3
  <1> QED BY <1>4, <1>5 DEF R

\* The stream of a resolved session opens, is attached or refused, and ends.
LEMMA StreamMoves ==
    ASSUME BrowserIInv, NEW c \in Handlers, streamOpen(c) \/ openTickStream(c) \/ streamEnd(c)
    PROVE  BrowserIInv'
  <1>k. PICK k : k = h[c].id
    OBVIOUS
  <1>0. /\ h \in [Handlers -> HandlerState] /\ k \in Ids /\ h[c].g \in Nat
        /\ h[c].src \in Registered \cup {NoBroker}
        /\ sessions \in [Ids -> [broker : Registered \cup {NoBroker}, gen : Nat, used : Nat, conns : Nat]]
    <2>1. h[c].at \in {"stream", "resolving", "resolved", "opened", "streaming"}
      BY DEF streamOpen, openTickStream, streamEnd, at
    <2>2. k \in 1 .. created /\ created \in 0 .. MaxCreated /\ MaxCreated \in Nat
      BY <1>k, <2>1, BrowserAssumption DEF BrowserIInv, BrowserTypeOK, IdsFresh
    <2>3. k \in Ids
      BY <2>2 DEF Ids
    <2>4. /\ h \in [Handlers -> HandlerState]
          /\ sessions \in [Ids -> [broker : Registered \cup {NoBroker}, gen : Nat, used : Nat, conns : Nat]]
      BY DEF BrowserIInv, BrowserTypeOK, HandlerState
    <2>5. h[c].g \in Nat /\ h[c].src \in Registered \cup {NoBroker}
      BY <2>4 DEF HandlerState
    <2> QED BY <2>3, <2>4, <2>5
  <1>1. UNCHANGED <<activeBroker, generation, created, cache, now>>
    BY DEF streamOpen, openTickStream, streamEnd, regVars, quoteVars
  <1>2. ASSUME NEW step \in {"opened", "streaming"}, goTo(c, step)
        PROVE  /\ h' \in [Handlers -> HandlerState]
               /\ h'[c] = [at |-> step, b |-> h[c].b, g |-> h[c].g, id |-> h[c].id, src |-> h[c].src]
               /\ \A d \in Handlers : d # c => h'[d] = h[d]
    <2>1. CASE step = "opened"
      BY <1>0, <1>2, <2>1, HandlerStep DEF goTo
    <2>2. CASE step = "streaming"
      BY <1>0, <1>2, <2>2, HandlerStep DEF goTo
    <2> QED BY <2>1, <2>2
  <1>3. \A i : IsFiniteSet(Streams(i)) /\ Cardinality(Streams(i)) \in Nat
    BY StreamsFinite
  <1>4. \A i \in Ids : sessions[i] # Gone => sessions[i].conns = Cardinality(Streams(i))
    BY DEF BrowserIInv, SessionsSound, ConnectionsExact, stored
  \* What is left to show once the handler and the store have moved.
  <1>5. ASSUME h' \in [Handlers -> HandlerState], \A d \in Handlers : d # c => h'[d] = h[d],
               h'[c].at \in {"idle", "opened", "streaming"}, h'[c].at # "idle" => h'[c].id = k,
               sessions' \in [Ids -> [broker : Registered \cup {NoBroker}, gen : Nat, used : Nat, conns : Nat]],
               \A i \in Ids : sessions'[i] # Gone => sessions[i] # Gone
        PROVE  BrowserTypeOK' /\ IdsFresh' /\ KeysOfPast' /\ QuotesOfBroker'
    <2>1. BrowserTypeOK'
      BY <1>1, <1>5 DEF BrowserIInv, BrowserTypeOK, HandlerState
    <2>2. k \in 1 .. created
      BY <1>k DEF BrowserIInv, IdsFresh, streamOpen, openTickStream, streamEnd, at
    <2>3. IdsFresh'
      BY <1>k, <1>1, <1>5, <2>2 DEF BrowserIInv, IdsFresh
    <2>4. KeysOfPast' /\ QuotesOfBroker'
      BY <1>1, <1>5, QuotesKept
    <2> QED BY <2>1, <2>3, <2>4
  \* The stream leaves: one less holds the session, and the count follows.
  <1>6. ASSUME go(c, FreeHandler), Close(k), h[c].at \in {"opened", "streaming"} PROVE BrowserIInv'
    <2> DEFINE n == IF sessions[k].conns > 0 THEN sessions[k].conns - 1 ELSE 0
    <2>1. h' \in [Handlers -> HandlerState] /\ h'[c].at = "idle" /\ \A d \in Handlers : d # c => h'[d] = h[d]
      BY <1>6, HandlerFrees
    <2>2. sessions[k].conns \in Nat
      BY <1>0
    <2>3. n \in Nat /\ used(k, n)
      BY <1>6, <2>2 DEF Close
    <2>4. /\ sessions' \in [Ids -> [broker : Registered \cup {NoBroker}, gen : Nat, used : Nat, conns : Nat]]
          /\ sessions'[k] # Gone => sessions[k] # Gone /\ sessions'[k].conns = n
          /\ \A i \in Ids : i # k => sessions'[i] = sessions[i]
      <3> HIDE DEF n
      <3> QED BY <1>0, <2>3, CountChanges
    <2>5. c \in Streams(k) /\ Streams(k)' = Streams(k) \ {c} /\ \A i \in Ids : i # k => Streams(i)' = Streams(i)
      <3>1. c \in Streams(k) /\ \A i : c \notin Streams(i)'
        BY <1>k, <1>6, <2>1 DEF Streams, at
      <3>2. \A i : \A d \in Handlers : d # c => (d \in Streams(i)' <=> d \in Streams(i))
        BY <2>1 DEF Streams, at
      <3>3. \A i : i # k => c \notin Streams(i)
        BY <1>k DEF Streams
      <3>4. \A i : Streams(i) \subseteq Handlers /\ Streams(i)' \subseteq Handlers
        BY DEF Streams
      <3> QED BY <3>1, <3>2, <3>3, <3>4
    <2>6. Cardinality(Streams(k) \ {c}) = Cardinality(Streams(k)) - 1
      BY <1>3, <2>5, FS_RemoveElement
    <2>7. Cardinality(Streams(k)) # 0
      BY <1>3, <2>5, FS_EmptySet
    <2>8. \A i \in Ids : sessions'[i] # Gone => sessions'[i].conns = Cardinality(Streams(i)')
      <3> SUFFICES ASSUME NEW i \in Ids, sessions'[i] # Gone
                   PROVE  sessions'[i].conns = Cardinality(Streams(i)')
        OBVIOUS
      <3>1. CASE i = k
        <4>1. sessions[k] # Gone /\ sessions'[k].conns = n
          BY <2>4, <3>1
        <4>2. sessions[k].conns = Cardinality(Streams(k))
          BY <1>0, <1>4, <4>1
        <4>3. n = Cardinality(Streams(k)) - 1
          BY <1>3, <2>2, <2>7, <4>2
        <4>4. Cardinality(Streams(k)') = Cardinality(Streams(k)) - 1
          BY <2>5, <2>6
        <4>5. sessions'[k].conns = Cardinality(Streams(k)')
          BY <4>1, <4>3, <4>4
        <4> QED BY <3>1, <4>5
      <3>2. CASE i # k
        BY <1>3, <1>4, <2>2, <2>4, <2>5, <2>6, <2>7, <3>2
      <3> QED BY <3>1, <3>2
    <2>9. ConnectionsExact'
      BY <2>8 DEF ConnectionsExact, stored
    <2>10. BrowserTypeOK' /\ IdsFresh' /\ KeysOfPast' /\ QuotesOfBroker'
      BY <1>5, <2>1, <2>4
    <2> QED BY <2>9, <2>10 DEF BrowserIInv, SessionsSound
  <1>7. CASE streamOpen(c)
    <2>1. goTo(c, "opened") /\ Open(k) /\ at(c, "resolved")
      BY <1>k, <1>7 DEF streamOpen
    <2>2. /\ h' \in [Handlers -> HandlerState] /\ h'[c].at = "opened" /\ h'[c].id = k
          /\ \A d \in Handlers : d # c => h'[d] = h[d]
      BY <1>k, <1>2, <2>1
    <2>3. sessions[k].conns + 1 \in Nat /\ used(k, sessions[k].conns + 1)
      BY <1>0, <2>1 DEF Open
    <2>4. /\ sessions' \in [Ids -> [broker : Registered \cup {NoBroker}, gen : Nat, used : Nat, conns : Nat]]
          /\ sessions'[k] # Gone => sessions[k] # Gone /\ sessions'[k].conns = sessions[k].conns + 1
          /\ \A i \in Ids : i # k => sessions'[i] = sessions[i]
      BY <1>0, <2>3, CountChanges
    <2>5. c \notin Streams(k) /\ Streams(k)' = Streams(k) \cup {c} /\ \A i \in Ids : i # k => Streams(i)' = Streams(i)
      <3>1. \A i : c \notin Streams(i)
        BY <2>1 DEF Streams, at
      <3>2. \A i : \A d \in Handlers : d # c => (d \in Streams(i)' <=> d \in Streams(i))
        BY <2>2 DEF Streams, at
      <3>3. c \in Streams(k)' /\ \A i : i # k => c \notin Streams(i)'
        BY <2>2 DEF Streams, at
      <3>4. \A i : Streams(i) \subseteq Handlers /\ Streams(i)' \subseteq Handlers
        BY DEF Streams
      <3>5. Streams(k)' = Streams(k) \cup {c}
        BY <3>2, <3>3, <3>4
      <3>6. ASSUME NEW i \in Ids, i # k PROVE Streams(i)' = Streams(i)
        BY <3>1, <3>2, <3>3, <3>4, <3>6
      <3> QED BY <3>1, <3>5, <3>6
    <2>6. Cardinality(Streams(k) \cup {c}) = Cardinality(Streams(k)) + 1
      BY <1>3, <2>5, FS_AddElement
    <2>7. \A i \in Ids : sessions'[i] # Gone => sessions'[i].conns = Cardinality(Streams(i)')
      <3> SUFFICES ASSUME NEW i \in Ids, sessions'[i] # Gone
                   PROVE  sessions'[i].conns = Cardinality(Streams(i)')
        OBVIOUS
      <3>1. CASE i = k
        BY <1>0, <1>3, <1>4, <2>4, <2>5, <2>6, <3>1
      <3>2. CASE i # k
        BY <1>3, <1>4, <2>4, <2>5, <2>6, <3>2
      <3> QED BY <3>1, <3>2
    <2>8. ConnectionsExact'
      BY <2>7 DEF ConnectionsExact, stored
    <2>9. BrowserTypeOK' /\ IdsFresh' /\ KeysOfPast' /\ QuotesOfBroker'
      BY <1>5, <2>2, <2>4
    <2> QED BY <2>8, <2>9 DEF BrowserIInv, SessionsSound
  <1>8. CASE at(c, "opened") /\ goTo(c, "streaming") /\ UNCHANGED sessions
    <2>1. /\ h' \in [Handlers -> HandlerState] /\ h'[c].at = "streaming" /\ h'[c].id = k
          /\ \A d \in Handlers : d # c => h'[d] = h[d]
      BY <1>k, <1>2, <1>8
    <2>2. ConnectionsExact'
      BY <1>k, <1>8, <2>1, StreamsKept DEF at
    <2>3. BrowserTypeOK' /\ IdsFresh' /\ KeysOfPast' /\ QuotesOfBroker'
      BY <1>0, <1>5, <1>8, <2>1
    <2> QED BY <2>2, <2>3 DEF BrowserIInv, SessionsSound
  <1> QED BY <1>k, <1>6, <1>7, <1>8 DEF openTickStream, streamEnd, at

\* A quote request that is answered, misses the cache, or asks the active broker for ticks.
LEMMA QuotesAsked ==
    ASSUME BrowserIInv, NEW c \in Handlers, cacheGet(c) \/ QuotesByToken(c)
    PROVE  BrowserIInv'
  <1>0. /\ h \in [Handlers -> HandlerState] /\ h[c].g \in Nat /\ h[c].src \in Registered \cup {NoBroker}
        /\ activeBroker \in Registered
    BY DEF BrowserIInv, BrowserTypeOK, HandlerState
  <1>1. UNCHANGED <<activeBroker, generation, sessions, created, now>> /\ cache' \subseteq cache
    BY DEF cacheGet, QuotesByToken, regVars, storeVars, quoteVars
  <1>2. h[c].at \in {"keyed", "missed"} /\ h[c].g <= generation
    BY DEF cacheGet, QuotesByToken, at, BrowserIInv, KeysOfPast
  <1>3. /\ h' \in [Handlers -> HandlerState] /\ \A d \in Handlers : d # c => h'[d] = h[d]
        /\ \/ h'[c].at = "idle"
           \/ h'[c].at = "missed" /\ h'[c].g = h[c].g
           \/ h'[c].at = "asked" /\ h'[c].g = h[c].g /\ h'[c].src = activeBroker
    <2>1. CASE go(c, FreeHandler)
      BY <2>1, HandlerFrees
    <2>2. CASE goTo(c, "missed")
      <3>1. /\ h' \in [Handlers -> HandlerState]
            /\ h'[c] = [at |-> "missed", b |-> h[c].b, g |-> h[c].g, id |-> h[c].id, src |-> h[c].src]
            /\ \A d \in Handlers : d # c => h'[d] = h[d]
        BY <1>0, <2>2, HandlerStep DEF goTo
      <3> QED BY <3>1
    <2>3. CASE goWith(c, "asked", h[c].g, activeBroker)
      <3>1. /\ h' \in [Handlers -> HandlerState]
            /\ h'[c] = [at |-> "asked", b |-> h[c].b, g |-> h[c].g, id |-> h[c].id, src |-> activeBroker]
            /\ \A d \in Handlers : d # c => h'[d] = h[d]
        BY <1>0, <2>3, HandlerStep
      <3> QED BY <3>1
    <2> QED BY <2>1, <2>2, <2>3 DEF cacheGet, QuotesByToken
  <1>4. BrowserTypeOK'
    BY <1>1, <1>3 DEF BrowserIInv, BrowserTypeOK, HandlerState
  <1>5. IdsFresh'
    BY <1>1, <1>3 DEF BrowserIInv, IdsFresh
  <1>6. KeysOfPast' /\ QuotesOfBroker'
    BY <1>1, <1>2, <1>3, QuotesKept
  <1>7. ConnectionsExact'
    BY <1>1, <1>2, <1>3, StreamsKept
  <1> QED BY <1>4, <1>5, <1>6, <1>7 DEF BrowserIInv, SessionsSound

\* The answered ticks are cached under the key that was read before they were asked for
\* (serveQuotes): when that key is the current one, they are the active broker's.
LEMMA QuotesServed == ASSUME BrowserIInv, NEW c \in Handlers, serveQuotes(c) PROVE BrowserIInv'
  <1> DEFINE b == h[c].b
             g == h[c].g
  <1>0. b \in Registered \cup {NoBroker} /\ g \in Nat /\ generation \in Nat
    BY DEF BrowserIInv, BrowserTypeOK
  <1>1. /\ UNCHANGED <<activeBroker, generation, sessions, created, now>> /\ at(c, "asked")
        /\ go(c, FreeHandler)
        /\ cacheSet(quoteCacheKey(b, g), h[c].src) \/ UNCHANGED cache
    BY DEF serveQuotes, regVars, storeVars, quoteVars
  <1>2. h' \in [Handlers -> HandlerState] /\ h'[c].at = "idle" /\ \A d \in Handlers : d # c => h'[d] = h[d]
    BY <1>1, HandlerFrees
  <1>3. g <= generation /\ (g = generation => h[c].src = activeBroker)
    BY <1>1 DEF BrowserIInv, KeysOfPast, at
  <1>4. \A e \in cache' : e \in cache \/ (e.key = quoteCacheKey(b, g) /\ e.src = h[c].src)
    <2>1. CASE cacheSet(quoteCacheKey(b, g), h[c].src)
      <3> HIDE DEF b, g
      <3> QED BY <2>1 DEF cacheSet
    <2> QED BY <1>1, <2>1
  <1>5. BrowserTypeOK'
    BY <1>1, <1>2 DEF BrowserIInv, BrowserTypeOK, HandlerState
  <1>6. IdsFresh'
    BY <1>1, <1>2 DEF BrowserIInv, IdsFresh
  <1>7. ConnectionsExact'
    BY <1>1, <1>2, StreamsKept DEF at
  <1>8. KeysOfPast'
    <2>1. \A e \in cache' : \E d \in Registered \cup {NoBroker}, k \in 0 .. generation' : e.key = quoteCacheKey(d, k)
      BY <1>0, <1>1, <1>3, <1>4 DEF BrowserIInv, KeysOfPast
    <2>2. \A d \in Handlers : h'[d].at \in {"keyed", "missed", "asked"} =>
             /\ h'[d].g <= generation'
             /\ h'[d].at = "asked" /\ h'[d].g = generation' => h'[d].src = activeBroker'
      BY <1>1, <1>2 DEF BrowserIInv, KeysOfPast, at
    <2> QED BY <2>1, <2>2 DEF KeysOfPast, at
  <1>9. QuotesOfBroker'
    BY <1>1, <1>3, <1>4 DEF BrowserIInv, SessionsSound, QuotesOfBroker, cached, quoteCacheKey
  <1> QED BY <1>5, <1>6, <1>7, <1>8, <1>9 DEF BrowserIInv, SessionsSound

\* A switch moves to a generation under which nothing was read or cached (SwitchTo); time passes.
LEMMA RegistryMoves == ASSUME BrowserIInv, switchMoves \/ Passes PROVE BrowserIInv'
  <1>0. activeBroker \in Registered /\ generation \in Nat /\ now \in Nat
    BY DEF BrowserIInv, BrowserTypeOK
  <1>1. UNCHANGED <<sessions, created, cache, h>>
    BY DEF switchMoves, Passes, storeVars, quoteVars
  <1>2. BrowserTypeOK' /\ IdsFresh'
    BY <1>0, <1>1 DEF BrowserIInv, BrowserTypeOK, IdsFresh, switchMoves, Passes, regVars
  <1>3. ConnectionsExact'
    BY <1>1, StreamsKept
  <1>4. CASE switchMoves
    <2>1. generation' = generation + 1
      BY <1>4 DEF switchMoves
    <2>2. \A d \in Handlers : h'[d].at \in {"keyed", "missed", "asked"} => h'[d].g <= generation
      BY <1>1 DEF BrowserIInv, KeysOfPast
    <2>3. \A d \in Handlers : h'[d].at \in {"keyed", "missed", "asked"} => h'[d].g <= generation' /\ h'[d].g # generation'
      <3>1. \A d \in Handlers : h[d].g \in Nat
        BY DEF BrowserIInv, BrowserTypeOK
      <3> QED BY <1>0, <1>1, <2>1, <2>2, <3>1
    <2>4. \A e \in cache' : \E d \in Registered \cup {NoBroker}, k \in 0 .. generation : e.key = quoteCacheKey(d, k)
      BY <1>1 DEF BrowserIInv, KeysOfPast
    <2>5. 0 .. generation \subseteq 0 .. generation' /\ generation' \notin 0 .. generation
      BY <1>0, <2>1
    <2>6. KeysOfPast'
      BY <2>3, <2>4, <2>5 DEF KeysOfPast, at
    <2>7. \A e \in cache' : e.key # quoteCacheKey(activeBroker', generation')
      BY <2>4, <2>5 DEF quoteCacheKey
    <2>8. QuotesOfBroker'
      BY <2>7 DEF QuotesOfBroker, cached, quoteCacheKey
    <2> QED BY <1>2, <1>3, <2>6, <2>8 DEF BrowserIInv, SessionsSound
  <1>5. CASE Passes
    <2>1. KeysOfPast' /\ QuotesOfBroker'
      BY <1>1, <1>5, QuotesKept DEF Passes, regVars
    <2> QED BY <1>2, <1>3, <2>1 DEF BrowserIInv, SessionsSound
  <1> QED BY <1>4, <1>5

\* The store's books, the ids and the quote keys of the routes, through switches at any moment.
THEOREM BrowserInvariant == BrowserSpec => []BrowserIInv
  <1>1. BrowserIInv /\ [BrowserNext]_browserVars => BrowserIInv'
    <2> SUFFICES ASSUME BrowserIInv, [BrowserNext]_browserVars PROVE BrowserIInv'
      OBVIOUS
    <2>0. created \in Nat
      BY BrowserAssumption DEF BrowserIInv, BrowserTypeOK
    <2>1. CASE \E c \in Handlers : enter(c, "create", 0) \/ enter(c, "quotes", 0)
      BY <2>0, <2>1, RequestComes
    <2>2. CASE \E c \in Handlers : \E i \in 1 .. created : enter(c, "stream", i)
      <3>1. PICK c \in Handlers, i \in 1 .. created : enter(c, "stream", i)
        BY <2>2
      <3>2. i \in 0 .. created
        BY <2>0
      <3> QED BY <3>1, <3>2, RequestComes
    <2>3. CASE \E c \in Handlers : refuse(c) \/ readGeneration(c)
      BY <2>3, RequestGoesOn
    <2>4. CASE \E c \in Handlers : Create(c)
      BY <2>4, SessionComes
    <2>5. CASE \E c \in Handlers : Resolve(c)
      BY <2>5, SessionFound
    <2>6. CASE \E c \in Handlers : streamOpen(c) \/ openTickStream(c) \/ streamEnd(c)
      BY <2>6, StreamMoves
    <2>7. CASE \E c \in Handlers : cacheGet(c) \/ QuotesByToken(c)
      BY <2>7, QuotesAsked
    <2>8. CASE \E c \in Handlers : serveQuotes(c)
      BY <2>8, QuotesServed
    <2>9. CASE Sweep \/ DropAll \/ switchMoves \/ Passes
      BY <2>9, SessionsGo, RegistryMoves
    <2>10. CASE UNCHANGED browserVars
      <3>1. UNCHANGED <<activeBroker, generation, dropped, sessions, created, cache, latest, h, now, requests>>
        BY <2>10 DEF browserVars
      <3>2. KeysOfPast' /\ QuotesOfBroker'
        BY <3>1, QuotesKept
      <3>3. ConnectionsExact'
        BY <3>1, StreamsKept
      <3>4. BrowserTypeOK' /\ IdsFresh'
        BY <3>1 DEF BrowserIInv, BrowserTypeOK, IdsFresh
      <3> QED BY <3>2, <3>3, <3>4 DEF BrowserIInv, SessionsSound
    <2> QED BY <2>1, <2>2, <2>3, <2>4, <2>5, <2>6, <2>7, <2>8, <2>9, <2>10 DEF BrowserNext
  <1> QED BY <1>1, BrowserInitEstablishes, PTL DEF BrowserSpec

\* Every stored session counts exactly the streams that hold it, and the quotes a current request
\* finds are the active broker's (openTickStream, quoteCacheKey).
THEOREM SessionsAlwaysSound == BrowserSpec => []SessionsSound
  <1>1. BrowserIInv => SessionsSound
    BY DEF BrowserIInv
  <1> QED BY <1>1, BrowserInvariant, PTL

-----------------------------------------------------------------------------
(* The instrument universes                                                *)

\* Nothing is loaded, and nobody has called (NewInstrumentStore).
LEMMA LoadInitEstablishes == LoadInit => LoadIInv
  BY LoadBounds
  DEF LoadInit, LoadIInv, LoadTypeOK, StartedOnly, FiledAsBegun, JoinedBroker, AnsweredByOwn, Brokers,
      Loads, NoCache, NoLoad, NoneLoaded, FreeCaller, NoSwitch, ofBroker

\* A load that starts takes a number nobody holds, for the broker and the generation it was asked for.
LEMMA LoadStarts ==
    ASSUME LoadIInv, NEW b \in Brokers, NEW g \in Nat, start(b, g)
    PROVE  /\ started' \in 0 .. MaxLoads /\ started' = started + 1
           /\ loads' \in [Loads -> [at : {"none", "begun", "master", "fetched", "done"}, broker : Brokers,
                                    gen : Nat, got : {"none", "rows", "error"}]]
           /\ \A l \in 1 .. started : loads'[l] = loads[l]
           /\ loads'[started + 1].broker = b /\ loads'[started + 1].gen = g
           /\ inFlight' \in [Brokers -> 0 .. MaxLoads]
           /\ StartedOnly' /\ JoinedBroker'
  <1>0. /\ started \in 0 .. MaxLoads /\ MaxLoads \in Nat /\ StartedOnly /\ JoinedBroker
        /\ loads \in [Loads -> [at : {"none", "begun", "master", "fetched", "done"}, broker : Brokers,
                               gen : Nat, got : {"none", "rows", "error"}]]
        /\ inFlight \in [Brokers -> 0 .. MaxLoads]
    BY LoadBounds DEF LoadIInv, LoadTypeOK
  <1> USE <1>0 DEF Loads
  <1> DEFINE new == [at |-> "begun", broker |-> b, gen |-> g, got |-> "none"]
  <1>1. /\ started < MaxLoads /\ started' = started + 1
        /\ loads' = [loads EXCEPT ![started + 1] = new] /\ inFlight' = [inFlight EXCEPT ![b] = started + 1]
    BY DEF start
  <1>2. started + 1 \in Loads /\ started' \in 0 .. MaxLoads
    BY <1>1
  <1>3. loads'[started + 1] = new /\ \A l \in Loads : l # started + 1 => loads'[l] = loads[l]
    BY <1>1, <1>2
  <1>4. \A l \in 1 .. started : l \in Loads /\ loads'[l] = loads[l]
    BY <1>2, <1>3
  <1>5. loads' \in [Loads -> [at : {"none", "begun", "master", "fetched", "done"}, broker : Brokers,
                              gen : Nat, got : {"none", "rows", "error"}]]
    BY <1>1, <1>2
  <1>6. StartedOnly'
    BY <1>1, <1>2, <1>3 DEF StartedOnly
  <1>7. inFlight' \in [Brokers -> 0 .. MaxLoads]
    BY <1>1, <1>2
  <1>8. loads'[started + 1].broker = b /\ loads'[started + 1].gen = g
    BY <1>1, <1>2, <1>3 DEF ofBroker
  <1>9. JoinedBroker'
    BY <1>1, <1>2, <1>4, <1>8 DEF JoinedBroker, ofBroker, NoneLoaded
  <1> QED BY <1>1, <1>2, <1>4, <1>5, <1>6, <1>7, <1>8, <1>9

\* Loads that change their stage keep their broker and generation, and what is said of them stays true.
LEMMA LoadsMoveOn ==
    ASSUME LoadIInv, UNCHANGED <<caches, inFlight, started, caller>>,
           \A l \in Loads : /\ loads'[l].broker = loads[l].broker /\ loads'[l].gen = loads[l].gen
                            /\ loads'[l].at # "none" => loads[l].at # "none"
    PROVE  StartedOnly' /\ FiledAsBegun' /\ JoinedBroker' /\ AnsweredByOwn'
  <1> USE LoadBounds DEF LoadIInv, LoadTypeOK, Loads
  <1>1. \A l \in 1 .. started : l \in Loads
    OBVIOUS
  <1>2. \A l \in 1 .. MaxLoads, b \in Brokers : ofBroker(l, b)' <=> ofBroker(l, b)
    BY DEF ofBroker
  <1>3. StartedOnly'
    BY DEF StartedOnly
  <1>4. FiledAsBegun' /\ JoinedBroker'
    BY <1>1, <1>2 DEF FiledAsBegun, JoinedBroker, ofBroker
  <1>5. AnsweredByOwn'
    <2> SUFFICES ASSUME NEW c \in Callers, caller[c].at \in {"waiting", "cached", "answered"}
                 PROVE  /\ ofBroker(caller[c].on, caller[c].broker)'
                        /\ caller[c].at = "cached" => loads'[caller[c].on].gen = caller[c].gen
      BY DEF AnsweredByOwn
    <2>1. /\ ofBroker(caller[c].on, caller[c].broker)
          /\ caller[c].at = "cached" => loads[caller[c].on].gen = caller[c].gen
      BY DEF AnsweredByOwn
    <2>2. caller[c].on \in Loads
      BY <1>1, <2>1 DEF ofBroker
    <2> QED BY <2>1, <2>2 DEF ofBroker
  <1> QED BY <1>3, <1>4, <1>5

\* The fetch of Dhan's master ends for everyone who shares it (runLoad).
LEMMA MasterEnds == ASSUME LoadIInv, runLoad PROVE LoadIInv'
  <1> USE LoadBounds DEF LoadIInv, LoadTypeOK, Loads
  <1>1. PICK got \in {"rows", "error"} :
          /\ loads' = [l \in Loads |-> IF loads[l].at = "master" THEN fetched(l, got) ELSE loads[l]]
          /\ sw' = IF sw.at # "master" THEN sw
                   ELSE IF got = "rows" THEN [at |-> "universe", load |-> sw.load] ELSE NoSwitch
    BY DEF runLoad
  <1>2. UNCHANGED <<active, gen, caches, inFlight, started, caller>>
    BY DEF runLoad
  <1>3. \A l \in Loads : /\ loads'[l].broker = loads[l].broker /\ loads'[l].gen = loads[l].gen
                         /\ loads'[l].at # "none" => loads[l].at # "none"
    BY <1>1 DEF fetched
  <1>4. LoadTypeOK'
    <2>1. loads' \in [Loads -> [at : {"none", "begun", "master", "fetched", "done"}, broker : Brokers,
                               gen : Nat, got : {"none", "rows", "error"}]]
      BY <1>1 DEF fetched
    <2>2. sw' \in [at : {"none", "store", "master", "universe", "loading"}, load : 0 .. MaxLoads]
      BY <1>1 DEF NoSwitch, NoneLoaded
    <2> QED BY <1>2, <2>1, <2>2
  <1> QED BY <1>2, <1>3, <1>4, LoadsMoveOn

\* A call begins and reads broker and generation together (namespaceFor); a caller gives up.
LEMMA CallerComes == ASSUME LoadIInv, NEW c \in Callers, namespaceFor(c) \/ cancelled(c) PROVE LoadIInv'
  <1> USE LoadBounds DEF LoadIInv, LoadTypeOK
  <1>1. UNCHANGED <<registryVars, providerVars>>
    BY DEF namespaceFor, cancelled
  <1>2. /\ caller'[c].at \in {"idle", "locking"} /\ \A d \in Callers : d # c => caller'[d] = caller[d]
        /\ LoadTypeOK'
    BY <1>1 DEF namespaceFor, cancelled, registryVars, providerVars, FreeCaller, NoneLoaded, Brokers
  <1>3. AnsweredByOwn'
    BY <1>1, <1>2 DEF AnsweredByOwn, ofBroker, providerVars
  <1> QED BY <1>1, <1>2, <1>3 DEF StartedOnly, FiledAsBegun, JoinedBroker, ofBroker, providerVars

\* A fresh cache answers, or the load in flight is joined, or one starts (Load).
LEMMA LoadAnswers == ASSUME LoadIInv, NEW c \in Callers, NEW force \in BOOLEAN, Load(c, force) PROVE LoadIInv'
  <1>0. ASSUME NEW br \in Brokers, NEW ge \in Nat, start(br, ge)
        PROVE  /\ started' \in 0 .. MaxLoads /\ started' = started + 1
               /\ loads' \in [Loads -> [at : {"none", "begun", "master", "fetched", "done"}, broker : Brokers,
                                        gen : Nat, got : {"none", "rows", "error"}]]
               /\ \A l \in 1 .. started : loads'[l] = loads[l]
               /\ loads'[started + 1].broker = br
               /\ inFlight' \in [Brokers -> 0 .. MaxLoads]
               /\ StartedOnly' /\ JoinedBroker'
    BY <1>0, LoadStarts
  <1> USE LoadBounds DEF LoadIInv, LoadTypeOK
  <1> DEFINE b == caller[c].broker
             g == caller[c].gen
  <1>1. b \in Brokers /\ g \in Nat /\ UNCHANGED <<active, gen, sw>>
    BY DEF Load, registryVars
  <1>2. ASSUME NEW to \in {"cached", "waiting"}, NEW l \in 1 .. MaxLoads, answered(c, to, l)
        PROVE  /\ caller' \in [Callers -> [at : {"idle", "locking", "waiting", "cached", "answered"},
                                           broker : Brokers, gen : Nat, on : 0 .. MaxLoads]]
               /\ caller'[c].at = to /\ caller'[c].on = l /\ caller'[c].broker = b /\ caller'[c].gen = g
               /\ \A d \in Callers : d # c => caller'[d] = caller[d]
    BY <1>2 DEF answered
  <1>3. CASE fresh(b, g) /\ ~force
    <2>1. answered(c, "cached", caches[b].load) /\ UNCHANGED providerVars
      BY <1>3 DEF Load
    <2>2. caches[b].load \in 1 .. MaxLoads /\ ofBroker(caches[b].load, b) /\ loads[caches[b].load].gen = g
      BY <1>1, <1>3 DEF fresh, FiledAsBegun, NoneLoaded
    <2>3. LoadTypeOK'
      BY <1>1, <1>2, <2>1, <2>2 DEF providerVars
    <2>4. AnsweredByOwn'
      BY <1>1, <1>2, <2>1, <2>2 DEF providerVars, AnsweredByOwn, ofBroker
    <2> QED BY <2>1, <2>3, <2>4 DEF StartedOnly, FiledAsBegun, JoinedBroker, ofBroker, providerVars
  <1>4. CASE ~(fresh(b, g) /\ ~force) /\ inFlight[b] # NoneLoaded /\ ~force
    <2>1. answered(c, "waiting", inFlight[b]) /\ UNCHANGED providerVars
      BY <1>4 DEF Load
    <2>2. inFlight[b] \in 1 .. MaxLoads /\ ofBroker(inFlight[b], b)
      BY <1>1, <1>4 DEF JoinedBroker, NoneLoaded
    <2>3. LoadTypeOK'
      BY <1>1, <1>2, <2>1, <2>2 DEF providerVars
    <2>4. AnsweredByOwn'
      BY <1>1, <1>2, <2>1, <2>2 DEF providerVars, AnsweredByOwn, ofBroker
    <2> QED BY <2>1, <2>3, <2>4 DEF StartedOnly, FiledAsBegun, JoinedBroker, ofBroker, providerVars
  <1>5. CASE ~(fresh(b, g) /\ ~force) /\ ~(inFlight[b] # NoneLoaded /\ ~force)
    <2>1. start(b, g) /\ answered(c, "waiting", started + 1) /\ UNCHANGED caches
      BY <1>5 DEF Load
    <2>2. /\ started' \in 0 .. MaxLoads /\ started' = started + 1
          /\ loads' \in [Loads -> [at : {"none", "begun", "master", "fetched", "done"}, broker : Brokers,
                                   gen : Nat, got : {"none", "rows", "error"}]]
          /\ \A l \in 1 .. started : loads'[l] = loads[l]
          /\ loads'[started + 1].broker = b
          /\ inFlight' \in [Brokers -> 0 .. MaxLoads]
          /\ StartedOnly' /\ JoinedBroker'
      BY <1>0, <1>1, <2>1
    <2>3. started + 1 \in 1 .. MaxLoads
      BY <2>2
    <2>4. LoadTypeOK'
      BY <1>1, <1>2, <2>1, <2>2, <2>3
    <2>5. FiledAsBegun'
      BY <2>1, <2>2 DEF FiledAsBegun, ofBroker
    <2>6. AnsweredByOwn'
      BY <1>1, <1>2, <2>1, <2>2, <2>3 DEF AnsweredByOwn, ofBroker
    <2> QED BY <2>2, <2>4, <2>5, <2>6
  <1> QED BY <1>3, <1>4, <1>5

\* A load asks Kite, or the Dhan store (fetchFor).
LEMMA LoadFetches == ASSUME LoadIInv, NEW l \in Loads, fetchFor(l) PROVE LoadIInv'
  <1> USE LoadBounds DEF LoadIInv, LoadTypeOK
  <1>1. UNCHANGED <<active, gen, sw, caches, inFlight, started, caller>>
    BY DEF fetchFor, registryVars
  <1>2. \E got \in {"rows", "error"} :
           \/ loads' = [loads EXCEPT ![l] = fetched(l, got)]
           \/ loads' = [loads EXCEPT ![l] = [@ EXCEPT !.at = "master"]]
    BY DEF fetchFor
  <1>3. loads[l].at = "begun"
    BY DEF fetchFor
  <1>4. \A m \in Loads : /\ loads'[m].broker = loads[m].broker /\ loads'[m].gen = loads[m].gen
                         /\ loads'[m].at # "none" => loads[m].at # "none"
    BY <1>2, <1>3 DEF fetched
  <1>5. LoadTypeOK'
    <2>1. \A got \in {"rows", "error"} :
             fetched(l, got) \in [at : {"none", "begun", "master", "fetched", "done"}, broker : Brokers,
                                 gen : Nat, got : {"none", "rows", "error"}]
      BY DEF fetched
    <2>2. loads' \in [Loads -> [at : {"none", "begun", "master", "fetched", "done"}, broker : Brokers,
                               gen : Nat, got : {"none", "rows", "error"}]]
      <3>1. CASE loads' = [loads EXCEPT ![l] = [@ EXCEPT !.at = "master"]]
        BY <3>1
      <3>2. ASSUME NEW got \in {"rows", "error"}, loads' = [loads EXCEPT ![l] = fetched(l, got)]
            PROVE  loads' \in [Loads -> [at : {"none", "begun", "master", "fetched", "done"}, broker : Brokers,
                                        gen : Nat, got : {"none", "rows", "error"}]]
        BY <2>1, <3>2
      <3> QED BY <1>2, <3>1, <3>2
    <2> QED BY <1>1, <2>2
  <1> QED BY <1>1, <1>4, <1>5, LoadsMoveOn

\* A load lands under the broker and generation it began with, and its callers are answered (landed).
LEMMA LoadLands == ASSUME LoadIInv, NEW l \in Loads, landed(l) PROVE LoadIInv'
  <1> USE LoadBounds DEF LoadIInv, LoadTypeOK
  <1> DEFINE b == loads[l].broker
  <1>1. /\ UNCHANGED <<active, gen, started>> /\ loads[l].at = "fetched"
        /\ caches' = IF loads[l].got = "rows" THEN [caches EXCEPT ![b] = filed(l)] ELSE caches
        /\ inFlight' = [inFlight EXCEPT ![b] = NoneLoaded]
        /\ loads' = [loads EXCEPT ![l] = [@ EXCEPT !.at = "done"]]
        /\ caller' = [c \in Callers |-> IF caller[c].at = "waiting" /\ caller[c].on = l
                                        THEN [caller[c] EXCEPT !.at = "answered"] ELSE caller[c]]
        /\ sw' = IF sw.load = l THEN NoSwitch ELSE sw
    BY DEF landed
  <1>2. b \in Brokers /\ l <= started /\ l \in 1 .. started
    BY <1>1 DEF StartedOnly, Loads
  <1>3. \A m \in Loads : /\ loads'[m].broker = loads[m].broker /\ loads'[m].gen = loads[m].gen
                         /\ loads'[m].at # "none" => loads[m].at # "none"
    BY <1>1
  <1>4. \A m \in 1 .. started : m \in Loads
    BY DEF Loads
  <1>5. LoadTypeOK'
    <2>1. filed(l) \in [load : 0 .. MaxLoads, gen : Nat, old : BOOLEAN]
      BY <1>2 DEF filed, Loads
    <2>2. /\ caches' \in [Brokers -> [load : 0 .. MaxLoads, gen : Nat, old : BOOLEAN]]
          /\ inFlight' \in [Brokers -> 0 .. MaxLoads]
      BY <1>1, <1>2, <2>1 DEF NoneLoaded
    <2>3. loads' \in [Loads -> [at : {"none", "begun", "master", "fetched", "done"}, broker : Brokers,
                               gen : Nat, got : {"none", "rows", "error"}]]
      BY <1>1
    <2>4. caller' \in [Callers -> [at : {"idle", "locking", "waiting", "cached", "answered"}, broker : Brokers,
                                  gen : Nat, on : 0 .. MaxLoads]]
      BY <1>1
    <2>5. sw' \in [at : {"none", "store", "master", "universe", "loading"}, load : 0 .. MaxLoads]
      BY <1>1 DEF NoSwitch, NoneLoaded
    <2> QED BY <1>1, <2>2, <2>3, <2>4, <2>5
  <1>6. StartedOnly'
    BY <1>1, <1>3 DEF StartedOnly
  <1>7. FiledAsBegun'
    BY <1>1, <1>2, <1>3, <1>4 DEF FiledAsBegun, ofBroker, filed
  <1>8. JoinedBroker'
    BY <1>1, <1>2, <1>3, <1>4 DEF JoinedBroker, ofBroker
  <1>9. AnsweredByOwn'
    <2>1. \A c \in Callers : /\ caller'[c].on = caller[c].on /\ caller'[c].broker = caller[c].broker
                             /\ caller'[c].gen = caller[c].gen
                             /\ caller'[c].at = "cached" => caller[c].at = "cached"
                             /\ caller'[c].at \in {"waiting", "cached", "answered"} =>
                                   caller[c].at \in {"waiting", "cached", "answered"}
      BY <1>1
    <2> QED BY <1>1, <1>3, <1>4, <2>1 DEF AnsweredByOwn, ofBroker
  <1> QED BY <1>5, <1>6, <1>7, <1>8, <1>9

\* An hour passes, or a step of SwitchTo that starts no load: the caches empty or grow old.
LEMMA CachesAge ==
    ASSUME LoadIInv, (\E b \in Brokers : hour(b)) \/ switchInvalidate \/ switchStore
    PROVE  LoadIInv'
  <1> USE LoadBounds DEF LoadIInv, LoadTypeOK
  <1>1. UNCHANGED <<inFlight, loads, started, caller>>
    BY DEF hour, switchInvalidate, switchStore, providerVars
  <1>2. active' \in Brokers /\ gen' \in Nat
    <2>1. CASE switchStore
      <3>1. gen' = gen + 1 /\ active' = CHOOSE b \in Brokers : b # active
        BY <2>1 DEF switchStore
      <3>2. \E b \in Brokers : b # active
        BY DEF Brokers
      <3> QED BY <3>1, <3>2
    <2>2. CASE (\E b \in Brokers : hour(b)) \/ switchInvalidate
      BY <2>2 DEF hour, switchInvalidate, registryVars
    <2> QED BY <2>1, <2>2
  <1>3. sw' \in [at : {"none", "store", "master", "universe", "loading"}, load : 0 .. MaxLoads]
    BY DEF hour, switchInvalidate, switchStore, registryVars, NoSwitch, NoneLoaded
  <1>4. /\ caches' \in [Brokers -> [load : 0 .. MaxLoads, gen : Nat, old : BOOLEAN]]
        /\ \A b \in Brokers : caches'[b].load # NoneLoaded =>
              caches'[b].load = caches[b].load /\ caches'[b].gen = caches[b].gen
    <2>1. CASE \E b \in Brokers : hour(b)
      <3>1. PICK b \in Brokers :
              caches' = caches \/ caches' = [caches EXCEPT ![b] = [@ EXCEPT !.old = TRUE]]
        BY <2>1 DEF hour
      <3>2. CASE caches' = [caches EXCEPT ![b] = [@ EXCEPT !.old = TRUE]]
        <4>1. [caches[b] EXCEPT !.old = TRUE] \in [load : 0 .. MaxLoads, gen : Nat, old : BOOLEAN]
          <5> DEFINE R == 0 .. MaxLoads
          <5>1. caches[b] \in [load : R, gen : Nat, old : BOOLEAN]
            OBVIOUS
          <5> HIDE DEF R, LoadIInv, LoadTypeOK
          <5>2. \A r \in [load : R, gen : Nat, old : BOOLEAN] :
                   [r EXCEPT !.old = TRUE] \in [load : R, gen : Nat, old : BOOLEAN]
            OBVIOUS
          <5> QED BY <5>1, <5>2 DEF R
        <4>2. caches' \in [Brokers -> [load : 0 .. MaxLoads, gen : Nat, old : BOOLEAN]]
          BY <3>2, <4>1
        <4>3. \A d \in Brokers : caches'[d].load = caches[d].load /\ caches'[d].gen = caches[d].gen
          BY <3>2
        <4> QED BY <4>2, <4>3
      <3> QED BY <3>1, <3>2
    <2>2. CASE switchInvalidate
      BY <2>2 DEF switchInvalidate, Invalidate, NoCache, NoneLoaded
    <2>3. CASE switchStore
      BY <2>3 DEF switchStore, providerVars
    <2> QED BY <2>1, <2>2, <2>3
  <1>5. FiledAsBegun'
    BY <1>1, <1>4 DEF FiledAsBegun, ofBroker
  <1> QED BY <1>1, <1>2, <1>3, <1>4, <1>5 DEF StartedOnly, JoinedBroker, AnsweredByOwn, ofBroker

\* The switch's own forced load (loadNewUniverse).
LEMMA SwitchLoads == ASSUME LoadIInv, loadNewUniverse PROVE LoadIInv'
  <1>1. start(active, gen) /\ sw' = [at |-> "loading", load |-> started + 1]
        /\ UNCHANGED <<active, gen, caches, caller>>
    BY DEF loadNewUniverse
  <1>2. active \in Brokers /\ gen \in Nat
    BY DEF LoadIInv, LoadTypeOK
  <1>3. /\ started' \in 0 .. MaxLoads /\ started' = started + 1
        /\ loads' \in [Loads -> [at : {"none", "begun", "master", "fetched", "done"}, broker : Brokers,
                                 gen : Nat, got : {"none", "rows", "error"}]]
        /\ \A l \in 1 .. started : loads'[l] = loads[l]
        /\ inFlight' \in [Brokers -> 0 .. MaxLoads]
        /\ StartedOnly' /\ JoinedBroker'
    BY <1>1, <1>2, LoadStarts
  <1>4. LoadTypeOK'
    BY <1>1, <1>3, LoadBounds DEF LoadIInv, LoadTypeOK
  <1>5. FiledAsBegun' /\ AnsweredByOwn'
    BY <1>1, <1>3, LoadBounds DEF LoadIInv, LoadTypeOK, FiledAsBegun, AnsweredByOwn, ofBroker
  <1> QED BY <1>3, <1>4, <1>5 DEF LoadIInv

\* Loads, caches and callers keep their brokers and generations, whenever a load lands.
THEOREM LoadInvariant == LoadSpec => []LoadIInv
  <1>1. LoadIInv /\ [LoadNext]_loadVars => LoadIInv'
    <2> SUFFICES ASSUME LoadIInv, [LoadNext]_loadVars PROVE LoadIInv'
      OBVIOUS
    <2>1. CASE \E c \in Callers : namespaceFor(c) \/ cancelled(c)
      BY <2>1, CallerComes
    <2>2. CASE \E c \in Callers, force \in BOOLEAN : Load(c, force)
      BY <2>2, LoadAnswers
    <2>3. CASE \E l \in Loads : fetchFor(l) \/ landed(l)
      BY <2>3, LoadFetches, LoadLands
    <2>4. CASE (\E b \in Brokers : hour(b)) \/ switchInvalidate \/ switchStore
      BY <2>4, CachesAge
    <2>5. CASE runLoad \/ loadNewUniverse
      BY <2>5, MasterEnds, SwitchLoads
    <2>6. CASE UNCHANGED loadVars
      BY <2>6 DEF loadVars, LoadIInv, LoadTypeOK, StartedOnly, FiledAsBegun, JoinedBroker, AnsweredByOwn, ofBroker
    <2> QED BY <2>1, <2>2, <2>3, <2>4, <2>5, <2>6 DEF LoadNext
  <1> QED BY <1>1, LoadInitEstablishes, PTL DEF LoadSpec

\* No caller is given the other broker's rows, nor cached ones of an earlier generation (Load,
\* Invalidate).
THEOREM CallersAlwaysGetTheirUniverse == LoadSpec => []UniverseOfCaller
  <1>1. LoadIInv => UniverseOfCaller
    BY DEF LoadIInv, AnsweredByOwn, ofBroker, UniverseOfCaller
  <1> QED BY <1>1, LoadInvariant, PTL

-----------------------------------------------------------------------------
(* The Kite session                                                        *)

\* Nothing held, nothing stored (New).
LEMMA KiteInitEstablishes == KiteSessionInit => KiteIInv
  <1> SUFFICES ASSUME KiteSessionInit PROVE KiteIInv
    OBVIOUS
  <1>1. <<>> \in Seq(TaskState) /\ Len(<<>>) = 0
    BY EmptySeq
  <1>2. KiteTypeOK
    BY <1>1 DEF KiteSessionInit, KiteTypeOK, RowState, CallState, NoStored, NoToken, IdleCall
  <1>3. ClearIsEmpty
    BY <1>1 DEF KiteSessionInit, ClearIsEmpty
  <1>4. BootQuiet /\ QueueFollows
    BY DEF KiteSessionInit, BootQuiet, QueueFollows, Between, IdleCall
  <1> QED BY <1>2, <1>3, <1>4 DEF KiteIInv

\* One request moves, the others stay.
LEMMA CallMoves ==
    ASSUME KiteIInv, NEW c \in KiteHandlers, NEW r \in CallState, kiteCall' = [kiteCall EXCEPT ![c] = r]
    PROVE  /\ kiteCall' \in [KiteHandlers -> CallState] /\ kiteCall'[c] = r
           /\ \A d \in KiteHandlers : d # c => kiteCall'[d] = kiteCall[d]
  <1>1. kiteCall \in [KiteHandlers -> CallState]
    BY DEF KiteIInv, KiteTypeOK
  <1> QED BY <1>1

\* A request that touches neither the token nor the queue, and was not refused before.
LEMMA RequestKeeps ==
    ASSUME KiteIInv, NEW c \in KiteHandlers, NEW r \in CallState, kiteCall' = [kiteCall EXCEPT ![c] = r],
           kiteCall[c].st \notin {"persist", "forget", "refused"}, r.st \notin {"persist", "forget"},
           UNCHANGED <<token, logins, day, kiteRow, held, tasks, boot, crossed, unwritten>>
    PROVE  KiteIInv'
  <1>1. /\ kiteCall' \in [KiteHandlers -> CallState] /\ kiteCall'[c] = r
        /\ \A d \in KiteHandlers : d # c => kiteCall'[d] = kiteCall[d]
    BY CallMoves
  <1>2. Between' = Between /\ \A d \in Between : kiteCall'[d] = kiteCall[d]
    BY <1>1 DEF Between
  <1>3. KiteTypeOK' /\ ClearIsEmpty'
    BY <1>1 DEF KiteIInv, KiteTypeOK, ClearIsEmpty
  <1>4. BootQuiet'
    BY <1>2 DEF KiteIInv, BootQuiet
  <1>5. Coming' = Coming
    BY DEF Coming
  <1>6. \A d \in KiteHandlers : kiteCall[d].st = "refused" => kiteCall'[d].st = "refused"
    BY <1>1
  <1>7. QueueFollows'
    BY <1>2, <1>5, <1>6 DEF KiteIInv, QueueFollows
  <1> QED BY <1>3, <1>4, <1>7 DEF KiteIInv

\* A token comes or goes and the handler goes to its second half: alone, or the changes crossed
\* (GenerateSession, ClearKiteSession).
LEMMA MemoryChanges ==
    ASSUME KiteIInv, NEW c \in KiteHandlers, NEW r \in CallState, kiteCall' = [kiteCall EXCEPT ![c] = r],
           kiteCall[c].st \notin {"persist", "forget"}, r.st \in {"persist", "forget"},
           token' = (IF r.st = "persist" THEN r.tok ELSE NoToken), logins' \in Nat, noteCross,
           UNCHANGED <<day, kiteRow, held, tasks, boot, unwritten>>
    PROVE  KiteIInv'
  <1>1. /\ kiteCall' \in [KiteHandlers -> CallState] /\ kiteCall'[c] = r
        /\ \A d \in KiteHandlers : d # c => kiteCall'[d] = kiteCall[d]
    BY CallMoves
  <1>2. token' \in Nat /\ crossed' \in BOOLEAN /\ (~crossed' => ~crossed /\ Between = {} /\ boot = "done")
    BY DEF KiteIInv, KiteTypeOK, noteCross, CallState, NoToken
  <1>3. Between = {} => Between' = {c}
    BY <1>1 DEF Between
  <1>4. KiteTypeOK'
    BY <1>1, <1>2 DEF KiteIInv, KiteTypeOK
  <1>5. ClearIsEmpty'
    BY DEF KiteIInv, ClearIsEmpty
  <1>6. BootQuiet'
    BY <1>2 DEF BootQuiet
  <1>7. QueueFollows'
    BY <1>1, <1>2, <1>3 DEF QueueFollows
  <1> QED BY <1>4, <1>5, <1>6, <1>7 DEF KiteIInv

\* A header is built: sent with the token held, or the call fails (newRequest).
LEMMA HeaderTyped ==
    ASSUME KiteIInv, NEW c \in KiteHandlers, NEW by \in {"none", "route", "job"}, NEW chunks \in Nat,
           authHeader(c, by, chunks)
    PROVE  \E r \in CallState : kiteCall' = [kiteCall EXCEPT ![c] = r] /\ r.st \in {"sent", "unsent", "idle"}
  <1> DEFINE r == IF token # NoToken THEN [st |-> "sent", by |-> by, tok |-> token, left |-> chunks]
                  ELSE IF by = "route" THEN [IdleCall EXCEPT !.st = "unsent"] ELSE IdleCall
  <1>1. kiteCall' = [kiteCall EXCEPT ![c] = r]
    BY DEF authHeader
  <1>2. r \in CallState /\ r.st \in {"sent", "unsent", "idle"}
    BY DEF KiteIInv, KiteTypeOK, CallState, IdleCall, NoToken
  <1> QED BY <1>1, <1>2

\* Requests go out, are asked again, and are answered.
LEMMA RequestGoes ==
    ASSUME KiteIInv, NEW c \in KiteHandlers,
           Request(c) \/ (\E by \in {"route", "job"} : GetInstruments(c, by)) \/ retryInstruments(c)
              \/ answers(c) \/ sessionRoute(c)
    PROVE  KiteIInv'
  <1>0. token \in Nat /\ kiteCall[c] \in CallState
    BY DEF KiteIInv, KiteTypeOK
  <1>1. UNCHANGED <<token, logins, day, kiteRow, held, tasks, boot, crossed, unwritten>>
    BY DEF Request, GetInstruments, retryInstruments, answers, sessionRoute, memoryVars, kiteStoreVars, bootVars, noteVars
  <1>2. kiteCall[c].st \in {"idle", "sent", "plain"}
    BY DEF Request, GetProfile, GetBasketMargin, GetOrderCharges, GetHistorical, GetQuotes, historicalCandles,
           quoteEntries, begin, GetInstruments, retryInstruments, answers, sessionRoute, IdleCall
  <1>3. \E r \in CallState : kiteCall' = [kiteCall EXCEPT ![c] = r] /\ r.st \notin {"persist", "forget"}
    <2>1. CASE Request(c)
      <3>1. \E by \in {"route", "job"}, chunks \in {1, 2} : authHeader(c, by, chunks)
        BY <2>1 DEF Request, GetProfile, GetBasketMargin, GetOrderCharges, GetHistorical, GetQuotes,
                    historicalCandles, quoteEntries
      <3> QED BY <3>1, HeaderTyped
    <2>2. CASE \E by \in {"route", "job"} : GetInstruments(c, by)
      <3>1. PICK by \in {"route", "job"} :
              kiteCall' = [kiteCall EXCEPT ![c] = [st |-> "plain", by |-> by, tok |-> NoToken, left |-> 1]]
        BY <2>2 DEF GetInstruments
      <3>2. [st |-> "plain", by |-> by, tok |-> NoToken, left |-> 1] \in CallState
        BY DEF CallState, NoToken
      <3> QED BY <3>1, <3>2
    <2>3. CASE retryInstruments(c)
      <3> DEFINE r == [st |-> "sent", by |-> kiteCall[c].by, tok |-> token, left |-> kiteCall[c].left]
      <3>1. kiteCall' = [kiteCall EXCEPT ![c] = r]
        BY <2>3 DEF retryInstruments, become
      <3>2. r \in CallState /\ r.st = "sent"
        BY <1>0 DEF CallState
      <3> QED BY <3>1, <3>2
    <2>4. CASE answers(c)
      <3>1. CASE kiteCall[c].left > 1
        <4>1. authHeader(c, kiteCall[c].by, kiteCall[c].left - 1) /\ kiteCall[c].by \in {"none", "route", "job"}
              /\ kiteCall[c].left - 1 \in Nat
          BY <1>0, <2>4, <3>1 DEF answers, CallState
        <4> QED BY <4>1, HeaderTyped
      <3>2. CASE ~(kiteCall[c].left > 1)
        BY <2>4, <3>2 DEF answers, done, IdleCall, CallState, NoToken
      <3> QED BY <3>1, <3>2
    <2>5. CASE sessionRoute(c)
      <3>1. [IdleCall EXCEPT !.st = "exchange"] \in CallState /\ [IdleCall EXCEPT !.st = "exchange"].st = "exchange"
        BY DEF IdleCall, CallState, NoToken
      <3> QED BY <2>5, <3>1 DEF sessionRoute
    <2> QED BY <2>1, <2>2, <2>3, <2>4, <2>5
  <1> QED BY <1>1, <1>2, <1>3, RequestKeeps

\* A token is refused: the one held is dropped, whichever was sent (callJSON).
LEMMA TokenRefused == ASSUME KiteIInv, NEW c \in KiteHandlers, callJSON(c) PROVE KiteIInv'
  <1>0. /\ token \in Nat /\ kiteCall[c] \in CallState /\ kiteCall[c].st \in {"sent", "plain"}
        /\ crossed \in BOOLEAN /\ unwritten \in BOOLEAN
        /\ UNCHANGED <<kiteRow, tasks, boot, held, day, logins>> /\ token' = NoToken
    BY DEF callJSON, KiteIInv, KiteTypeOK, kiteStoreVars, bootVars
  <1>1. \E r \in CallState : /\ kiteCall' = [kiteCall EXCEPT ![c] = r]
                             /\ \/ r.st = "refused" /\ unwritten' = unwritten
                                \/ r.st = "idle" /\ unwritten' = (unwritten \/ token # NoToken)
    <2>1. CASE kiteCall[c].by = "route"
      <3> DEFINE r == [st |-> "refused", by |-> kiteCall[c].by, tok |-> kiteCall[c].tok, left |-> kiteCall[c].left]
      <3>1. kiteCall' = [kiteCall EXCEPT ![c] = r] /\ unwritten' = unwritten
        BY <2>1 DEF callJSON, become
      <3>2. r \in CallState /\ r.st = "refused"
        BY <1>0 DEF CallState
      <3> QED BY <3>1, <3>2
    <2>2. CASE kiteCall[c].by # "route"
      <3>1. done(c) /\ unwritten' = (unwritten \/ token # NoToken)
        BY <2>2 DEF callJSON
      <3>2. IdleCall \in CallState /\ IdleCall.st = "idle"
        BY DEF IdleCall, CallState, NoToken
      <3> QED BY <3>1, <3>2 DEF done
    <2> QED BY <2>1, <2>2
  <1>2. PICK r \in CallState : /\ kiteCall' = [kiteCall EXCEPT ![c] = r]
                               /\ \/ r.st = "refused" /\ unwritten' = unwritten
                                  \/ r.st = "idle" /\ unwritten' = (unwritten \/ token # NoToken)
    BY <1>1
  <1>3. CASE token = NoToken
    <2>1. crossed' = crossed /\ unwritten' = unwritten /\ token' = token
      BY <1>0, <1>2, <1>3 DEF callJSON
    <2> QED BY <1>0, <1>2, <2>1, RequestKeeps
  <1>4. CASE token # NoToken
    <2>1. /\ kiteCall' \in [KiteHandlers -> CallState] /\ kiteCall'[c] = r
          /\ \A d \in KiteHandlers : d # c => kiteCall'[d] = kiteCall[d]
      BY <1>2, CallMoves
    <2>2. crossed' \in BOOLEAN /\ (~crossed' => ~crossed /\ Between = {} /\ boot = "done")
      BY <1>0, <1>4 DEF callJSON, noteCross
    <2>3. Between' = Between
      BY <1>0, <1>2, <2>1 DEF Between
    <2>4. unwritten' \in BOOLEAN /\ (~unwritten' => r.st = "refused")
      BY <1>0, <1>2, <1>4
    <2>5. KiteTypeOK' /\ ClearIsEmpty'
      BY <1>0, <2>1, <2>2, <2>4 DEF KiteIInv, KiteTypeOK, ClearIsEmpty, NoToken
    <2>6. BootQuiet'
      BY <1>0, <2>2 DEF BootQuiet
    <2>7. QueueFollows'
      BY <1>0, <2>1, <2>2, <2>3, <2>4 DEF QueueFollows
    <2> QED BY <2>5, <2>6, <2>7 DEF KiteIInv
  <1> QED BY <1>3, <1>4

\* A login, and the ends of a session: the memory first.
LEMMA SessionChanges ==
    ASSUME KiteIInv, NEW c \in KiteHandlers,
           GenerateSession(c) \/ logout(c) \/ onFeedTokenRejected(c) \/ SendError(c)
    PROVE  KiteIInv'
  <1>0. logins \in Nat /\ kiteCall[c] \in CallState
    BY DEF KiteIInv, KiteTypeOK
  <1>1. CASE GenerateSession(c)
    <2>1. kiteCall[c].st = "exchange" /\ UNCHANGED <<kiteRow, tasks, boot, held, day>>
      BY <1>1 DEF GenerateSession, kiteStoreVars, bootVars
    <2>2. CASE done(c) /\ UNCHANGED <<memoryVars, noteVars>>
      <3>1. IdleCall \in CallState /\ IdleCall.st = "idle" /\ kiteCall' = [kiteCall EXCEPT ![c] = IdleCall]
        BY <2>2 DEF IdleCall, CallState, NoToken, done
      <3> QED BY <2>1, <2>2, <3>1, RequestKeeps DEF memoryVars, noteVars
    <2>3. CASE ~(done(c) /\ UNCHANGED <<memoryVars, noteVars>>)
      <3> DEFINE r == [st |-> "persist", by |-> kiteCall[c].by, tok |-> logins + 1, left |-> kiteCall[c].left]
      <3>1. /\ kiteCall' = [kiteCall EXCEPT ![c] = r] /\ noteCross /\ token' = logins + 1 /\ logins' = logins + 1
            /\ UNCHANGED unwritten
        BY <1>1, <2>3 DEF GenerateSession, become
      <3>2. r \in CallState
        BY <1>0 DEF CallState
      <3>3. r.st = "persist" /\ r.tok = logins + 1
        OBVIOUS
      <3> HIDE DEF r
      <3>4. token' = (IF r.st = "persist" THEN r.tok ELSE NoToken) /\ logins' \in Nat
        BY <1>0, <3>1, <3>3
      <3> QED BY <2>1, <3>1, <3>2, <3>3, <3>4, MemoryChanges
    <2> QED BY <2>2, <2>3
  <1>2. CASE logout(c) \/ onFeedTokenRejected(c) \/ SendError(c)
    <2> DEFINE r == [IdleCall EXCEPT !.st = "forget"]
    <2>1. ClearSession(c) /\ kiteCall[c].st \notin {"persist", "forget"}
      BY <1>2 DEF logout, onFeedTokenRejected, SendError, EndedByHand, begin, IdleCall
    <2>2. r \in CallState /\ r.st = "forget"
      BY DEF CallState, IdleCall, NoToken
    <2>3. /\ kiteCall' = [kiteCall EXCEPT ![c] = r] /\ noteCross /\ token' = NoToken
          /\ UNCHANGED <<logins, day, kiteRow, held, tasks, boot, unwritten>>
      BY <2>1 DEF ClearSession, kiteStoreVars, bootVars
    <2> HIDE DEF r
    <2> QED BY <1>0, <2>1, <2>2, <2>3, MemoryChanges
  <1> QED BY <1>1, <1>2

\* The second half: the save or the delete is queued (persistKiteSession, ClearKiteSession).
LEMMA TaskQueued ==
    ASSUME KiteIInv, NEW c \in KiteHandlers, persistKiteSession(c) \/ ClearKiteSession(c)
    PROVE  KiteIInv'
  <1>0. /\ tasks \in Seq(TaskState) /\ kiteCall[c] \in CallState /\ day \in Nat
        /\ UNCHANGED <<token, logins, day, kiteRow, held, boot, crossed, unwritten>>
        /\ c \in Between /\ kiteCall' = [kiteCall EXCEPT ![c] = IdleCall]
    BY DEF KiteIInv, KiteTypeOK, persistKiteSession, ClearKiteSession, memoryVars, bootVars, noteVars, Between, done
  <1>1. PICK t \in TaskState : /\ tasks' = Append(tasks, t)
                               /\ t.op = "clear" => t.tok = NoToken
                               /\ t.tok = IF kiteCall[c].st = "persist" THEN kiteCall[c].tok ELSE NoToken
    <2>1. CASE persistKiteSession(c)
      <3> DEFINE t == [op |-> "save", tok |-> kiteCall[c].tok, day |-> day]
      <3>1. tasks' = Append(tasks, t) /\ kiteCall[c].st = "persist"
        BY <2>1 DEF persistKiteSession
      <3>2. t \in TaskState /\ t.op = "save" /\ t.tok = kiteCall[c].tok
        BY <1>0 DEF TaskState, CallState
      <3> QED BY <3>1, <3>2
    <2>2. CASE ClearKiteSession(c)
      <3> DEFINE t == [op |-> "clear", tok |-> NoToken, day |-> day]
      <3>1. tasks' = Append(tasks, t) /\ kiteCall[c].st = "forget"
        BY <2>2 DEF ClearKiteSession
      <3>2. t \in TaskState /\ t.op = "clear" /\ t.tok = NoToken
        BY <1>0 DEF TaskState, NoToken
      <3> QED BY <3>1, <3>2
    <2> QED BY <2>1, <2>2
  <1>2. /\ tasks' \in Seq(TaskState) /\ Len(tasks) \in Nat /\ Len(tasks') = Len(tasks) + 1
        /\ tasks'[Len(tasks')] = t /\ \A i \in 1 .. Len(tasks) : tasks'[i] = tasks[i]
    <2>1. Len(tasks) \in Nat
      BY <1>0, LenProperties
    <2>2. /\ Append(tasks, t) \in Seq(TaskState) /\ Len(Append(tasks, t)) = Len(tasks) + 1
          /\ Append(tasks, t)[Len(tasks) + 1] = t
          /\ \A i \in 1 .. Len(tasks) : Append(tasks, t)[i] = tasks[i]
      BY <1>0, AppendProperties
    <2>3. tasks' = Append(tasks, t)
      BY <1>1
    <2>4. Len(tasks') = Len(tasks) + 1
      BY <2>2, <2>3
    <2> QED BY <2>1, <2>2, <2>3, <2>4
  <1>3. tasks' # <<>>
    BY <1>2, EmptySeq
  <1>4. IdleCall \in CallState /\ IdleCall.st = "idle"
    BY DEF IdleCall, CallState, NoToken
  <1>5. /\ kiteCall' \in [KiteHandlers -> CallState] /\ kiteCall'[c] = IdleCall
        /\ \A d \in KiteHandlers : d # c => kiteCall'[d] = kiteCall[d]
    BY <1>0, <1>4, CallMoves
  <1>6. Between' = Between \ {c}
    BY <1>4, <1>5 DEF Between
  <1>7. KiteTypeOK'
    BY <1>0, <1>2, <1>5 DEF KiteIInv, KiteTypeOK
  <1>8. ClearIsEmpty'
    BY <1>1, <1>2 DEF KiteIInv, ClearIsEmpty
  <1>9. BootQuiet'
    BY <1>0 DEF KiteIInv, BootQuiet
  <1>10. QueueFollows'
    <2> SUFFICES ASSUME ~crossed, ~unwritten, boot = "done" PROVE QueueFollows'
      BY <1>0 DEF QueueFollows
    <2>1. token = t.tok /\ Between = {c}
      <3>1. /\ \A d \in Between : token = IF kiteCall[d].st = "persist" THEN kiteCall[d].tok ELSE NoToken
            /\ \A d, e \in Between : d = e
        BY DEF KiteIInv, QueueFollows
      <3>2. c \in Between
        BY <1>0
      <3> QED BY <1>1, <3>1, <3>2
    <2>2. Between' = {} /\ Coming' = token'
      BY <1>0, <1>2, <1>3, <1>6, <2>1 DEF Coming
    <2> QED BY <2>2 DEF QueueFollows
  <1> QED BY <1>7, <1>8, <1>9, <1>10 DEF KiteIInv

\* The oldest task is written, or is not and is noted (serialQueue).
LEMMA TaskRuns == ASSUME KiteIInv, drainTasks PROVE KiteIInv'
  <1> DEFINE want == IF Head(tasks).op = "save" THEN [tok |-> Head(tasks).tok, day |-> Head(tasks).day] ELSE NoStored
  <1>0. /\ tasks \in Seq(TaskState) /\ tasks # <<>> /\ kiteRow \in RowState /\ unwritten \in BOOLEAN
        /\ UNCHANGED <<token, logins, day, held, boot, crossed, kiteCall>>
    BY DEF KiteIInv, KiteTypeOK, drainTasks, memoryVars, bootVars
  <1>1. /\ tasks' = Tail(tasks) /\ (kiteRow' = want \/ kiteRow' = kiteRow)
        /\ unwritten' = (unwritten \/ kiteRow' # want)
    BY DEF drainTasks, pending, SaveKiteSession, DeleteKiteSession
  <1>2. /\ Head(tasks) \in TaskState /\ Head(tasks) = tasks[1] /\ tasks' \in Seq(TaskState)
        /\ Len(tasks) \in Nat \ {0} /\ Len(tasks') = Len(tasks) - 1
        /\ \A i \in 1 .. Len(tasks') : tasks'[i] = tasks[i + 1]
    <2>1. Len(tasks) \in Nat /\ Len(tasks) # 0
      BY <1>0, LenProperties, EmptySeq
    <2>2. /\ Head(tasks) \in TaskState /\ Head(tasks) = tasks[1] /\ Tail(tasks) \in Seq(TaskState)
          /\ Len(Tail(tasks)) = Len(tasks) - 1
          /\ \A i \in 1 .. Len(Tail(tasks)) : Tail(tasks)[i] = tasks[i + 1]
      BY <1>0, HeadTailProperties
    <2> QED BY <1>1, <2>1, <2>2
  <1>3. want \in RowState /\ want.tok = tasks[1].tok
    <2>1. CASE Head(tasks).op = "save"
      BY <1>2, <2>1 DEF RowState, TaskState
    <2>2. CASE Head(tasks).op # "save"
      <3>1. Head(tasks).op = "clear"
        BY <1>2, <2>2 DEF TaskState
      <3>2. tasks[1].tok = NoToken
        BY <1>2, <3>1 DEF KiteIInv, ClearIsEmpty
      <3> QED BY <2>2, <3>2 DEF NoStored, NoToken, RowState
    <2> QED BY <2>1, <2>2
  <1> HIDE DEF want
  <1>4. KiteTypeOK'
    BY <1>0, <1>1, <1>2, <1>3 DEF KiteIInv, KiteTypeOK
  <1>5. ClearIsEmpty'
    <2>1. \A i \in 1 .. Len(tasks') : i + 1 \in 1 .. Len(tasks)
      BY <1>2
    <2> QED BY <1>2, <2>1 DEF KiteIInv, ClearIsEmpty
  <1>6. BootQuiet'
    BY <1>0 DEF KiteIInv, BootQuiet
  <1>7. ~unwritten' => ~unwritten /\ Coming' = Coming
    <2> SUFFICES ASSUME ~unwritten' PROVE ~unwritten /\ Coming' = Coming
      OBVIOUS
    <2>1. ~unwritten /\ kiteRow' = want
      BY <1>0, <1>1
    <2>2. CASE tasks' = <<>>
      <3>1. Len(tasks) = 1
        BY <1>2, <2>2, EmptySeq
      <3> QED BY <1>0, <1>3, <2>1, <2>2, <3>1 DEF Coming
    <2>3. CASE tasks' # <<>>
      <3>1. Len(tasks') # 0
        BY <1>2, <2>3, EmptySeq
      <3>2. tasks'[Len(tasks')] = tasks[Len(tasks)]
        BY <1>2, <3>1
      <3> QED BY <1>0, <2>1, <2>3, <3>2 DEF Coming
    <2> QED BY <2>2, <2>3
  <1>8. QueueFollows'
    BY <1>0, <1>7 DEF KiteIInv, QueueFollows, Between
  <1> QED BY <1>4, <1>5, <1>6, <1>8 DEF KiteIInv

\* The boot: the row is read, then put into memory or deleted (RestoreKiteSession).
LEMMA BootRestores == ASSUME KiteIInv, restoreLoad \/ RestoreKiteSession PROVE KiteIInv'
  <1>0. /\ token \in Nat /\ kiteRow \in RowState /\ held \in RowState
        /\ UNCHANGED <<logins, day, tasks, crossed, kiteCall>> /\ boot # "done"
    BY DEF KiteIInv, KiteTypeOK, restoreLoad, RestoreKiteSession, memoryVars, kiteStoreVars
  <1>1. Between' = Between
    BY <1>0 DEF Between
  <1>2. NoStored \in RowState /\ NoStored.tok = NoToken
    BY DEF NoStored, RowState, NoToken
  <1>3. KiteTypeOK'
    BY <1>0, <1>2
    DEF KiteIInv, KiteTypeOK, restoreLoad, RestoreKiteSession, memoryVars, kiteStoreVars, DeleteKiteSession,
        LoadKiteSession, RowState
  <1>4. ClearIsEmpty'
    BY <1>0 DEF KiteIInv, ClearIsEmpty
  <1>5. BootQuiet'
    BY <1>0, <1>1 DEF KiteIInv, BootQuiet, restoreLoad, RestoreKiteSession, memoryVars, kiteStoreVars, LoadKiteSession
  <1>6. QueueFollows'
    <2> SUFFICES ASSUME ~crossed', ~unwritten', boot' = "done" PROVE QueueFollows'
      BY DEF QueueFollows
    <2>1. token = NoToken /\ tasks' = <<>> /\ Between' = {} /\ (boot # "load" => held = kiteRow)
      BY <1>0, <1>1 DEF KiteIInv, BootQuiet
    <2>2. kiteRow'.tok = token'
      BY <1>0, <1>2, <2>1
      DEF restoreLoad, RestoreKiteSession, memoryVars, kiteStoreVars, DeleteKiteSession
    <2> QED BY <2>1, <2>2 DEF QueueFollows, Coming
  <1> QED BY <1>3, <1>4, <1>5, <1>6 DEF KiteIInv

\* A restart keeps the row alone; a day passes.
LEMMA ProcessRestarts == ASSUME KiteIInv, Restart \/ NextDay PROVE KiteIInv'
  <1>1. CASE Restart
    <2>1. <<>> \in Seq(TaskState) /\ Len(<<>>) = 0
      BY EmptySeq
    <2>2. IdleCall \in CallState /\ IdleCall.st = "idle" /\ NoStored \in RowState
      BY DEF IdleCall, CallState, NoToken, NoStored, RowState
    <2>3. /\ token' = NoToken /\ tasks' = <<>> /\ boot' = "load" /\ held' = NoStored
          /\ kiteCall' = [c \in KiteHandlers |-> IdleCall] /\ crossed' = FALSE /\ unwritten' = FALSE
          /\ UNCHANGED <<kiteRow, day, logins>>
      BY <1>1 DEF Restart
    <2>4. KiteTypeOK'
      BY <2>1, <2>2, <2>3 DEF KiteIInv, KiteTypeOK, NoToken
    <2>5. ClearIsEmpty'
      BY <2>1, <2>3 DEF ClearIsEmpty
    <2>6. Between' = {}
      BY <2>2, <2>3 DEF Between
    <2>7. BootQuiet' /\ QueueFollows'
      BY <2>3, <2>6 DEF BootQuiet, QueueFollows
    <2> QED BY <2>4, <2>5, <2>7 DEF KiteIInv
  <1>2. CASE NextDay
    <2>1. /\ UNCHANGED <<token, logins, kiteRow, held, tasks, boot, crossed, unwritten, kiteCall>>
          /\ day' = day + 1
      BY <1>2 DEF NextDay, memoryVars, kiteStoreVars, noteVars
    <2>2. Between' = Between /\ Coming' = Coming
      BY <2>1 DEF Between, Coming
    <2> QED BY <2>1, <2>2 DEF KiteIInv, KiteTypeOK, ClearIsEmpty, BootQuiet, QueueFollows
  <1> QED BY <1>1, <1>2

\* Memory, queue, row and boot, through every interleaving of the routes and any restart.
THEOREM KiteInvariant == KiteSessionSpec => []KiteIInv
  <1>1. KiteIInv /\ [KiteSessionNext]_kiteSessionVars => KiteIInv'
    <2> SUFFICES ASSUME KiteIInv, [KiteSessionNext]_kiteSessionVars PROVE KiteIInv'
      OBVIOUS
    <2>1. CASE \E c \in KiteHandlers :
                 Request(c) \/ (\E by \in {"route", "job"} : GetInstruments(c, by)) \/ retryInstruments(c)
                    \/ answers(c) \/ sessionRoute(c)
      BY <2>1, RequestGoes
    <2>2. CASE \E c \in KiteHandlers : callJSON(c)
      BY <2>2, TokenRefused
    <2>3. CASE \E c \in KiteHandlers : GenerateSession(c) \/ logout(c) \/ onFeedTokenRejected(c) \/ SendError(c)
      BY <2>3, SessionChanges
    <2>4. CASE \E c \in KiteHandlers : persistKiteSession(c) \/ ClearKiteSession(c)
      BY <2>4, TaskQueued
    <2>5. CASE drainTasks \/ restoreLoad \/ RestoreKiteSession \/ Restart \/ NextDay
      BY <2>5, TaskRuns, BootRestores, ProcessRestarts
    <2>6. CASE UNCHANGED kiteSessionVars
      <3>1. UNCHANGED <<token, logins, day, kiteRow, held, tasks, boot, crossed, unwritten, kiteCall>>
        BY <2>6 DEF kiteSessionVars, memoryVars, kiteStoreVars, bootVars, noteVars
      <3>2. Between' = Between /\ Coming' = Coming
        BY <3>1 DEF Between, Coming
      <3> QED BY <3>1, <3>2 DEF KiteIInv, KiteTypeOK, ClearIsEmpty, BootQuiet, QueueFollows
    <2> QED BY <2>1, <2>2, <2>3, <2>4, <2>5, <2>6 DEF KiteSessionNext
  <1> QED BY <1>1, KiteInitEstablishes, PTL DEF KiteSessionSpec

\* With nothing under way the stored session is the one in memory (persistKiteSession,
\* ClearKiteSession, RestoreKiteSession).
THEOREM StoredAlwaysHeld == KiteSessionSpec => []StoredIsHeld
  <1>1. KiteIInv => StoredIsHeld
    BY DEF KiteIInv, QueueFollows, Between, Coming, StoredIsHeld
  <1> QED BY <1>1, KiteInvariant, PTL

-----------------------------------------------------------------------------
(* The Dhan session                                                        *)

Lanes == [sock : AnyToken, lost : BOOLEAN]
LoginKinds == {"none", "consent", "auto", "fetch", "paste"}
Places == {"none", "net", "check", "due", "save", "recycle", "start"}
CredentialOps == [kind : LoginKinds, at : Places, tok : AnyToken, old : AnyToken, src : Sources,
                  both : BOOLEAN]
Stages == {"no", "load", "adopt", "clear"}
SessionRows == [tok : AnyToken, src : Sources]
Restorings == [at : Stages, rec : SessionRows, changed : BOOLEAN]
NoLanes == [n \in LaneNames |-> NoLane]

\* A step that changes the session or its row is seen by a Restore under way.
LEMMA Touched ==
    ASSUME DhanTypeOK, Touch
    PROVE  /\ restoring' \in Restorings /\ restoring'.at = restoring.at /\ restoring'.rec = restoring.rec
           /\ restoring'.changed = (restoring.at # "no") /\ ~Undisturbed'
  <1>1. restoring \in Restorings /\ (restoring.at # "no") \in BOOLEAN
    BY DEF DhanTypeOK, Restorings, Stages, SessionRows
  <1>2. PICK b \in BOOLEAN : b = (restoring.at # "no")
    BY <1>1
  <1>3. restoring' = [restoring EXCEPT !.changed = b]
    BY <1>2 DEF Touch
  <1>4. /\ restoring' \in Restorings /\ restoring'.at = restoring.at /\ restoring'.changed = b
        /\ restoring'.rec = restoring.rec
    BY <1>1, <1>3 DEF Restorings
  <1> QED BY <1>2, <1>4 DEF Undisturbed

\* What a touched Restore owes.
LEMMA QuietOnceTouched ==
    ASSUME DhanTypeOK, RestoreQuiet, Touch, overtaken' \in {FALSE, overtaken}
    PROVE  RestoreQuiet' /\ overtaken' \in BOOLEAN
  <1>1. /\ restoring'.at = restoring.at /\ restoring'.changed = (restoring.at # "no") /\ ~Undisturbed'
        /\ restoring'.rec = restoring.rec
    BY Touched
  <1>2. overtaken \in BOOLEAN
    BY DEF DhanTypeOK
  <1>3. overtaken' \in BOOLEAN
    BY <1>2
  <1>4. restoring.at # "no" => ~overtaken'
    BY <1>2 DEF RestoreQuiet
  <1>5. restoring.at = "adopt" => restoring.rec.tok # NoAccess
    BY DEF RestoreQuiet
  <1>6. RestoreQuiet'
    BY <1>1, <1>4, <1>5 DEF RestoreQuiet
  <1> QED BY <1>3, <1>6

\* A step that leaves Restore, the session, its row and the lanes alone.
LEMMA StaysQuiet ==
    ASSUME RestoreQuiet, UNCHANGED <<restoring, overtaken>>,
           Undisturbed => /\ sessToken' = sessToken /\ row' = row /\ doubt' = doubt /\ current' = current
                          /\ sessOp'.at \notin {"recycle", "start"}
                          /\ sessOp'.at = "save" => sessOp'.old = NoAccess
    PROVE  RestoreQuiet'
  <1>1. Undisturbed' = Undisturbed
    BY DEF Undisturbed
  <1> QED BY <1>1 DEF RestoreQuiet

\* The fields of a typed lane.
LEMMA LaneFields ==
    ASSUME NEW s \in AnyToken, NEW b \in BOOLEAN, NEW lane \in Lanes
    PROVE  /\ [sock |-> s, lost |-> b] \in Lanes
           /\ [lane EXCEPT !.sock = s] \in Lanes /\ [lane EXCEPT !.sock = s].sock = s
           /\ [lane EXCEPT !.sock = s].lost = lane.lost
           /\ [lane EXCEPT !.lost = b] \in Lanes /\ [lane EXCEPT !.lost = b].sock = lane.sock
           /\ [lane EXCEPT !.lost = b].lost = b
           /\ NoLane \in Lanes /\ NoLane.sock = NoAccess /\ NoLane.lost = FALSE
  BY DEF Lanes, NoLane, AnyToken

\* The token a lane may connect on.
LEMMA UsableIsSession ==
    ASSUME DhanTypeOK
    PROVE  usableDhanToken \in {NoAccess, sessToken} /\ usableDhanToken \in AnyToken
  BY DEF DhanTypeOK, usableDhanToken, AnyToken

\* A lane that is built or found.
LEMMA EnsuredLane ==
    ASSUME DhanTypeOK, NEW lane \in Lanes
    PROVE  /\ ensureFeed(lane) \in Lanes /\ ensureFeed(lane).lost = lane.lost
           /\ ensureFeed(lane).sock \in {lane.sock, sessToken, NoAccess}
  <1> DEFINE s == IF lane.sock # NoAccess THEN lane.sock ELSE usableDhanToken
  <1>1. s \in AnyToken /\ s \in {lane.sock, sessToken, NoAccess}
    BY UsableIsSession DEF Lanes
  <1>2. ensureFeed(lane) = [lane EXCEPT !.sock = s]
    BY DEF ensureFeed
  <1> HIDE DEF s
  <1>3. /\ [lane EXCEPT !.sock = s] \in Lanes /\ [lane EXCEPT !.sock = s].sock = s
        /\ [lane EXCEPT !.sock = s].lost = lane.lost
    BY <1>1, TRUE \in BOOLEAN, LaneFields
  <1> QED BY <1>1, <1>2, <1>3

\* No lane has no socket to close.
LEMMA NoLaneClosed == NoLane.sock = NoAccess /\ [NoLane EXCEPT !.sock = NoAccess] = NoLane
  <1>1. \A e, b : [[sock |-> e, lost |-> b] EXCEPT !.sock = e] = [sock |-> e, lost |-> b]
    OBVIOUS
  <1> QED BY <1>1 DEF NoLane

\* Without a token no lane connects.
LEMMA EnsuredNoLane == ASSUME sessToken = NoAccess PROVE ensureFeed(NoLane) = NoLane
  <1>1. usableDhanToken = NoAccess
    BY DEF usableDhanToken
  <1> QED BY <1>1, NoLaneClosed DEF ensureFeed

\* A process starts without a token (Registry).
LEMMA DhanInitEstablishes == DhanSessionInit => DhanIInv
  <1> SUFFICES ASSUME DhanSessionInit PROVE DhanIInv
    OBVIOUS
  <1> USE DEF DhanSessionInit
  <1>1. DhanTypeOK
    <2>1. NoLane \in [sock : AnyToken, lost : BOOLEAN] /\ NoRow \in [tok : AnyToken, src : Sources]
      BY DEF NoLane, NoRow, AnyToken, Sources
    <2>2. Idle \in CredentialOps
      BY DEF Idle, CredentialOps, LoginKinds, Places, AnyToken, Sources
    <2>4. Restored \in Restorings
      BY <2>1 DEF Restored, Restorings, Stages, SessionRows
    <2>3. 0 \in 0 .. MaxTokens /\ sessToken \in AnyToken /\ rejected \in AnyToken /\ sessSource \in Sources
      BY SessionBounds DEF AnyToken, Sources
    <2> QED BY <2>1, <2>2, <2>3, <2>4 DEF DhanTypeOK, CredentialOps, LoginKinds, Places, Restorings, Stages,
                                          SessionRows
  <1>2. RestoreQuiet
    BY DEF RestoreQuiet, Undisturbed, Restored
  <1> QED BY <1>1, <1>2 DEF DhanIInv, RowFollows, RestartsAll, LanesFollow, LostIsDead, NoRow, Idle,
                            LaneNames, NoLane

\* The operation that takes opMu.
LEMMA OperationBegins ==
    ASSUME DhanTypeOK, NEW k \in LoginKinds, NEW a \in Places, NEW from \in Sources, NEW b \in BOOLEAN,
           Begin(k, a, from, b)
    PROVE  /\ sessOps' \in Nat /\ sessOp' \in CredentialOps
           /\ sessOp'.kind = k /\ sessOp'.at = a /\ sessOp'.both = b
  <1>1. sessOp' = [kind |-> k, at |-> a, tok |-> NoAccess, old |-> NoAccess, src |-> from, both |-> b]
    BY DEF Begin, Idle
  <1> QED BY <1>1 DEF Begin, DhanTypeOK, CredentialOps, AnyToken

\* A credential operation begins, goes on or ends before it has a token.
LEMMA OperationMoves ==
    ASSUME DhanIInv, ConsentBegin \/ PassBegin \/ FetchBegin \/ PasteBegin \/ NetSucceeds \/ NetFails \/ PassDue
    PROVE  DhanIInv'
  <1> USE DEF DhanIInv
  <1>1. UNCHANGED <<sessToken, sessSource, rejected, row, doubt, current, oldLost, byConsent, fate, dhanActive,
                    restoring, overtaken>>
    BY DEF ConsentBegin, PassBegin, FetchBegin, PasteBegin, NetSucceeds, NetFails, PassDue, sessionVars,
           rowVars, laneVars, dhanWorld, restoreVars
  <1>2. /\ issued' \in 0 .. MaxTokens /\ loginStop' \subseteq {"paused", "stopped"} /\ sessOps' \in Nat
        /\ sessOp' \in CredentialOps /\ sessOp'.at \notin {"recycle", "start"}
        /\ sessOp'.at = "save" => sessOp'.both /\ sessOp'.tok # NoAccess /\ sessOp'.old = sessToken
        /\ sessOp'.at \in {"net", "check", "due"} => sessOp'.both = (sessOp'.kind # "consent")
    <2>1. CASE ConsentBegin \/ PassBegin \/ FetchBegin \/ PasteBegin
      <3>1. CASE ConsentBegin
        <4>1. /\ sessOps' \in Nat /\ sessOp' \in CredentialOps
              /\ sessOp'.kind = "consent" /\ sessOp'.at = "net" /\ sessOp'.both = FALSE
          <5>1. /\ "consent" \in LoginKinds /\ "net" \in Places /\ "consent" \in Sources /\ FALSE \in BOOLEAN
            BY DEF LoginKinds, Places, Sources
          <5>2. Begin("consent", "net", "consent", FALSE)
            BY <3>1 DEF ConsentBegin
          <5> QED BY <5>1, <5>2, OperationBegins
        <4> QED BY <3>1, <4>1 DEF ConsentBegin, DhanTypeOK, dhanWorld
      <3>2. CASE PassBegin
        <4>1. /\ sessOps' \in Nat /\ sessOp' \in CredentialOps
              /\ sessOp'.kind = "auto" /\ sessOp'.at = "check" /\ sessOp'.both = TRUE
          <5>1. /\ "auto" \in LoginKinds /\ "check" \in Places /\ "service" \in Sources /\ TRUE \in BOOLEAN
            BY DEF LoginKinds, Places, Sources
          <5>2. Begin("auto", "check", "service", TRUE)
            BY <3>2 DEF PassBegin
          <5> QED BY <5>1, <5>2, OperationBegins
        <4> QED BY <3>2, <4>1 DEF PassBegin, DhanTypeOK, dhanWorld
      <3>3. CASE FetchBegin
        <4>1. /\ sessOps' \in Nat /\ sessOp' \in CredentialOps
              /\ sessOp'.kind = "fetch" /\ sessOp'.at = "net" /\ sessOp'.both = TRUE
          <5>1. /\ "fetch" \in LoginKinds /\ "net" \in Places /\ "service" \in Sources /\ TRUE \in BOOLEAN
            BY DEF LoginKinds, Places, Sources
          <5>2. Begin("fetch", "net", "service", TRUE)
            BY <3>3 DEF FetchBegin
          <5> QED BY <5>1, <5>2, OperationBegins
        <4> QED BY <3>3, <4>1 DEF FetchBegin, DhanTypeOK, dhanWorld
      <3>4. CASE PasteBegin
        <4>1. /\ sessOps' \in Nat /\ sessOp' \in CredentialOps
              /\ sessOp'.kind = "paste" /\ sessOp'.at = "net" /\ sessOp'.both = TRUE
          <5>1. /\ "paste" \in LoginKinds /\ "net" \in Places /\ "manual" \in Sources /\ TRUE \in BOOLEAN
            BY DEF LoginKinds, Places, Sources
          <5>2. Begin("paste", "net", "manual", TRUE)
            BY <3>4 DEF PasteBegin
          <5> QED BY <5>1, <5>2, OperationBegins
        <4> QED BY <3>4, <4>1 DEF PasteBegin, DhanTypeOK, dhanWorld
      <3> QED BY <2>1, <3>1, <3>2, <3>3, <3>4
    <2>2. CASE NetSucceeds
      <3>1. PICK t \in FetchToken : issued' = (IF t > issued THEN t ELSE issued)
                                    /\ sessOp' = [sessOp EXCEPT !.at = "save", !.tok = t, !.old = sessToken]
        BY <2>2 DEF NetSucceeds
      <3>2. t \in AccessTokens /\ t # NoAccess /\ t \in AnyToken
        BY <3>1 DEF FetchToken, AccessTokens, AnyToken, NoAccess
      <3>3. sessOp \in CredentialOps /\ sessOp.both /\ sessToken \in AnyToken
        BY <2>2 DEF NetSucceeds, DhanTypeOK, RestartsAll, CredentialOps, LoginKinds, Places
      <3>4. /\ sessOp' \in CredentialOps /\ sessOp'.at = "save" /\ sessOp'.tok = t /\ sessOp'.old = sessToken
            /\ sessOp'.both = sessOp.both
        BY <3>1, <3>2, <3>3 DEF CredentialOps, Places
      <3>5. issued' \in 0 .. MaxTokens
        BY <3>1, <3>2, SessionBounds DEF DhanTypeOK, AccessTokens
      <3> QED BY <2>2, <3>2, <3>3, <3>4, <3>5 DEF NetSucceeds, DhanTypeOK
    <2>3. CASE NetFails
      BY <2>3 DEF NetFails, End, DhanTypeOK, Idle, CredentialOps, LoginKinds, Places, Sources, AnyToken,
                  dhanWorld
    <2>4. CASE PassDue
      <3>1. issued' = issued /\ loginStop' = loginStop /\ sessOps' = sessOps
            /\ (sessOp' = [sessOp EXCEPT !.at = "net"] \/ sessOp' = Idle)
        BY <2>4 DEF PassDue, Goto, End, dhanWorld
      <3>2. sessOp \in CredentialOps /\ sessOp.both = (sessOp.kind # "consent")
        BY <2>4 DEF PassDue, DhanTypeOK, RestartsAll, CredentialOps, LoginKinds, Places
      <3>3. [sessOp EXCEPT !.at = "net"] \in CredentialOps /\ [sessOp EXCEPT !.at = "net"].at = "net"
            /\ [sessOp EXCEPT !.at = "net"].kind = sessOp.kind /\ [sessOp EXCEPT !.at = "net"].both = sessOp.both
        BY <3>2 DEF CredentialOps, Places
      <3>4. Idle \in CredentialOps /\ Idle.at = "none"
        BY DEF Idle, CredentialOps, LoginKinds, Places, AnyToken, Sources
      <3> QED BY <3>1, <3>2, <3>3, <3>4 DEF DhanTypeOK
    <2> QED BY <2>1, <2>2, <2>3, <2>4
  <1>3. sessOp.at # "recycle"
    <2>1. Idle.at = "none"
      BY DEF Idle
    <2> QED BY <2>1 DEF ConsentBegin, PassBegin, FetchBegin, PasteBegin, NetSucceeds, NetFails, PassDue, Begin
  <1>4. DhanTypeOK'
    BY <1>1, <1>2 DEF DhanTypeOK, CredentialOps, LoginKinds, Places
  <1>5. RowFollows' /\ RestartsAll'
    BY <1>1, <1>2 DEF RowFollows, RestartsAll, Undisturbed
  <1>6. LanesFollow' /\ LostIsDead'
    BY <1>1, <1>2, <1>3 DEF LanesFollow, LostIsDead, deadTokens
  <1>7. RestoreQuiet'
    <2>1. Undisturbed => sessToken = NoAccess
      BY DEF RestoreQuiet
    <2> QED BY <1>1, <1>2, <2>1, StaysQuiet
  <1> QED BY <1>4, <1>5, <1>6, <1>7

\* A token is adopted, together with its row.
LEMMA TokenAdopted == ASSUME DhanIInv, ConsentExchange \/ installDhanAccessToken PROVE DhanIInv'
  <1> USE DEF DhanIInv
  <1>1. CASE ConsentExchange
    <2>1. /\ sessOp.kind = "consent" /\ sessOp.at = "net"
          /\ UNCHANGED <<current, oldLost, loginStop, dhanActive, rejected, fate>>
      BY <1>1 DEF ConsentExchange, laneVars, sessionVars, dhanWorld, restoreVars
    <2>2. PICK t \in ConsumeConsent :
            IF t = NoAccess THEN End /\ UNCHANGED <<sessionVars, rowVars, dhanWorld, restoreVars>>
            ELSE /\ issued' = t /\ byConsent' = byConsent \cup {t}
                 /\ sessToken' = t /\ sessSource' = "consent"
                 /\ \E ok \in BOOLEAN : SaveDhanSession([tok |-> t, src |-> "consent"], ok)
                 /\ Goto("recycle") /\ Touch /\ overtaken' = FALSE
                 /\ UNCHANGED <<rejected, fate>>
      BY <1>1 DEF ConsentExchange
    <2>3. CASE t = NoAccess
      <3>1. UNCHANGED <<sessToken, sessSource, row, doubt, issued, byConsent, sessOps, restoring, overtaken>>
            /\ sessOp' = Idle
        BY <2>2, <2>3 DEF End, sessionVars, rowVars, dhanWorld, restoreVars
      <3>2. DhanTypeOK'
        BY <2>1, <3>1 DEF DhanTypeOK, Idle, Sources, AnyToken
      <3>3. RestoreQuiet'
        BY <2>1, <3>1, StaysQuiet DEF Idle
      <3> QED BY <2>1, <3>1, <3>2, <3>3 DEF RowFollows, RestartsAll, LanesFollow, LostIsDead, deadTokens, Idle,
                                            Undisturbed
    <2>4. CASE t # NoAccess
      <3>1. t = issued + 1 /\ t \in AccessTokens
        BY <2>2, <2>4, SessionBounds DEF ConsumeConsent, DhanTypeOK, AccessTokens, NoAccess
      <3>2. /\ issued' = t /\ byConsent' = byConsent \cup {t} /\ sessToken' = t /\ sessSource' = "consent"
            /\ sessOp' = [sessOp EXCEPT !.at = "recycle"] /\ sessOps' = sessOps
            /\ Touch /\ overtaken' = FALSE
        BY <2>2, <2>4 DEF Goto
      <3>3. /\ row' \in {[tok |-> t, src |-> "consent"], row} /\ doubt' \in BOOLEAN
            /\ ~doubt' => row' = [tok |-> t, src |-> "consent"]
        BY <2>2, <2>4 DEF SaveDhanSession
      <3>4. sessOp'.at = "recycle" /\ sessOp' \in CredentialOps
        BY <3>2 DEF DhanTypeOK, CredentialOps, LoginKinds, Places
      <3>6. RestoreQuiet' /\ restoring' \in Restorings /\ overtaken' \in BOOLEAN
        BY <3>2, Touched, QuietOnceTouched
      <3>5. DhanTypeOK'
        BY <2>1, <3>1, <3>2, <3>3, <3>4, <3>6, SessionBounds
           DEF DhanTypeOK, CredentialOps, LoginKinds, Places, Sources, AnyToken, AccessTokens, Restorings, Stages,
               SessionRows
      <3> QED BY <3>2, <3>3, <3>4, <3>5, <3>6 DEF RowFollows, RestartsAll, LanesFollow, LostIsDead
    <2> QED BY <2>3, <2>4
  <1>2. CASE installDhanAccessToken
    <2>1. /\ sessOp.at = "save" /\ UNCHANGED <<current, oldLost, issued, byConsent, fate, dhanActive>>
      BY <1>2 DEF installDhanAccessToken, laneVars, dhanWorld
    <2>2. PICK ok \in BOOLEAN :
            /\ SaveDhanSession([tok |-> sessOp.tok, src |-> sessOp.src], ok)
            /\ IF ok
               THEN /\ sessToken' = sessOp.tok /\ sessSource' = sessOp.src
                    /\ rejected' = (IF sessOp.kind = "paste" THEN NoAccess ELSE rejected)
                    /\ loginStop' = loginStop \ {IF sessOp.kind = "paste" THEN "paused" ELSE "stopped"}
                    /\ (IF sessOp.old = sessOp.tok THEN End /\ UNCHANGED overtaken
                        ELSE Goto("recycle") /\ overtaken' = FALSE)
               ELSE End /\ UNCHANGED <<sessionVars, loginStop, overtaken>>
      BY <1>2 DEF installDhanAccessToken
    <2>3. /\ sessOp \in CredentialOps /\ sessOp.tok \in AnyToken /\ sessOp.src \in Sources
          /\ sessOp.both /\ sessOp.tok # NoAccess /\ (overtaken \/ sessOp.old \in {NoAccess, sessToken})
      BY <2>1 DEF DhanTypeOK, CredentialOps, LoginKinds, Places, RestartsAll
    <2>4. /\ row' \in {[tok |-> sessOp.tok, src |-> sessOp.src], row} /\ doubt' \in BOOLEAN
          /\ ~doubt' => ok /\ row' = [tok |-> sessOp.tok, src |-> sessOp.src]
      BY <2>2 DEF SaveDhanSession
    <2>5. row' \in [tok : AnyToken, src : Sources]
      BY <2>3, <2>4 DEF DhanTypeOK
    <2>8. RestoreQuiet' /\ restoring' \in Restorings /\ overtaken' \in BOOLEAN
      <3>1. Touch /\ overtaken' \in {FALSE, overtaken}
        BY <1>2 DEF installDhanAccessToken
      <3> QED BY <3>1, Touched, QuietOnceTouched
    <2>6. CASE ok /\ sessOp.old # sessOp.tok
      <3>1. /\ sessToken' = sessOp.tok /\ sessSource' = sessOp.src /\ sessOps' = sessOps
            /\ sessOp' = [sessOp EXCEPT !.at = "recycle"] /\ rejected' \in {NoAccess, rejected}
            /\ loginStop' \subseteq loginStop /\ overtaken' = FALSE
        BY <2>2, <2>6 DEF Goto
      <3>2. sessOp' \in CredentialOps /\ sessOp'.at = "recycle" /\ sessOp'.both
        BY <2>3, <3>1 DEF CredentialOps, Places
      <3>3. DhanTypeOK'
        BY <2>1, <2>3, <2>4, <2>5, <2>8, <3>1, <3>2
           DEF DhanTypeOK, CredentialOps, LoginKinds, Places, AnyToken, Restorings, Stages, SessionRows
      <3> QED BY <2>4, <2>8, <3>1, <3>2, <3>3 DEF RowFollows, RestartsAll, LanesFollow, LostIsDead
    <2>7. CASE ~ok \/ sessOp.old = sessOp.tok
      <3>1. /\ sessOp' = Idle /\ sessOps' = sessOps /\ overtaken' = overtaken
            /\ sessToken' \in {sessToken, sessOp.tok} /\ (overtaken \/ sessToken' = sessToken)
            /\ sessSource' \in {sessSource, sessOp.src}
            /\ rejected' \in {NoAccess, rejected} /\ loginStop' \subseteq loginStop
        BY <2>2, <2>3, <2>7 DEF End, sessionVars
      <3>2. DhanTypeOK'
        BY <2>1, <2>3, <2>4, <2>5, <2>8, <3>1
           DEF DhanTypeOK, Idle, Sources, AnyToken, Restorings, Stages, SessionRows
      <3>3. RowFollows'
        BY <2>2, <2>4, <3>1 DEF RowFollows
      <3> QED BY <2>1, <2>8, <3>1, <3>2, <3>3 DEF RestartsAll, LanesFollow, LostIsDead, deadTokens, Idle
    <2> QED BY <2>6, <2>7
  <1> QED BY <1>1, <1>2

\* Lanes that are stopped and forgotten, from the lanes as the caller left them.
LEMMA LanesForgotten ==
    ASSUME NEW cur \in [LaneNames -> Lanes], NEW names, oldLost \in BOOLEAN, Forget(cur, names)
    PROVE  /\ current' \in [LaneNames -> Lanes] /\ oldLost' \in BOOLEAN
           /\ \A n \in LaneNames : current'[n] = IF n \in names THEN NoLane ELSE cur[n]
  <1>1. NoLane \in Lanes
    BY DEF Lanes, NoLane, AnyToken
  <1>2. \A n \in LaneNames : (IF n \in names THEN NoLane ELSE cur[n]) \in Lanes
    BY <1>1
  <1>3. current' = [n \in LaneNames |-> IF n \in names THEN NoLane ELSE cur[n]]
    BY DEF Forget
  <1>4. oldLost' \in BOOLEAN
    BY DEF Forget
  <1> QED BY <1>2, <1>3, <1>4

\* The lanes the restart starts, or a subscriber (Subscribe, startDhanFeed).
LEMMA LanesStart == ASSUME DhanIInv, restartStart \/ \E n \in LaneNames : LaneSubscribe(n) PROVE DhanIInv'
  <1> USE DEF DhanIInv
  <1>1. /\ UNCHANGED <<sessToken, sessSource, rejected, row, doubt, oldLost, issued, byConsent, fate, loginStop,
                       dhanActive, restoring, overtaken, sessOps>>
        /\ \/ sessOp' = sessOp
           \/ sessOp' = Idle /\ sessOp.at = "start"
    BY DEF restartStart, LaneSubscribe, sessionVars, rowVars, dhanWorld, restoreVars, End
  <1>2. current \in [LaneNames -> Lanes]
    BY DEF DhanTypeOK, Lanes
  <1>3. /\ current' \in [LaneNames -> Lanes]
        /\ \A n \in LaneNames : \/ current'[n] = current[n]
                                \/ current'[n] = ensureFeed(current[n])
    <2>1. \A n \in LaneNames : ensureFeed(current[n]) \in Lanes
      BY <1>2, EnsuredLane
    <2>2. CASE restartStart
      <3>1. CASE ~dhanActive
        BY <1>2, <2>2, <3>1 DEF restartStart
      <3>2. CASE dhanActive
        <4>1. PICK replay \in SUBSET {"box"} :
                current' = [n \in LaneNames |->
                   IF n = "fut" \/ n \in replay THEN ensureFeed(current[n]) ELSE current[n]]
          BY <2>2, <3>2 DEF restartStart
        <4>2. \A n \in LaneNames :
                (IF n = "fut" \/ n \in replay THEN ensureFeed(current[n]) ELSE current[n]) \in Lanes
          BY <1>2, <2>1
        <4> QED BY <4>1, <4>2
      <3> QED BY <3>1, <3>2
    <2>3. CASE \E n \in LaneNames : LaneSubscribe(n)
      <3>1. PICK m \in LaneNames : current' = [current EXCEPT ![m] = ensureFeed(current[m])]
        BY <2>3 DEF LaneSubscribe
      <3> QED BY <1>2, <2>1, <3>1
    <2> QED BY <2>2, <2>3
  <1>4. \A n \in LaneNames : /\ current'[n].lost = current[n].lost
                             /\ current'[n].sock \in {current[n].sock, sessToken, NoAccess}
    BY <1>2, <1>3, EnsuredLane
  <1>5. Idle \in CredentialOps /\ Idle.at = "none"
    BY DEF Idle, CredentialOps, LoginKinds, Places, AnyToken, Sources
  <1>6. DhanTypeOK'
    BY <1>1, <1>3, <1>5 DEF DhanTypeOK, CredentialOps, LoginKinds, Places, Lanes
  <1>7. RowFollows' /\ RestartsAll'
    BY <1>1, <1>5 DEF RowFollows, RestartsAll, Undisturbed
  <1>8. LanesFollow' /\ LostIsDead'
    BY <1>1, <1>4, <1>5 DEF LanesFollow, LostIsDead, deadTokens, LaneNames
  <1>9. RestoreQuiet'
    <2>1. ASSUME Undisturbed PROVE current' = current
      <3>1. sessToken = NoAccess /\ \A n \in LaneNames : current[n] = NoLane
        BY <2>1 DEF RestoreQuiet
      <3>2. \A n \in LaneNames : current'[n] = current[n]
        BY <1>3, <3>1, EnsuredNoLane
      <3> QED BY <1>2, <1>3, <3>2
    <2>2. sessOp'.at \in {"none", sessOp.at} /\ (sessOp'.at = "save" => sessOp'.old = sessOp.old)
      BY <1>1, <1>5
    <2> QED BY <1>1, <2>1, <2>2, StaysQuiet DEF RestoreQuiet
  <1> QED BY <1>6, <1>7, <1>8, <1>9

\* The runtime is restarted: what ran on the previous token is gone, but for the box lane of a consent.
LEMMA RuntimeRestarts == ASSUME DhanIInv, restartRecycle PROVE DhanIInv'
  <1> USE DEF DhanIInv
  <1>1. /\ UNCHANGED <<sessToken, sessSource, rejected, row, doubt, issued, byConsent, fate, loginStop,
                       dhanActive, restoring, overtaken, sessOps>>
        /\ sessOp.at = "recycle" /\ sessOp' = [sessOp EXCEPT !.at = "start"]
        /\ Forget(current, IF sessOp.both THEN {"fut", "box"} ELSE {"fut"})
    BY DEF restartRecycle, sessionVars, rowVars, dhanWorld, restoreVars, Goto
  <1>2. current \in [LaneNames -> Lanes] /\ oldLost \in BOOLEAN
    BY DEF DhanTypeOK, Lanes
  <1>3. /\ current' \in [LaneNames -> Lanes] /\ oldLost' \in BOOLEAN
        /\ current'["fut"] = NoLane
        /\ overtaken \/ current'["box"] = NoLane \/ sessToken \in byConsent
    BY <1>1, <1>2, LanesForgotten DEF LaneNames, RestartsAll
  <1>4. sessOp' \in CredentialOps /\ sessOp'.at = "start"
    BY <1>1 DEF DhanTypeOK, CredentialOps, LoginKinds, Places
  <1>5. DhanTypeOK'
    BY <1>1, <1>3, <1>4 DEF DhanTypeOK, CredentialOps, LoginKinds, Places, Lanes
  <1>6. RowFollows' /\ RestartsAll'
    BY <1>1, <1>4 DEF RowFollows, RestartsAll, Undisturbed
  <1>7. LanesFollow' /\ LostIsDead'
    BY <1>1, <1>3 DEF LanesFollow, LostIsDead, NoLane
  <1>8. RestoreQuiet'
    BY <1>1, StaysQuiet DEF RestoreQuiet
  <1> QED BY <1>5, <1>6, <1>7, <1>8

\* The lanes and the row when the session goes.
LEMMA SessionGoes ==
    ASSUME DhanTypeOK, NEW cur \in [LaneNames -> Lanes], StopLanes(cur), ClearDhanSession
    PROVE  /\ current' \in [LaneNames -> Lanes] /\ oldLost' \in BOOLEAN
           /\ current'["fut"].sock = NoAccess
           /\ row' \in [tok : AnyToken, src : Sources] /\ doubt' \in BOOLEAN
           /\ ~doubt' => row'.tok = NoAccess
  <1>1. PICK names : /\ names \subseteq {"box"} /\ Forget([cur EXCEPT !["fut"] = Stopped(cur["fut"])], names)
    <2>1. (IF sessSource \in TokenSources THEN {"box"} ELSE {}) \subseteq {"box"}
      OBVIOUS
    <2> QED BY <2>1 DEF StopLanes
  <1>2. Stopped(cur["fut"]) \in Lanes /\ Stopped(cur["fut"]).sock = NoAccess
    BY DEF LaneNames, Stopped, Lanes, AnyToken
  <1>3. [cur EXCEPT !["fut"] = Stopped(cur["fut"])] \in [LaneNames -> Lanes]
    BY <1>2
  <1>4. oldLost \in BOOLEAN /\ row \in [tok : AnyToken, src : Sources]
    BY DEF DhanTypeOK
  <1>5. /\ current' \in [LaneNames -> Lanes] /\ oldLost' \in BOOLEAN
        /\ current'["fut"] = Stopped(cur["fut"])
    <2> DEFINE left == [cur EXCEPT !["fut"] = Stopped(cur["fut"])]
    <2>1. left \in [LaneNames -> Lanes] /\ left["fut"] = Stopped(cur["fut"]) /\ Forget(left, names)
      BY <1>1, <1>3 DEF LaneNames
    <2>2. "fut" \in LaneNames /\ "fut" \notin names
      BY <1>1 DEF LaneNames
    <2> HIDE DEF left
    <2> QED BY <1>4, <2>1, <2>2, LanesForgotten
  <1>6. NoRow \in [tok : AnyToken, src : Sources] /\ NoRow.tok = NoAccess
    BY DEF NoRow, AnyToken, Sources
  <1> QED BY <1>2, <1>4, <1>5, <1>6 DEF ClearDhanSession

\* The session is lost to a check, to a lane's callback or to a logout.
LEMMA SessionLost ==
    ASSUME DhanIInv, PassCheck \/ (\E n \in LaneNames : FeedSessionLost(n)) \/ LogoutDhan
    PROVE  DhanIInv'
  <1> USE DEF DhanIInv
  <1>1. current \in [LaneNames -> Lanes] /\ sessOp \in CredentialOps
    BY DEF DhanTypeOK, Lanes, CredentialOps, LoginKinds, Places
  <1>2. /\ UNCHANGED <<issued, byConsent, fate, dhanActive>>
        /\ sessSource' \in {sessSource, "none"} /\ rejected' \in {rejected, sessToken}
        /\ loginStop' \in {loginStop, loginStop \cup {"paused"}} /\ sessOps' \in {sessOps, sessOps + 1}
    BY DEF PassCheck, FeedSessionLost, LogoutDhan, onDhanSessionLost, sessionVars, dhanWorld, Goto
  <1>3. /\ sessOp' \in CredentialOps /\ sessOp.at # "recycle" /\ sessOp'.at # "recycle"
        /\ sessOp'.at = sessOp.at \/ (sessOp'.at = "due" /\ sessOp.at = "check")
        /\ sessOp'.both = sessOp.both /\ sessOp'.kind = sessOp.kind /\ sessOp'.tok = sessOp.tok
    <2>1. CASE PassCheck
      <3>1. sessOp.at = "check" /\ sessOp' = [sessOp EXCEPT !.at = "due"]
        BY <2>1 DEF PassCheck, Goto
      <3> QED BY <1>1, <3>1 DEF CredentialOps, Places
    <2>2. CASE ~PassCheck
      <3>1. sessOp' = sessOp /\ sessOp = Idle
        BY <2>2 DEF FeedSessionLost, LogoutDhan
      <3> QED BY <1>1, <3>1 DEF Idle
    <2> QED BY <2>1, <2>2
  <1>4. \/ UNCHANGED <<sessToken, row, doubt, current, oldLost, restoring, overtaken>>
        \/ /\ sessToken' = NoAccess /\ Touch /\ overtaken' = FALSE
           /\ \E cur \in [LaneNames -> Lanes] : StopLanes(cur) /\ ClearDhanSession
    <2>1. CASE PassCheck
      BY <1>1, <2>1 DEF PassCheck, onDhanSessionLost, sessionVars, rowVars, laneVars, restoreVars
    <2>2. CASE \E n \in LaneNames : FeedSessionLost(n)
      <3>1. PICK n \in LaneNames : onDhanSessionLost([current EXCEPT ![n].lost = FALSE])
        BY <2>2 DEF FeedSessionLost
      <3>2. [current[n] EXCEPT !.lost = FALSE] \in Lanes
        BY <1>1 DEF Lanes
      <3>3. [current EXCEPT ![n].lost = FALSE] \in [LaneNames -> Lanes]
        BY <1>1, <3>2
      <3> QED BY <3>1, <3>3 DEF onDhanSessionLost
    <2>3. CASE LogoutDhan
      BY <1>1, <2>3 DEF LogoutDhan
    <2> QED BY <2>1, <2>2, <2>3
  <1>8. sessOp.at # "save" /\ sessOp'.at # "save"
    <2>1. Idle.at = "none"
      BY DEF Idle
    <2> QED BY <1>3, <2>1 DEF PassCheck, FeedSessionLost, LogoutDhan
  <1>5. RestartsAll'
    BY <1>2, <1>3, <1>8 DEF RestartsAll
  <1>6. CASE UNCHANGED <<sessToken, row, doubt, current, oldLost, restoring, overtaken>>
    <2>1. DhanTypeOK'
      BY <1>2, <1>3, <1>6 DEF DhanTypeOK, CredentialOps, LoginKinds, Places, Sources
    <2>2. RestoreQuiet'
      BY <1>3, <1>6, <1>8, StaysQuiet DEF RestoreQuiet
    <2> QED BY <1>2, <1>3, <1>5, <1>6, <2>1, <2>2 DEF RowFollows, LanesFollow, LostIsDead, deadTokens, Undisturbed
  <1>7. CASE /\ sessToken' = NoAccess /\ Touch /\ overtaken' = FALSE
             /\ \E cur \in [LaneNames -> Lanes] : StopLanes(cur) /\ ClearDhanSession
    <2>3. RestoreQuiet' /\ restoring' \in Restorings /\ overtaken' \in BOOLEAN
      BY <1>7, Touched, QuietOnceTouched
    <2>1. /\ current' \in [LaneNames -> Lanes] /\ oldLost' \in BOOLEAN
          /\ current'["fut"].sock = NoAccess
          /\ row' \in [tok : AnyToken, src : Sources] /\ doubt' \in BOOLEAN
          /\ ~doubt' => row'.tok = NoAccess
      BY <1>7, SessionGoes
    <2>2. DhanTypeOK'
      BY <1>2, <1>3, <1>7, <2>1, <2>3
         DEF DhanTypeOK, CredentialOps, LoginKinds, Places, Sources, Lanes, AnyToken, Restorings, Stages, SessionRows
    <2> QED BY <1>5, <1>7, <2>1, <2>2, <2>3 DEF RowFollows, LanesFollow, LostIsDead
  <1> QED BY <1>4, <1>6, <1>7

\* A lane's socket is refused, and the token it ran on is dead.
LEMMA LaneIsLost == ASSUME DhanIInv, NEW m \in LaneNames, LaneLost(m) PROVE DhanIInv'
  <1> USE DEF DhanIInv
  <1>1. /\ UNCHANGED <<sessToken, sessSource, rejected, row, doubt, oldLost, issued, byConsent, fate, loginStop,
                       dhanActive, restoring, overtaken, sessOp, sessOps>>
        /\ current[m].sock \in deadTokens
        /\ current' = [current EXCEPT ![m] = [sock |-> NoAccess, lost |-> TRUE]]
    BY DEF LaneLost, sessionVars, rowVars, dhanWorld, restoreVars
  <1>2. current \in [LaneNames -> Lanes] /\ [sock |-> NoAccess, lost |-> TRUE] \in Lanes
    BY DEF DhanTypeOK, Lanes, AnyToken
  <1>3. /\ current' \in [LaneNames -> Lanes] /\ current'[m].sock = NoAccess
        /\ \A n \in LaneNames : n # m => current'[n] = current[n]
    BY <1>1, <1>2
  <1>4. NoAccess \notin deadTokens
    BY DEF deadTokens, AccessTokens, NoAccess
  <1>5. DhanTypeOK'
    BY <1>1, <1>3 DEF DhanTypeOK, Lanes
  <1>6. RowFollows' /\ RestartsAll'
    BY <1>1 DEF RowFollows, RestartsAll, Undisturbed
  <1>7. LanesFollow'
    BY <1>1, <1>3 DEF LanesFollow, LaneNames
  <1>8. LostIsDead'
    BY <1>1, <1>3, <1>4 DEF LostIsDead, LanesFollow, LaneNames, deadTokens
  <1>9. RestoreQuiet'
    <2>1. NoLane.sock = NoAccess
      BY DEF NoLane
    <2>2. ~Undisturbed
      BY <1>1, <1>4, <2>1 DEF RestoreQuiet
    <2> QED BY <1>1, <2>2, StaysQuiet
  <1> QED BY <1>5, <1>6, <1>7, <1>8, <1>9

\* The rest: a callback nobody waits for, a switch, a token's end, a new day and a restart.
LEMMA TokenEnds == ASSUME DhanIInv, OldFeedSessionLost \/ PauseEnds \/ \E t \in AccessTokens : TokenDies(t) PROVE DhanIInv'
  <1> USE DEF DhanIInv
  <1>1. /\ UNCHANGED <<sessToken, sessSource, rejected, row, doubt, current, issued, byConsent, dhanActive,
                       restoring, overtaken, sessOp, sessOps>>
        /\ oldLost' \in BOOLEAN /\ loginStop' \subseteq loginStop
    BY DEF OldFeedSessionLost, PauseEnds, TokenDies, sessionVars, rowVars, laneVars, dhanWorld, restoreVars,
           DhanTypeOK
  <1>2. fate' \in [AccessTokens -> {"good", "dead", "lapsed"}] /\ deadTokens \subseteq deadTokens'
    <2>1. CASE OldFeedSessionLost \/ PauseEnds
      BY <2>1 DEF OldFeedSessionLost, PauseEnds, dhanWorld, DhanTypeOK, deadTokens
    <2>2. CASE \E t \in AccessTokens : TokenDies(t)
      <3>1. PICK t \in AccessTokens, f \in {"dead", "lapsed"} : fate' = [fate EXCEPT ![t] = f]
        BY <2>2 DEF TokenDies
      <3> QED BY <3>1 DEF DhanTypeOK, deadTokens
    <2> QED BY <2>1, <2>2
  <1>3. DhanTypeOK'
    BY <1>1, <1>2 DEF DhanTypeOK
  <1>4. RowFollows' /\ RestartsAll' /\ LanesFollow' /\ LostIsDead'
    BY <1>1, <1>2 DEF RowFollows, RestartsAll, LanesFollow, LostIsDead, Undisturbed
  <1>5. RestoreQuiet'
    BY <1>1, StaysQuiet DEF RestoreQuiet
  <1> QED BY <1>3, <1>4, <1>5

\* A switch stops the lanes or starts the first one (SwitchTo).
LEMMA LanesSwitch == ASSUME DhanIInv, SwitchLanes PROVE DhanIInv'
  <1> USE DEF DhanIInv
  <1> DEFINE f == IF dhanActive THEN Stopped(current["fut"]) ELSE ensureFeed(Stopped(current["fut"]))
             cur == [current EXCEPT !["fut"] = f]
  <1>1. /\ UNCHANGED <<sessToken, sessSource, rejected, row, doubt, issued, byConsent, fate, loginStop, restoring,
                       overtaken, sessOp>>
        /\ sessOps' = sessOps + 1 /\ dhanActive' = ~dhanActive /\ Forget(cur, {"box"}) /\ sessOp = Idle
    BY DEF SwitchLanes, sessionVars, rowVars, dhanWorld, restoreVars
  <1>2. current \in [LaneNames -> Lanes] /\ oldLost \in BOOLEAN
    BY DEF DhanTypeOK, Lanes
  <1>3. /\ Stopped(current["fut"]) \in Lanes /\ Stopped(current["fut"]).sock = NoAccess
        /\ Stopped(current["fut"]).lost = current["fut"].lost
    BY <1>2 DEF LaneNames, Stopped, Lanes, AnyToken
  <1>4. f \in Lanes /\ f.sock \in {NoAccess, sessToken} /\ f.lost = current["fut"].lost
    BY <1>3, EnsuredLane
  <1>10. Undisturbed => f = NoLane
    <2> SUFFICES ASSUME Undisturbed PROVE f = NoLane
      OBVIOUS
    <2>1. sessToken = NoAccess /\ current["fut"] = NoLane
      BY DEF RestoreQuiet, LaneNames
    <2>2. Stopped(NoLane) = NoLane
      BY NoLaneClosed DEF Stopped
    <2> QED BY <2>1, <2>2, EnsuredNoLane
  <1> HIDE DEF f
  <1>5. cur \in [LaneNames -> Lanes] /\ cur["fut"] = f
    BY <1>2, <1>4 DEF LaneNames
  <1> HIDE DEF cur
  <1>6. /\ current' \in [LaneNames -> Lanes] /\ oldLost' \in BOOLEAN
        /\ current'["fut"] = f /\ current'["box"] = NoLane
    BY <1>1, <1>2, <1>5, LanesForgotten DEF LaneNames
  <1>7. DhanTypeOK'
    BY <1>1, <1>6 DEF DhanTypeOK, Lanes
  <1>8. RowFollows' /\ RestartsAll'
    BY <1>1 DEF RowFollows, RestartsAll, Undisturbed
  <1>9. LanesFollow' /\ LostIsDead'
    BY <1>1, <1>4, <1>6 DEF LanesFollow, LostIsDead, NoLane, deadTokens, Idle
  <1>11. RestoreQuiet'
    <2>1. ASSUME Undisturbed PROVE current' = current
      <3>1. \A n \in LaneNames : current[n] = NoLane /\ current'[n] = NoLane
        BY <1>6, <1>10, <2>1 DEF RestoreQuiet, LaneNames
      <3> QED BY <1>2, <1>6, <3>1
    <2> QED BY <1>1, <2>1, StaysQuiet DEF RestoreQuiet
  <1> QED BY <1>7, <1>8, <1>9, <1>11

\* A new process has no session and no lanes, and Restore ahead of it.
LEMMA DhanRestarts == ASSUME DhanIInv, ProcessEnds PROVE DhanIInv'
  <1> USE DEF DhanIInv
  <1>1. /\ UNCHANGED <<row, doubt, issued, byConsent, fate, dhanActive>> /\ sessOps' = sessOps + 1 /\ sessOp' = Idle
        /\ sessToken' = NoAccess /\ sessSource' = "none" /\ rejected' = NoAccess /\ loginStop' = {} /\ oldLost' = FALSE
        /\ current' = NoLanes /\ restoring' = [Restored EXCEPT !.at = "load"] /\ overtaken' = FALSE
    BY DEF ProcessEnds, dhanWorld, rowVars, NoLanes
  <1>2. NoRow \in SessionRows /\ NoLane \in Lanes
    BY DEF NoRow, NoLane, Lanes, AnyToken, Sources, SessionRows
  <1>3. /\ restoring' \in Restorings /\ restoring'.at = "load" /\ restoring'.changed = FALSE
    BY <1>1, <1>2 DEF Restored, Restorings, Stages
  <1>4. Idle \in CredentialOps /\ Idle.at = "none"
    BY DEF Idle, CredentialOps, LoginKinds, Places, AnyToken, Sources
  <1>5. DhanTypeOK'
    <2>1. current' \in [LaneNames -> [sock : AnyToken, lost : BOOLEAN]]
      BY <1>1, <1>2 DEF Lanes, NoLanes
    <2>2. NoAccess \in AnyToken /\ "none" \in Sources /\ sessOps' \in Nat
      BY <1>1 DEF AnyToken, Sources, DhanTypeOK
    <2>3. loginStop' \subseteq {"paused", "stopped"} /\ oldLost' \in BOOLEAN /\ overtaken' \in BOOLEAN
      BY <1>1
    <2> QED BY <1>1, <1>3, <1>4, <2>1, <2>2, <2>3
            DEF DhanTypeOK, CredentialOps, LoginKinds, Places, Restorings, Stages, SessionRows
  <1>6. RowFollows' /\ RestoreQuiet'
    BY <1>1, <1>3, <1>4 DEF RowFollows, RestoreQuiet, Undisturbed, NoLanes
  <1>7. RestartsAll' /\ LanesFollow' /\ LostIsDead'
    BY <1>1, <1>4 DEF RestartsAll, LanesFollow, LostIsDead, NoLanes, NoLane, LaneNames
  <1> QED BY <1>5, <1>6, <1>7

\* Restore reads the row.
LEMMA RowIsRead == ASSUME DhanIInv, RestoreReads PROVE DhanIInv'
  <1> USE DEF DhanIInv
  <1>1. /\ UNCHANGED <<sessToken, sessSource, rejected, row, current, oldLost, issued, byConsent, fate, loginStop,
                       dhanActive, overtaken, sessOp, sessOps>>
        /\ restoring.at = "load" /\ ~overtaken
    BY DEF RestoreReads, sessionVars, laneVars, dhanWorld, RestoreQuiet
  <1>2. restoring \in Restorings /\ row \in SessionRows /\ NoRow \in SessionRows
    BY DEF DhanTypeOK, Restorings, Stages, SessionRows, NoRow, AnyToken, Sources
  <1>3. Restored \in Restorings /\ Restored.at = "no" /\ Restored.changed = FALSE
    BY <1>2 DEF Restored, Restorings, Stages
  <1>4. CASE restoring' = Restored
    <2>1. /\ doubt' \in BOOLEAN
          /\ doubt' \/ (row.tok = NoAccess /\ doubt' = (doubt /\ restoring.changed))
      <3>1. CASE doubt' = TRUE
        BY <3>1
      <3>2. CASE doubt' # TRUE
        <4>1. doubt' = (doubt /\ restoring.changed)
          BY <3>2 DEF RestoreReads
        <4>2. row.tok = NoAccess
          <5>1. restoring' # [restoring EXCEPT !.at = IF IsTokenExpired(row.tok) THEN "clear" ELSE "adopt",
                                               !.rec = row]
            BY <1>2, <1>3, <1>4 DEF Restorings
          <5> QED BY <3>2, <5>1 DEF RestoreReads
        <4>3. (doubt /\ restoring.changed) \in BOOLEAN
          OBVIOUS
        <4> QED BY <4>1, <4>2, <4>3
      <3> QED BY <3>1, <3>2
    <2>2. DhanTypeOK'
      BY <1>1, <1>3, <1>4, <2>1 DEF DhanTypeOK, Restorings, Stages, SessionRows
    <2>3. RestoreQuiet'
      BY <1>1, <1>3, <1>4 DEF RestoreQuiet, Undisturbed
    <2>4. RowFollows'
      <3> SUFFICES ASSUME ~doubt' PROVE row.tok = sessToken
        BY <1>1 DEF RowFollows
      <3>1. row.tok = NoAccess /\ ~(doubt /\ restoring.changed)
        BY <2>1
      <3>2. CASE Undisturbed
        BY <3>1, <3>2 DEF RestoreQuiet
      <3>3. CASE ~Undisturbed
        BY <1>1, <3>1, <3>3 DEF RowFollows, Undisturbed
      <3> QED BY <3>2, <3>3
    <2> QED BY <1>1, <2>2, <2>3, <2>4 DEF RestartsAll, LanesFollow, LostIsDead, deadTokens
  <1>5. CASE restoring' # Restored
    <2>1. PICK stage \in {"adopt", "clear"} : restoring' = [restoring EXCEPT !.at = stage, !.rec = row]
      <3> DEFINE next == IF IsTokenExpired(row.tok) THEN "clear" ELSE "adopt"
      <3>1. next \in {"adopt", "clear"} /\ restoring' = [restoring EXCEPT !.at = next, !.rec = row]
        BY <1>5 DEF RestoreReads
      <3> HIDE DEF next
      <3> QED BY <3>1
    <2>2. /\ restoring' \in Restorings /\ restoring'.at = stage /\ restoring'.rec = row
          /\ restoring'.changed = restoring.changed /\ row.tok # NoAccess
      BY <1>2, <1>5, <2>1 DEF Restorings, Stages, RestoreReads
    <2>3. doubt' = (doubt /\ restoring.changed) /\ (doubt /\ restoring.changed) \in BOOLEAN
      BY <1>5 DEF RestoreReads
    <2>4. DhanTypeOK'
      <3>1. doubt' \in BOOLEAN
        BY <2>3
      <3> QED BY <1>1, <2>2, <3>1 DEF DhanTypeOK, Restorings, Stages, SessionRows
    <2>5. Undisturbed' = Undisturbed
      BY <1>1, <2>1, <2>2 DEF Undisturbed
    <2>6. RestoreQuiet'
      <3>1. ASSUME Undisturbed PROVE ~doubt'
        BY <2>3, <3>1 DEF Undisturbed
      <3> QED BY <1>1, <2>1, <2>2, <2>5, <3>1 DEF RestoreQuiet
    <2>7. RowFollows'
      <3>1. ASSUME ~Undisturbed, ~doubt' PROVE ~doubt
        BY <1>1, <2>3, <3>1 DEF Undisturbed
      <3> QED BY <1>1, <2>5, <3>1 DEF RowFollows
    <2> QED BY <1>1, <2>4, <2>6, <2>7 DEF RestartsAll, LanesFollow, LostIsDead, deadTokens
  <1> QED BY <1>4, <1>5

\* Restore stores what it read: into a memory nobody has touched, or over what is there.
LEMMA RowIsAdopted == ASSUME DhanIInv, RestoreAdopts PROVE DhanIInv'
  <1> USE DEF DhanIInv
  <1> DEFINE rec == restoring.rec
  <1>1. /\ UNCHANGED <<rejected, row, doubt, current, oldLost, issued, byConsent, fate, loginStop, dhanActive,
                       sessOp, sessOps>>
        /\ restoring.at = "adopt" /\ restoring' = Restored /\ sessToken' = rec.tok /\ sessSource' = rec.src
        /\ overtaken' = (restoring.changed /\ ~(rec.tok = sessToken /\ rec.tok = row.tok))
    BY DEF RestoreAdopts, rowVars, laneVars, dhanWorld
  <1>2. rec \in SessionRows /\ NoRow \in SessionRows /\ ~overtaken
    BY <1>1 DEF DhanTypeOK, Restorings, SessionRows, NoRow, AnyToken, Sources, RestoreQuiet
  <1>3. Restored \in Restorings /\ Restored.at = "no" /\ Restored.changed = FALSE
    BY <1>2 DEF Restored, Restorings, Stages
  <1>4. overtaken' \in BOOLEAN
    <2>1. (restoring.changed /\ ~(rec.tok = sessToken /\ rec.tok = row.tok)) \in BOOLEAN
      OBVIOUS
    <2> QED BY <1>1, <2>1
  <1>5. DhanTypeOK'
    BY <1>1, <1>2, <1>3, <1>4 DEF DhanTypeOK, Restorings, Stages, SessionRows
  <1>6. RestoreQuiet'
    BY <1>1, <1>3 DEF RestoreQuiet, Undisturbed
  <1>7. CASE overtaken'
    BY <1>1, <1>5, <1>6, <1>7 DEF RowFollows, RestartsAll, LanesFollow, LostIsDead
  <1>8. CASE ~overtaken' /\ restoring.changed
    <2>1. sessToken' = sessToken /\ row.tok = sessToken
      BY <1>1, <1>8
    <2> QED BY <1>1, <1>2, <1>5, <1>6, <2>1 DEF RowFollows, RestartsAll, LanesFollow, LostIsDead, deadTokens
  <1>9. CASE ~restoring.changed
    <2>1. Undisturbed
      BY <1>1, <1>9 DEF Undisturbed
    <2>2. /\ rec = row /\ ~doubt /\ (sessOp.at = "save" => sessOp.old = NoAccess)
          /\ sessOp.at \notin {"recycle", "start"} /\ \A n \in LaneNames : current[n] = NoLane
      BY <1>1, <2>1 DEF RestoreQuiet
    <2>3. RowFollows' /\ RestartsAll'
      BY <1>1, <2>2 DEF RowFollows, RestartsAll
    <2>4. LanesFollow' /\ LostIsDead'
      BY <1>1, <2>2 DEF LanesFollow, LostIsDead, LaneNames, NoLane
    <2> QED BY <1>5, <1>6, <2>3, <2>4
  <1> QED BY <1>7, <1>8, <1>9

\* Restore deletes an expired row, or the one that has been saved since.
LEMMA RowIsDeleted == ASSUME DhanIInv, RestoreClears PROVE DhanIInv'
  <1> USE DEF DhanIInv
  <1>1. /\ UNCHANGED <<sessToken, sessSource, rejected, current, oldLost, issued, byConsent, fate, loginStop,
                       dhanActive, sessOp, sessOps>>
        /\ restoring.at = "clear" /\ restoring' = Restored /\ overtaken' = (sessToken # NoAccess) /\ ~overtaken
    BY DEF RestoreClears, sessionVars, laneVars, dhanWorld, RestoreQuiet
  <1>2. /\ NoRow \in SessionRows /\ NoRow.tok = NoAccess
    BY DEF NoRow, SessionRows, AnyToken, Sources
  <1>3. Restored \in Restorings /\ Restored.at = "no" /\ Restored.changed = FALSE
    BY <1>2 DEF Restored, Restorings, Stages
  <1>4. row' \in {row, NoRow} /\ doubt' \in BOOLEAN /\ (~doubt' => row' = NoRow)
    BY DEF RestoreClears, ClearDhanSession
  <1>5. overtaken' \in BOOLEAN
    <2>1. (sessToken # NoAccess) \in BOOLEAN
      OBVIOUS
    <2> QED BY <1>1, <2>1
  <1>6. DhanTypeOK'
    BY <1>1, <1>2, <1>3, <1>4, <1>5 DEF DhanTypeOK, Restorings, Stages, SessionRows
  <1>7. RestoreQuiet'
    BY <1>1, <1>3 DEF RestoreQuiet, Undisturbed
  <1>8. RowFollows'
    BY <1>1, <1>2, <1>4 DEF RowFollows
  <1> QED BY <1>1, <1>6, <1>7, <1>8 DEF RestartsAll, LanesFollow, LostIsDead, deadTokens

\* A lane's callback takes the session down only when its token is dead, or on a box lane that a
\* consent login left alone.
LEMMA CallbackKeepsLive == ASSUME DhanIInv, DhanSessionNext PROVE KeepsLiveToken
  <1> SUFFICES ASSUME CallbackClears, ~overtaken
               PROVE  sessToken \in deadTokens \/ (current["box"].lost /\ sessToken \in byConsent)
    BY DEF KeepsLiveToken
  <1>1. sessOp = Idle /\ sessOps' = sessOps /\ sessOp' = sessOp /\ sessToken # NoAccess /\ sessToken' = NoAccess
    BY DEF CallbackClears
  <1>2. sessOps + 1 # sessOps /\ sessOp.at = "none"
    BY <1>1 DEF DhanIInv, DhanTypeOK, Idle
  <1>3. ~(LogoutDhan \/ SwitchLanes \/ ProcessEnds \/ RestoreReads \/ RestoreAdopts \/ RestoreClears)
    <2>1. ~(LogoutDhan \/ SwitchLanes \/ ProcessEnds)
      BY <1>1, <1>2 DEF LogoutDhan, SwitchLanes, ProcessEnds
    <2>2. ~(RestoreReads \/ RestoreClears)
      BY <1>1 DEF RestoreReads, RestoreClears, sessionVars
    <2>3. ~RestoreAdopts
      BY <1>1 DEF RestoreAdopts, DhanIInv, RestoreQuiet
    <2> QED BY <2>1, <2>2, <2>3
  <1>4. ~(ConsentExchange \/ installDhanAccessToken \/ PassCheck)
    BY <1>2 DEF ConsentExchange, installDhanAccessToken, PassCheck
  <1>5. ~(ConsentBegin \/ PassBegin \/ FetchBegin \/ PasteBegin)
    BY <1>1, <1>2 DEF ConsentBegin, PassBegin, FetchBegin, PasteBegin, Begin
  <1>6. ~(NetSucceeds \/ NetFails \/ restartRecycle \/ restartStart \/ PassDue)
    BY <1>2 DEF NetSucceeds, NetFails, restartRecycle, restartStart, PassDue
  <1>7. ~(OldFeedSessionLost \/ PauseEnds \/ \E t \in AccessTokens : TokenDies(t))
    BY <1>1 DEF OldFeedSessionLost, PauseEnds, TokenDies, sessionVars
  <1>8. ~\E n \in LaneNames : LaneSubscribe(n) \/ LaneLost(n)
    BY <1>1 DEF LaneSubscribe, LaneLost, sessionVars
  <1>9. PICK n \in LaneNames : FeedSessionLost(n)
    BY <1>3, <1>4, <1>5, <1>6, <1>7, <1>8 DEF DhanSessionNext
  <1>10. current[n].lost
    BY <1>9 DEF FeedSessionLost
  <1> QED BY <1>1, <1>2, <1>10 DEF DhanIInv, LostIsDead, LaneNames

\* The token, its row and the lanes, through every order of logins, losses, switches and restarts.
THEOREM DhanInvariant == DhanSessionSpec => []DhanIInv
  <1>1. DhanIInv /\ [DhanSessionNext]_dhanSessionVars => DhanIInv'
    <2> SUFFICES ASSUME DhanIInv, [DhanSessionNext]_dhanSessionVars PROVE DhanIInv'
      OBVIOUS
    <2>1. CASE ConsentBegin \/ PassBegin \/ FetchBegin \/ PasteBegin \/ NetSucceeds \/ NetFails \/ PassDue
      BY <2>1, OperationMoves
    <2>2. CASE ConsentExchange \/ installDhanAccessToken
      BY <2>2, TokenAdopted
    <2>3. CASE restartRecycle \/ restartStart \/ \E n \in LaneNames : LaneSubscribe(n)
      BY <2>3, RuntimeRestarts, LanesStart
    <2>4. CASE PassCheck \/ (\E n \in LaneNames : FeedSessionLost(n)) \/ LogoutDhan
      BY <2>4, SessionLost
    <2>5. CASE SwitchLanes \/ ProcessEnds \/ RestoreReads \/ RestoreAdopts \/ RestoreClears
      BY <2>5, LanesSwitch, DhanRestarts, RowIsRead, RowIsAdopted, RowIsDeleted
    <2>6. CASE \E n \in LaneNames : LaneLost(n)
      BY <2>6, LaneIsLost
    <2>7. CASE OldFeedSessionLost \/ PauseEnds \/ \E t \in AccessTokens : TokenDies(t)
      BY <2>7, TokenEnds
    <2>8. CASE UNCHANGED dhanSessionVars
      BY <2>8 DEF dhanSessionVars, sessionVars, rowVars, laneVars, restoreVars, dhanWorld, DhanIInv, DhanTypeOK,
                  RowFollows, RestoreQuiet, Undisturbed, RestartsAll, LanesFollow, LostIsDead, deadTokens
    <2> QED BY <2>1, <2>2, <2>3, <2>4, <2>5, <2>6, <2>7, <2>8 DEF DhanSessionNext
  <1> QED BY <1>1, DhanInitEstablishes, PTL DEF DhanSessionSpec

\* The session in memory is the stored one and that of every lane's socket, and no late callback
\* ends a live one (installDhanAccessToken, restartDhanRuntime, onDhanFeedSessionLost).
THEOREM SessionAlwaysKept == DhanSessionSpec => SessionKept
  <1>1. DhanIInv => SocketsOnSession /\ StoredSession
    <2> SUFFICES ASSUME DhanIInv PROVE SocketsOnSession /\ StoredSession
      OBVIOUS
    <2>1. SessionFor.authenticated => sessToken # NoAccess
      BY DEF SessionFor, usableDhanToken
    <2>2. sessOp = Idle => sessOp.at # "recycle"
      BY DEF Idle
    <2>3. StoredSession
      BY DEF DhanIInv, RowFollows, RestoreQuiet, Undisturbed, StoredSession
    <2> QED BY <2>1, <2>2, <2>3 DEF DhanIInv, LanesFollow, LaneNames, SocketsOnSession
  <1>2. DhanIInv /\ DhanIInv' /\ [DhanSessionNext]_dhanSessionVars
          => [KeepsLiveToken /\ SocketsOnSession' /\ StoredSession']_dhanSessionVars
    <2> SUFFICES ASSUME DhanIInv, DhanIInv', [DhanSessionNext]_dhanSessionVars, ~UNCHANGED dhanSessionVars
                 PROVE  KeepsLiveToken /\ SocketsOnSession' /\ StoredSession'
      OBVIOUS
    <2>1. KeepsLiveToken
      BY CallbackKeepsLive
    <2>2. SocketsOnSession' /\ StoredSession'
      BY <1>1, PTL
    <2> QED BY <2>1, <2>2
  <1> QED BY <1>2, DhanInvariant, PTL DEF DhanSessionSpec, SessionKept

-----------------------------------------------------------------------------
(* The Kite lane's socket                                                  *)

\* One frame more at the end has the last word on its tokens.
LEMMA FrameAppended ==
    ASSUME NEW c \in SocketState, NEW d \in SocketState, NEW fr \in Frames,
           d.server = c.server, d.out = Append(c.out, fr)
    PROVE  OnWire(d) = {t \in Tokens : IF t \in fr.tokens THEN fr.op = "subscribe" ELSE t \in OnWire(c)}
  <1> DEFINE q == c.out
             r == d.out
             n == Len(q) + 1
             Now(t) == IF t \in fr.tokens THEN fr.op = "subscribe" ELSE t \in OnWire(c)
  <1>1. /\ DOMAIN q = 1 .. Len(q) /\ DOMAIN r = 1 .. Len(q) + 1 /\ Len(q) \in Nat
        /\ \A i \in 1 .. Len(q) : r[i] = q[i]
        /\ r[Len(q) + 1] = fr
    <2>1. q \in Seq(Frames)
      BY DEF SocketState
    <2> HIDE DEF q
    <2> QED BY <2>1, AppendProperties, LenProperties DEF q
  <1>2. ASSUME NEW t \in Tokens PROVE t \in OnWire(d) <=> Now(t)
    <2>0. t \in OnWire(d) <=> \/ \E i \in DOMAIN r : r[i].op = "subscribe" /\ t \in r[i].tokens
                                     /\ \A j \in DOMAIN r : j > i => t \notin r[j].tokens
                              \/ t \in c.server /\ \A j \in DOMAIN r : t \notin r[j].tokens
      BY DEF OnWire
    <2>00. t \in OnWire(c) <=> \/ \E i \in DOMAIN q : q[i].op = "subscribe" /\ t \in q[i].tokens
                                     /\ \A j \in DOMAIN q : j > i => t \notin q[j].tokens
                               \/ t \in c.server /\ \A j \in DOMAIN q : t \notin q[j].tokens
      BY DEF OnWire
    <2> HIDE DEF q, r
    <2>1. CASE t \in fr.tokens
      <3>1. ~\A j \in DOMAIN r : t \notin r[j].tokens
        BY <1>1, <2>1
      <3>2. \A i \in DOMAIN r : i # n => ~\A j \in DOMAIN r : j > i => t \notin r[j].tokens
        BY <1>1, <2>1
      <3>3. n \in DOMAIN r /\ \A j \in DOMAIN r : ~(j > n)
        BY <1>1
      <3> QED BY <1>1, <2>0, <2>1, <3>1, <3>2, <3>3
    <2>2. CASE t \notin fr.tokens
      <3>1. (\A j \in DOMAIN r : t \notin r[j].tokens) <=> \A j \in DOMAIN q : t \notin q[j].tokens
        BY <1>1, <2>2
      <3>2. \A i \in DOMAIN q : (\A j \in DOMAIN r : j > i => t \notin r[j].tokens)
                                  <=> \A j \in DOMAIN q : j > i => t \notin q[j].tokens
        BY <1>1, <2>2
      <3>3. (\E i \in DOMAIN r : r[i].op = "subscribe" /\ t \in r[i].tokens
                                 /\ \A j \in DOMAIN r : j > i => t \notin r[j].tokens)
            <=> (\E i \in DOMAIN q : q[i].op = "subscribe" /\ t \in q[i].tokens
                                 /\ \A j \in DOMAIN q : j > i => t \notin q[j].tokens)
        <4>1. ASSUME NEW i \in DOMAIN r, r[i].op = "subscribe" /\ t \in r[i].tokens
                                 /\ \A j \in DOMAIN r : j > i => t \notin r[j].tokens
              PROVE  i \in DOMAIN q /\ q[i].op = "subscribe" /\ t \in q[i].tokens
                                 /\ \A j \in DOMAIN q : j > i => t \notin q[j].tokens
          <5>1. i # n
            BY <1>1, <2>2, <4>1
          <5>2. i \in DOMAIN q
            BY <1>1, <5>1
          <5> QED BY <1>1, <3>2, <4>1, <5>2
        <4>2. ASSUME NEW i \in DOMAIN q, q[i].op = "subscribe" /\ t \in q[i].tokens
                                 /\ \A j \in DOMAIN q : j > i => t \notin q[j].tokens
              PROVE  i \in DOMAIN r /\ r[i].op = "subscribe" /\ t \in r[i].tokens
                                 /\ \A j \in DOMAIN r : j > i => t \notin r[j].tokens
          BY <1>1, <3>2, <4>2
        <4> QED BY <4>1, <4>2
      <3> QED BY <2>0, <2>00, <2>2, <3>1, <3>3
    <2> QED BY <2>1, <2>2
  <1>3. \A t \in OnWire(d) : t \in Tokens
    BY DEF OnWire
  <1> QED BY <1>2, <1>3

\* Sending the first frame changes nothing in what the socket will carry.
LEMMA FrameSent ==
    ASSUME NEW c \in SocketState, c.out # <<>>
    PROVE  sent(c) \in SocketState /\ OnWire(sent(c)) = OnWire(c)
  <1> DEFINE d == sent(c)
             r == c.out
             q == d.out
             fr == Head(c.out)
  <1>0. /\ c.out \in Seq(Frames) /\ fr \in Frames /\ Tail(c.out) \in Seq(Frames)
        /\ d.server = applied(c.server, fr) /\ q = Tail(c.out)
    BY HeadTailProperties DEF SocketState, sent
  <1>1. /\ DOMAIN q = 1 .. Len(q) /\ DOMAIN r = 1 .. Len(q) + 1 /\ Len(q) \in Nat
        /\ r[1] = fr
        /\ \A i \in 1 .. Len(q) : r[i + 1] = q[i]
    <2>1. q \in Seq(Frames) /\ r \in Seq(Frames) /\ r # <<>> /\ q = Tail(r) /\ fr = r[1]
      BY <1>0
    <2> HIDE DEF q, r, fr
    <2>2. Len(q) = Len(r) - 1 /\ (\A i \in 1 .. Len(q) : q[i] = r[i + 1]) /\ Len(q) \in Nat
          /\ DOMAIN q = 1 .. Len(q) /\ DOMAIN r = 1 .. Len(r) /\ Len(r) \in Nat
      BY <2>1, HeadTailProperties, LenProperties
    <2> QED BY <2>1, <2>2
  <1>2. d \in SocketState
    <2>1. applied(c.server, fr) \in SUBSET Tokens
      BY <1>0 DEF applied, SocketState, Frames
    <2> QED BY <1>0, <2>1 DEF sent, SocketState
  <1>3. ASSUME NEW t \in Tokens PROVE t \in OnWire(c) <=> t \in OnWire(d)
    <2> DEFINE Quiet == \A j \in DOMAIN q : t \notin q[j].tokens
               Later(i) == \A j \in DOMAIN q : j > i => t \notin q[j].tokens
    <2>a. t \in OnWire(c) <=> \/ \E i \in DOMAIN r : r[i].op = "subscribe" /\ t \in r[i].tokens
                                     /\ \A j \in DOMAIN r : j > i => t \notin r[j].tokens
                              \/ t \in c.server /\ \A j \in DOMAIN r : t \notin r[j].tokens
      BY DEF OnWire
    <2>b. t \in OnWire(d) <=> \/ \E i \in DOMAIN q : q[i].op = "subscribe" /\ t \in q[i].tokens /\ Later(i)
                              \/ t \in d.server /\ Quiet
      BY DEF OnWire
    <2>c. t \in d.server <=> IF t \in fr.tokens THEN fr.op = "subscribe" ELSE t \in c.server
      BY <1>0 DEF applied
    <2> HIDE DEF q, r, fr, d
    <2>1. (\A j \in DOMAIN r : t \notin r[j].tokens) <=> t \notin fr.tokens /\ Quiet
      <3>1. \A j \in DOMAIN r : j = 1 \/ (j - 1 \in 1 .. Len(q) /\ r[j] = q[j - 1])
        BY <1>1
      <3> QED BY <1>1, <3>1
    <2>2. (\A j \in DOMAIN r : j > 1 => t \notin r[j].tokens) <=> Quiet
      <3>1. \A j \in DOMAIN r : j > 1 => (j - 1 \in 1 .. Len(q) /\ r[j] = q[j - 1])
        BY <1>1
      <3>2. \A j \in 1 .. Len(q) : j + 1 \in DOMAIN r /\ j + 1 > 1
        BY <1>1
      <3> QED BY <1>1, <3>1, <3>2
    <2>3. ASSUME NEW i \in 1 .. Len(q)
          PROVE  (\A j \in DOMAIN r : j > i + 1 => t \notin r[j].tokens) <=> Later(i)
      <3>1. \A j \in DOMAIN r : j > i + 1 => (j - 1 \in 1 .. Len(q) /\ r[j] = q[j - 1] /\ j - 1 > i)
        BY <1>1
      <3>2. \A j \in 1 .. Len(q) : j > i => (j + 1 \in DOMAIN r /\ j + 1 > i + 1)
        BY <1>1
      <3> QED BY <1>1, <3>1, <3>2
    <2> HIDE DEF Quiet, Later
    <2>4. (\E i \in DOMAIN r : r[i].op = "subscribe" /\ t \in r[i].tokens
                               /\ \A j \in DOMAIN r : j > i => t \notin r[j].tokens)
          <=> \/ fr.op = "subscribe" /\ t \in fr.tokens /\ Quiet
              \/ \E i \in DOMAIN q : q[i].op = "subscribe" /\ t \in q[i].tokens /\ Later(i)
      <3>1. ASSUME NEW i \in DOMAIN r, r[i].op = "subscribe", t \in r[i].tokens,
                   \A j \in DOMAIN r : j > i => t \notin r[j].tokens
            PROVE  \/ fr.op = "subscribe" /\ t \in fr.tokens /\ Quiet
                   \/ \E k \in DOMAIN q : q[k].op = "subscribe" /\ t \in q[k].tokens /\ Later(k)
        <4>1. CASE i = 1
          BY <1>1, <2>2, <3>1, <4>1
        <4>2. CASE i # 1
          <5>1. i - 1 \in 1 .. Len(q) /\ r[i] = q[i - 1] /\ (i - 1) + 1 = i
            BY <1>1, <4>2
          <5>2. Later(i - 1)
            BY <2>3, <3>1, <5>1
          <5> QED BY <1>1, <3>1, <5>1, <5>2
        <4> QED BY <4>1, <4>2
      <3>2. ASSUME fr.op = "subscribe" /\ t \in fr.tokens /\ Quiet
            PROVE  \E i \in DOMAIN r : r[i].op = "subscribe" /\ t \in r[i].tokens
                               /\ \A j \in DOMAIN r : j > i => t \notin r[j].tokens
        <4>1. 1 \in DOMAIN r
          BY <1>1
        <4> QED BY <1>1, <2>2, <3>2, <4>1
      <3>3. ASSUME NEW i \in DOMAIN q, q[i].op = "subscribe" /\ t \in q[i].tokens /\ Later(i)
            PROVE  \E k \in DOMAIN r : r[k].op = "subscribe" /\ t \in r[k].tokens
                               /\ \A j \in DOMAIN r : j > k => t \notin r[j].tokens
        <4>1. i + 1 \in DOMAIN r /\ r[i + 1] = q[i] /\ i \in 1 .. Len(q)
          BY <1>1
        <4>2. \A j \in DOMAIN r : j > i + 1 => t \notin r[j].tokens
          BY <2>3, <3>3, <4>1
        <4> QED BY <3>3, <4>1, <4>2
      <3> QED BY <3>1, <3>2, <3>3
    <2> QED BY <2>a, <2>b, <2>c, <2>1, <2>4
  <1>4. (\A t \in OnWire(c) : t \in Tokens) /\ \A t \in OnWire(d) : t \in Tokens
    BY DEF OnWire
  <1> QED BY <1>2, <1>3, <1>4

\* A socket with nothing sent and at most one frame to send (onOpen of a fresh connection).
LEMMA FreshSocket ==
    ASSUME NEW P \in SUBSET Tokens
    PROVE  /\ Socket("opened", {}, IF P = {} THEN <<>> ELSE <<Frame("subscribe", P)>>) \in SocketState
           /\ Carried(Socket("opened", {}, IF P = {} THEN <<>> ELSE <<Frame("subscribe", P)>>)) = P
           /\ Socket("dialing", P, <<>>) \in SocketState /\ Carried(Socket("dialing", P, <<>>)) = P
           /\ NotYet \in SocketState /\ Over \in SocketState
  <1> DEFINE fr == Frame("subscribe", P)
             q == IF P = {} THEN <<>> ELSE <<fr>>
             c == Socket("opened", {}, q)
  <1>1. fr \in Frames /\ fr.op = "subscribe" /\ fr.tokens = P
    BY DEF Frame, Frames
  <1>2. q \in Seq(Frames) /\ <<>> \in Seq(Frames)
    BY <1>1
  <1>3. c \in SocketState /\ c.st = "opened" /\ c.out = q /\ c.server = {}
    BY <1>2 DEF Socket, SocketState
  <1>4. OnWire(c) = P
    <2>1. CASE P = {}
      BY <1>3, <2>1 DEF OnWire
    <2>2. CASE P # {}
      <3>1. q = <<fr>> /\ DOMAIN q = {1} /\ q[1] = fr
        BY <2>2
      <3>2. ASSUME NEW t \in Tokens PROVE t \in OnWire(c) <=> t \in P
        <4>1. DOMAIN c.out = {1} /\ c.out[1].op = "subscribe" /\ c.out[1].tokens = P /\ c.server = {}
          BY <1>1, <1>3, <3>1
        <4> HIDE DEF c
        <4>2. \A j \in DOMAIN c.out : ~(j > 1)
          BY <4>1
        <4> QED BY <4>1, <4>2 DEF OnWire
      <3>3. \A t \in OnWire(c) : t \in Tokens
        BY DEF OnWire
      <3> QED BY <3>2, <3>3
    <2> QED BY <2>1, <2>2
  <1>5. Socket("dialing", P, <<>>) \in SocketState /\ Socket("dialing", P, <<>>).st = "dialing"
        /\ Socket("dialing", P, <<>>).pending = P
    BY <1>2 DEF Socket, SocketState
  <1>6. NotYet \in SocketState /\ Over \in SocketState
    BY <1>2 DEF NotYet, Over, Socket, SocketState
  <1>7. Carried(Socket("dialing", P, <<>>)) = P
    BY <1>5 DEF Carried
  <1>8. Carried(c) = P
    BY <1>3, <1>4 DEF Carried
  <1> QED BY <1>3, <1>5, <1>6, <1>7, <1>8

\* Tokens taken or dropped, before the socket opens or after.
LEMMA SocketCarries ==
    ASSUME NEW c \in SocketState, NEW S \in SUBSET Tokens
    PROVE  /\ Subscribe(c, S) \in SocketState /\ Subscribe(c, S).st = c.st /\ Subscribe(c, S).closing = c.closing
           /\ Carried(Subscribe(c, S)) = Carried(c) \cup S
           /\ Unsubscribe(c, S) \in SocketState /\ Unsubscribe(c, S).st = c.st
           /\ Unsubscribe(c, S).closing = c.closing
           /\ Carried(Unsubscribe(c, S)) = Carried(c) \ S
  <1>1. CASE c.st = "dialing"
    <2> DEFINE d == [c EXCEPT !.pending = c.pending \cup S]
               e == [c EXCEPT !.pending = c.pending \ S]
    <2>1. /\ d \in SocketState /\ d.st = c.st /\ d.closing = c.closing /\ d.pending = c.pending \cup S
          /\ e \in SocketState /\ e.st = c.st /\ e.closing = c.closing /\ e.pending = c.pending \ S
      BY DEF SocketState
    <2>2. Subscribe(c, S) = d /\ Unsubscribe(c, S) = e
      BY <1>1 DEF Subscribe, Unsubscribe
    <2> HIDE DEF d, e
    <2> QED BY <1>1, <2>1, <2>2 DEF Carried
  <1>2. CASE c.st # "dialing"
    <2> DEFINE f == Frame("subscribe", S)
               g == Frame("unsubscribe", S)
               d == [c EXCEPT !.out = Append(c.out, f)]
               e == [c EXCEPT !.out = Append(c.out, g)]
    <2>1. f \in Frames /\ f.op = "subscribe" /\ f.tokens = S /\ g \in Frames /\ g.op = "unsubscribe" /\ g.tokens = S
      BY DEF Frame, Frames
    <2>2. c.out \in Seq(Frames) /\ Append(c.out, f) \in Seq(Frames) /\ Append(c.out, g) \in Seq(Frames)
      BY <2>1, AppendProperties DEF SocketState
    <2>3. /\ d \in SocketState /\ d.st = c.st /\ d.closing = c.closing /\ d.server = c.server
          /\ d.out = Append(c.out, f)
          /\ e \in SocketState /\ e.st = c.st /\ e.closing = c.closing /\ e.server = c.server
          /\ e.out = Append(c.out, g)
      BY <2>2 DEF SocketState
    <2>4. Subscribe(c, S) = d /\ Unsubscribe(c, S) = e
      BY <1>2 DEF Subscribe, Unsubscribe
    <2> HIDE DEF d, e, f, g
    <2>5. /\ OnWire(d) = {t \in Tokens : IF t \in f.tokens THEN f.op = "subscribe" ELSE t \in OnWire(c)}
          /\ OnWire(e) = {t \in Tokens : IF t \in g.tokens THEN g.op = "subscribe" ELSE t \in OnWire(c)}
      BY <2>1, <2>3, FrameAppended
    <2>6. OnWire(c) \subseteq Tokens
      BY DEF OnWire
    <2>7. OnWire(d) = OnWire(c) \cup S /\ OnWire(e) = OnWire(c) \ S
      BY <2>1, <2>5, <2>6
    <2> QED BY <1>2, <2>3, <2>4, <2>7 DEF Carried
  <1> QED BY <1>1, <1>2

\* One event more.
LEMMA TellsAppended ==
    ASSUME NEW q \in Seq(LaneEvents), NEW told \in BOOLEAN, NEW state \in BOOLEAN, TellsIn(q, told, state),
           NEW e \in LaneEvents
    PROVE  /\ Append(q, e) \in Seq(LaneEvents)
           /\ TellsIn(Append(q, e), told, IF Says(e) THEN e = "up" ELSE state)
  <1> DEFINE r == Append(q, e)
             n == Len(q) + 1
  <1>1. /\ r \in Seq(LaneEvents) /\ DOMAIN q = 1 .. Len(q) /\ DOMAIN r = 1 .. n /\ Len(q) \in Nat
        /\ \A i \in 1 .. Len(q) : r[i] = q[i]
        /\ r[n] = e
    BY AppendProperties, LenProperties
  <1> HIDE DEF r
  <1>2. CASE Says(e)
    <2>1. ~\A i \in DOMAIN r : ~Says(r[i])
      BY <1>1, <1>2
    <2>2. ASSUME NEW i \in DOMAIN r, \A j \in DOMAIN r : j > i => ~Says(r[j]) PROVE i = n
      BY <1>1, <1>2, <2>2
    <2> QED BY <1>1, <1>2, <2>1, <2>2 DEF TellsIn, r
  <1>3. CASE ~Says(e)
    <2>1. (\A i \in DOMAIN r : ~Says(r[i])) => \A i \in DOMAIN q : ~Says(q[i])
      BY <1>1
    <2>2. ASSUME NEW i \in DOMAIN r, Says(r[i]), \A j \in DOMAIN r : j > i => ~Says(r[j])
          PROVE  i \in DOMAIN q /\ r[i] = q[i] /\ \A j \in DOMAIN q : j > i => ~Says(q[j])
      <3>1. i # n
        BY <1>1, <1>3, <2>2
      <3> QED BY <1>1, <2>2, <3>1
    <2> QED BY <1>1, <1>3, <2>1, <2>2 DEF TellsIn, r
  <1> QED BY <1>2, <1>3

\* One event fewer: the listener has been told.
LEMMA TellsRun ==
    ASSUME NEW q \in Seq(LaneEvents), NEW told \in BOOLEAN, NEW state \in BOOLEAN, TellsIn(q, told, state), q # <<>>
    PROVE  /\ Tail(q) \in Seq(LaneEvents)
           /\ TellsIn(Tail(q), IF Head(q) \in {"up", "down"} THEN Head(q) = "up" ELSE told, state)
  <1> DEFINE r == Tail(q)
  <1>1. /\ r \in Seq(LaneEvents) /\ DOMAIN r = 1 .. Len(r) /\ DOMAIN q = 1 .. Len(r) + 1 /\ Len(r) \in Nat
        /\ \A i \in 1 .. Len(r) : r[i] = q[i + 1]
        /\ q[1] = Head(q)
    BY HeadTailProperties, LenProperties
  <1> HIDE DEF r
  <1>2. \A j \in DOMAIN q : j = 1 \/ (j - 1 \in DOMAIN r /\ q[j] = r[j - 1])
    BY <1>1
  <1>3. ASSUME NEW i \in DOMAIN r, Says(r[i]), \A j \in DOMAIN r : j > i => ~Says(r[j])
        PROVE  state = (r[i] = "up")
    <2>1. i + 1 \in DOMAIN q /\ q[i + 1] = r[i]
      BY <1>1
    <2>2. \A j \in DOMAIN q : j > i + 1 => j - 1 \in DOMAIN r /\ q[j] = r[j - 1] /\ j - 1 > i
      BY <1>1
    <2> QED BY <1>3, <2>1, <2>2 DEF TellsIn
  <1>4. ASSUME \A i \in DOMAIN r : ~Says(r[i])
        PROVE  (IF Head(q) \in {"up", "down"} THEN Head(q) = "up" ELSE told) = state
    <2>1. 1 \in DOMAIN q /\ \A j \in DOMAIN q : j > 1 => ~Says(q[j])
      BY <1>1, <1>2, <1>4
    <2>2. CASE Says(Head(q))
      BY <1>1, <2>1, <2>2 DEF TellsIn, Says
    <2>3. CASE ~Says(Head(q))
      <3>1. \A j \in DOMAIN q : ~Says(q[j])
        BY <1>1, <1>2, <1>4, <2>3
      <3> QED BY <2>3, <3>1 DEF TellsIn, Says
    <2> QED BY <2>2, <2>3
  <1> QED BY <1>1, <1>3, <1>4 DEF TellsIn, r

\* A feed without a socket (NewZerodhaFeed).
LEMMA LaneFeedStarts == LaneFeedInit => LaneIInv
  <1> SUFFICES ASSUME LaneFeedInit PROVE LaneIInv
    OBVIOUS
  <1>1. NotYet \in SocketState /\ NotYet.st = "none" /\ Away \in Ensuring /\ <<>> \in Seq(LaneEvents)
    <2>1. {} \in SUBSET Tokens
      OBVIOUS
    <2>2. NotYet \in SocketState
      BY <2>1, FreshSocket
    <2> QED BY <2>2 DEF Away, Ensuring, NotYet, Socket
  <1>2. /\ wanted = {} /\ subscribed = {} /\ connected = FALSE /\ disposed = FALSE /\ sock = 0 /\ timer = "none"
        /\ events = <<>> /\ heard = FALSE /\ session = TRUE /\ brokerGen = 0 /\ opened = 0
    BY DEF LaneFeedInit, NoSocket
  <1>3. LaneTypeOK
    <2>1. ensuring \in [LaneCallers -> Ensuring] /\ conn \in [Sockets -> SocketState]
      BY <1>1 DEF LaneFeedInit
    <2>2. 0 \in 0 .. MaxSockets /\ 0 \in Int
      BY LaneAssumption
    <2> QED BY <1>1, <1>2, <2>1, <2>2 DEF LaneTypeOK
  <1>4. CurrentSocket
    <2>1. \A s \in Sockets : conn[s] = NotYet
      BY DEF LaneFeedInit
    <2> QED BY <1>2, <2>1 DEF CurrentSocket, NoSocket
  <1>5. HeardNext
    <2>1. DOMAIN events = {}
      BY <1>2
    <2> QED BY <1>2, <2>1 DEF HeardNext, TellsIn
  <1>6. WireIsWanted /\ OneSocket /\ IdleHasReason
    <2>1. \A s \in Sockets : conn[s].st = "none"
      BY <1>1 DEF LaneFeedInit
    <2> QED BY <1>2, <2>1 DEF WireIsWanted, OneSocket, IdleHasReason, NoSocket
  <1> QED BY <1>3, <1>4, <1>5, <1>6 DEF LaneIInv

\* One socket changes and stays what it is to the feed: the current one keeps what it carries.
LEMMA SocketMoves ==
    ASSUME LaneIInv, NEW s \in Sockets, NEW d \in SocketState, conn' = [conn EXCEPT ![s] = d],
           UNCHANGED <<wanted, disposed, sock, opened, timer, heard, ensuring, brokerGen, session, idleWhy>>,
           subscribed' \subseteq Tokens, connected' \in BOOLEAN, events' \in Seq(LaneEvents), HeardNext',
           connected' => sock # NoSocket, sock # NoSocket /\ connected' => subscribed' = wanted,
           conn[s] # NotYet, d.closing = conn[s].closing \/ d.st = "over",
           d.st \in {"dialing", "opened", "reading"} => conn[s].st \in {"dialing", "opened", "reading"},
           s = sock => /\ d.st \in {"dialing", "opened", "reading", "error", "close"}
                       /\ \/ d.st \in {"error", "close"}
                          \/ Carried(d) = Carried(conn[s]) /\ conn[s].st \notin {"error", "close"}
    PROVE  LaneIInv'
  <1> USE DEF LaneIInv
  <1>1. /\ conn \in [Sockets -> SocketState] /\ conn' \in [Sockets -> SocketState]
        /\ conn'[s] = d /\ \A i \in Sockets : i # s => conn'[i] = conn[i]
        /\ opened \in 0 .. MaxSockets /\ sock \in 0 .. MaxSockets
    BY DEF LaneTypeOK
  <1>2. LaneTypeOK'
    BY <1>1 DEF LaneTypeOK
  <1>3. \A i \in Sockets : i > opened => i # s
    BY DEF CurrentSocket
  <1>4. sock # NoSocket => sock \in Sockets
    BY <1>1, LaneAssumption DEF Sockets, NoSocket
  <1>5. CurrentSocket'
    <2>1. \A i \in Sockets : i > opened' => conn'[i] = NotYet
      BY <1>1, <1>3 DEF CurrentSocket
    <2>2. sock # NoSocket => /\ sock <= opened /\ ~disposed /\ ~conn'[sock].closing
                             /\ conn'[sock].st \in {"dialing", "opened", "reading", "error", "close"}
      BY <1>1, <1>4 DEF CurrentSocket
    <2> QED BY <2>1, <2>2 DEF CurrentSocket
  <1>6. WireIsWanted'
    <2>1. sock # NoSocket => Carried(conn'[sock]) = wanted \/ conn'[sock].st \in {"error", "close"}
      BY <1>1, <1>4 DEF WireIsWanted
    <2> QED BY <2>1 DEF WireIsWanted, Carried, OnWire
  <1>7. OneSocket'
    BY <1>1 DEF OneSocket
  <1>8. IdleHasReason'
    BY DEF IdleHasReason
  <1> QED BY <1>2, <1>5, <1>6, <1>7, <1>8

\* A socket by itself: the dial, the writer, the end of reading, and a tick.
LEMMA SocketSteps ==
    ASSUME LaneIInv, NEW s \in Sockets,
           dialed(s) \/ writer(s) \/ readEnds(s) \/ tickArrives(s) \/ onTick(s) \/ onOpen(s)
    PROVE  LaneIInv'
  <1> USE DEF LaneIInv
  <1> DEFINE c == conn[s]
  <1>1. /\ c \in SocketState /\ conn \in [Sockets -> SocketState] /\ sock \in 0 .. MaxSockets
        /\ events \in Seq(LaneEvents) /\ heard \in BOOLEAN /\ connected \in BOOLEAN /\ brokerGen \in Int
        /\ wanted \subseteq Tokens /\ subscribed \subseteq Tokens
    BY DEF LaneTypeOK
  <1>2. s = sock => sock # NoSocket /\ c.closing = FALSE
    BY <1>1 DEF Sockets, NoSocket, CurrentSocket, SocketState
  <1>3. (connected => sock # NoSocket) /\ (sock # NoSocket /\ connected => subscribed = wanted) /\ HeardNext
    BY DEF CurrentSocket, WireIsWanted
  <1>0. NotYet.st = "none" /\ NotYet.tickGen = -1
    BY DEF NotYet, Socket
  <1>4. CASE dialed(s)
    <2> DEFINE P == c.pending
               d == Socket("opened", {}, IF P = {} THEN <<>> ELSE <<Frame("subscribe", P)>>)
               e == [c EXCEPT !.st = "error"]
    <2>1. /\ c.st = "dialing"
          /\ \/ ~c.closing /\ conn' = [conn EXCEPT ![s] = d]
             \/ conn' = [conn EXCEPT ![s] = e]
          /\ UNCHANGED <<wanted, subscribed, connected, disposed, sock, opened, timer, events, heard, ensuring,
                         brokerGen, session, idleWhy>>
      BY <1>4 DEF dialed, feedVars, envVars
    <2>2. P \in SUBSET Tokens
      BY <1>1 DEF SocketState
    <2>3. d \in SocketState /\ Carried(d) = P /\ d.st = "opened" /\ d.closing = FALSE
      BY <2>2, FreshSocket DEF Socket
    <2>4. Carried(c) = P
      BY <2>1 DEF Carried
    <2>5. e \in SocketState /\ e.st = "error" /\ e.closing = c.closing
      BY <1>1 DEF SocketState
    <2>6. HeardNext'
      BY <2>1 DEF HeardNext
    <2> HIDE DEF d, e
    <2>7. CASE conn' = [conn EXCEPT ![s] = e]
      BY <1>0, <1>1, <1>3, <2>1, <2>5, <2>6, <2>7, SocketMoves
    <2>8. CASE ~c.closing /\ conn' = [conn EXCEPT ![s] = d]
      <3>1. c.closing = FALSE
        BY <1>1, <2>8 DEF SocketState
      <3> QED BY <1>0, <1>1, <1>3, <2>1, <2>3, <2>4, <2>6, <2>8, <3>1, SocketMoves
    <2> QED BY <2>1, <2>7, <2>8
  <1>5. CASE writer(s)
    <2>1. /\ c.st \in {"opened", "reading"} /\ c.out # <<>> /\ conn' = [conn EXCEPT ![s] = sent(c)]
          /\ UNCHANGED <<wanted, subscribed, connected, disposed, sock, opened, timer, events, heard, ensuring,
                         brokerGen, session, idleWhy>>
      BY <1>5 DEF writer, feedVars, envVars
    <2>2. /\ sent(c) \in SocketState /\ sent(c).st = c.st /\ sent(c).closing = c.closing
          /\ OnWire(sent(c)) = OnWire(c)
      BY <1>1, <2>1, FrameSent DEF sent
    <2>3. Carried(sent(c)) = Carried(c)
      BY <2>1, <2>2 DEF Carried
    <2>4. HeardNext'
      BY <2>1 DEF HeardNext
    <2> QED BY <1>0, <1>1, <1>3, <2>1, <2>2, <2>3, <2>4, SocketMoves
  <1>6. CASE readEnds(s)
    <2>1. PICK st \in {"close", "error"} : conn' = [conn EXCEPT ![s].st = st]
      BY <1>6 DEF readEnds
    <2>2. /\ c.st = "reading" /\ conn' = [conn EXCEPT ![s] = [c EXCEPT !.st = st]]
          /\ UNCHANGED <<wanted, subscribed, connected, disposed, sock, opened, timer, events, heard, ensuring,
                         brokerGen, session, idleWhy>>
      BY <1>6, <2>1 DEF readEnds, feedVars, envVars
    <2>3. [c EXCEPT !.st = st] \in SocketState /\ [c EXCEPT !.st = st].st = st
          /\ [c EXCEPT !.st = st].closing = c.closing
      BY <1>1 DEF SocketState
    <2>4. HeardNext'
      BY <2>2 DEF HeardNext
    <2> QED BY <1>0, <1>1, <1>3, <2>2, <2>3, <2>4, SocketMoves
  <1>7. CASE tickArrives(s) \/ onTick(s)
    <2> DEFINE g == IF tickArrives(s) THEN brokerGen ELSE -1
               d == [c EXCEPT !.tickGen = g]
    <2>1. /\ conn' = [conn EXCEPT ![s] = d]
          /\ UNCHANGED <<wanted, subscribed, connected, disposed, sock, opened, timer, heard, ensuring,
                         brokerGen, session, idleWhy>>
          /\ events' = events \/ events' = Append(events, "tick")
      BY <1>7 DEF tickArrives, onTick, feedVars, envVars
    <2>2. g \in Int
      BY <1>1
    <2>3. /\ d \in SocketState /\ d.st = c.st /\ d.closing = c.closing /\ d.pending = c.pending
          /\ d.out = c.out /\ d.server = c.server
      BY <1>1, <2>2 DEF SocketState
    <2> HIDE DEF d, g
    <2>4. Carried(d) = Carried(c)
      BY <2>3 DEF Carried, OnWire
    <2>5. events' \in Seq(LaneEvents) /\ HeardNext'
      <3>1. CASE events' = events
        BY <1>0, <1>1, <1>3, <2>1, <3>1 DEF HeardNext
      <3>2. CASE events' = Append(events, "tick")
        BY <1>0, <1>1, <1>3, <2>1, <3>2, TellsAppended DEF HeardNext, Says, LaneEvents
      <3> QED BY <2>1, <3>1, <3>2
    <2>6. CASE s = sock /\ c.st \notin {"dialing", "opened", "reading"}
      <3>1. c.st \in {"error", "close"}
        BY <1>2, <2>6 DEF CurrentSocket
      <3> QED BY <1>0, <1>1, <1>3, <2>1, <2>3, <2>5, <2>6, <3>1, SocketMoves
    <2>7. c # NotYet
      BY <1>0, <1>7 DEF tickArrives, onTick
    <2>8. CASE ~(s = sock /\ c.st \notin {"dialing", "opened", "reading"})
      BY <1>0, <1>1, <1>3, <2>1, <2>3, <2>4, <2>5, <2>7, <2>8, SocketMoves
    <2> QED BY <2>6, <2>8
  <1>8. CASE onOpen(s)
    <2> DEFINE d == [c EXCEPT !.st = "reading"]
    <2>1. /\ c.st = "opened" /\ conn' = [conn EXCEPT ![s] = d]
          /\ UNCHANGED <<wanted, disposed, sock, opened, timer, heard, ensuring, brokerGen, session, idleWhy>>
          /\ IF currentLocked(s) THEN subscribed' = wanted /\ setConnected(TRUE)
             ELSE UNCHANGED <<subscribed, connected, events>>
      BY <1>8 DEF onOpen, envVars
    <2>2. /\ d \in SocketState /\ d.st = "reading" /\ d.closing = c.closing /\ d.out = c.out
          /\ d.server = c.server
      BY <1>1 DEF SocketState
    <2>3. Carried(d) = Carried(c)
      BY <2>1, <2>2 DEF Carried, OnWire
    <2> HIDE DEF d
    <2>4. CASE ~currentLocked(s)
      <3>1. HeardNext' /\ UNCHANGED <<subscribed, connected, events>>
        BY <2>1, <2>4, <1>3 DEF HeardNext
      <3> QED BY <1>0, <1>1, <1>3, <2>1, <2>2, <2>3, <3>1, SocketMoves
    <2>5. CASE currentLocked(s)
      <3>1. sock = s /\ subscribed' = wanted /\ connected' = TRUE
            /\ events' = IF connected = TRUE THEN events ELSE Append(events, "up")
        BY <2>1, <2>5 DEF currentLocked, setConnected
      <3>2. events' \in Seq(LaneEvents) /\ HeardNext'
        <4>1. CASE connected = TRUE
          BY <1>0, <1>1, <1>3, <2>1, <3>1, <4>1 DEF HeardNext
        <4>2. CASE connected # TRUE
          BY <1>0, <1>1, <1>3, <2>1, <3>1, <4>2, TellsAppended DEF HeardNext, Says, LaneEvents
        <4> QED BY <4>1, <4>2
      <3> QED BY <1>0, <1>1, <1>2, <1>3, <2>1, <2>2, <2>3, <3>1, <3>2, SocketMoves
    <2> QED BY <2>4, <2>5
  <1> QED BY <1>4, <1>5, <1>6, <1>7, <1>8

\* The feed and its sockets stay as they are: what is around them changes.
LEMMA FeedStays ==
    ASSUME LaneIInv, UNCHANGED <<wanted, subscribed, connected, disposed, sock, opened, conn>>,
           timer' \in {"none", "armed"}, ensuring' \in [LaneCallers -> Ensuring], heard' \in BOOLEAN,
           events' \in Seq(LaneEvents), brokerGen' \in Int, session' \in BOOLEAN, HeardNext', IdleHasReason'
    PROVE  LaneIInv'
  <1> USE DEF LaneIInv
  <1>1. LaneTypeOK'
    BY DEF LaneTypeOK
  <1>2. CurrentSocket'
    BY DEF CurrentSocket
  <1>3. WireIsWanted' /\ OneSocket'
    BY DEF WireIsWanted, OneSocket, Carried, OnWire
  <1> QED BY <1>1, <1>2, <1>3

\* Credentials, the reconnect timer, the queue of callbacks, logins and switches.
LEMMA AroundFeed ==
    ASSUME LaneIInv,
           \/ \E t \in LaneCallers : readCredentials(t)
           \/ \E t \in LaneCallers : EnsureSocket(t) /\ mayNotOpen
           \/ drain \/ reconnect \/ EnvChange \/ UNCHANGED laneFeedVars
    PROVE  LaneIInv'
  <1> USE DEF LaneIInv
  <1>1. /\ timer \in {"none", "armed"} /\ ensuring \in [LaneCallers -> Ensuring] /\ heard \in BOOLEAN
        /\ connected \in BOOLEAN /\ events \in Seq(LaneEvents) /\ brokerGen \in Int /\ session \in BOOLEAN
        /\ HeardNext /\ IdleHasReason
    BY DEF LaneTypeOK
  <1>2. Away \in Ensuring /\ "timer" \in LaneCallers
    BY DEF Away, Ensuring, LaneCallers
  <1>3. ASSUME NEW t \in LaneCallers, readCredentials(t) PROVE LaneIInv'
    <2>1. /\ UNCHANGED <<wanted, subscribed, connected, disposed, sock, opened, conn, timer, events, heard,
                         brokerGen, session>>
          /\ \/ ensuring' = [ensuring EXCEPT ![t] = [at |-> "opening", gen |-> brokerGen]]
             \/ /\ ensuring' = [ensuring EXCEPT ![t] = Away]
                /\ idleWhy' = IF sock = NoSocket THEN "no session" ELSE idleWhy
      BY <1>3 DEF readCredentials, feedVars, envVars
    <2>2. [at |-> "opening", gen |-> brokerGen] \in Ensuring
      BY <1>1 DEF Ensuring
    <2>3. ensuring' \in [LaneCallers -> Ensuring]
      BY <1>1, <1>2, <2>1, <2>2
    <2>4. IdleHasReason'
      <3>1. CASE ensuring' = [ensuring EXCEPT ![t] = [at |-> "opening", gen |-> brokerGen]]
        <4>1. ensuring'[t].at # "idle"
          BY <1>1, <3>1
        <4> QED BY <4>1 DEF IdleHasReason
      <3>2. CASE idleWhy' = IF sock = NoSocket THEN "no session" ELSE idleWhy
        BY <2>1, <3>2 DEF IdleHasReason
      <3> QED BY <2>1, <3>1, <3>2
    <2>5. HeardNext'
      BY <1>1, <2>1 DEF HeardNext
    <2> QED BY <1>1, <2>1, <2>3, <2>4, <2>5, FeedStays
  <1>4. ASSUME NEW t \in LaneCallers, EnsureSocket(t), mayNotOpen PROVE LaneIInv'
    <2>1. /\ UNCHANGED <<wanted, subscribed, connected, disposed, sock, opened, conn, timer, events, heard,
                         brokerGen, session>>
          /\ ensuring' = [ensuring EXCEPT ![t] = Away]
          /\ disposed \/ sock # NoSocket
      BY <1>4 DEF EnsureSocket, mayNotOpen, envVars
    <2>2. ensuring' \in [LaneCallers -> Ensuring]
      BY <1>1, <1>2, <2>1
    <2>3. HeardNext' /\ IdleHasReason'
      BY <1>1, <2>1 DEF HeardNext, IdleHasReason
    <2> QED BY <1>1, <2>1, <2>2, <2>3, FeedStays
  <1>5. CASE drain
    <2>1. /\ UNCHANGED <<wanted, subscribed, connected, disposed, sock, opened, conn, timer, ensuring,
                         brokerGen, session, idleWhy>>
          /\ events # <<>> /\ events' = Tail(events)
          /\ heard' = IF Head(events) \in {"up", "down"} THEN Head(events) = "up" ELSE heard
      BY <1>5 DEF drain, feedVars, envVars
    <2>2. events' \in Seq(LaneEvents) /\ TellsIn(events', heard', connected)
      BY <1>1, <2>1, TellsRun DEF HeardNext
    <2>3. HeardNext'
      BY <2>1, <2>2 DEF HeardNext
    <2>4. heard' \in BOOLEAN /\ IdleHasReason'
      BY <1>1, <2>1 DEF IdleHasReason
    <2> QED BY <1>1, <2>1, <2>2, <2>3, <2>4, FeedStays
  <1>6. CASE reconnect
    <2>1. /\ UNCHANGED <<wanted, subscribed, connected, disposed, sock, opened, conn, events, heard,
                         brokerGen, session>>
          /\ timer' = "none"
          /\ ensuring' = [ensuring EXCEPT !["timer"] =
                              IF ~disposed /\ sock = NoSocket THEN [at |-> "asking", gen |-> 0] ELSE Away]
      BY <1>6 DEF reconnect, ensure, feedVars, envVars
    <2>2. [at |-> "asking", gen |-> 0] \in Ensuring
      BY DEF Ensuring
    <2>3. ensuring' \in [LaneCallers -> Ensuring]
      BY <1>1, <1>2, <2>1, <2>2
    <2>4. IdleHasReason'
      <3>1. ~disposed /\ sock = NoSocket => ensuring'["timer"].at # "idle"
        BY <1>1, <1>2, <2>1
      <3> QED BY <1>2, <2>1, <3>1 DEF IdleHasReason
    <2>5. HeardNext'
      BY <1>1, <2>1 DEF HeardNext
    <2> QED BY <2>1, <1>1, <2>3, <2>4, <2>5, FeedStays
  <1>7. CASE EnvChange \/ UNCHANGED laneFeedVars
    <2>0. /\ UNCHANGED <<wanted, subscribed, connected, disposed, sock, opened, conn, timer, ensuring, events,
                         heard, idleWhy>>
          /\ brokerGen' = brokerGen \/ brokerGen' = 1
          /\ session' = session \/ session' = ~session
      BY <1>7, Zenon DEF EnvChange, laneFeedVars, feedVars, envVars
    <2>1. brokerGen' \in Int /\ session' \in BOOLEAN
      <3>1. (~session) \in BOOLEAN
        BY Zenon
      <3>2. session' \in BOOLEAN
        BY <1>1, <2>0, <3>1, Zenon
      <3> QED BY <1>1, <2>0, <3>2
    <2>2. HeardNext' /\ IdleHasReason'
      BY <1>1, <2>0 DEF HeardNext, IdleHasReason
    <2> QED BY <1>1, <2>0, <2>1, <2>2, FeedStays
  <1> QED BY <1>3, <1>4, <1>5, <1>6, <1>7

\* A feed without a socket opens one, for what is wanted now.
LEMMA SocketOpens ==
    ASSUME LaneIInv, NEW t \in LaneCallers, EnsureSocket(t)
    PROVE  LaneIInv'
  <1>1. CASE mayNotOpen
    BY <1>1, AroundFeed
  <1>2. CASE ~mayNotOpen
    <2> USE DEF LaneIInv
    <2> DEFINE n == opened + 1
               d == Socket("dialing", wanted, <<>>)
    <2>1. /\ sock = NoSocket /\ disposed # TRUE /\ opened < MaxSockets
          /\ ensuring' = [ensuring EXCEPT ![t] = Away] /\ opened' = n /\ sock' = n
          /\ conn' = [conn EXCEPT ![n] = d]
          /\ UNCHANGED <<wanted, subscribed, connected, disposed, timer, events, heard, brokerGen, session>>
      BY <1>2 DEF EnsureSocket, mayNotOpen, envVars
    <2>2. /\ opened \in 0 .. MaxSockets /\ n \in Sockets /\ n \in 0 .. MaxSockets /\ n # NoSocket
      BY <2>1, LaneAssumption DEF LaneTypeOK, Sockets, NoSocket
    <2>3. d \in SocketState /\ Carried(d) = wanted
      BY FreshSocket DEF LaneTypeOK
    <2>4. d.st = "dialing" /\ d.closing = FALSE
      BY DEF Socket
    <2> HIDE DEF d
    <2>5. /\ conn' \in [Sockets -> SocketState] /\ conn'[n] = d
          /\ \A i \in Sockets : i # n => conn'[i] = conn[i]
      BY <2>1, <2>2, <2>3 DEF LaneTypeOK
    <2>6. Away \in Ensuring
      BY DEF Away, Ensuring
    <2>7. ensuring' \in [LaneCallers -> Ensuring]
      BY <2>1, <2>6 DEF LaneTypeOK
    <2> HIDE DEF n
    <2>8. LaneTypeOK'
      BY <2>1, <2>2, <2>5, <2>7 DEF LaneTypeOK
    <2>9. ~connected
      BY <2>1 DEF CurrentSocket
    <2>10. CurrentSocket'
      <3>1. \A i \in Sockets : i > n => i > opened /\ i # n
        BY <2>2 DEF n, Sockets
      <3>2. \A i \in Sockets : i > n => conn'[i] = NotYet
        BY <2>5, <3>1 DEF CurrentSocket
      <3>3. n <= n
        BY <2>2
      <3> QED BY <2>1, <2>4, <2>5, <2>9, <3>2, <3>3 DEF CurrentSocket, LaneTypeOK
    <2>11. WireIsWanted'
      <3>1. Carried(conn'[n]) = wanted
        BY <2>3, <2>5
      <3> QED BY <2>1, <2>9, <3>1 DEF WireIsWanted, Carried, OnWire
    <2>12. OneSocket'
      <3>1. \A i \in Sockets : i # NoSocket
        BY DEF Sockets, NoSocket
      <3> QED BY <2>1, <2>5, <3>1 DEF OneSocket
    <2>13. HeardNext' /\ IdleHasReason'
      BY <2>1, <2>2 DEF HeardNext, IdleHasReason
    <2> QED BY <2>8, <2>10, <2>11, <2>12, <2>13
  <1> QED BY <1>1, <1>2

\* The current socket leaves: it was closed by us, or it has ended.
LEMMA SocketLeaves ==
    ASSUME LaneIInv, sock' = NoSocket, connected' = FALSE, subscribed' = {}, wanted' \subseteq Tokens,
           disposed' \in BOOLEAN, timer' \in {"none", "armed"}, conn' \in [Sockets -> SocketState],
           UNCHANGED <<opened, ensuring, heard, brokerGen, session>>,
           \A i \in Sockets : i # sock => conn'[i] = conn[i],
           sock # NoSocket => \/ conn'[sock].closing
                              \/ conn'[sock].st \in {"error", "close", "over"},
           events' \in Seq(LaneEvents), TellsIn(events', heard, FALSE), IdleHasReason'
    PROVE  LaneIInv'
  <1> USE DEF LaneIInv
  <1>1. 0 \in 0 .. MaxSockets
    BY LaneAssumption
  <1>2. LaneTypeOK'
    BY <1>1 DEF LaneTypeOK, NoSocket
  <1>3. CurrentSocket'
    <2>1. \A i \in Sockets : i > opened => i # sock
      <3>1. CASE sock = NoSocket
        BY <3>1 DEF Sockets, NoSocket
      <3>2. CASE sock # NoSocket
        BY <3>2 DEF CurrentSocket, LaneTypeOK, Sockets
      <3> QED BY <3>1, <3>2
    <2> QED BY <2>1 DEF CurrentSocket
  <1>4. WireIsWanted'
    BY DEF WireIsWanted, Carried, OnWire
  <1>5. OneSocket'
    <2>1. \A i \in Sockets : i # NoSocket
      BY DEF Sockets, NoSocket
    <2> QED BY <2>1 DEF OneSocket
  <1>6. HeardNext'
    BY DEF HeardNext
  <1> QED BY <1>2, <1>3, <1>4, <1>5, <1>6

\* An error, the end of a socket, and Stop.
LEMMA SocketEnds ==
    ASSUME LaneIInv, (\E s \in Sockets : onError(s) \/ onClose(s)) \/ Stop
    PROVE  LaneIInv'
  <1> USE DEF LaneIInv
  <1>1. /\ conn \in [Sockets -> SocketState] /\ sock \in 0 .. MaxSockets
        /\ events \in Seq(LaneEvents) /\ heard \in BOOLEAN /\ connected \in BOOLEAN
        /\ wanted \subseteq Tokens /\ subscribed \subseteq Tokens /\ timer \in {"none", "armed"}
        /\ disposed \in BOOLEAN
    BY DEF LaneTypeOK
  <1>2. (connected => sock # NoSocket) /\ (sock # NoSocket /\ connected => subscribed = wanted) /\ HeardNext
        /\ TellsIn(events, heard, connected) /\ (sock # NoSocket => ~disposed)
    BY DEF CurrentSocket, WireIsWanted, HeardNext
  <1>3. NotYet.st = "none"
    BY DEF NotYet, Socket
  <1>4. /\ {"up", "down", "dead", "tick"} = LaneEvents /\ ~Says("dead") /\ Says("down")
    BY DEF LaneEvents, Says
  <1>5. sock # NoSocket => sock \in Sockets
    BY <1>1, LaneAssumption DEF Sockets, NoSocket
  \* The connection is reported lost, if it was made.
  <1>6. ASSUME setConnected(FALSE) PROVE events' \in Seq(LaneEvents) /\ TellsIn(events', heard, FALSE)
    <2>1. CASE connected = FALSE
      BY <1>1, <1>2, <1>6, <2>1 DEF setConnected
    <2>2. CASE connected = TRUE
      <3>1. events' = Append(events, "down")
        BY <1>6, <2>2 DEF setConnected
      <3>2. "down" \in LaneEvents
        BY <1>4
      <3> QED BY <1>1, <1>2, <1>4, <3>1, <3>2, TellsAppended
    <2> QED BY <1>1, <2>1, <2>2
  <1>7. ASSUME NEW s \in Sockets, onError(s) PROVE LaneIInv'
    <2> DEFINE c == conn[s]
               d == [c EXCEPT !.st = "close"]
               socks == [conn EXCEPT ![s] = d]
    <2>1. c \in SocketState /\ c.st = "error" /\ d \in SocketState /\ d.st = "close" /\ d.closing = c.closing
      BY <1>1, <1>7 DEF onError, SocketState
    <2>2. [conn EXCEPT ![s].st = "close"] = socks
      OBVIOUS
    <2>3. UNCHANGED <<wanted, disposed, heard, ensuring, brokerGen, session, opened>>
      BY <1>7 DEF onError, envVars
    <2>4. CASE currentLocked(s)
      <3>1. /\ sock = s /\ sock' = NoSocket /\ subscribed' = {} /\ connected' = FALSE /\ timer' = "none"
            /\ idleWhy' = "dead"
            /\ conn' = IF sock = NoSocket THEN socks ELSE [socks EXCEPT ![sock] = CloseSocket(socks[sock])]
            /\ events' = IF connected THEN Append(Append(events, "dead"), "down") ELSE Append(events, "dead")
        BY <1>7, <2>2, <2>4 DEF onError, teardown, currentLocked
      <3>2. sock # NoSocket
        BY <3>1 DEF Sockets, NoSocket
      <3>3. CloseSocket(d) \in SocketState /\ CloseSocket(d).st = "close"
        BY <2>1 DEF CloseSocket, SocketState
      <3>4. conn' = [conn EXCEPT ![s] = CloseSocket(d)]
        BY <1>1, <3>1, <3>2
      <3> HIDE DEF d, socks
      <3>5. /\ conn' \in [Sockets -> SocketState] /\ conn'[s].st = "close"
            /\ \A i \in Sockets : i # s => conn'[i] = conn[i]
        BY <1>1, <3>3, <3>4
      <3>6. events' \in Seq(LaneEvents) /\ TellsIn(events', heard, FALSE)
        <4> DEFINE q == Append(events, "dead")
        <4>1. q \in Seq(LaneEvents) /\ TellsIn(q, heard, connected)
          BY <1>1, <1>2, <1>4, TellsAppended
        <4> HIDE DEF q
        <4>2. Append(q, "down") \in Seq(LaneEvents) /\ TellsIn(Append(q, "down"), heard, FALSE)
          BY <1>1, <1>4, <4>1, TellsAppended
        <4> QED BY <1>1, <3>1, <4>1, <4>2 DEF q
      <3>7. IdleHasReason'
        BY <3>1 DEF IdleHasReason
      <3> QED BY <1>1, <2>3, <3>1, <3>5, <3>6, <3>7, SocketLeaves
    <2>5. CASE ~currentLocked(s)
      <3>1. conn' = socks /\ UNCHANGED <<subscribed, sock, connected, timer, events, idleWhy>>
        BY <1>7, <2>2, <2>5 DEF onError
      <3>2. HeardNext'
        BY <1>2, <2>3, <3>1 DEF HeardNext
      <3>3. c # NotYet
        BY <1>3, <2>1
      <3> HIDE DEF d
      <3> QED BY <1>1, <1>2, <2>1, <2>3, <3>1, <3>2, <3>3, SocketMoves
    <2> QED BY <2>4, <2>5
  <1>8. ASSUME NEW s \in Sockets, onClose(s) PROVE LaneIInv'
    <2>1. {} \in SUBSET Tokens
      OBVIOUS
    <2>2. conn[s] \in SocketState /\ conn[s].st = "close" /\ Over \in SocketState /\ Over.st = "over"
      BY <1>1, <1>8, <2>1, FreshSocket DEF onClose, Over, Socket
    <2>3. /\ conn' = [conn EXCEPT ![s] = Over]
          /\ UNCHANGED <<wanted, disposed, heard, ensuring, brokerGen, session, opened>>
      BY <1>8 DEF onClose, envVars
    <2>4. CASE currentLocked(s)
      <3>1. /\ sock = s /\ sock' = NoSocket /\ subscribed' = {} /\ setConnected(FALSE) /\ scheduleReconnect
            /\ idleWhy' = IF wanted = {} THEN "empty" ELSE "timer"
        BY <1>8, <2>4 DEF onClose, currentLocked
      <3>2. /\ conn' \in [Sockets -> SocketState] /\ conn'[s].st = "over"
            /\ \A i \in Sockets : i # s => conn'[i] = conn[i]
        BY <1>1, <2>2, <2>3
      <3>3. connected' = FALSE
        BY <3>1 DEF setConnected
      <3>4. timer' \in {"none", "armed"} /\ (wanted # {} /\ ~disposed => timer' = "armed")
        BY <1>1, <3>1 DEF scheduleReconnect
      <3>5. IdleHasReason'
        BY <2>3, <3>4 DEF IdleHasReason
      <3> QED BY <1>1, <1>6, <2>3, <3>1, <3>2, <3>3, <3>4, <3>5, SocketLeaves
    <2>5. CASE ~currentLocked(s)
      <3>1. UNCHANGED <<subscribed, sock, connected, timer, events, idleWhy>>
        BY <1>8, <2>5 DEF onClose
      <3>2. HeardNext'
        BY <1>2, <2>3, <3>1 DEF HeardNext
      <3>3. conn[s] # NotYet
        BY <1>3, <2>2
      <3>4. s # sock
        BY <1>2, <2>5 DEF currentLocked, Sockets, NoSocket
      <3> QED BY <1>1, <1>2, <2>2, <2>3, <3>1, <3>2, <3>3, <3>4, SocketMoves
    <2> QED BY <2>4, <2>5
  <1>9. CASE Stop
    <2>1. /\ disposed' = TRUE /\ timer' = "none" /\ sock' = NoSocket /\ subscribed' = {} /\ wanted' = {}
          /\ setConnected(FALSE) /\ UNCHANGED <<heard, ensuring, brokerGen, session, opened>>
          /\ conn' = IF sock = NoSocket THEN conn ELSE [conn EXCEPT ![sock] = CloseSocket(conn[sock])]
      BY <1>9 DEF Stop, teardown, envVars
    <2>2. connected' = FALSE
      BY <2>1 DEF setConnected
    <2>3. /\ conn' \in [Sockets -> SocketState]
          /\ \A i \in Sockets : i # sock => conn'[i] = conn[i]
          /\ sock # NoSocket => conn'[sock].closing
      <3>1. CASE sock = NoSocket
        BY <1>1, <2>1, <3>1
      <3>2. CASE sock # NoSocket
        <4> DEFINE d == CloseSocket(conn[sock])
        <4>1. d \in SocketState /\ d.closing = TRUE
          BY <1>1, <1>5, <3>2 DEF CloseSocket, SocketState
        <4> HIDE DEF d
        <4>2. conn' = [conn EXCEPT ![sock] = d]
          BY <2>1, <3>2 DEF d
        <4> QED BY <1>1, <1>5, <3>2, <4>1, <4>2
      <3> QED BY <3>1, <3>2
    <2>4. IdleHasReason'
      BY <2>1 DEF IdleHasReason
    <2> QED BY <1>1, <1>6, <2>1, <2>2, <2>3, <2>4, SocketLeaves
  <1> QED BY <1>7, <1>8, <1>9

\* The current socket is told what is wanted now.
LEMMA SocketTold ==
    ASSUME LaneIInv, sock # NoSocket, NEW d \in SocketState, conn' = [conn EXCEPT ![sock] = d],
           d.st = conn[sock].st, d.closing = conn[sock].closing,
           Carried(d) = wanted' \/ d.st \in {"error", "close"},
           wanted' \subseteq Tokens, subscribed' \subseteq Tokens, connected => subscribed' = wanted',
           UNCHANGED <<connected, disposed, sock, opened, timer, events, heard, ensuring, brokerGen, session>>
    PROVE  LaneIInv'
  <1> USE DEF LaneIInv
  <1>1. sock \in Sockets /\ sock <= opened /\ opened \in Int
    BY LaneAssumption DEF LaneTypeOK, Sockets, NoSocket, CurrentSocket
  <1>2. /\ conn' \in [Sockets -> SocketState] /\ conn'[sock] = d
        /\ \A i \in Sockets : i # sock => conn'[i] = conn[i]
    BY <1>1 DEF LaneTypeOK
  <1>3. LaneTypeOK'
    BY <1>2 DEF LaneTypeOK
  <1>4. CurrentSocket'
    <2>1. \A i \in Sockets : i > opened => i # sock
      BY <1>1 DEF Sockets
    <2> QED BY <1>1, <1>2, <2>1 DEF CurrentSocket
  <1>5. WireIsWanted'
    <2>1. Carried(conn'[sock]) = wanted' \/ conn'[sock].st \in {"error", "close"}
      BY <1>2
    <2> QED BY <2>1 DEF WireIsWanted, Carried, OnWire
  <1>6. OneSocket'
    BY <1>2 DEF OneSocket
  <1>7. HeardNext' /\ IdleHasReason'
    BY DEF HeardNext, IdleHasReason
  <1> QED BY <1>3, <1>4, <1>5, <1>6, <1>7

\* Without a socket only the wanted set and the calls change.
LEMMA NoSocketTold ==
    ASSUME LaneIInv, sock = NoSocket, wanted' \subseteq Tokens, subscribed' \subseteq Tokens,
           ensuring' \in [LaneCallers -> Ensuring], IdleHasReason',
           UNCHANGED <<connected, disposed, sock, opened, timer, events, heard, conn, brokerGen, session>>
    PROVE  LaneIInv'
  <1> USE DEF LaneIInv
  <1>1. LaneTypeOK'
    BY DEF LaneTypeOK
  <1>2. CurrentSocket' /\ OneSocket' /\ HeardNext'
    BY DEF CurrentSocket, OneSocket, HeardNext
  <1>3. WireIsWanted'
    BY DEF WireIsWanted, Carried, OnWire
  <1> QED BY <1>1, <1>2, <1>3

\* The lane's callers.
LEMMA TokensDeclared ==
    ASSUME LaneIInv,
           \/ \E t \in Threads, want \in SUBSET Tokens : SetTokens(t, want)
           \/ \E t \in Threads, tok \in Tokens : SubscribeTokens(t, {tok})
           \/ \E tok \in Tokens : UnsubscribeTokens({tok})
    PROVE  LaneIInv'
  <1> USE DEF LaneIInv
  <1> DEFINE c == conn[sock]
             ask == [at |-> "asking", gen |-> 0]
  <1>1. /\ conn \in [Sockets -> SocketState] /\ sock \in 0 .. MaxSockets /\ ensuring \in [LaneCallers -> Ensuring]
        /\ wanted \subseteq Tokens /\ subscribed \subseteq Tokens
    BY DEF LaneTypeOK
  <1>2. sock # NoSocket => sock \in Sockets
    BY <1>1, LaneAssumption DEF Sockets, NoSocket
  <1>3. Away \in Ensuring /\ ask \in Ensuring /\ Threads \subseteq LaneCallers
    BY DEF Away, Ensuring, LaneCallers
  <1>4. sock # NoSocket => /\ c \in SocketState /\ (Carried(c) = wanted \/ c.st \in {"error", "close"})
                           /\ connected => subscribed = wanted
    BY <1>1, <1>2 DEF WireIsWanted
  <1>5. ASSUME NEW t \in Threads, NEW want \in SUBSET Tokens, SetTokens(t, want) PROVE LaneIInv'
    <2> DEFINE add == want \ wanted
               drop == wanted \ want
    <2>1. /\ wanted' = want
          /\ UNCHANGED <<connected, disposed, sock, opened, timer, events, heard, brokerGen, session, idleWhy>>
      BY <1>5 DEF SetTokens, envVars
    <2>2. CASE sock = NoSocket
      <3>1. /\ UNCHANGED <<subscribed, conn>>
            /\ ensuring' = [ensuring EXCEPT ![t] = IF want # {} /\ ~disposed THEN ask ELSE Away]
        BY <1>5, <2>2 DEF SetTokens, ensure
      <3>2. ensuring' \in [LaneCallers -> Ensuring]
        BY <1>1, <1>3, <3>1
      <3>3. want # {} /\ ~disposed => ensuring'[t].at # "idle"
        BY <1>1, <1>3, <3>1
      <3>4. IdleHasReason'
        BY <1>3, <2>1, <3>3 DEF IdleHasReason
      <3> QED BY <1>1, <2>1, <2>2, <3>1, <3>2, <3>4, NoSocketTold
    <2>3. CASE sock # NoSocket
      <3> DEFINE b == IF drop = {} THEN c ELSE Unsubscribe(c, drop)
                 d == IF add = {} THEN b ELSE Subscribe(b, add)
      <3>1. conn' = [conn EXCEPT ![sock] = d] /\ subscribed' = (subscribed \ drop) \cup add /\ UNCHANGED ensuring
        BY <1>5, <2>3 DEF SetTokens
      <3>2. add \in SUBSET Tokens /\ drop \in SUBSET Tokens /\ c \in SocketState
        BY <1>1, <1>4, <2>3
      <3>3. b \in SocketState /\ b.st = c.st /\ b.closing = c.closing /\ Carried(b) = Carried(c) \ drop
        <4> HIDE DEF c, add, drop
        <4> QED BY <3>2, SocketCarries
      <3>4. d \in SocketState /\ d.st = b.st /\ d.closing = b.closing /\ Carried(d) = Carried(b) \cup add
        <4> HIDE DEF b, c, add, drop
        <4> QED BY <3>2, <3>3, SocketCarries
      <3> HIDE DEF d, b, c
      <3>5. Carried(d) = want \/ d.st \in {"error", "close"}
        BY <1>4, <2>3, <3>3, <3>4
      <3>6. subscribed' \subseteq Tokens /\ (connected => subscribed' = want)
        BY <1>1, <1>4, <2>3, <3>1
      <3> QED BY <2>1, <2>3, <3>1, <3>3, <3>4, <3>5, <3>6, SocketTold DEF c
    <2> QED BY <2>2, <2>3
  <1>6. ASSUME NEW t \in Threads, NEW tok \in Tokens, SubscribeTokens(t, {tok}) PROVE LaneIInv'
    <2> DEFINE toAdd == {tok} \ wanted
    <2>1. /\ wanted' = wanted \cup toAdd
          /\ UNCHANGED <<connected, disposed, sock, opened, timer, events, heard, brokerGen, session, idleWhy>>
      BY <1>6 DEF SubscribeTokens, envVars
    <2>2. toAdd \in SUBSET Tokens
      OBVIOUS
    <2>3. CASE sock = NoSocket
      <3>1. /\ UNCHANGED <<subscribed, conn>>
            /\ ensuring' = [ensuring EXCEPT ![t] = IF ~disposed THEN ask ELSE Away]
        BY <1>6, <2>3 DEF SubscribeTokens, ensure
      <3>2. ensuring' \in [LaneCallers -> Ensuring]
        BY <1>1, <1>3, <3>1
      <3>3. ~disposed => ensuring'[t].at # "idle"
        BY <1>1, <1>3, <3>1
      <3>4. IdleHasReason'
        BY <1>3, <2>1, <3>3 DEF IdleHasReason
      <3> QED BY <1>1, <2>1, <2>2, <2>3, <3>1, <3>2, <3>4, NoSocketTold
    <2>4. CASE sock # NoSocket
      <3> DEFINE d == IF toAdd = {} THEN c ELSE Subscribe(c, toAdd)
      <3>1. /\ conn' = IF toAdd = {} THEN conn ELSE [conn EXCEPT ![sock] = Subscribe(c, toAdd)]
            /\ subscribed' = subscribed \cup toAdd /\ UNCHANGED ensuring
        BY <1>6, <2>4 DEF SubscribeTokens
      <3>2. c \in SocketState
        BY <1>4, <2>4
      <3>3. conn' = [conn EXCEPT ![sock] = d]
        BY <1>1, <1>2, <2>4, <3>1
      <3>4. d \in SocketState /\ d.st = c.st /\ d.closing = c.closing /\ Carried(d) = Carried(c) \cup toAdd
        <4> HIDE DEF c, toAdd
        <4> QED BY <2>2, <3>2, SocketCarries
      <3> HIDE DEF d, c, toAdd
      <3>5. Carried(d) = wanted' \/ d.st \in {"error", "close"}
        BY <1>4, <2>1, <2>4, <3>4
      <3>6. /\ subscribed' \subseteq Tokens /\ wanted' \subseteq Tokens
            /\ connected => subscribed' = wanted'
        BY <1>1, <1>4, <2>1, <2>2, <2>4, <3>1
      <3> QED BY <2>1, <2>4, <3>1, <3>3, <3>4, <3>5, <3>6, SocketTold DEF c
    <2> QED BY <2>3, <2>4
  <1>7. ASSUME NEW tok \in Tokens, UnsubscribeTokens({tok}) PROVE LaneIInv'
    <2> DEFINE drop == {tok} \cap wanted
               d == Unsubscribe(c, drop)
    <2>1. /\ wanted' = wanted \ drop /\ subscribed' = subscribed \ drop
          /\ conn' = IF sock = NoSocket THEN conn ELSE [conn EXCEPT ![sock] = d]
          /\ UNCHANGED <<connected, disposed, sock, opened, timer, events, heard, ensuring, brokerGen, session, idleWhy>>
      BY <1>7 DEF UnsubscribeTokens, envVars
    <2>2. CASE sock = NoSocket
      <3>1. IdleHasReason'
        BY <2>1 DEF IdleHasReason
      <3> QED BY <1>1, <2>1, <2>2, <3>1, NoSocketTold
    <2>3. CASE sock # NoSocket
      <3>1. c \in SocketState /\ drop \in SUBSET Tokens
        BY <1>4, <2>3
      <3>2. d \in SocketState /\ d.st = c.st /\ d.closing = c.closing /\ Carried(d) = Carried(c) \ drop
        <4> HIDE DEF c, drop
        <4> QED BY <3>1, SocketCarries
      <3> HIDE DEF d, c, drop
      <3>3. Carried(d) = wanted' \/ d.st \in {"error", "close"}
        BY <1>4, <2>1, <2>3, <3>2
      <3>4. /\ subscribed' \subseteq Tokens /\ wanted' \subseteq Tokens
            /\ connected => subscribed' = wanted'
        BY <1>1, <1>4, <2>1, <2>3
      <3> QED BY <2>1, <2>3, <3>2, <3>3, <3>4, SocketTold DEF c
    <2> QED BY <2>2, <2>3
  <1> QED BY <1>5, <1>6, <1>7

\* The lane's feed keeps its invariant, whatever its callers, its sockets and the broker do and in
\* whatever order (lanefeed.go).
THEOREM LaneFeedInvariant == LaneFeedSpec => []LaneIInv
  <1>1. LaneFeedInit => LaneIInv
    BY LaneFeedStarts
  <1>2. LaneIInv /\ [LaneFeedNext]_laneFeedVars => LaneIInv'
    <2> SUFFICES ASSUME LaneIInv, [LaneFeedNext]_laneFeedVars PROVE LaneIInv'
      OBVIOUS
    <2>1. CASE \E s \in Sockets : dialed(s) \/ writer(s) \/ readEnds(s) \/ tickArrives(s) \/ onTick(s) \/ onOpen(s)
      BY <2>1, SocketSteps
    <2>2. CASE (\E s \in Sockets : onError(s) \/ onClose(s)) \/ Stop
      BY <2>2, SocketEnds
    <2>3. CASE (\E t \in LaneCallers : readCredentials(t)) \/ drain \/ reconnect \/ EnvChange \/ UNCHANGED laneFeedVars
      BY <2>3, AroundFeed
    <2>4. CASE \E t \in LaneCallers : EnsureSocket(t)
      BY <2>4, SocketOpens
    <2>5. CASE \/ \E t \in Threads, want \in SUBSET Tokens : SetTokens(t, want)
               \/ \E t \in Threads, tok \in Tokens : SubscribeTokens(t, {tok})
               \/ \E tok \in Tokens : UnsubscribeTokens({tok})
      BY <2>5, TokensDeclared
    <2> QED BY <2>1, <2>2, <2>3, <2>4, <2>5 DEF LaneFeedNext
  <1> QED BY <1>1, <1>2, PTL DEF LaneFeedSpec

\* One socket carries what the lane wants, no other is left open, an idle lane has a reason, and the
\* listener ends knowing the connection's state (SetTokens, EnsureSocket, onError, onClose, the serial queue).
THEOREM LaneFeedAlwaysServes == LaneFeedSpec => []LaneServed
  <1>1. LaneIInv => LaneServed
    <2>1. ASSUME LaneIInv, events = <<>> PROVE heard = connected
      <3>1. DOMAIN events = {}
        BY <2>1
      <3> QED BY <2>1, <3>1 DEF LaneIInv, HeardNext, TellsIn
    <2> QED BY <2>1 DEF LaneIInv, LaneServed, ListenerKnows
  <1> QED BY <1>1, LaneFeedInvariant, PTL
==============================================================================
