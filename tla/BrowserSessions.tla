-------------------------- MODULE BrowserSessions --------------------------
(***************************************************************************)
(* The browser market-data routes against a broker switch: stored token    *)
(* lists with their open streams, and REST quotes with their cache.  The   *)
(* routes read the broker, then the generation, then act, unlocked.        *)
(*                                                                         *)
(* Source: internal/marketdata/session.go, routes.go, routes_sweep.go,     *)
(* internal/boundedcache, internal/brokers/registry/quotes.go.             *)
(***************************************************************************)
EXTENDS Integers, FiniteSets, FiniteSetsExt

CONSTANTS
    Registered,        \* the brokers a switch alternates between
    Handlers,       \* requests in progress at once
    MaxSessions,    \* the store's cap
    SessionTTL,     \* a session without a stream and unused for longer is reaped
    QuotesTTL,      \* a cached snapshot of this age is expired
    CacheEntries,   \* the quote cache's cap
    MaxCreated, MaxGeneration, MaxNow, MaxRequests     \* bounds of the instance

ASSUME BrowserAssumption == Registered # {} /\ IsFiniteSet(Handlers) /\ MaxCreated \in Nat

NoBroker == "none"
Ids == 1 .. MaxCreated
Gone == [broker |-> NoBroker, gen |-> 0, used |-> 0, conns |-> 0]
FreeHandler == [at |-> "idle", b |-> NoBroker, g |-> 0, id |-> 0, src |-> NoBroker]

VARIABLES
    activeBroker, generation,    \* the registry's state, one atomic value
    dropped,        \* a switch has dropped the sessions and not yet moved the state
    sessions,       \* the store: Gone, or broker, generation, last use, open streams
    created,        \* ids given out
    cache,          \* quote snapshots: key, broker the ticks are of, time, place in the order
    latest,         \* whose REST ticks the hub's latest-tick cache was seeded with
    h,              \* per handler: where it is, what it read, its session, its ticks
    now, requests   \* the clock; requests made

browserVars == <<activeBroker, generation, dropped, sessions, created, cache, latest, h, now, requests>>
regVars == <<activeBroker, generation, dropped>>
storeVars == <<sessions, created>>
quoteVars == <<cache, latest>>

BrowserInit ==
    /\ activeBroker = (CHOOSE b \in Registered : TRUE) /\ generation = 1 /\ dropped = FALSE    \* no route tells them apart
    /\ sessions = [i \in Ids |-> Gone] /\ created = 0
    /\ cache = {} /\ latest = NoBroker
    /\ h = [c \in Handlers |-> FreeHandler] /\ now = 0 /\ requests = 0

at(c, step) == h[c].at = step
go(c, to) == h' = [h EXCEPT ![c] = to]
goWith(c, step, g, src) == go(c, [at |-> step, b |-> h[c].b, g |-> g, id |-> h[c].id, src |-> src])
goTo(c, step) == goWith(c, step, h[c].g, h[c].src)

--------------------------------------------------------------------------------
(* The session store, one lock. *)

stored(S) == {i \in Ids : S[i] # Gone}

sweep(S) == [i \in Ids |-> IF S[i].conns = 0 /\ S[i].used < now - SessionTTL THEN Gone ELSE S[i]]

\* The least recently used session without a stream, the oldest of several; nothing when every
\* session has one.
evictIfFull(S) ==
    LET idle == {i \in stored(S) : S[i].conns = 0}
        older(i, j) == S[i].used < S[j].used \/ (S[i].used = S[j].used /\ i <= j)
    IN IF Cardinality(stored(S)) < MaxSessions \/ idle = {} THEN S
       ELSE [S EXCEPT ![CHOOSE i \in idle : \A j \in idle : older(i, j)] = Gone]

\* Stream count and last use of session i, when it is still there.
used(i, conns) == sessions' = [sessions EXCEPT ![i] =
    IF @ = Gone THEN @ ELSE [broker |-> @.broker, gen |-> @.gen, used |-> now, conns |-> conns]]
Open(i) == used(i, sessions[i].conns + 1)
Close(i) == used(i, IF sessions[i].conns > 0 THEN sessions[i].conns - 1 ELSE 0)

Sweep == sweep(sessions) # sessions /\ sessions' = sweep(sessions)
         /\ UNCHANGED <<regVars, created, quoteVars, h, now, requests>>

--------------------------------------------------------------------------------
(* Every route: the broker, then the generation, in two reads. *)

enter(c, kind, i) ==
    /\ at(c, "idle") /\ requests < MaxRequests /\ requests' = requests + 1
    /\ go(c, [at |-> kind, b |-> activeBroker, g |-> 0, id |-> i, src |-> NoBroker])
    /\ UNCHANGED <<regVars, storeVars, quoteVars, now>>

\* A broker that is not ready and a token of the other namespace are refused without a trace.
refuse(c) ==
    /\ \E kind \in {"create", "quotes"} : at(c, kind)
    /\ go(c, FreeHandler) /\ UNCHANGED <<regVars, storeVars, quoteVars, now, requests>>

readGeneration(c) ==
    /\ \/ at(c, "create") /\ goWith(c, "creating", generation, h[c].src)
       \/ at(c, "stream") /\ goWith(c, "resolving", generation, h[c].src)
       \/ at(c, "quotes") /\ goWith(c, "keyed", generation, h[c].src)
    /\ UNCHANGED <<regVars, storeVars, quoteVars, now, requests>>

--------------------------------------------------------------------------------
(* POST /api/stream/session and GET /api/stream/session/{id}. *)

Create(c) ==
    /\ at(c, "creating") /\ created < MaxCreated
    /\ go(c, FreeHandler) /\ created' = created + 1
    /\ sessions' = [evictIfFull(sweep(sessions)) EXCEPT ![created + 1] =
                      [broker |-> h[c].b, gen |-> h[c].g, used |-> now, conns |-> 0]]
    /\ UNCHANGED <<regVars, quoteVars, now, requests>>

\* Not found: 404.  Of another broker or generation: 409 and deleted, whoever streams it.
Resolve(c) ==
    /\ at(c, "resolving")
    /\ LET S == sweep(sessions)
           i == h[c].id
           current == S[i] # Gone /\ S[i].broker = h[c].b /\ S[i].gen = h[c].g
       IN /\ sessions' = [S EXCEPT ![i] = IF current THEN [@ EXCEPT !.used = now] ELSE Gone]
          /\ IF current THEN goTo(c, "resolved") ELSE go(c, FreeHandler)
    /\ UNCHANGED <<regVars, created, quoteVars, now, requests>>

\* Resolve has let go of the lock: the session may be gone, and the stream opens all the same.
streamOpen(c) ==
    /\ at(c, "resolved") /\ Open(h[c].id) /\ goTo(c, "opened")
    /\ UNCHANGED <<regVars, created, quoteVars, now, requests>>

\* Mutation: a refused stream does not give its connection back.
Mut_RefusalKeeps(c) ==
    /\ at(c, "opened")
    /\ goTo(c, "streaming") \/ go(c, FreeHandler)
    /\ UNCHANGED sessions
    /\ UNCHANGED <<regVars, created, quoteVars, now, requests>>
\* The checks of openTickStream: attached to the hub, or refused and closed.
openTickStream(c) ==
    /\ at(c, "opened")
    /\ \/ goTo(c, "streaming") /\ UNCHANGED sessions
       \/ go(c, FreeHandler) /\ Close(h[c].id)
    /\ UNCHANGED <<regVars, created, quoteVars, now, requests>>

\* The browser goes away, or the hub drops the client: lease, detach, then the count.
streamEnd(c) ==
    /\ at(c, "streaming") /\ Close(h[c].id) /\ go(c, FreeHandler)
    /\ UNCHANGED <<regVars, created, quoteVars, now, requests>>

--------------------------------------------------------------------------------
(* POST and GET /api/quotes, one token set. *)

quoteCacheKey(b, g) == <<b, g>>

expired(e) == now - e.at >= QuotesTTL
cached(key) == {e \in cache : e.key = key}

newest(S) == IF S = {} THEN 0 ELSE Max({e.place : e \in S})
oldest(S) == CHOOSE e \in S : \A f \in S : e.place <= f.place

\* The newest place, then the expired and the oldest beyond the cap go.
cacheSet(key, src) ==
    LET kept == {e \in cache : e.key # key /\ ~expired(e)}
        all == kept \cup {[key |-> key, src |-> src, at |-> now, place |-> newest(kept) + 1]}
    IN cache' = IF Cardinality(all) > CacheEntries THEN all \ {oldest(all)} ELSE all

\* A hit answers at once.  Get deletes the entry it finds expired.
cacheGet(c) ==
    /\ at(c, "keyed")
    /\ LET found == cached(quoteCacheKey(h[c].b, h[c].g))
       IN /\ cache' = cache \ {e \in found : expired(e)}
          /\ IF \E e \in found : ~expired(e) THEN go(c, FreeHandler) ELSE goTo(c, "missed")
    /\ UNCHANGED <<regVars, storeVars, latest, now, requests>>

\* QuotesByToken asks the broker that is active when it is called.
QuotesByToken(c) ==
    /\ at(c, "missed") /\ goWith(c, "asked", h[c].g, activeBroker)
    /\ UNCHANGED <<regVars, storeVars, quoteVars, now, requests>>

\* The ticks are cached under the key of before, seed the hub, and are answered; or an error.
serveQuotes(c) ==
    /\ at(c, "asked") /\ go(c, FreeHandler)
    /\ \/ cacheSet(quoteCacheKey(h[c].b, h[c].g), h[c].src) /\ latest' = h[c].src
       \/ UNCHANGED quoteVars
    /\ UNCHANGED <<regVars, storeVars, now, requests>>

--------------------------------------------------------------------------------
(* SwitchTo, and time. *)

\* The lanes stop (the hub forgets its ticks) and every session is dropped ...
DropAll ==
    /\ ~dropped /\ generation < MaxGeneration /\ dropped' = TRUE
    /\ sessions' = [i \in Ids |-> Gone] /\ latest' = NoBroker
    /\ UNCHANGED <<activeBroker, generation, created, cache, h, now, requests>>

\* ... before the broker and its generation move together.
switchMoves ==
    /\ dropped /\ dropped' = FALSE /\ generation' = generation + 1
    /\ activeBroker' \in Registered \ {activeBroker}
    /\ UNCHANGED <<storeVars, quoteVars, h, now, requests>>

Passes == now < MaxNow /\ now' = now + 1
          /\ UNCHANGED <<regVars, storeVars, quoteVars, h, requests>>

BrowserNext ==
    \/ \E c \in Handlers :
         \/ enter(c, "create", 0) \/ enter(c, "quotes", 0)
         \/ \E i \in 1 .. created : enter(c, "stream", i)
         \/ refuse(c) \/ readGeneration(c) \/ Create(c) \/ Resolve(c)
         \/ streamOpen(c) \/ openTickStream(c) \/ streamEnd(c)
         \/ cacheGet(c) \/ QuotesByToken(c) \/ serveQuotes(c)
    \/ Sweep \/ DropAll \/ switchMoves \/ Passes

BrowserSpec == BrowserInit /\ [][BrowserNext]_browserVars

--------------------------------------------------------------------------------
(* Properties *)

\* Attached to session i: between Open and Close.
Streams(i) == {c \in Handlers : h[c].id = i /\ (at(c, "opened") \/ at(c, "streaming"))}

\* A stored session counts exactly the streams that hold it, whatever was refused, swept,
\* evicted or dropped in between: one that is streamed is never reaped, an idle one can be.
ConnectionsExact == \A i \in stored(sessions) : sessions[i].conns = Cardinality(Streams(i))

\* What the current broker and generation would find in the quote cache is the active broker's
\* ticks, although a request reads broker and generation apart and asks for ticks later.
QuotesOfBroker ==
    \A e \in cached(quoteCacheKey(activeBroker, generation)) : e.src = activeBroker

\* Sessions count their streams, and a request sees ticks of the active broker.
SessionsSound == ConnectionsExact /\ QuotesOfBroker

\* The registry, the sessions and the handlers as the source declares them.
BrowserTypeOK ==
    /\ activeBroker \in Registered /\ generation \in Nat /\ now \in Nat /\ created \in 0 .. MaxCreated
    /\ sessions \in [Ids -> [broker : Registered \cup {NoBroker}, gen : Nat, used : Nat, conns : Nat]]
    /\ h \in [Handlers -> [at : {"idle", "create", "quotes", "stream", "creating", "resolving", "keyed",
                                "resolved", "opened", "streaming", "missed", "asked"},
                          b : Registered \cup {NoBroker}, g : Nat, id : 0 .. MaxCreated,
                          src : Registered \cup {NoBroker}]]

\* An id that was not given out names no session, and no stream can hold one: ids are not reused.
IdsFresh ==
    /\ \A i \in Ids : sessions[i] # Gone => i <= created
    /\ \A c \in Handlers :
          h[c].at \in {"stream", "resolving", "resolved", "opened", "streaming"} => h[c].id \in 1 .. created

\* A request's generation is of now or of the past, and of now only if its ticks are the active
\* broker's; and so it is with what was cached under it.
KeysOfPast ==
    /\ \A c \in Handlers : h[c].at \in {"keyed", "missed", "asked"} => h[c].g <= generation
    /\ \A c \in Handlers : at(c, "asked") /\ h[c].g = generation => h[c].src = activeBroker
    /\ \A e \in cache : \E b \in Registered \cup {NoBroker}, g \in 0 .. generation : e.key = quoteCacheKey(b, g)

\* The inductive invariant: a refused, swept or dropped session must not leave its id to another
\* one, and ticks must not outlive their generation under a key a later one reads.
BrowserIInv == BrowserTypeOK /\ IdsFresh /\ KeysOfPast /\ SessionsSound
=============================================================================
