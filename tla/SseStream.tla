----------------------------- MODULE SseStream ------------------------------
(***************************************************************************)
(* One browser's live tick stream, from AttachClient to the end of its     *)
(* route: the bounded frame queue, the writer goroutine, the route that    *)
(* pings and cleans up, and the SSE writer they share, whose Close must    *)
(* abort a write that is stuck on a peer which stopped reading.            *)
(*                                                                         *)
(* Sources: internal/hub/hub.go (AttachClient, detach, sendLocked,         *)
(* broadcastLocked, client), internal/hub/sse.go (SSEWriter),              *)
(* internal/marketdata/routes.go (openTickStream).                         *)
(*                                                                         *)
(* Streams meet only in the hub's mutex, which no step keeps while it      *)
(* waits, so one stream is modelled.  A tick frame is its number; every    *)
(* broadcast is one frame for every client.  The tick stream has no write  *)
(* timeout of its own (SSEWriter.WriteTimeout is 0).                       *)
(***************************************************************************)
EXTENDS Integers, Sequences

CONSTANTS
    ClientQueue,        \* Deps.ClientQueue: frames that may wait for the client
    MaxFrames,          \* bound on broadcasts
    MaxPings            \* bound on pings

ASSUME StreamBounds ==
    ClientQueue \in Nat \ {0} /\ MaxFrames \in Nat /\ MaxPings \in Nat

VARIABLES
    latest,     \* number of the last broadcast
    live,       \* the client is in h.clients
    frames,     \* cl.frames
    halted,     \* cl.stop is closed
    writer,     \* writer goroutine: where it is, and the frame in its hand
    route,      \* route goroutine: where it is
    pings,      \* pings sent so far
    smu,        \* holder of SSEWriter.mu
    writing,    \* SSEWriter.writing
    closed,     \* SSEWriter.closed
    once,       \* SSEWriter.once: how far the body of Close is
    deadline,   \* the write deadline was moved to now
    seen,       \* number of the last frame the browser has
    gone        \* the browser went away

hubVars == <<latest, live, frames, halted>>
sseVars == <<smu, writing, closed, once, deadline>>
streamVars == <<hubVars, writer, route, pings, sseVars, seen, gone>>

NoFrame == 0
Wait == [at |-> "wait", frame |-> NoFrame]
StreamInit ==
    /\ latest \in {0, 1} /\ live = FALSE /\ frames = <<>> /\ halted = FALSE
    /\ writer = Wait /\ route = "attach" /\ pings = 0
    /\ smu = "none" /\ writing = FALSE /\ closed = FALSE /\ once = "no" /\ deadline = FALSE
    /\ seen = 0 /\ gone = FALSE

-----------------------------------------------------------------------------
(* The hub                                                                 *)

\* AttachClient: registered, and one snapshot frame if anything is cached.
AttachClient ==
    /\ route = "attach" /\ route' = "stream"
    /\ live' = TRUE
    /\ frames' = IF latest > 0 THEN <<latest>> ELSE <<>>
    /\ seen' = IF latest > 0 THEN latest - 1 ELSE 0
    /\ UNCHANGED <<latest, halted, writer, pings, sseVars, gone>>

\* Mutation: a frame that does not fit is left out and the client kept.
Mut_SkipFrame ==
    /\ latest < MaxFrames /\ latest' = latest + 1
    /\ frames' = IF live /\ Len(frames) < ClientQueue THEN Append(frames, latest + 1) ELSE frames
    /\ UNCHANGED <<live, halted, once, closed, writer, route, pings, smu, writing, deadline, seen, gone>>

\* broadcastLocked and sendLocked: a full queue drops the client; Close follows
\* in the same goroutine (CloseSteps), and is not waited for by anyone else.
Broadcast ==
    /\ latest < MaxFrames /\ latest' = latest + 1
    /\ IF live /\ Len(frames) = ClientQueue
       THEN /\ live' = FALSE /\ halted' = TRUE
            /\ IF once = "no" THEN once' = "begun" ELSE UNCHANGED once
            /\ UNCHANGED <<closed, frames>>
       ELSE /\ frames' = IF live THEN Append(frames, latest + 1) ELSE frames
            /\ UNCHANGED <<live, halted, once, closed>>
    /\ UNCHANGED <<writer, route, pings, smu, writing, deadline, seen, gone>>

-----------------------------------------------------------------------------
(* SSEWriter                                                               *)

\* The body of Close, run once by whoever came first: closed is set, then a
\* write in progress is aborted by its deadline, then Done is closed.
CloseSteps ==
    /\ \/ once = "begun" /\ once' = "closed" /\ closed' = TRUE /\ UNCHANGED deadline
       \/ once = "closed" /\ once' = "done" /\ deadline' = writing /\ UNCHANGED closed
    /\ UNCHANGED <<hubVars, writer, route, pings, smu, writing, seen, gone>>

\* WriteFrame by the writer goroutine or by the route (a ping): the mutex is
\* taken and writing set, closed is checked, and the bytes are written, which
\* takes as long as the peer likes unless the deadline has passed.
LockWrite(who) == smu = "none" /\ smu' = who /\ writing' = TRUE
UnlockWrite == smu' = "none" /\ writing' = FALSE

-----------------------------------------------------------------------------
(* client.loop                                                             *)

\* select: a closed stop channel and a frame may both be ready.
WriterTakes ==
    /\ writer = Wait /\ frames # <<>>
    /\ writer' = [at |-> "took", frame |-> Head(frames)] /\ frames' = Tail(frames)
    /\ UNCHANGED <<latest, live, halted, route, pings, sseVars, seen, gone>>

\* The inner select.  A dropped client's writer also calls Close, which the
\* goroutine that dropped it has begun already.
WriterChecksStop ==
    /\ writer.at = "took"
    /\ writer' = IF halted THEN [at |-> "done", frame |-> NoFrame]
                           ELSE [writer EXCEPT !.at = "lock"]
    /\ UNCHANGED <<hubVars, route, pings, sseVars, seen, gone>>

WriterStops ==
    /\ writer = Wait /\ halted
    /\ writer' = [at |-> "done", frame |-> NoFrame]
    /\ UNCHANGED <<hubVars, route, pings, sseVars, seen, gone>>

WriterLocks ==
    /\ writer.at = "lock" /\ LockWrite("writer")
    /\ writer' = [writer EXCEPT !.at = "check"]
    /\ UNCHANGED <<hubVars, route, pings, closed, once, deadline, seen, gone>>

WriterChecksClosed ==
    /\ writer.at = "check"
    /\ IF closed THEN writer' = Wait /\ UnlockWrite
                 ELSE writer' = [writer EXCEPT !.at = "write"] /\ UNCHANGED <<smu, writing>>
    /\ UNCHANGED <<hubVars, route, pings, closed, once, deadline, seen, gone>>

\* The write ends: the browser got the frame, or the write was aborted.
WriterWrote ==
    /\ writer.at = "write" /\ writer' = Wait /\ UnlockWrite
    /\ seen' \in {writer.frame} \cup (IF deadline \/ gone THEN {seen} ELSE {})
    /\ UNCHANGED <<hubVars, route, pings, closed, once, deadline, gone>>

-----------------------------------------------------------------------------
(* openTickStream                                                          *)

RouteGoes(from, to) == route = from /\ route' = to

\* The keep-alive ping goes through the same SSE writer.
RoutePings ==
    /\ pings < MaxPings /\ RouteGoes("stream", "lock") /\ pings' = pings + 1
    /\ UNCHANGED <<hubVars, writer, sseVars, seen, gone>>

RouteLocks ==
    /\ RouteGoes("lock", "check") /\ LockWrite("route")
    /\ UNCHANGED <<hubVars, writer, pings, closed, once, deadline, seen, gone>>

RouteChecksClosed ==
    /\ route = "check"
    /\ IF closed THEN route' = "stream" /\ UnlockWrite
                 ELSE route' = "write" /\ UNCHANGED <<smu, writing>>
    /\ UNCHANGED <<hubVars, writer, pings, closed, once, deadline, seen, gone>>

RouteWrote ==
    /\ RouteGoes("write", "stream") /\ UnlockWrite
    /\ UNCHANGED <<hubVars, writer, pings, closed, once, deadline, seen, gone>>

\* The request context ends, or Done is closed.
RouteEnds ==
    /\ gone \/ once = "done"
    /\ RouteGoes("stream", "detach")
    /\ UNCHANGED <<hubVars, writer, pings, sseVars, seen, gone>>

\* detach: the client is removed, then halted, then closed, and its writer is
\* waited for.
RouteRemoves ==
    /\ RouteGoes("detach", "halt") /\ live' = FALSE
    /\ UNCHANGED <<latest, frames, halted, writer, pings, sseVars, seen, gone>>

RouteHalts ==
    /\ RouteGoes("halt", "close") /\ halted' = TRUE
    /\ UNCHANGED <<latest, live, frames, writer, pings, sseVars, seen, gone>>

RouteCloses ==
    /\ RouteGoes("close", "closing")
    /\ once' = IF once = "no" THEN "begun" ELSE once
    /\ UNCHANGED <<hubVars, writer, pings, smu, writing, closed, deadline, seen, gone>>

\* once.Do returns when the body has run, whoever runs it.
RouteClosed ==
    /\ once = "done" /\ RouteGoes("closing", "join")
    /\ UNCHANGED <<hubVars, writer, pings, sseVars, seen, gone>>

RouteReturns ==
    /\ writer.at = "done" /\ RouteGoes("join", "returned")
    /\ UNCHANGED <<hubVars, writer, pings, sseVars, seen, gone>>

BrowserGoes ==
    /\ ~gone /\ route # "attach" /\ gone' = TRUE
    /\ UNCHANGED <<hubVars, writer, route, pings, sseVars, seen>>

-----------------------------------------------------------------------------
WriterSteps == WriterTakes \/ WriterChecksStop \/ WriterStops \/ WriterChecksClosed
RouteSteps ==
    \/ RouteChecksClosed \/ RouteEnds \/ RouteRemoves \/ RouteHalts
    \/ RouteCloses \/ RouteClosed \/ RouteReturns
Locks == WriterLocks \/ RouteLocks

StreamNext ==
    \/ AttachClient \/ Broadcast \/ CloseSteps \/ BrowserGoes \/ RoutePings
    \/ WriterSteps \/ RouteSteps \/ Locks
    \/ WriterWrote \/ RouteWrote

StreamSpec == StreamInit /\ [][StreamNext]_streamVars

\* Goroutines run and get the mutex they wait for.  A write ends by itself only
\* when its deadline has passed or the connection is gone: a peer that stopped
\* reading is not assumed to read again.
WriterFreed == (deadline \/ gone) /\ WriterWrote
RouteFreed == (deadline \/ gone) /\ RouteWrote
StreamFairness ==
    /\ WF_streamVars(CloseSteps) /\ WF_streamVars(WriterSteps) /\ WF_streamVars(RouteSteps)
    /\ SF_streamVars(WriterLocks) /\ SF_streamVars(RouteLocks)
    /\ WF_streamVars(WriterFreed) /\ WF_streamVars(RouteFreed)

FairStreamSpec == StreamSpec /\ StreamFairness

-----------------------------------------------------------------------------
(* Correctness                                                             *)

\* An attached browser misses nothing: what it has, what the writer holds and
\* what waits are consecutive, and end with the last broadcast.  A browser that
\* falls behind is dropped, never fed with gaps.
NoGap ==
    LET held == IF writer.frame # NoFrame THEN <<writer.frame>> ELSE <<>>
        rest == held \o frames
    IN  live /\ ~gone => /\ \A i \in 1..Len(rest) : rest[i] = seen + i
                         /\ latest = seen + Len(rest)

\* "Nothing is written to c after it returns": when the route has returned, no
\* goroutine uses the response, also if the hub dropped the client meanwhile.
NothingAfterReturn == route = "returned" => writer.at = "done" /\ smu = "none"

\* Close was called and the stream has not ended: this must not last although the
\* peer has stopped reading, whoever is in the stuck write: the writer goroutine,
\* or the route itself with a ping.  Either the write sees the close or Close sees
\* the write.
ClosedAndOpen == once # "no" /\ route # "returned"

\* The browser sees no gap, and nothing is written once its handler has returned.
StreamSound == NoGap /\ NothingAfterReturn

-----------------------------------------------------------------------------
(* StreamSound is inductive together with who is where                     *)

\* The flags are Booleans throughout; nothing below needs to say so.
StreamTypeOK ==
    /\ latest \in Nat /\ seen \in Nat /\ frames \in Seq(Nat \ {0})
    /\ writer \in [at : {"wait", "took", "lock", "check", "write", "done"}, frame : Nat]
    /\ route \in {"attach", "stream", "lock", "check", "write", "detach", "halt", "close", "closing", "join", "returned"}
    /\ smu \in {"none", "writer", "route"} /\ once \in {"no", "begun", "closed", "done"}

\* The mutex belongs to whoever is inside WriteFrame; a writer that is done is out of it.
WriteLocked ==
    /\ smu = "writer" <=> writer.at \in {"check", "write"}
    /\ smu = "route" <=> route \in {"check", "write"}
    /\ route = "returned" => writer.at = "done"

\* An attached client is neither halted nor closed, so that its writer loses no frame.
LiveIsOpen ==
    /\ live => /\ route \in {"stream", "lock", "check", "write", "detach"}
               /\ ~halted /\ once = "no"
    /\ route = "attach" => writer = Wait /\ frames = <<>> /\ ~live /\ ~halted /\ once = "no"
    /\ closed \/ deadline => once # "no"

\* NoGap, by the writer's hand and the queue.
InHand == IF writer.frame # NoFrame THEN 1 ELSE 0
Consecutive ==
    /\ writer.frame = NoFrame <=> writer.at \in {"wait", "done"}
    /\ live /\ ~gone =>
          /\ writer.frame # NoFrame => writer.frame = seen + 1
          /\ \A i \in 1..Len(frames) : frames[i] = seen + InHand + i
          /\ latest = seen + InHand + Len(frames)

StreamIInv == StreamTypeOK /\ WriteLocked /\ LiveIsOpen /\ Consecutive
=============================================================================
