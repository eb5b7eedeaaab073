---------------------------- MODULE SynthStream ----------------------------
(***************************************************************************)
(* The synthetic engine's SSE streams: the engine queues snapshots under   *)
(* its own lock, each request's goroutine writes them; a shared publish    *)
(* timer, a bounded backlog, and Dispose with its last snapshot.           *)
(*                                                                         *)
(* Source: internal/synthetic/views.go (SSE), routes.go (stream),          *)
(* engine.go (stopLocked, Dispose).                                        *)
(***************************************************************************)
EXTENDS Integers, Sequences, FiniteSets

CONSTANTS
    Streams,        \* requests of the stream endpoint
    MaxBacklog,     \* sseMaxBacklog
    MaxFrames,      \* bound on snapshots published
    MaxDisposes     \* bound on calls of Dispose

Open == 0           \* a client that was not ended
Overflow == -1      \* a client ended for falling behind; else the last frame at Dispose

VARIABLES
    clients, timer,     \* sseClients, publishStop # nil
    seq, disposes,      \* snapshots made, Dispose calls
    at,                 \* per stream: where its goroutine is
    queue, notify,      \* per client: frames queued, the one-slot signal
    ended,              \* per client: Open, or why it was ended first
    sent                \* per stream: the last frame written

synthStreamVars == <<clients, timer, seq, disposes, at, queue, notify, ended, sent>>
clientVars == <<queue, notify, ended>>

SynthStreamInit ==
    /\ clients = {} /\ timer = FALSE /\ seq = 0 /\ disposes = 0
    /\ at = [s \in Streams |-> "idle"] /\ sent = [s \in Streams |-> 0]
    /\ queue = [s \in Streams |-> <<>>] /\ notify = [s \in Streams |-> FALSE]
    /\ ended = [s \in Streams |-> Open]

go(s, to) == at' = [at EXCEPT ![s] = to]
full(s) == Len(queue[s]) >= MaxBacklog

\* push, for every client in S: queued and signalled, or over the backlog and ended (once).
push(S, frame) ==
    /\ queue' = [s \in Streams |-> IF s \in S /\ ~full(s) THEN Append(queue[s], frame) ELSE queue[s]]
    /\ notify' = [s \in Streams |-> notify[s] \/ (s \in S /\ ~full(s))]

overflows(S) == [s \in Streams |-> IF s \in S /\ full(s) /\ ended[s] = Open THEN Overflow ELSE ended[s]]

--------------------------------------------------------------------------------
(* The engine. *)

\* Mutation: the first snapshot is queued and not signalled.
Mut_FirstUnsignalled(s) ==
    /\ at[s] = "idle" /\ go(s, "waiting") /\ clients' = clients \cup {s} /\ timer' = TRUE
    /\ seq < MaxFrames /\ seq' = seq + 1 /\ queue' = [queue EXCEPT ![s] = <<seq + 1>>]
    /\ UNCHANGED <<disposes, notify, ended, sent>>
\* Registered with its first snapshot; the first client starts the timer.
addSSEClient(s) ==
    /\ at[s] = "idle" /\ go(s, "waiting") /\ clients' = clients \cup {s} /\ timer' = TRUE
    /\ seq < MaxFrames /\ seq' = seq + 1 /\ push({s}, seq + 1)
    /\ UNCHANGED <<disposes, ended, sent>>

remove(s) ==
    /\ at[s] \in {"finished", "left"} /\ go(s, "gone") /\ clients' = clients \ {s}
    /\ timer' = (timer /\ clients' # {})
    /\ UNCHANGED <<seq, disposes, clientVars, sent>>

\* The timer, and every change the engine publishes.
Publish ==
    /\ clients # {} /\ seq < MaxFrames /\ seq' = seq + 1
    /\ push(clients, seq + 1) /\ ended' = overflows(clients)
    /\ UNCHANGED <<clients, timer, disposes, at, sent>>

\* stopLocked publishes a last snapshot; then the timer stops and every client ends.
Dispose ==
    /\ disposes < MaxDisposes /\ disposes' = disposes + 1 /\ seq < MaxFrames /\ seq' = seq + 1
    /\ push(clients, seq')
    /\ ended' = LET over == overflows(clients)
                IN [s \in Streams |-> IF s \in clients /\ over[s] = Open THEN seq' ELSE over[s]]
    /\ clients' = {} /\ timer' = FALSE
    /\ UNCHANGED <<at, sent>>

--------------------------------------------------------------------------------
(* The request's goroutine: one of the ready cases of its select. *)

wake(s) ==
    /\ at[s] = "waiting" /\ notify[s] /\ notify' = [notify EXCEPT ![s] = FALSE]
    /\ go(s, "writing")
    /\ UNCHANGED <<clients, timer, seq, disposes, queue, ended, sent>>

seesEnd(s) ==
    /\ at[s] = "waiting" /\ ended[s] # Open /\ go(s, "last")
    /\ UNCHANGED <<clients, timer, seq, disposes, clientVars, sent>>

\* take, then the frames are written; a write that fails ends the stream.
write(s) ==
    /\ at[s] \in {"writing", "last"} /\ queue' = [queue EXCEPT ![s] = <<>>]
    /\ \/ /\ go(s, IF at[s] = "last" THEN "finished" ELSE "waiting")
          /\ sent' = [sent EXCEPT ![s] = IF queue[s] = <<>> THEN @ ELSE queue[s][Len(queue[s])]]
       \/ go(s, "left") /\ UNCHANGED sent
    /\ UNCHANGED <<clients, timer, seq, disposes, notify, ended>>

\* The browser goes away, or a keep-alive cannot be written.
peerGone(s) ==
    /\ at[s] = "waiting" /\ go(s, "left")
    /\ UNCHANGED <<clients, timer, seq, disposes, clientVars, sent>>

SynthStreamNext ==
    \/ Publish \/ Dispose
    \/ \E s \in Streams : addSSEClient(s) \/ wake(s) \/ seesEnd(s) \/ write(s) \/ peerGone(s) \/ remove(s)

SynthStreamSpec == SynthStreamInit /\ [][SynthStreamNext]_synthStreamVars

--------------------------------------------------------------------------------
(* Properties *)

\* No stream sleeps on frames it was not woken for: a waiting goroutine with something queued
\* has its signal or its end pending, however pushes and takes interleave.
WakeupKept == \A s \in Streams : at[s] = "waiting" /\ queue[s] # <<>> => notify[s] \/ ended[s] # Open

\* A stream that Dispose ended has written the last snapshot before it returns (routes.go:382-383),
\* unless its peer was gone; and the publish timer runs exactly while there is a client.
LastSnapshotOut ==
    /\ \A s \in Streams : at[s] = "finished" /\ ended[s] > 0 => sent[s] = ended[s]
    /\ timer <=> clients # {}

\* Every stream is woken for what it is owed, and a dispose reaches it last.
StreamsServed == WakeupKept /\ LastSnapshotOut

--------------------------------------------------------------------------------
(* StreamsServed holds by the parts below. *)

StreamTypeOK ==
    /\ clients \subseteq Streams /\ timer \in BOOLEAN /\ seq \in Nat
    /\ at \in [Streams -> {"idle", "waiting", "writing", "last", "finished", "left", "gone"}]
    /\ queue \in [Streams -> Seq(Nat)] /\ notify \in [Streams -> BOOLEAN]
    /\ ended \in [Streams -> Nat \cup {Overflow}] /\ sent \in [Streams -> Nat]

\* A stream has frames and an end from its registration on, and ends as it was told to.
EndsInTurn ==
    /\ \A s \in Streams : at[s] = "idle" => s \notin clients /\ queue[s] = <<>> /\ ended[s] = Open
    /\ \A s \in Streams : at[s] \in {"last", "finished"} => ended[s] # Open

\* Behind the last snapshot nothing is queued: it is the last one waiting, or the last one written.
LastIsLast ==
    \A s \in Streams : ended[s] > 0 =>
        /\ s \notin clients
        /\ at[s] \in {"waiting", "writing", "last"} =>
              IF queue[s] = <<>> THEN sent[s] = ended[s] ELSE queue[s][Len(queue[s])] = ended[s]

StreamIInv == StreamTypeOK /\ WakeupKept /\ LastSnapshotOut /\ EndsInTurn /\ LastIsLast
=============================================================================
