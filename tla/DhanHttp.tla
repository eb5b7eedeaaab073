------------------------------ MODULE DhanHttp ------------------------------
(***************************************************************************)
(* Dhan's REST transport: one request at a time, granted in arrival order, *)
(* each starting at least MinInterval after the one before, a deadline for *)
(* every attempt, retries with a back-off for reads, and callers whose     *)
(* context ends anywhere on the way.                                       *)
(*                                                                         *)
(* Sources: internal/brokers/dhan/http.go, and IsRetryableRead of          *)
(* errors.go.  Time is counted in ticks, as what is left of each timer, so *)
(* that no clock has to be bounded.  What is sent and answered is left     *)
(* out, but for what decides on a retry.                                   *)
(***************************************************************************)
EXTENDS Integers, Sequences, SequencesExt, FiniteSets

CONSTANTS
    Reads,              \* calls of Read
    MinInterval,        \* MinIntervalMs, in ticks
    AttemptTicks,       \* TimeoutMs, in ticks
    MaxReadAttempts,
    BackoffTicks        \* the longest back-off, in ticks (Retry-After is capped)

\* NewHTTP replaces what is out of range.
ASSUME HttpAssumption ==
    /\ MinInterval \in Nat /\ AttemptTicks \in Nat \ {0}
    /\ MaxReadAttempts \in Nat \ {0} /\ BackoffTicks \in Nat \ {0}

VARIABLES
    paceHeld,       \* fifoLock.held
    paceQueue,      \* fifoLock.waiters
    readAt,         \* per call: "new", "waiting", "handed" (its channel is closed), "owner",
                    \* "gap" (sleeps for the interval), "sent", "backoff" or "over"
    attempt,        \* per call: attempts begun
    left,           \* per call: ticks left of the timer it sleeps on or runs against
    cancelled,      \* calls whose context has ended
    lastAtAge,      \* ticks since lastAt, up to MinInterval
    sinceStart      \* history: ticks since a request really started, up to MinInterval

paceVars == <<paceHeld, paceQueue>>
ageVars == <<lastAtAge, sinceStart>>
restVars == <<paceVars, readAt, attempt, left, cancelled, ageVars>>

Owners == {c \in Reads : readAt[c] \in {"handed", "owner", "gap", "sent"}}
\* An attempt ends with one of these: "error" stands for every answer that is neither a 5xx
\* nor one of the others, also inside a 200.
Outcomes == {"ok", "auth", "rateLimit", "network", "server", "error"}

RestInit ==
    /\ paceHeld = FALSE /\ paceQueue = <<>>
    /\ readAt = [c \in Reads |-> "new"] /\ attempt = [c \in Reads |-> 0] /\ left = [c \in Reads |-> 0]
    /\ cancelled = {} /\ lastAtAge = MinInterval /\ sinceStart = MinInterval

-----------------------------------------------------------------------------
(* The lock *)

\* unlock, with the calls as the caller leaves them: ownership passes to the first in the queue.
unlock(pos) ==
    IF paceQueue # <<>>
    THEN paceQueue' = Tail(paceQueue) /\ readAt' = [pos EXCEPT ![Head(paceQueue)] = "handed"] /\ UNCHANGED paceHeld
    ELSE paceHeld' = FALSE /\ readAt' = pos /\ UNCHANGED paceQueue

lock(c) ==
    IF paceHeld THEN paceQueue' = Append(paceQueue, c) /\ readAt' = [readAt EXCEPT ![c] = "waiting"] /\ UNCHANGED paceHeld
    ELSE paceHeld' = TRUE /\ readAt' = [readAt EXCEPT ![c] = "owner"] /\ UNCHANGED paceQueue

\* The channel is closed.  A call whose context has ended as well may go either way.
Granted(c) ==
    /\ readAt[c] = "handed" /\ readAt' = [readAt EXCEPT ![c] = "owner"]
    /\ UNCHANGED <<paceVars, attempt, left, cancelled, ageVars>>

\* The context ends while the call waits: it leaves the queue, or passes on the ownership it was
\* handed meanwhile.  Read returns, since its context has ended.
GivesUp(c) ==
    /\ c \in cancelled
    /\ \/ /\ readAt[c] = "waiting" /\ readAt' = [readAt EXCEPT ![c] = "over"]
          /\ \E i \in 1..Len(paceQueue) : paceQueue[i] = c /\ paceQueue' = RemoveAt(paceQueue, i)
          /\ UNCHANGED paceHeld
       \/ readAt[c] = "handed" /\ unlock([readAt EXCEPT ![c] = "over"])
    /\ UNCHANGED <<attempt, left, cancelled, ageVars>>

-----------------------------------------------------------------------------
(* One attempt *)

\* Request: headers and body first (without a session, or with a body that does not encode, Read
\* returns at once), then the lock.
Begins(c) == readAt[c] = "new" \/ (readAt[c] = "backoff" /\ left[c] = 0)
Request(c) ==
    /\ Begins(c) /\ attempt' = [attempt EXCEPT ![c] = @ + 1] /\ lock(c)
    /\ UNCHANGED <<left, cancelled, ageVars>>
Refused(c) ==
    /\ Begins(c) /\ attempt' = [attempt EXCEPT ![c] = @ + 1] /\ readAt' = [readAt EXCEPT ![c] = "over"]
    /\ UNCHANGED <<paceVars, left, cancelled, ageVars>>

\* lastAt is now, and the request goes out with its own deadline.
StartsAttempt(c) ==
    /\ readAt' = [readAt EXCEPT ![c] = "sent"] /\ left' = [left EXCEPT ![c] = AttemptTicks]
    /\ lastAtAge' = 0 /\ sinceStart' = 0

\* The owner sleeps for what is missing of the interval, if anything.
Paces(c) ==
    /\ readAt[c] = "owner"
    /\ IF lastAtAge < MinInterval
       THEN /\ readAt' = [readAt EXCEPT ![c] = "gap"] /\ left' = [left EXCEPT ![c] = MinInterval - lastAtAge]
            /\ UNCHANGED ageVars
       ELSE StartsAttempt(c)
    /\ UNCHANGED <<paceVars, attempt, cancelled>>

\* Mutation: a request that had to sleep does not set lastAt.
Mut_GapKeepsLastAt(c) ==
    /\ readAt[c] = "gap" /\ left[c] = 0 /\ readAt' = [readAt EXCEPT ![c] = "sent"]
    /\ left' = [left EXCEPT ![c] = AttemptTicks] /\ sinceStart' = 0
    /\ UNCHANGED <<paceVars, attempt, cancelled, lastAtAge>>

GapEnds(c) ==
    /\ readAt[c] = "gap" /\ left[c] = 0 /\ StartsAttempt(c)
    /\ UNCHANGED <<paceVars, attempt, cancelled>>

\* The context ends during the sleep: the deferred unlock runs, and nothing was started.
GapCancelled(c) ==
    /\ readAt[c] = "gap" /\ c \in cancelled
    /\ left' = [left EXCEPT ![c] = 0] /\ unlock([readAt EXCEPT ![c] = "over"])
    /\ UNCHANGED <<attempt, cancelled, ageVars>>

IsRetryableRead(r) == r \in {"rateLimit", "network", "server"}

\* Read after an attempt: done, failed for good, or a back-off before the next attempt.
AfterAttempt(c, r) ==
    IF ~IsRetryableRead(r) \/ attempt[c] = MaxReadAttempts \/ c \in cancelled
    THEN left' = [left EXCEPT ![c] = 0] /\ unlock([readAt EXCEPT ![c] = "over"])
    ELSE /\ \E wait \in 1..BackoffTicks : left' = [left EXCEPT ![c] = wait]
         /\ unlock([readAt EXCEPT ![c] = "backoff"])

\* The answer, or the failure of the connection.  It may never come.
Answered(c, r) ==
    /\ readAt[c] = "sent" /\ AfterAttempt(c, r)
    /\ UNCHANGED <<attempt, cancelled, ageVars>>

\* The deadline of the attempt, or the end of the caller's context, which aborts it.
Aborted(c) ==
    /\ readAt[c] = "sent" /\ (left[c] = 0 \/ c \in cancelled) /\ AfterAttempt(c, "network")
    /\ UNCHANGED <<attempt, cancelled, ageVars>>

BackoffCancelled(c) ==
    /\ readAt[c] = "backoff" /\ c \in cancelled
    /\ left' = [left EXCEPT ![c] = 0] /\ readAt' = [readAt EXCEPT ![c] = "over"]
    /\ UNCHANGED <<paceVars, attempt, cancelled, ageVars>>

-----------------------------------------------------------------------------
(* The world *)

ContextEnds(c) ==
    /\ readAt[c] # "over" /\ c \notin cancelled /\ cancelled' = cancelled \cup {c}
    /\ UNCHANGED <<paceVars, readAt, attempt, left, ageVars>>

Older(n) == IF n < MinInterval THEN n + 1 ELSE n
ClockTicks ==
    /\ left' = [c \in Reads |-> IF left[c] > 0 THEN left[c] - 1 ELSE 0]
    /\ lastAtAge' = Older(lastAtAge) /\ sinceStart' = Older(sinceStart)
    /\ UNCHANGED <<paceVars, readAt, attempt, cancelled>>

ReadSteps(c) ==
    \/ Granted(c) \/ GivesUp(c) \/ Request(c) \/ Refused(c) \/ Paces(c) \/ GapEnds(c) \/ GapCancelled(c)
    \/ Aborted(c) \/ BackoffCancelled(c)

RestNext ==
    \/ \E c \in Reads : ReadSteps(c) \/ ContextEnds(c) \/ (\E r \in Outcomes : Answered(c, r))
    \/ ClockTicks

\* Timers expire, closed channels are received from and a running call goes on; no context need
\* end and no answer need come.
ReadGoesOn(c) == readAt[c] # "new" /\ ReadSteps(c)
RestFairness == WF_restVars(ClockTicks) /\ \A c \in Reads : WF_restVars(ReadGoesOn(c))

RestSpec == RestInit /\ [][RestNext]_restVars /\ RestFairness

-----------------------------------------------------------------------------
(* Properties *)

\* A request starts only MinInterval after the one before.
StartsPaced == \A c \in Reads : readAt[c] # "sent" /\ readAt'[c] = "sent" => sinceStart >= MinInterval

\* Whatever contexts end while the lock is handed over, it has one owner while it is held and
\* nobody waits for a free one; and a request starts only MinInterval after the one before,
\* however many gave up in the gap between them.
Paced ==
    /\ Cardinality(Owners') = (IF paceHeld' THEN 1 ELSE 0)
    /\ paceQueue' # <<>> => paceHeld'
    /\ StartsPaced

\* Paced is inductive together with what is queued (every waiting call, once), with lastAt being
\* the start of the last request, and with a sleep that lasts until the interval is over: only
\* the owner could move lastAt meanwhile.
RestTypeOK ==
    /\ paceHeld \in BOOLEAN /\ paceQueue \in Seq(Reads) /\ cancelled \subseteq Reads
    /\ readAt \in [Reads -> {"new", "waiting", "handed", "owner", "gap", "sent", "backoff", "over"}]
    /\ attempt \in [Reads -> Nat] /\ left \in [Reads -> Nat]
    /\ lastAtAge \in Nat /\ sinceStart \in Nat
LockSound ==
    /\ IsInjective(paceQueue) /\ Range(paceQueue) = {c \in Reads : readAt[c] = "waiting"}
    /\ IF paceHeld THEN \E o \in Reads : Owners = {o} ELSE Owners = {}
    /\ paceQueue # <<>> => paceHeld
PaceSound ==
    /\ sinceStart = lastAtAge
    /\ \A c \in Reads : readAt[c] = "gap" => left[c] + lastAtAge >= MinInterval
RestIInv == RestTypeOK /\ LockSound /\ PaceSound

\* A call is on the way: every one ends, though no answer ever comes.
ReadPending == \E c \in Reads : readAt[c] \notin {"new", "over"}
=============================================================================
