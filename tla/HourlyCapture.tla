---------------------------- MODULE HourlyCapture ----------------------------
(***************************************************************************)
(* The hourly futures capture: a scheduler queues the slot's prices, a     *)
(* single drain writes the queue head by head, a single-flight backfill    *)
(* queues the slots that are not stored, and an end-of-day review runs the *)
(* backfill when rows are missing.                                         *)
(*                                                                         *)
(* Source: internal/captures/hourly.go, the service around it in           *)
(* captures.go, and the hourly rows of store.go.                           *)
(*                                                                         *)
(* One trading day whose slots are 1 .. DaySlots; the review is due after  *)
(* last, as with the default DAY_REVIEW_TIME.  A row is a symbol, a slot   *)
(* and where its price came from: a live tick, a REST quote, or a candle.  *)
(* The rows one capture or one symbol's backfill queues are queued in one  *)
(* step.                                                                   *)
(***************************************************************************)
EXTENDS Integers, Sequences, SequencesExt, FiniteSets

CONSTANTS
    BoardSymbols,   \* board symbols with two futures
    DaySlots,       \* capture slots of the day
    Tasks,          \* background backfills: at startup and after logins
    MaxQueue,       \* bound on queued rows
    MaxLogins       \* bound on logins

ASSUME TaskNames == Tasks \cap {"tick", "review"} = {}

Jobs == Tasks \cup {"tick", "review"}
NoPrice == [sym |-> "none", slot |-> 0, src |-> "none"]
IdleJob == [pc |-> "idle", slot |-> 0, todo |-> {}, doc |-> NoPrice]

VARIABLES
    pendingWrites,
    draining,
    backfilling,
    lastSlot,       \* lastCapturedSlot
    reviewed,       \* lastReviewDay is today
    hourlyPrices,   \* hourly_prices: where the stored price of a row came from
    session,        \* the Kite client has a session
    now,            \* the slot window the clock is in
    validLookback,  \* HOURLY_BACKFILL_LOOKBACK_DAYS yields a date
    svc,            \* "new", "started", "stopped"
    job,
    logins,
    failed          \* history: the last drain ended at a failed write

flagVars == <<draining, backfilling>>
markVars == <<lastSlot, reviewed>>
dayVars == <<session, now, validLookback, svc, logins>>
hourlyVars == <<pendingWrites, flagVars, markVars, hourlyPrices, dayVars, job, failed>>

HourlyInit ==
    /\ pendingWrites = <<>> /\ draining = FALSE /\ backfilling = FALSE
    /\ lastSlot = 0 /\ reviewed = FALSE
    /\ hourlyPrices = [s \in BoardSymbols, t \in 1 .. DaySlots |-> "none"]
    /\ session \in BOOLEAN /\ now = 1 /\ validLookback \in BOOLEAN
    /\ svc = "new" /\ job = [j \in Jobs |-> IdleJob] /\ logins = 0 /\ failed = FALSE

-----------------------------------------------------------------------------
(* The queue and the store                                                 *)

Rows(syms, slots, src) ==
    SetToSeq({[sym |-> s, slot |-> t, src |-> src] : s \in syms, t \in slots})

push(rows) == Len(pendingWrites) + Len(rows) <= MaxQueue /\ pendingWrites' = pendingWrites \o rows

UpsertHourlyPrice(row) == hourlyPrices' = [hourlyPrices EXCEPT ![<<row.sym, row.slot>>] = row.src]

HourlySlotsSince(s) == {t \in 1 .. DaySlots : hourlyPrices[s, t] # "none"}

allExpectedSlots == {t \in 1 .. DaySlots : t <= now}

\* The slots the candles of a symbol turn out to cover.
candleSlots(missing) == SUBSET missing

MarketHours == 1 .. DaySlots
currentCaptureSlot == IF now \in MarketHours THEN now ELSE 0
reviewTime == now > DaySlots

CountHourlyPrices == Cardinality({r \in BoardSymbols \X (1 .. DaySlots) : hourlyPrices[r] # "none"})

to(j, pc) == job' = [job EXCEPT ![j].pc = pc]
ends(j) == job' = [job EXCEPT ![j] = IdleJob]
isStarted == svc = "started"

\* A drain in progress turns a second one away.
DrainBegin(j) ==
    /\ isStarted /\ job[j].pc = "drain"
    /\ IF draining
       THEN to(j, "drained") /\ UNCHANGED <<draining, failed>>
       ELSE to(j, "head") /\ draining' = TRUE /\ failed' = FALSE
    /\ UNCHANGED <<pendingWrites, backfilling, markVars, hourlyPrices, dayVars>>

\* Mutation: the drain that found the queue empty resets the flag in a later step.
Mut_ReleaseLater(j) ==
    /\ isStarted /\ job[j].pc \in {"head", "release"}
    /\ IF job[j].pc = "release"
       THEN to(j, "drained") /\ draining' = FALSE
       ELSE /\ IF pendingWrites = <<>> THEN to(j, "release")
               ELSE job' = [job EXCEPT ![j].pc = "upsert", ![j].doc = Head(pendingWrites)]
            /\ UNCHANGED draining
    /\ UNCHANGED <<pendingWrites, backfilling, markVars, hourlyPrices, dayVars, failed>>

\* The drain that finds the queue empty releases the flag in the same critical section.
DrainHead(j) ==
    /\ isStarted /\ job[j].pc = "head"
    /\ IF pendingWrites = <<>>
       THEN to(j, "drained") /\ draining' = FALSE
       ELSE job' = [job EXCEPT ![j].pc = "upsert", ![j].doc = Head(pendingWrites)] /\ UNCHANGED draining
    /\ UNCHANGED <<pendingWrites, backfilling, markVars, hourlyPrices, dayVars, failed>>

\* The write succeeds, or fails (perhaps after the database committed it) and ends the
\* drain with the row still at the head.
DrainUpsert(j) ==
    /\ isStarted /\ job[j].pc = "upsert"
    /\ \/ UpsertHourlyPrice(job[j].doc) /\ to(j, "pop") /\ UNCHANGED <<draining, failed>>
       \/ /\ UpsertHourlyPrice(job[j].doc) \/ UNCHANGED hourlyPrices
          /\ job' = [job EXCEPT ![j].pc = "drained", ![j].doc = NoPrice]
          /\ draining' = FALSE /\ failed' = TRUE
    /\ UNCHANGED <<pendingWrites, backfilling, markVars, dayVars>>

DrainPop(j) ==
    /\ isStarted /\ job[j].pc = "pop" /\ pendingWrites # <<>>
    /\ pendingWrites' = Tail(pendingWrites)
    /\ job' = [job EXCEPT ![j].pc = "head", ![j].doc = NoPrice]
    /\ UNCHANGED <<flagVars, markVars, hourlyPrices, dayVars, failed>>

\* The drain's caller goes on: the scheduler marks its slot (whatever the writes did), a
\* backfill releases its flag and returns.
DrainReturns(j) ==
    /\ isStarted /\ job[j].pc = "drained"
    /\ IF j = "tick"
       THEN lastSlot' = job[j].slot /\ ends(j) /\ UNCHANGED backfilling
       ELSE /\ backfilling' = FALSE /\ UNCHANGED lastSlot
            /\ IF j = "review" THEN to(j, "recount") ELSE ends(j)
    /\ UNCHANGED <<pendingWrites, draining, reviewed, hourlyPrices, dayVars, failed>>

-----------------------------------------------------------------------------
(* The hourly scheduler                                                    *)

\* Inside a slot's window, once per slot.  A board or universe that cannot be had leaves
\* the slot unmarked, so the next tick in the window tries again.
tick ==
    /\ isStarted /\ job["tick"].pc = "idle" /\ currentCaptureSlot \notin {0, lastSlot}
    /\ job' = [job EXCEPT !["tick"] = [IdleJob EXCEPT !.pc = "board", !.slot = currentCaptureSlot]]
    /\ UNCHANGED <<pendingWrites, flagVars, markVars, hourlyPrices, dayVars, failed>>

tickBoard ==
    /\ isStarted /\ job["tick"].pc = "board"
    /\ to("tick", "capture") \/ ends("tick")
    /\ UNCHANGED <<pendingWrites, flagVars, markVars, hourlyPrices, dayVars, failed>>

\* Symbols with live prices are queued; the others are asked over REST if there is a
\* session.
CaptureHourlyPrices ==
    /\ isStarted /\ job["tick"].pc = "capture"
    /\ \E ticking \in SUBSET BoardSymbols :
        /\ push(Rows(ticking, {job["tick"].slot}, "live"))
        /\ IF ticking # BoardSymbols /\ session
           THEN job' = [job EXCEPT !["tick"].pc = "rest", !["tick"].todo = BoardSymbols \ ticking]
           ELSE to("tick", "drain")
    /\ UNCHANGED <<flagVars, markVars, hourlyPrices, dayVars, failed>>

captureRest ==
    /\ isStarted /\ job["tick"].pc = "rest"
    /\ \E quoted \in SUBSET job["tick"].todo : push(Rows(quoted, {job["tick"].slot}, "live"))
    /\ job' = [job EXCEPT !["tick"].pc = "drain", !["tick"].todo = {}]
    /\ UNCHANGED <<flagVars, markVars, hourlyPrices, dayVars, failed>>

-----------------------------------------------------------------------------
(* The backfill, run by a task or by the review                            *)

\* One at a time, and only with a session; otherwise the call returns at once.
BackfillMissedHours(j) ==
    /\ isStarted /\ job[j].pc = "backfill"
    /\ IF backfilling \/ ~session
       THEN (IF j = "review" THEN to(j, "recount") ELSE ends(j)) /\ UNCHANGED backfilling
       ELSE backfilling' = TRUE /\ to(j, "bboard")
    /\ UNCHANGED <<pendingWrites, draining, markVars, hourlyPrices, dayVars, failed>>

\* No board: the flag is released.  A lookback that is no date: the error is returned
\* with the flag still set.
backfillBoard(j) ==
    /\ isStarted /\ job[j].pc = "bboard"
    /\ \/ validLookback /\ job' = [job EXCEPT ![j].pc = "symbols", ![j].todo = BoardSymbols]
          /\ UNCHANGED backfilling
       \/ ~validLookback /\ ends(j) /\ UNCHANGED backfilling
       \/ backfilling' = FALSE /\ (IF j = "review" THEN to(j, "recount") ELSE ends(j))
    /\ UNCHANGED <<pendingWrites, draining, markVars, hourlyPrices, dayVars, failed>>

\* One symbol: the slots expected and not stored are fetched; a failed read or fetch is
\* logged and the next symbol is tried.
backfillSymbol(j) ==
    /\ isStarted /\ job[j].pc = "symbols" /\ job[j].todo # {}
    /\ LET s == CHOOSE x \in job[j].todo : TRUE
           missing == allExpectedSlots \ HourlySlotsSince(s)
       IN \E found \in candleSlots(missing) :
            /\ push(Rows({s}, found, "candle"))
            /\ job' = [job EXCEPT ![j].todo = @ \ {s}]
    /\ UNCHANGED <<flagVars, markVars, hourlyPrices, dayVars, failed>>

backfillDrain(j) ==
    /\ isStarted /\ job[j].pc = "symbols" /\ job[j].todo = {}
    /\ to(j, IF pendingWrites # <<>> THEN "drain" ELSE "drained")
    /\ UNCHANGED <<pendingWrites, flagVars, markVars, hourlyPrices, dayVars, failed>>

-----------------------------------------------------------------------------
(* The review                                                              *)

\* Once per day; the day is marked before the review runs.
dayReviewTick ==
    /\ isStarted /\ job["review"].pc = "idle" /\ reviewTime /\ ~reviewed
    /\ reviewed' = TRUE /\ to("review", "count")
    /\ UNCHANGED <<pendingWrites, flagVars, lastSlot, hourlyPrices, dayVars, failed>>

\* Complete, or no session, or a board or count that fails: nothing to do.  Otherwise
\* the backfill runs, and the count is repeated.
ReviewDayCompleteness ==
    /\ isStarted
    /\ \/ /\ job["review"].pc = "count"
          /\ \/ CountHourlyPrices < Cardinality(BoardSymbols) * DaySlots /\ session /\ to("review", "backfill")
             \/ ends("review")
       \/ job["review"].pc = "recount" /\ ends("review")
    /\ UNCHANGED <<pendingWrites, flagVars, markVars, hourlyPrices, dayVars, failed>>

-----------------------------------------------------------------------------
(* The service                                                             *)

goTask(j) == job[j].pc = "idle" /\ to(j, "backfill")

StartHourly ==
    /\ svc = "new" /\ svc' = "started"
    /\ \E j \in Tasks : goTask(j)
    /\ UNCHANGED <<pendingWrites, flagVars, markVars, hourlyPrices, session, now, validLookback, logins, failed>>

\* A login brings the session and, once the scheduler is started, a backfill.
PostLogin ==
    /\ logins < MaxLogins /\ logins' = logins + 1 /\ session' = TRUE
    /\ IF isStarted THEN \E j \in Tasks : goTask(j) ELSE UNCHANGED job
    /\ UNCHANGED <<pendingWrites, flagVars, markVars, hourlyPrices, now, validLookback, svc, failed>>

SessionEnds ==
    /\ session /\ session' = FALSE
    /\ UNCHANGED <<pendingWrites, flagVars, markVars, hourlyPrices, now, validLookback, svc, logins, job, failed>>

TimePasses ==
    /\ now <= DaySlots /\ now' = now + 1
    /\ UNCHANGED <<pendingWrites, flagVars, markVars, hourlyPrices, session, validLookback, svc, logins, job, failed>>

\* Stop cancels every run and waits for it; a write already sent may still land.
StopCaptures ==
    /\ isStarted /\ svc' = "stopped"
    /\ \/ UNCHANGED hourlyPrices
       \/ \E j \in Jobs : job[j].pc = "upsert" /\ UpsertHourlyPrice(job[j].doc)
    /\ job' = [j \in Jobs |-> IdleJob]
    /\ draining' = FALSE /\ backfilling' = FALSE
    /\ UNCHANGED <<pendingWrites, markVars, session, now, validLookback, logins, failed>>

HourlyNext ==
    \/ tick \/ tickBoard \/ CaptureHourlyPrices \/ captureRest
    \/ \E j \in Jobs : \/ DrainBegin(j) \/ DrainHead(j) \/ DrainUpsert(j) \/ DrainPop(j)
                       \/ DrainReturns(j) \/ BackfillMissedHours(j) \/ backfillBoard(j)
                       \/ backfillSymbol(j) \/ backfillDrain(j)
    \/ dayReviewTick \/ ReviewDayCompleteness
    \/ StartHourly \/ PostLogin \/ SessionEnds \/ TimePasses \/ StopCaptures

HourlySpec == HourlyInit /\ [][HourlyNext]_hourlyVars

-----------------------------------------------------------------------------
(* Properties                                                              *)

\* DrainCacheToDB's comment: a row queued by a run whose own drain was turned away is
\* picked up.  A row stays behind only after a failed write, or while a run that has yet
\* to drain is going.
NoRowStranded ==
    isStarted /\ pendingWrites # <<>> /\ ~draining /\ ~failed =>
        \E j \in Jobs : job[j].pc \in {"rest", "drain", "symbols"}

\* BackfillMissedHours: the single-flight flag is set exactly while one run holds it, a
\* lookback that is no date apart (that run never releases it).
OneBackfill ==
    LET holders == {j \in Jobs \ {"tick"} :
                       job[j].pc \notin {"idle", "backfill", "count", "recount"}}
    IN /\ Cardinality(holders) <= 1
       /\ validLookback => (backfilling <=> holders # {})

\* No queued row is left behind and at most one backfill is at work.
CaptureSound == NoRowStranded /\ OneBackfill
-----------------------------------------------------------------------------
(* CaptureSound holds by the parts below                                   *)

Draining == {"drain", "head", "upsert", "pop", "drained"}
TickSteps == {"idle", "board", "capture", "rest"} \cup Draining
OutsideBackfill == {"idle", "backfill", "count", "recount"}
BackfillSteps == OutsideBackfill \cup {"bboard", "symbols"} \cup Draining

HourlyTypeOK ==
    /\ DOMAIN job = Jobs
    /\ \A j \in Jobs : /\ DOMAIN job[j] = DOMAIN IdleJob
                       /\ job[j].pc \in IF j = "tick" THEN TickSteps ELSE BackfillSteps

\* Nothing is queued before the scheduler starts.
QueuedWhileStarted == svc = "new" => pendingWrites = <<>>

\* A run inside the backfill has the flag, and no other run is inside.
InsideBackfill(j) == j # "tick" /\ job[j].pc \notin OutsideBackfill
BackfillHeld ==
    /\ \A j \in Jobs : InsideBackfill(j) => backfilling
    /\ \A j, k \in Jobs : InsideBackfill(j) /\ InsideBackfill(k) => j = k
    /\ validLookback /\ backfilling => \E j \in Jobs : InsideBackfill(j)

HourlyIInv == HourlyTypeOK /\ QueuedWhileStarted /\ NoRowStranded /\ BackfillHeld
=============================================================================
