----------------------------- MODULE EodCapture -----------------------------
(***************************************************************************)
(* The end-of-day capture: a day's closing prices are queued and drained   *)
(* into stock_futures, the spread of the two nearest contracts stored for  *)
(* a day is queued and drained into spread_daily, and spread_summary is    *)
(* rebuilt from spread_daily.  The scheduler runs beside the backfill and  *)
(* the reconciliation that startup and every login start.                  *)
(*                                                                         *)
(* Source: internal/captures/eod.go and the EOD rows of store.go.          *)
(*                                                                         *)
(* One symbol with three contracts, 1 the nearest; days are numbers, and   *)
(* day 0 is the seed the backfill needs.  Prices are left out: a spread is *)
(* the pair of contracts it was taken from.                                *)
(***************************************************************************)
EXTENDS Integers, Sequences, SequencesExt, FiniteSets, FiniteSetsExt

CONSTANTS
    MaxDay,         \* bound on the days
    Backfills,      \* background backfills
    Checks,         \* background reconciliations
    MaxRuns,        \* bound on the runs started
    MaxEodUpsets    \* bound on failed calls

Contracts == 1 .. 3
Days == 0 .. MaxDay
EodJobs == Backfills \cup Checks \cup {"tick"}
NoDoc == <<0, 0>>
\* A run: where it is, the days it works on, contracts still to fetch, the row it writes, the spreads
\* it will queue and the days it summarises.
Run(pc, days, todo, doc, docs, snap) ==
    [pc |-> pc, days |-> days, todo |-> todo, doc |-> doc, docs |-> docs, snap |-> snap]
NoRun == Run("idle", {}, {}, NoDoc, <<>>, {})

ASSUME EodBounds == MaxDay \in Nat \ {0} /\ {"tick", "none"} \cap Backfills = {} /\ "none" \notin Checks

VARIABLES
    today,
    futures,        \* pendingStockFutures: <<day, contract>>
    drainingStockFutures,
    spreads,        \* pendingSpreadDaily: <<day, contracts>>
    spreadLock,     \* the job holding spreadDrain, or "none"
    stockFutures,   \* stock_futures rows
    spreadDaily,    \* per day, the contracts the stored spread is of; {} = no row
    summary,        \* spread_summary: the days it was computed from
    captured,       \* lastCapturedDay
    computed,       \* lastComputedDay
    run,
    runs,
    eodUpsets,
    excused         \* history: days whose rows were not all written when their spread was taken

queueVars == <<futures, drainingStockFutures, spreads, spreadLock>>
tableVars == <<stockFutures, spreadDaily, summary>>
eodDayVars == <<today, captured, computed>>
budgetVars == <<runs, eodUpsets>>
eodVars == <<queueVars, tableVars, eodDayVars, run, budgetVars, excused>>

EodInit ==
    /\ today = 1 /\ captured = 0 /\ computed = 0
    /\ futures = <<>> /\ drainingStockFutures = FALSE /\ spreads = <<>> /\ spreadLock = "none"
    /\ stockFutures = {<<0, 1>>, <<0, 2>>}
    /\ spreadDaily = [d \in Days |-> IF d = 0 THEN {1, 2} ELSE {}] /\ summary = {}
    /\ run = [j \in EodJobs |-> NoRun] /\ runs = 0 /\ eodUpsets = 0 /\ excused = {}

moves(j, pc) == run' = [run EXCEPT ![j].pc = pc]
holds(j, pc, doc) == run' = [run EXCEPT ![j] = Run(pc, @.days, @.todo, doc, @.docs, @.snap)]
queues(j, pc, docs) == run' = [run EXCEPT ![j] = Run(pc, @.days, @.todo, @.doc, docs, @.snap)]
finishes(j) == run' = [run EXCEPT ![j] = NoRun]
fails == eodUpsets < MaxEodUpsets /\ eodUpsets' = eodUpsets + 1
starts(j, pc) ==
    /\ run[j].pc = "idle" /\ runs < MaxRuns /\ runs' = runs + 1
    /\ run' = [run EXCEPT ![j] = Run(pc, {}, {}, NoDoc, <<>>, {})]


-----------------------------------------------------------------------------
(* Rows into stock_futures                                                 *)

pushStockFuture(rows) == futures' = futures \o SetToSeq(rows)

LatestStockFutureDate == Max({r[1] : r \in stockFutures})

getWeekdaysBetween(a, b) == {d \in Days : a < d /\ d <= b}

\* 15:45: one capture a day.  Without a Kite session there is none, and the day is marked
\* all the same; quotes may lack contracts, and a failed call leaves the day
\* unmarked for the next tick.
captureEodData ==
    /\ captured # today /\ runs < MaxRuns
    /\ \/ starts("tick", "fetch") /\ UNCHANGED captured
       \/ run["tick"].pc = "idle" /\ captured' = today /\ runs' = runs + 1 /\ UNCHANGED run
    /\ UNCHANGED <<queueVars, tableVars, today, computed, eodUpsets, excused>>

captureQuotes ==
    /\ run["tick"].pc = "fetch"
    /\ \/ \E quoted \in SUBSET Contracts :
            /\ pushStockFuture({today} \X quoted)
            /\ run' = [run EXCEPT !["tick"] = Run("drain", {today}, {}, NoDoc, <<>>, {})]
          /\ UNCHANGED eodUpsets
       \/ fails /\ finishes("tick") /\ UNCHANGED futures
    /\ UNCHANGED <<drainingStockFutures, spreads, spreadLock, tableVars, eodDayVars, runs, excused>>

\* A backfill covers the days after the latest stored one up to yesterday.
BackfillStockFutures(j) ==
    /\ LET missing == getWeekdaysBetween(LatestStockFutureDate, today - 1)
       IN /\ missing # {}
          /\ run[j].pc = "idle" /\ runs < MaxRuns /\ runs' = runs + 1
          /\ run' = [run EXCEPT ![j] = Run("fetch", missing, Contracts, NoDoc, <<>>, {})]
    /\ UNCHANGED <<queueVars, tableVars, eodDayVars, eodUpsets, excused>>

\* Contract by contract; a contract whose candles cannot be had is skipped.
backfillContract(j) ==
    /\ run[j].pc = "fetch"
    /\ IF run[j].todo = {} THEN moves(j, "drain") /\ UNCHANGED <<futures, eodUpsets>>
       ELSE LET c == Min(run[j].todo)
            IN /\ run' = [run EXCEPT ![j].todo = @ \ {c}]
               /\ \/ pushStockFuture(run[j].days \X {c}) /\ UNCHANGED eodUpsets
                  \/ fails /\ UNCHANGED futures
    /\ UNCHANGED <<drainingStockFutures, spreads, spreadLock, tableVars, eodDayVars, runs, excused>>

\* A second drain is turned away; its run goes on to the spreads of its days.
drainStockFutures(j) ==
    /\ run[j].pc = "drain"
    /\ IF drainingStockFutures
       THEN moves(j, "compute") /\ excused' = excused \cup run[j].days /\ UNCHANGED drainingStockFutures
       ELSE moves(j, "head") /\ drainingStockFutures' = TRUE /\ UNCHANGED excused
    /\ UNCHANGED <<futures, spreads, spreadLock, tableVars, eodDayVars, budgetVars>>

drainHead(j) ==
    /\ run[j].pc = "head"
    /\ IF futures = <<>> THEN moves(j, "compute") /\ drainingStockFutures' = FALSE
       ELSE holds(j, "upsert", Head(futures)) /\ UNCHANGED drainingStockFutures
    /\ UNCHANGED <<futures, spreads, spreadLock, tableVars, eodDayVars, budgetVars, excused>>

\* A failed write ends the drain: the rows stay queued for a later run, and every day
\* with a row in the queue may have its spread taken without it.
UpsertStockFuture(j) ==
    /\ run[j].pc = "upsert"
    /\ \/ /\ stockFutures' = stockFutures \cup {run[j].doc}
          /\ moves(j, "pop") /\ UNCHANGED <<drainingStockFutures, eodUpsets, excused>>
       \/ /\ fails /\ drainingStockFutures' = FALSE /\ UNCHANGED stockFutures
          /\ holds(j, "compute", NoDoc)
          /\ excused' = excused \cup {futures[i][1] : i \in DOMAIN futures}
    /\ UNCHANGED <<futures, spreads, spreadLock, spreadDaily, summary, eodDayVars, runs>>

drainPop(j) ==
    /\ run[j].pc = "pop" /\ futures' = Tail(futures)
    /\ holds(j, "head", NoDoc)
    /\ UNCHANGED <<drainingStockFutures, spreads, spreadLock, tableVars, eodDayVars, budgetVars, excused>>

-----------------------------------------------------------------------------
(* Spreads into spread_daily                                               *)

\* The two nearest contracts with a row on the day, if there are two.
StockFuturesOn(d) == {c \in Contracts : <<d, c>> \in stockFutures}
hasTwo(d) == Cardinality(StockFuturesOn(d)) >= 2
twoNearest(d) == {c \in StockFuturesOn(d) : Cardinality({e \in StockFuturesOn(d) : e < c}) < 2}

\* The read: what stock_futures holds now decides the spreads the run will queue.  A read
\* that fails ends the run: the scheduler tries the day again, a backfill does not.  Two
\* runs that have read the same day's rows may queue their spreads in either order.
ComputeSpreads(j) ==
    /\ run[j].pc = "compute"
    /\ \/ /\ queues(j, "push", SetToSeq({<<d, twoNearest(d)>> : d \in {e \in run[j].days : hasTwo(e)}}))
          /\ excused' = excused \cup UNION {run[k].days \cap run[j].days :
                                              k \in {x \in EodJobs \ {j} : run[x].pc = "push"}}
          /\ UNCHANGED eodUpsets
       \/ fails /\ finishes(j) /\ excused' = excused \cup run[j].days
    /\ UNCHANGED <<queueVars, tableVars, eodDayVars, runs>>

computePush(j) ==
    /\ run[j].pc = "push" /\ spreads' = spreads \o run[j].docs
    /\ queues(j, "slock", <<>>)
    /\ UNCHANGED <<futures, drainingStockFutures, spreadLock, tableVars, eodDayVars, budgetVars, excused>>

\* spreadDrain makes an overlapping drain wait its turn.
drainSpreadDaily(j) ==
    /\ run[j].pc = "slock" /\ spreadLock = "none" /\ spreadLock' = j /\ moves(j, "shead")
    /\ UNCHANGED <<futures, drainingStockFutures, spreads, tableVars, eodDayVars, budgetVars, excused>>

\* The drain is done, or its write failed: the caller goes on, and the scheduler marks the
\* day it captured.
spreadReturns(j) ==
    /\ finishes(j) /\ spreadLock' = "none"
    /\ captured' = IF j = "tick" THEN Max(run[j].days) ELSE captured

drainSpreadHead(j) ==
    /\ run[j].pc = "shead"
    /\ IF spreads = <<>> THEN spreadReturns(j)
       ELSE moves(j, "supsert") /\ UNCHANGED <<spreadLock, captured>>
    /\ UNCHANGED <<futures, drainingStockFutures, spreads, tableVars, today, computed, budgetVars, excused>>

\* Mutation: the row leaves the queue before its write is known to have succeeded.
Mut_PopFirst(j) ==
    /\ run[j].pc = "supsert" /\ spreads' = Tail(spreads)
    /\ \/ /\ spreadDaily' = [spreadDaily EXCEPT ![Head(spreads)[1]] = Head(spreads)[2]]
          /\ moves(j, "shead") /\ UNCHANGED <<spreadLock, captured, eodUpsets>>
       \/ fails /\ spreadReturns(j) /\ UNCHANGED spreadDaily
    /\ UNCHANGED <<futures, drainingStockFutures, stockFutures, summary, today, computed, runs, excused>>

\* A row leaves the queue once written; a failed write ends the drain with it at the head.
UpsertSpreadDaily(j) ==
    /\ run[j].pc = "supsert"
    /\ \/ /\ spreadDaily' = [spreadDaily EXCEPT ![Head(spreads)[1]] = Head(spreads)[2]]
          /\ spreads' = Tail(spreads) /\ moves(j, "shead")
          /\ UNCHANGED <<spreadLock, captured, eodUpsets>>
       \/ fails /\ spreadReturns(j) /\ UNCHANGED <<spreadDaily, spreads>>
    /\ UNCHANGED <<futures, drainingStockFutures, stockFutures, summary, today, computed, runs, excused>>

-----------------------------------------------------------------------------
(* The summary                                                             *)

SpreadDays == {d \in Days : spreadDaily[d] # {}}

\* 16:00: once a day.
recomputeTick ==
    /\ computed # today /\ starts("tick", "read")
    /\ UNCHANGED <<queueVars, tableVars, eodDayVars, eodUpsets, excused>>

\* The reconciliation recomputes only when spread_daily is newer than the summary.
checkAndRecompute(j) ==
    /\ summary # {} => Max(SpreadDays) > Max(summary)
    /\ starts(j, "read")
    /\ UNCHANGED <<queueVars, tableVars, eodDayVars, eodUpsets, excused>>

RecomputeSpreadSummary(j) ==
    /\ run[j].pc = "read"
    /\ \/ run' = [run EXCEPT ![j] = Run("replace", @.days, @.todo, @.doc, @.docs, SpreadDays)] /\ UNCHANGED eodUpsets
       \/ fails /\ finishes(j)
    /\ UNCHANGED <<queueVars, tableVars, eodDayVars, runs, excused>>

\* One transaction: the whole table is replaced, or nothing.
ReplaceSpreadSummaries(j) ==
    /\ run[j].pc = "replace"
    /\ \/ /\ summary' = run[j].snap /\ UNCHANGED eodUpsets
          /\ computed' = IF j = "tick" THEN today ELSE computed
       \/ fails /\ UNCHANGED <<summary, computed>>
    /\ finishes(j)
    /\ UNCHANGED <<queueVars, stockFutures, spreadDaily, today, captured, runs, excused>>

\* The scheduler's own runs are over before the day changes.
NextDay ==
    /\ today < MaxDay /\ today' = today + 1
    /\ run["tick"].pc = "idle"
    /\ UNCHANGED <<queueVars, tableVars, captured, computed, run, budgetVars, excused>>

EodNext ==
    \/ captureEodData \/ captureQuotes \/ recomputeTick \/ NextDay
    \/ \E j \in Backfills : BackfillStockFutures(j) \/ backfillContract(j)
    \/ \E j \in Checks : checkAndRecompute(j)
    \/ \E j \in EodJobs : \/ drainStockFutures(j) \/ drainHead(j) \/ UpsertStockFuture(j)
                       \/ drainPop(j) \/ ComputeSpreads(j) \/ computePush(j)
                       \/ drainSpreadDaily(j) \/ drainSpreadHead(j) \/ UpsertSpreadDaily(j)
                       \/ RecomputeSpreadSummary(j) \/ ReplaceSpreadSummaries(j)

EodSpec == EodInit /\ [][EodNext]_eodVars

-----------------------------------------------------------------------------
(* Properties                                                              *)

atRest == (\A j \in EodJobs : run[j].pc = "idle") /\ futures = <<>> /\ spreads = <<>>

\* ComputeSpreads runs after the drain: when nothing is running or queued, a day with two
\* contracts stored has a spread, and it is that of the two nearest, whatever runs
\* overlapped.  Excused are days whose rows a run left to another's drain, lost to a
\* failed write or could not read, or whose rows two runs had read at once.
SpreadsFollowRows ==
    atRest => \A d \in Days \ excused :
                hasTwo(d) => spreadDaily[d] = twoNearest(d)

FutureRows == Days \X Contracts
SpreadRows == Days \X SUBSET Contracts
DrainsFutures == {"head", "upsert", "pop"}
NotYetDrained == {"fetch", "drain"} \cup DrainsFutures
NotYetRead == {"compute"} \cup NotYetDrained
RunStates == [pc : NotYetRead \cup {"idle", "push", "slock", "shead", "supsert", "read", "replace"},
              days : SUBSET Days, todo : SUBSET Contracts, doc : FutureRows \cup {NoDoc}, docs : Seq(SpreadRows),
              snap : SUBSET Days]
EodTypeOK ==
    /\ today \in Days /\ futures \in Seq(FutureRows) /\ spreads \in Seq(SpreadRows) /\ stockFutures \subseteq FutureRows
    /\ spreadDaily \in [Days -> SUBSET Contracts] /\ drainingStockFutures \in BOOLEAN
    /\ run \in [EodJobs -> RunStates]

\* One run at a time drains each queue and finds there what it writes; a tick that asks for quotes
\* has no day yet, and only days of its own are in what a run will queue.
OneDrains ==
    /\ \A j \in EodJobs : run[j].pc \in DrainsFutures => drainingStockFutures
    /\ \A j, k \in EodJobs : run[j].pc \in DrainsFutures /\ run[k].pc \in DrainsFutures => j = k
    /\ \A j \in EodJobs : run[j].pc \in {"upsert", "pop"} => futures # <<>>
    /\ \A j \in EodJobs : run[j].pc = "upsert" => run[j].doc = Head(futures)
    /\ \A j \in EodJobs : run[j].pc \in {"shead", "supsert"} => spreadLock = j
    /\ \A j \in EodJobs : run[j].pc = "supsert" => spreads # <<>>
    /\ run["tick"].pc = "fetch" => run["tick"].days = {}
    /\ \A j \in EodJobs : \A i \in DOMAIN run[j].docs : run[j].docs[i][1] \in run[j].days

\* Some run still has to drain the queue, or to read the rows, of the day; a run has read them and
\* will queue its spread.
WillDrain(d) == \E k \in EodJobs : d \in run[k].days /\ run[k].pc \in NotYetDrained
WillRead(d) == \E k \in EodJobs : d \in run[k].days /\ run[k].pc \in NotYetRead
Pushes(k, d) == d \in run[k].days /\ run[k].pc = "push"

\* A queued row of a day that is not excused belongs to a run that has yet to drain it, and to read
\* the day after that; two runs that have read such a day do not hold its spread at once.
RowsComing == \A i \in DOMAIN futures : futures[i][1] \in excused \/ WillDrain(futures[i][1])
OneReads == \A d \in Days \ excused : \A j, k \in EodJobs : Pushes(j, d) /\ Pushes(k, d) => j = k

\* The spread of day d that is stored when queue q has run.
EndsAs(q, d, stored, spread) ==
    /\ (\A i \in DOMAIN q : q[i][1] # d) => stored = spread
    /\ \A i \in DOMAIN q : q[i][1] = d /\ (\A k \in DOMAIN q : k > i => q[k][1] # d) => q[i][2] = spread
AllOf(q, d, spread) ==
    /\ \E i \in DOMAIN q : q[i][1] = d
    /\ \A i \in DOMAIN q : q[i][1] = d => q[i][2] = spread

\* A day with two contracts that every run has read: its spread of now is held by the run that read
\* it last, or is the last one queued, or is stored.
SpreadComing ==
    \A d \in Days \ excused : hasTwo(d) /\ ~WillRead(d) =>
        /\ \A k \in EodJobs : Pushes(k, d) => AllOf(run[k].docs, d, twoNearest(d))
        /\ (\A k \in EodJobs : ~Pushes(k, d)) => EndsAs(spreads, d, spreadDaily[d], twoNearest(d))

\* The inductive invariant of SpreadsFollowRows.
EodIInv == EodTypeOK /\ OneDrains /\ RowsComing /\ OneReads /\ SpreadComing
=============================================================================
