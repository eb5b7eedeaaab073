----------------------------- MODULE KiteSession -----------------------------
(***************************************************************************)
(* The Zerodha session: the token in the REST client's memory, the copy in *)
(* kite_session, the queue of writes between them, the requests that carry *)
(* a token and may come back refused after it was replaced, and the boot   *)
(* step that restores the copy while requests are already served.          *)
(*                                                                         *)
(* Source: internal/kite/client.go, internal/core/kitesession.go,          *)
(* internal/core/routes_kite.go, internal/core/core.go (SendError and the  *)
(* queue), internal/app/app.go (onFeedTokenRejected).                      *)
(***************************************************************************)
EXTENDS Integers, Sequences

CONSTANTS
    KiteHandlers,       \* requests that may be in progress at once
    MaxLogins,      \* bound on tokens Kite issues
    MaxDay,         \* bound on IST days
    MaxKiteRequests,    \* bound on requests made
    MaxRestarts     \* bound on restarts

NoToken == 0
NoStored == [tok |-> NoToken, day |-> 0]
IdleCall == [st |-> "idle", by |-> "none", tok |-> NoToken, left |-> 0]

VARIABLES
    token,      \* Client.accessToken
    kiteRow,        \* the kite_session row
    day,        \* IST day
    tasks,      \* serialQueue.pending of the core: saves and deletes in order
    boot,       \* RestoreKiteSession: "load", "apply", "stale" or "done"
    held,       \* the row it loaded
    kiteCall,       \* per handler, the request in progress
    logins, kiteRequests, restarts,     \* bounds
    \* What happened, for the properties.
    crossed,    \* two changes of the session overlapped, or one overlapped the restore
    unwritten   \* a write failed, or the memory alone was cleared

memoryVars == <<token, logins>>
kiteStoreVars == <<kiteRow, tasks>>
bootVars == <<boot, held, day, restarts>>
noteVars == <<crossed, unwritten>>
kiteSessionVars == <<memoryVars, kiteStoreVars, bootVars, noteVars, kiteCall, kiteRequests>>

KiteSessionInit ==
    /\ token = NoToken /\ kiteRow = NoStored /\ day = 1 /\ tasks = <<>> /\ boot = "load" /\ held = NoStored
    /\ kiteCall = [c \in KiteHandlers |-> IdleCall] /\ logins = 0 /\ kiteRequests = 0 /\ restarts = 0
    /\ crossed = FALSE /\ unwritten = FALSE

\* A handler between its change of the memory and its task for the store.
Between == {c \in KiteHandlers : kiteCall[c].st \in {"persist", "forget"}}
noteCross == crossed' = (crossed \/ Between # {} \/ boot # "done")

begin(c) == kiteCall[c] = IdleCall /\ kiteRequests < MaxKiteRequests /\ kiteRequests' = kiteRequests + 1
\* The call goes on: at step st, with the token it was sent or answered with.
become(c, st, tok) == kiteCall' = [kiteCall EXCEPT ![c] = [st |-> st, by |-> @.by, tok |-> tok, left |-> @.left]]
done(c) == kiteCall' = [kiteCall EXCEPT ![c] = IdleCall]

--------------------------------------------------------------------------------
(* The client: requests and what their answers do to the token. *)

\* The header is built from the token held now; without one the call fails with a KiteError
\* of status 401 and nothing is sent.
authHeader(c, by, chunks) ==
    kiteCall' = [kiteCall EXCEPT ![c] =
               IF token # NoToken THEN [st |-> "sent", by |-> by, tok |-> token, left |-> chunks]
               ELSE IF by = "route" THEN [IdleCall EXCEPT !.st = "unsent"] ELSE IdleCall]

GetProfile(c) == begin(c) /\ authHeader(c, "route", 1)
GetBasketMargin(c, by) == begin(c) /\ authHeader(c, by, 1)
GetOrderCharges(c, by) == begin(c) /\ authHeader(c, by, 1)
\* Read inside the gate's slot (HistoricalGate).
historicalCandles(c, by) == begin(c) /\ authHeader(c, by, 1)
\* Identifiers go out in chunks, each with a header of its own.
quoteEntries(c, by) == begin(c) /\ authHeader(c, by, 2)
\* The views of quotes and candles differ only in the fields they keep.
GetQuotes(c, by) == quoteEntries(c, by)
GetHistorical(c, by) == historicalCandles(c, by)

Request(c) ==
    /\ \/ GetProfile(c)
       \/ \E by \in {"route", "job"} :
            GetBasketMargin(c, by) \/ GetOrderCharges(c, by) \/ GetHistorical(c, by) \/ GetQuotes(c, by)
    /\ UNCHANGED <<memoryVars, kiteStoreVars, bootVars, noteVars>>

\* The instrument file is asked for without a token first.
GetInstruments(c, by) ==
    /\ begin(c) /\ kiteCall' = [kiteCall EXCEPT ![c] = [st |-> "plain", by |-> by, tok |-> NoToken, left |-> 1]]
    /\ UNCHANGED <<memoryVars, kiteStoreVars, bootVars, noteVars>>

\* Refused without a token: asked again with one when there is one.
retryInstruments(c) ==
    /\ kiteCall[c].st = "plain" /\ token # NoToken
    /\ become(c, "sent", token)
    /\ UNCHANGED <<memoryVars, kiteStoreVars, bootVars, noteVars, kiteRequests>>

\* An answer that is not a refusal: the next chunk, or the end.
answers(c) ==
    /\ kiteCall[c].st \in {"sent", "plain"}
    /\ IF kiteCall[c].left > 1 THEN authHeader(c, kiteCall[c].by, kiteCall[c].left - 1) ELSE done(c)
    /\ UNCHANGED <<memoryVars, kiteStoreVars, bootVars, noteVars, kiteRequests>>

\* Kite answers 401 or 403: the token held NOW is dropped, whichever token was sent. A route
\* hands the error to SendError; a background job only reports it.
callJSON(c) ==
    /\ kiteCall[c].st = "sent" \/ (kiteCall[c].st = "plain" /\ token = NoToken)
    /\ token' = NoToken
    /\ IF token # NoToken THEN noteCross ELSE UNCHANGED crossed
    /\ IF kiteCall[c].by = "route" THEN become(c, "refused", kiteCall[c].tok) /\ UNCHANGED unwritten
       ELSE done(c) /\ unwritten' = (unwritten \/ token # NoToken)
    /\ UNCHANGED <<kiteStoreVars, bootVars, logins, kiteRequests>>

--------------------------------------------------------------------------------
(* The routes and callbacks that start or end a session. *)

\* POST /api/session and GET /callback: the exchange of the request token.
sessionRoute(c) ==
    /\ begin(c) /\ kiteCall' = [kiteCall EXCEPT ![c] = [IdleCall EXCEPT !.st = "exchange"]]
    /\ UNCHANGED <<memoryVars, kiteStoreVars, bootVars, noteVars>>

\* A new token goes to memory; a failed exchange leaves the session alone.
GenerateSession(c) ==
    /\ kiteCall[c].st = "exchange"
    /\ \/ /\ logins < MaxLogins /\ logins' = logins + 1 /\ token' = logins + 1
          /\ become(c, "persist", logins + 1) /\ noteCross
          /\ UNCHANGED unwritten
       \/ done(c) /\ UNCHANGED <<memoryVars, noteVars>>
    /\ UNCHANGED <<kiteStoreVars, bootVars, kiteRequests>>

\* completeLogin queues the save, stamped with today's day.
persistKiteSession(c) ==
    /\ kiteCall[c].st = "persist"
    /\ tasks' = Append(tasks, [op |-> "save", tok |-> kiteCall[c].tok, day |-> day]) /\ done(c)
    /\ UNCHANGED <<memoryVars, kiteRow, bootVars, noteVars, kiteRequests>>

\* ClearKiteSession, first half: the memory.
ClearSession(c) ==
    /\ token' = NoToken /\ kiteCall' = [kiteCall EXCEPT ![c] = [IdleCall EXCEPT !.st = "forget"]] /\ noteCross
    /\ UNCHANGED <<kiteStoreVars, bootVars, logins, unwritten>>

\* A logout, and the feed's report that its token was refused: both end what is held.
EndedByHand(c) == begin(c) /\ ClearSession(c)
logout(c) == EndedByHand(c)
onFeedTokenRejected(c) == EndedByHand(c)

\* Every KiteError with status 401 clears the session.
SendError(c) ==
    /\ kiteCall[c].st \in {"unsent", "refused"} /\ ClearSession(c) /\ UNCHANGED kiteRequests

\* ClearKiteSession, second half: the delete is queued.
ClearKiteSession(c) ==
    /\ kiteCall[c].st = "forget" /\ done(c)
    /\ tasks' = Append(tasks, [op |-> "clear", tok |-> NoToken, day |-> day])
    /\ UNCHANGED <<memoryVars, kiteRow, bootVars, noteVars, kiteRequests>>

--------------------------------------------------------------------------------
(* The store. *)

SaveKiteSession(t) == kiteRow' = [tok |-> t.tok, day |-> t.day]
DeleteKiteSession == kiteRow' = NoStored

\* Mutation: the newest task first.
Mut_LastFirst == <<tasks[Len(tasks)]>> \o SubSeq(tasks, 1, Len(tasks) - 1)
\* What is left, in submission order, with the task to run in front.
pending == tasks

\* drain: one task at a time in submission order; a write may fail and is not repeated.
drainTasks ==
    /\ tasks # <<>>
    /\ LET q == pending
       IN /\ tasks' = Tail(q)
          /\ \/ IF Head(q).op = "save" THEN SaveKiteSession(Head(q)) ELSE DeleteKiteSession
             \/ kiteRow' = kiteRow
          /\ unwritten' = (unwritten \/ kiteRow' # IF Head(q).op = "save" THEN [tok |-> Head(q).tok, day |-> Head(q).day] ELSE NoStored)
    /\ UNCHANGED <<memoryVars, bootVars, crossed, kiteCall, kiteRequests>>

LoadKiteSession == held' = kiteRow

\* RestoreKiteSession: read the row (a failed read ends it) ...
restoreLoad ==
    /\ boot = "load"
    /\ \/ /\ LoadKiteSession
          /\ boot' = IF kiteRow = NoStored THEN "done" ELSE IF kiteRow.day = day THEN "apply" ELSE "stale"
          /\ UNCHANGED unwritten
       \/ boot' = "done" /\ unwritten' = TRUE /\ UNCHANGED held
    /\ UNCHANGED <<memoryVars, kiteStoreVars, day, restarts, crossed, kiteCall, kiteRequests>>

\* ... then put today's token into memory, or delete a row of another day. Neither looks at
\* what the routes did meanwhile.
RestoreKiteSession ==
    /\ \/ boot = "apply" /\ token' = held.tok /\ UNCHANGED <<kiteRow, unwritten>>
       \/ boot = "stale" /\ DeleteKiteSession /\ UNCHANGED <<token, unwritten>>
       \/ boot = "stale" /\ unwritten' = TRUE /\ UNCHANGED <<token, kiteRow>>
    /\ boot' = "done" /\ held' = NoStored
    /\ UNCHANGED <<tasks, logins, day, restarts, crossed, kiteCall, kiteRequests>>

\* The process ends at any point and starts again: only the row is left.
Restart ==
    /\ restarts < MaxRestarts /\ restarts' = restarts + 1
    /\ token' = NoToken /\ tasks' = <<>> /\ boot' = "load" /\ held' = NoStored
    /\ kiteCall' = [c \in KiteHandlers |-> IdleCall] /\ crossed' = FALSE /\ unwritten' = FALSE
    /\ UNCHANGED <<kiteRow, day, logins, kiteRequests>>

NextDay == day < MaxDay /\ day' = day + 1 /\ UNCHANGED <<memoryVars, kiteStoreVars, boot, held, restarts, noteVars, kiteCall, kiteRequests>>

KiteSessionNext ==
    \/ \E c \in KiteHandlers :
         \/ Request(c) \/ retryInstruments(c) \/ answers(c) \/ callJSON(c)
         \/ sessionRoute(c) \/ GenerateSession(c) \/ persistKiteSession(c)
         \/ logout(c) \/ onFeedTokenRejected(c) \/ SendError(c) \/ ClearKiteSession(c)
         \/ \E by \in {"route", "job"} : GetInstruments(c, by)
    \/ drainTasks \/ restoreLoad \/ RestoreKiteSession \/ Restart \/ NextDay

KiteSessionSpec == KiteSessionInit /\ [][KiteSessionNext]_kiteSessionVars

--------------------------------------------------------------------------------
(* Properties. *)

\* With nothing under way, the stored session is the one in memory: what a restart would
\* restore is what the process is using, and a session that ended is not stored. The
\* exceptions are a failed write, a background job's refusal (which clears the memory only)
\* and changes that overlapped each other or the boot's restore.
StoredIsHeld ==
    /\ tasks = <<>> /\ boot = "done" /\ \A c \in KiteHandlers : kiteCall[c].st \notin {"persist", "forget", "refused"}
    /\ ~crossed /\ ~unwritten
    => kiteRow.tok = token

RowState == [tok : Nat, day : Nat]
TaskState == [op : {"save", "clear"}, tok : Nat, day : Nat]
CallState == [st : {"idle", "unsent", "plain", "sent", "refused", "exchange", "persist", "forget"},
              by : {"none", "route", "job"}, tok : Nat, left : Nat]

\* The session, its row, its queue and the requests as the source declares them.
KiteTypeOK ==
    /\ token \in Nat /\ logins \in Nat /\ day \in Nat /\ kiteRow \in RowState /\ held \in RowState
    /\ tasks \in Seq(TaskState) /\ boot \in {"load", "apply", "stale", "done"}
    /\ kiteCall \in [KiteHandlers -> CallState] /\ crossed \in BOOLEAN /\ unwritten \in BOOLEAN

\* A delete stores what is left of it: no token.
ClearIsEmpty == \A i \in 1 .. Len(tasks) : tasks[i].op = "clear" => tasks[i].tok = NoToken

\* The token that will be stored when the queue has run.
Coming == IF tasks = <<>> THEN kiteRow.tok ELSE tasks[Len(tasks)].tok

\* While the boot restores the row and nobody disturbs it, the memory is empty, nothing is queued and
\* the row is still the one that was read.
BootQuiet ==
    ~crossed /\ boot # "done" =>
        /\ token = NoToken /\ tasks = <<>> /\ Between = {}
        /\ boot # "load" => held = kiteRow

\* Memory and queue: a handler between its two halves is alone and brings to the queue what is in
\* memory; without one the queue ends with it, unless a refused token waits for SendError.
QueueFollows ==
    ~crossed /\ ~unwritten /\ boot = "done" =>
        /\ \A c \in Between : token = IF kiteCall[c].st = "persist" THEN kiteCall[c].tok ELSE NoToken
        /\ \A c, d \in Between : c = d
        /\ Between = {} => \/ Coming = token
                           \/ token = NoToken /\ \E c \in KiteHandlers : kiteCall[c].st = "refused"

\* The inductive invariant: with nothing under way the row follows from what was queued long before.
KiteIInv == KiteTypeOK /\ ClearIsEmpty /\ BootQuiet /\ QueueFollows
================================================================================
