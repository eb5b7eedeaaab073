--------------------------- MODULE CalendarTrades ---------------------------
(***************************************************************************)
(* The calendar-spread trade routes: take, close and delete over a store   *)
(* with no guards of its own (check then insert, last close wins), charges *)
(* that Kite prices or not, and the ledger appended after the response.    *)
(*                                                                         *)
(* Source: internal/calendar/routes.go, store.go, charges.go, calendar.go. *)
(***************************************************************************)
EXTENDS Integers, FiniteSets

CONSTANTS
    Handlers,       \* requests in progress at once
    Prices,         \* totals Kite may price a leg group at
    MaxTrades,      \* bound on trades inserted
    MaxRequests     \* bound on requests

ASSUME CalendarBounds == MaxTrades \in Nat /\ MaxRequests \in Nat

Null == 0           \* a column or a charge that is not there
Ids == 0 .. MaxTrades           \* 0 is a trade of before charges were tracked
NoRow == [status |-> "none", entry |-> Null, est |-> Null, exit |-> Null, total |-> Null]
Free == [at |-> "idle", id |-> 0, row |-> NoRow]

VARIABLES
    trades,     \* the trades table, one symbol
    ledger,     \* trade_log: <<id, event, charges, total>>
    appending,  \* ledger rows a goroutine is writing, per handler that started it
    h,          \* per handler: where it is, its trade, the row it read
    stopped,    \* Stop was called
    inserted, requests,     \* bounds
    unlogged,   \* history: a ledger write failed
    unanswered  \* history: exits never recorded, the close was stored and not answered

calendarVars == <<trades, ledger, appending, h, stopped, inserted, requests, unlogged, unanswered>>

CalendarInit ==
    /\ trades = [i \in Ids |-> IF i = 0 THEN [NoRow EXCEPT !.status = "open"] ELSE NoRow]
    /\ ledger = {} /\ appending = {} /\ h = [c \in Handlers |-> Free] /\ stopped = FALSE
    /\ inserted = 0 /\ requests = 0 /\ unlogged = FALSE /\ unanswered = {}

enter(c) == h[c] = Free /\ requests < MaxRequests /\ requests' = requests + 1
go(c, to) == h' = [h EXCEPT ![c] = to]

--------------------------------------------------------------------------------
(* The store. *)

hasOpen == \E i \in Ids : trades[i].status = "open"
get(i) == trades[i]
insert(i, row) == trades' = [trades EXCEPT ![i] = row]
remove(i) == trades' = [trades EXCEPT ![i] = NoRow]

\* Mutation: charges backfilled at the close are counted but not stored.
Mut_EntryUnsaved(i, row, setEntryCharges) ==
    trades' = [trades EXCEPT ![i] = [row EXCEPT !.entry = trades[i].entry, !.est = trades[i].est]]
\* By id only, no status guard; entry_charges only when this close backfilled them.
saveClose(i, row, setEntryCharges) ==
    trades' = [trades EXCEPT ![i] =
                 [row EXCEPT !.entry = IF setEntryCharges THEN @ ELSE trades[i].entry, !.est = trades[i].est]]

\* The record of one event; it is written by a goroutine after the response.
appendLog(i, event, charges, total) == {<<i, event, charges, total>>}

background(e) == appending' = appending \cup e /\ UNCHANGED unanswered

\* The statement's answer: the event's ledger row is started, or the answer was lost although
\* the statement was committed, and the route fails before it gets there.
answered(e) ==
    \/ background(e)
    \/ UNCHANGED appending /\ unanswered' = unanswered \cup {r \in e : r[2] = "exit"}
ledgerWritten(e) ==
    /\ appending' = appending \ {e}
    /\ \/ ledger' = ledger \cup {e} /\ UNCHANGED unlogged
       \/ unlogged' = TRUE /\ UNCHANGED ledger
    /\ UNCHANGED <<trades, h, stopped, inserted, requests, unanswered>>

--------------------------------------------------------------------------------
(* POST /api/trades. *)

\* Refusals (no session, market closed, unknown symbol, one already open) leave no trace.
takeTrade(c) ==
    /\ enter(c) /\ ~hasOpen /\ go(c, [Free EXCEPT !.at = "taking"])
    /\ UNCHANGED <<trades, ledger, appending, stopped, inserted, unlogged, unanswered>>

\* One call prices the entry and the projected exit: both, or neither.
priceChargeGroups == {<<Null, Null>>} \cup (Prices \X Prices)

\* Books, margin and charges fetched: the trade is inserted, or a leg had no quote, or the
\* insert failed.
take(c) ==
    /\ h[c].at = "taking"
    /\ \/ go(c, Free) /\ UNCHANGED <<trades, inserted>>
       \/ /\ inserted < MaxTrades /\ inserted' = inserted + 1
          /\ \E p \in priceChargeGroups :
               LET row == [NoRow EXCEPT !.status = "open", !.entry = p[1], !.est = p[2]]
               IN insert(inserted + 1, row) /\ go(c, [at |-> "taken", id |-> inserted + 1, row |-> row])
    /\ UNCHANGED <<ledger, appending, stopped, requests, unlogged, unanswered>>

\* ... and its entry is recorded.
takeAnswered(c) ==
    /\ h[c].at = "taken" /\ go(c, Free)
    /\ answered(appendLog(h[c].id, "entry", h[c].row.entry, Null))
    /\ UNCHANGED <<trades, ledger, stopped, inserted, requests, unlogged>>

--------------------------------------------------------------------------------
(* POST /api/trades/:id/close and DELETE /api/trades/:id. *)

lookupTrade(c, i, to) == enter(c) /\ go(c, [at |-> to, id |-> i, row |-> get(i)])

\* A trade already closed is answered as it is.
closeTrade(c, i) ==
    /\ get(i).status = "open" /\ lookupTrade(c, i, "closing")
    /\ UNCHANGED <<trades, ledger, appending, stopped, inserted, unlogged, unanswered>>

sum(a, b) == IF a # Null /\ b # Null THEN a + b ELSE Null

\* The close is priced from the row read before: the exit, or the projection taken at entry;
\* the entry, when it was never priced. A row deleted meanwhile is an error, a write that
\* fails changes nothing.
close(c) ==
    /\ h[c].at = "closing"
    /\ LET i == h[c].id
           t == h[c].row
       IN \/ go(c, Free) /\ UNCHANGED trades
          \/ /\ trades[i].status # "none"
             /\ \E exitCharges \in {Null} \cup Prices, priced \in {Null} \cup Prices :
                  LET entry == IF t.entry # Null THEN t.entry ELSE priced
                      exit == IF exitCharges # Null THEN exitCharges ELSE t.est
                      row == [status |-> "closed", entry |-> entry, est |-> t.est, exit |-> exit, total |-> sum(entry, exit)]
                  IN saveClose(i, row, t.entry = Null /\ entry # Null) /\ go(c, [at |-> "closed", id |-> i, row |-> row])
    /\ UNCHANGED <<ledger, appending, stopped, inserted, requests, unlogged, unanswered>>

\* ... and its exit is recorded.
exitOf(c) == appendLog(h[c].id, "exit", h[c].row.exit, h[c].row.total)
closeAnswered(c) ==
    /\ h[c].at = "closed" /\ go(c, Free) /\ answered(exitOf(c))
    /\ UNCHANGED <<trades, ledger, stopped, inserted, requests, unlogged>>

\* Only a closed trade is deleted; the row read may have changed since.
deleteTrade(c, i) ==
    /\ get(i).status = "closed" /\ lookupTrade(c, i, "deleting")
    /\ UNCHANGED <<trades, ledger, appending, stopped, inserted, unlogged, unanswered>>
deleted(c) ==
    /\ h[c].at = "deleting" /\ go(c, Free)
    /\ remove(h[c].id) \/ UNCHANGED trades
    /\ UNCHANGED <<ledger, appending, stopped, inserted, requests, unlogged, unanswered>>

\* Shutdown: the HTTP server has no request left; Stop waits for the ledger writes.
Stop ==
    /\ ~stopped /\ appending = {} /\ stopped' = TRUE /\ \A c \in Handlers : h[c] = Free
    /\ UNCHANGED <<trades, ledger, appending, h, inserted, requests, unlogged, unanswered>>

CalendarNext ==
    \/ ~stopped /\ \E c \in Handlers :
         takeTrade(c) \/ take(c) \/ takeAnswered(c) \/ close(c) \/ closeAnswered(c) \/ deleted(c)
         \/ \E i \in Ids : closeTrade(c, i) \/ deleteTrade(c, i)
    \/ \E e \in appending : ledgerWritten(e)
    \/ Stop

CalendarSpec == CalendarInit /\ [][CalendarNext]_calendarVars

--------------------------------------------------------------------------------
(* Properties. *)

\* A stored total is the sum of the stored entry and exit charges, also when two closes of
\* one trade overlap and each writes only the columns it set.
TotalsAddUp == \A i \in Ids : trades[i].total # Null => trades[i].total = sum(trades[i].entry, trades[i].exit)

\* Once the ledger writes are done (and none failed) the ledger holds the exit that a closed
\* trade's row shows, whichever of several overlapping closes was stored last.  The one
\* exception: that close was stored and its answer lost, so its route failed before the ledger
\* and a second request finds the trade closed.
LedgerExplainsRow ==
    appending = {} /\ ~unlogged /\ (\A c \in Handlers : h[c].at # "closed") =>
      \A i \in Ids : trades[i].status = "closed" =>
        <<i, "exit", trades[i].exit, trades[i].total>> \in ledger \cup unanswered

\* Rows add up and the ledger explains them.
TradesExplained == TotalsAddUp /\ LedgerExplainsRow

--------------------------------------------------------------------------------
(* TradesExplained holds by the parts below. *)

Charge == {Null} \cup Prices
Status == {"none", "open", "closed"}
Total == Charge \cup {p + q : p \in Prices, q \in Prices}
RowType == [status : Status, entry : Charge, est : Charge, exit : Charge, total : Total]

Places == {"idle", "taking", "taken", "closing", "closed", "deleting"}

CalendarTypeOK ==
    /\ trades \in [Ids -> RowType] /\ inserted \in Nat
    /\ h \in [Handlers -> [at : Places, id : Ids \cup {0}, row : RowType]]

\* Ids are given out in turn and never again.
IdsInTurn == \A i \in Ids : i > inserted => trades[i].status = "none"

\* Every close of a trade read the row as it was while open; who read an entry charge reads
\* the one that is stored, also when another close was saved meanwhile.
CloseHasRead ==
    \A c \in Handlers : h[c].at = "closing" =>
      /\ h[c].id \in Ids /\ h[c].id <= inserted
      /\ trades[h[c].id].status = "open" => h[c].row = trades[h[c].id]
      /\ trades[h[c].id].status = "closed" /\ h[c].row.entry # Null => trades[h[c].id].entry = h[c].row.entry
      /\ trades[h[c].id].status # "none" =>
           \A d \in Handlers : h[d].at = "closing" /\ h[d].id = h[c].id => h[d].row = h[c].row

\* The exit a closed row shows is in the ledger, being written to it, about to be by the route
\* that closed it, or lost with that route's answer.
ExitLogged ==
    unlogged \/ \A i \in Ids : trades[i].status = "closed" =>
      \/ <<i, "exit", trades[i].exit, trades[i].total>> \in ledger \cup appending \cup unanswered
      \/ \E c \in Handlers : h[c].at = "closed" /\ <<i, "exit", trades[i].exit, trades[i].total>> \in exitOf(c)

CalendarIInv == CalendarTypeOK /\ IdsInTurn /\ CloseHasRead /\ TotalsAddUp /\ ExitLogged
================================================================================
