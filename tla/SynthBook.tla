----------------------------- MODULE SynthBook ------------------------------
(***************************************************************************)
(* The synthetic scanner's paper book: the positions it holds in memory,   *)
(* the trades in storage, and the writes in flight between the two.        *)
(*                                                                         *)
(* Sources: internal/synthetic/engine.go (load, adopt, enter, finalize,    *)
(* delete, margin, day roll), repository.go, trade.go.                     *)
(*                                                                         *)
(* Every handler runs under the engine's mutex and releases it for a       *)
(* storage call: an action is what happens between two such calls.  Which  *)
(* opportunity is entered and which position is due for its exit is        *)
(* SynthTrading's, so here an entry or an exit may start whenever nothing  *)
(* holds it back.  A storage call lands, or does not, and is answered      *)
(* later: what the row says is ahead of memory meanwhile, and a call that  *)
(* fails may have landed all the same.                                     *)
(***************************************************************************)
EXTENDS Integers, FiniteSets

CONSTANTS
    BookKeys,       \* the underlyings
    MaxOpen,        \* the open positions the settings and the token budget allow
    MaxIds,         \* bound on trades ever allocated
    MaxUpsets       \* bound on failing storage calls, midnights, restarts and closes elsewhere

ASSUME BookBounds ==
    BookKeys # {} /\ MaxOpen \in Nat /\ MaxIds \in Nat /\ MaxUpsets \in Nat

Ids == 1 .. MaxIds
NoId == 0

VARIABLES
    rows,           \* synth_trades, per id: st, und, day (of its close), mg (a margin figure)
    held,           \* e.positions
    closedIDs,      \* e.closedIDs
    deletedIDs,     \* e.deletedIDs
    closedToday,    \* e.closedToday
    closedDay,      \* e.closedDay
    margins,        \* trades in memory that carry a margin figure
    load,           \* the boot load: its step, the rows it has read, the day it reads
    entry,          \* per underlying: the entry in flight
    exits,          \* per trade: the close, or the delete of an open trade, in flight
    purge,          \* per trade: the delete of a closed trade in flight
    marginJob,      \* e.marginInFlight, per trade: asking the broker or writing the row
    today,          \* the IST day
    unseen,         \* history: trades with a write this process does not know of
    staleLoad,      \* history: midnight passed while a load had rows in hand
    lateList,       \* history: deleted while a close was about to list them
    ahead,          \* history: read into memory before the write behind it was answered
    twice,          \* trades that are on e.closedToday two times
    upsets          \* so far

storeVars == <<rows, today>>
memoryVars == <<held, closedIDs, deletedIDs, closedToday, twice, closedDay, margins>>
jobVars == <<load, entry, exits, purge, marginJob>>
historyVars == <<unseen, staleLoad, lateList, ahead, upsets>>
bookVars == <<storeVars, memoryVars, jobVars, historyVars>>

NoLoad == [at |-> "settings", rows |-> {}, day |-> 0]
NoEntry == [at |-> "none", id |-> NoId, rows |-> {}]
NoExit == [at |-> "none", day |-> 0]

\* Nothing in memory, every job gone; the stored trades stay.
FreshMemory ==
    /\ held' = {} /\ closedIDs' = {} /\ deletedIDs' = {} /\ closedToday' = {} /\ twice' = {}
    /\ closedDay' = today /\ margins' = {}
    /\ load' = NoLoad
    /\ entry' = [u \in BookKeys |-> NoEntry]
    /\ exits' = [i \in Ids |-> NoExit]
    /\ purge' = [i \in Ids |-> "none"]
    /\ marginJob' = [i \in Ids |-> "none"]

BookInit ==
    /\ rows = [i \in Ids |-> [st |-> "none", und |-> CHOOSE u \in BookKeys : TRUE, day |-> 0, mg |-> FALSE]]
    /\ today = 0
    /\ held = {} /\ closedIDs = {} /\ deletedIDs = {} /\ closedToday = {} /\ twice = {}
    /\ closedDay = 0 /\ margins = {}
    /\ load = NoLoad
    /\ entry = [u \in BookKeys |-> NoEntry]
    /\ exits = [i \in Ids |-> NoExit]
    /\ purge = [i \in Ids |-> "none"]
    /\ marginJob = [i \in Ids |-> "none"]
    /\ unseen = {} /\ staleLoad = FALSE /\ lateList = {} /\ ahead = {} /\ upsets = 0

-----------------------------------------------------------------------------
(* Storage                                                                 *)

\* A row as scanTrade reads it: open, closed or deleted ("none" if there is none).
Get(i) == rows[i].st
StoredOpen == {i \in Ids : rows[i].st = "open"}
LoadOpen == StoredOpen
LoadClosed(day) == {i \in Ids : rows[i].st = "closed" /\ rows[i].day >= day}

\* The partial unique index: one open row per underlying.
IndexAllows(i, u) == \A o \in StoredOpen : rows[o].und # u

\* EnsureReady cannot establish that index over two open rows of one underlying.
IndexSound == \A i, j \in StoredOpen : rows[i].und = rows[j].und => i = j

InsertRow(i, u) == rows' = [rows EXCEPT ![i] = [st |-> "open", und |-> u, day |-> 0, mg |-> FALSE]]
\* Close, MarkDeleted and SetMargin touch a row only in the status they expect.
\* Mutation: the close is not conditional on the row being open.
Mut_CloseAny(i, day) == rows' = [rows EXCEPT ![i].st = "closed", ![i].day = day]
CloseRow(i, day) ==
    rows' = IF rows[i].st = "open" THEN [rows EXCEPT ![i].st = "closed", ![i].day = day] ELSE rows
DeleteRow(i, from) ==
    rows' = IF rows[i].st = from THEN [rows EXCEPT ![i].st = "deleted"] ELSE rows
SetMargin(i, figure) ==
    rows' = IF rows[i].st # "deleted" THEN [rows EXCEPT ![i].mg = figure] ELSE rows

Answers == UNCHANGED upsets
Upset == upsets < MaxUpsets /\ upsets' = upsets + 1

-----------------------------------------------------------------------------
(* Boot: settings, open trades, today's closed trades, the unique index    *)

storeReady == load.at = "ready"
closing == {i \in Ids : exits[i].at # "none"}
pendingEntries == {u \in BookKeys : entry[u].at # "none"}
hasOpen(u) == \E i \in held : rows[i].und = u
\* The insert is in storage and not answered yet.
opening(i) == \E u \in BookKeys : entry[u].at = "opened" /\ entry[u].id = i
underMaxOpen == Cardinality(held) + Cardinality(pendingEntries) < MaxOpen

\* Mutation: rows this process closed meanwhile are adopted too.
Mut_AdoptAll(read) ==
    /\ held' = held \cup read
    /\ margins' = margins \cup {i \in held' \ held : rows[i].mg}

\* adoptLocked: open rows this process has not closed or deleted itself.
adopt(read) ==
    /\ held' = held \cup (read \ (closedIDs \cup deletedIDs))
    /\ margins' = margins \cup {i \in held' \ held : rows[i].mg}

LoadStep(from, to, read) ==
    /\ load.at = from
    /\ load' = [load EXCEPT !.at = to, !.rows = read]

loadSettingsStep ==
    /\ LoadStep("settings", "open", {})
    /\ UNCHANGED <<storeVars, memoryVars, entry, exits, purge, marginJob, historyVars>>

loadTradesOpen ==
    /\ LoadStep("open", "adopt", LoadOpen)
    /\ UNCHANGED <<storeVars, memoryVars, entry, exits, purge, marginJob, historyVars>>

loadTradesAdopt ==
    /\ load.at = "adopt" /\ adopt(load.rows)
    /\ load' = [at |-> "closed", rows |-> {}, day |-> today]
    /\ UNCHANGED <<storeVars, closedIDs, deletedIDs, closedToday, twice, closedDay, entry, exits,
                   purge, marginJob, historyVars>>

loadTradesClosed ==
    /\ LoadStep("closed", "merge", LoadClosed(load.day))
    /\ UNCHANGED <<storeVars, memoryVars, entry, exits, purge, marginJob, historyVars>>

loadTradesMerge ==
    /\ LoadStep("merge", "index", {})
    /\ closedToday' = closedToday \cup (load.rows \ deletedIDs)
    /\ margins' = margins \cup {i \in closedToday' \ closedToday : rows[i].mg}
    /\ closedDay' = load.day
    /\ ahead' = ahead \cup {i \in closedToday' \ closedToday : exits[i].at = "closed"}
    /\ UNCHANGED <<storeVars, held, closedIDs, deletedIDs, twice, entry, exits, purge, marginJob,
                   unseen, staleLoad, lateList, upsets>>

EnsureReady ==
    /\ IndexSound /\ LoadStep("index", "ready", {})
    /\ UNCHANGED <<storeVars, memoryVars, entry, exits, purge, marginJob, historyVars>>

\* A step that fails is tried again later; the trades are one step.
LoadFails ==
    /\ load.at = "closed" /\ Upset
    /\ load' = [load EXCEPT !.at = "open"]
    /\ UNCHANGED <<storeVars, memoryVars, entry, exits, purge, marginJob,
                   unseen, staleLoad, lateList, ahead>>

-----------------------------------------------------------------------------
(* Entries                                                                 *)

\* A new id is none that storage or an entry has; which one does not matter.
FreshIds == {i \in Ids : rows[i].st = "none" /\ \A u \in BookKeys : entry[u].id # i}
NewID == CHOOSE i \in FreshIds : TRUE

\* autoEnter: nothing open or entering on u, and every load step done.
enter(u) ==
    /\ storeReady /\ underMaxOpen /\ u \notin pendingEntries /\ ~hasOpen(u) /\ FreshIds # {}
    /\ entry' = [entry EXCEPT ![u] = [at |-> "insert", id |-> NewID, rows |-> {}]]
    /\ UNCHANGED <<storeVars, memoryVars, load, exits, purge, marginJob, historyVars>>

\* The insert is in storage, or refused by the index.
InsertLands(u) ==
    /\ entry[u].at = "insert"
    /\ IF IndexAllows(entry[u].id, u)
       THEN InsertRow(entry[u].id, u) /\ entry' = [entry EXCEPT ![u].at = "opened"]
       ELSE UNCHANGED rows /\ entry' = [entry EXCEPT ![u].at = "reload"]
    /\ UNCHANGED <<today, memoryVars, load, exits, purge, marginJob, historyVars>>

\* finishEnter: the trade of the insert goes into memory, or the call failed.
finishEnter(u) ==
    /\ \/ /\ entry[u].at = "opened"
          /\ held' = held \cup {entry[u].id} /\ margins' = margins \ {entry[u].id}
          /\ UNCHANGED <<unseen, upsets>>
       \/ /\ entry[u].at \in {"insert", "opened"} /\ Upset
          /\ unseen' = IF entry[u].at = "opened" THEN unseen \cup {entry[u].id} ELSE unseen
          /\ UNCHANGED <<held, margins>>
    /\ entry' = [entry EXCEPT ![u] = NoEntry]
    /\ UNCHANGED <<storeVars, closedIDs, deletedIDs, closedToday, twice, closedDay,
                   load, exits, purge, marginJob, staleLoad, lateList, ahead>>

\* A duplicate: what storage holds open is read and adopted.
DuplicateRead(u) ==
    /\ entry[u].at = "reload"
    /\ entry' = [entry EXCEPT ![u].at = "adopt", ![u].rows = LoadOpen]
    /\ UNCHANGED <<storeVars, memoryVars, load, exits, purge, marginJob, historyVars>>

DuplicateAdopt(u) ==
    /\ entry[u].at = "adopt" /\ adopt(entry[u].rows)
    /\ entry' = [entry EXCEPT ![u] = NoEntry]
    /\ ahead' = ahead \cup {i \in held' \ held : opening(i)}
    /\ UNCHANGED <<storeVars, closedIDs, deletedIDs, closedToday, twice, closedDay, load,
                   exits, purge, marginJob, unseen, staleLoad, lateList, upsets>>

-----------------------------------------------------------------------------
(* Exits                                                                   *)

\* The monitor, in a tick that has rolled the day, or an admin in market hours
\* closes a position nobody is closing or deleting.
finalize(i) ==
    /\ i \in held \ closing /\ closedDay = today
    /\ exits' = [exits EXCEPT ![i] = [at |-> "close", day |-> today]]
    /\ UNCHANGED <<storeVars, memoryVars, load, entry, purge, marginJob, historyVars>>

\* The conditional update closes the row, or finds it closed or deleted.
CloseLands(i) ==
    /\ exits[i].at = "close"
    /\ CloseRow(i, exits[i].day)
    /\ exits' = [exits EXCEPT ![i].at = IF rows[i].st = "open" THEN "closed" ELSE "beaten"]
    /\ UNCHANGED <<today, memoryVars, load, entry, purge, marginJob, historyVars>>

\* The position leaves memory once storage has the close, won or not.
ForgetPosition(i) == held' = held \ {i} /\ closedIDs' = closedIDs \cup {i}

\* The trade is put before today's list, which a load may have merged meanwhile.
\* The closed copy keeps the margin figure, also one that landed since it was taken.
CloseWon(i) ==
    /\ exits[i].at = "closed" /\ Answers /\ ForgetPosition(i)
    /\ IF exits[i].day = closedDay
       THEN closedToday' = closedToday \cup {i} /\ twice' = twice \cup ({i} \cap closedToday)
       ELSE UNCHANGED <<closedToday, twice>>
    /\ exits' = [exits EXCEPT ![i] = NoExit]
    /\ UNCHANGED unseen

CloseLost(i) ==
    /\ exits[i].at = "beaten" /\ Answers /\ ForgetPosition(i)
    /\ exits' = [exits EXCEPT ![i].at = "lost"]
    /\ unseen' = IF rows[i].st = "closed" THEN unseen \ {i} ELSE unseen
    /\ UNCHANGED <<closedToday, twice>>

\* No answer to the close, whether it landed or not.
closeFailed(i) ==
    /\ exits[i].at \in {"close", "closed"} /\ Upset
    /\ exits' = [exits EXCEPT ![i] = NoExit]
    /\ unseen' = IF exits[i].at = "closed" THEN unseen \cup {i} ELSE unseen
    /\ UNCHANGED <<held, closedIDs, closedToday, twice>>

finishFinalize(i) ==
    /\ CloseWon(i) \/ CloseLost(i) \/ closeFailed(i)
    /\ UNCHANGED <<storeVars, deletedIDs, closedDay, margins, load, entry, purge, marginJob,
                   staleLoad, lateList, ahead>>

\* Closed elsewhere: the row is read without the lock, and listed under it.
LostRead(i) ==
    /\ exits[i].at = "lost"
    /\ \/ /\ Answers /\ UNCHANGED unseen
          /\ exits' = [exits EXCEPT ![i] =
                           IF Get(i) = "closed" THEN [@ EXCEPT !.at = "list"] ELSE NoExit]
       \/ Upset /\ exits' = [exits EXCEPT ![i] = NoExit] /\ unseen' = unseen \cup {i}
    /\ UNCHANGED <<storeVars, memoryVars, load, entry, purge, marginJob,
                   staleLoad, lateList, ahead>>

LostList(i) ==
    /\ exits[i].at = "list"
    /\ IF rows[i].day = closedDay THEN closedToday' = closedToday \cup {i} /\ UNCHANGED unseen
       ELSE UNCHANGED closedToday /\ unseen' = unseen \cup {i}
    /\ margins' = IF rows[i].mg THEN margins \cup {i} ELSE margins
    /\ exits' = [exits EXCEPT ![i] = NoExit]
    /\ UNCHANGED <<storeVars, held, closedIDs, deletedIDs, twice, closedDay, load, entry,
                   purge, marginJob, staleLoad, lateList, ahead, upsets>>

-----------------------------------------------------------------------------
(* Deletes                                                                 *)

\* DeleteTrade of a position held here: it is held like a close.
DeleteOpen(i) ==
    /\ i \in held \ closing
    /\ exits' = [exits EXCEPT ![i] = [NoExit EXCEPT !.at = "delete"]]
    /\ UNCHANGED <<storeVars, memoryVars, load, entry, purge, marginJob, historyVars>>

forgetOpen(i) == ForgetPosition(i) /\ deletedIDs' = deletedIDs \cup {i}

DeleteLands(i) ==
    /\ exits[i].at = "delete" /\ rows[i].st = "open"
    /\ DeleteRow(i, "open")
    /\ exits' = [exits EXCEPT ![i].at = "deleted"]
    /\ UNCHANGED <<today, memoryVars, load, entry, purge, marginJob, historyVars>>

\* markDeletedReconciled: the answer to the write, or the row when the write
\* failed or matched nothing.  The position is forgotten if that says deleted.
DeleteOpenEnds(i) ==
    /\ exits[i].at \in {"delete", "deleted"}
    /\ \/ rows[i].st = "deleted" /\ Answers /\ forgetOpen(i) /\ UNCHANGED unseen
       \/ rows[i].st = "closed" /\ Answers /\ UNCHANGED <<held, closedIDs, deletedIDs, unseen>>
       \/ /\ Upset /\ UNCHANGED <<held, closedIDs, deletedIDs>>
          /\ unseen' = IF exits[i].at = "deleted" THEN unseen \cup {i} ELSE unseen
    /\ exits' = [exits EXCEPT ![i] = NoExit]
    /\ UNCHANGED <<storeVars, closedToday, twice, closedDay, margins, load, entry, purge,
                   marginJob, staleLoad, lateList, ahead>>

\* DeleteTrade of a trade not held here: the row is read first.  An open one
\* belongs to another process and is refused.
DeleteStored(i) ==
    /\ i \notin held /\ purge[i] = "none" /\ rows[i].st # "none"
    /\ purge' = [purge EXCEPT ![i] = "get"]
    /\ UNCHANGED <<storeVars, memoryVars, load, entry, exits, marginJob, historyVars>>

DeleteRead(i) ==
    /\ purge[i] = "get"
    /\ purge' = [purge EXCEPT ![i] = CASE Get(i) = "closed" -> "mark"
                                       [] Get(i) = "deleted" -> "forget"
                                       [] OTHER -> "none"]
    /\ UNCHANGED <<storeVars, memoryVars, load, entry, exits, marginJob, historyVars>>

\* The same write on a closed trade.  known: the caller learns that it is deleted.
markDeletedReconciled(i, known) ==
    \/ Answers /\ DeleteRow(i, "closed") /\ known = (rows'[i].st = "deleted") /\ UNCHANGED unseen
    \/ /\ Upset /\ (DeleteRow(i, "closed") \/ UNCHANGED rows)
       /\ \/ known = (rows'[i].st = "deleted") /\ UNCHANGED unseen
          \/ ~known /\ unseen' = unseen \cup {i}

DeleteMark(i) ==
    /\ purge[i] = "mark"
    /\ \E known \in BOOLEAN :
        /\ markDeletedReconciled(i, known)
        /\ purge' = [purge EXCEPT ![i] = IF known THEN "forget" ELSE "none"]
    /\ UNCHANGED <<today, memoryVars, load, entry, exits, marginJob,
                   staleLoad, lateList, ahead>>

forgetClosed(i) ==
    /\ purge[i] = "forget"
    /\ deletedIDs' = deletedIDs \cup {i} /\ closedToday' = closedToday \ {i} /\ twice' = twice \ {i}
    /\ purge' = [purge EXCEPT ![i] = "none"]
    /\ lateList' = IF exits[i].at \in {"closed", "list"} THEN lateList \cup {i} ELSE lateList
    /\ UNCHANGED <<storeVars, held, closedIDs, closedDay, margins, load, entry,
                   exits, marginJob, unseen, staleLoad, ahead, upsets>>

-----------------------------------------------------------------------------
(* Margins                                                                 *)

\* After an entry, and in the backfill rounds: one request per trade at a time.
captureMargin(i) ==
    /\ i \in held \ (margins \cup deletedIDs) /\ marginJob[i] = "none"
    /\ marginJob' = [marginJob EXCEPT ![i] = "ask"]
    /\ UNCHANGED <<storeVars, memoryVars, load, entry, exits, purge, historyVars>>

\* The broker's figure goes onto the open position or the trade listed today.
applyMargin(i) ==
    /\ marginJob[i] = "ask"
    /\ margins' = margins \cup ({i} \cap ((held \cup closedToday) \ deletedIDs))
    /\ marginJob' = [marginJob EXCEPT ![i] = IF i \in deletedIDs THEN "none" ELSE "write"]
    /\ UNCHANGED <<storeVars, held, closedIDs, deletedIDs, closedToday, twice, closedDay,
                   load, entry, exits, purge, historyVars>>

MarginWrite(i) ==
    /\ marginJob[i] = "write" /\ SetMargin(i, TRUE)
    /\ marginJob' = [marginJob EXCEPT ![i] = "none"]
    /\ UNCHANGED <<today, memoryVars, load, entry, exits, purge, historyVars>>

\* Every attempt failed: no figure, in memory and in the row.
MarginGivesUp(i) ==
    /\ marginJob[i] = "ask"
    /\ IF i \in deletedIDs THEN UNCHANGED <<rows, margins>>
       ELSE SetMargin(i, FALSE) /\ margins' = margins \ {i}
    /\ marginJob' = [marginJob EXCEPT ![i] = "none"]
    /\ UNCHANGED <<today, held, closedIDs, deletedIDs, closedToday, twice, closedDay,
                   load, entry, exits, purge, historyVars>>

-----------------------------------------------------------------------------
(* Time, the other process and restarts                                    *)

Midnight ==
    /\ Upset /\ today' = today + 1
    /\ UNCHANGED <<rows, memoryVars, jobVars, unseen, staleLoad, lateList, ahead>>

\* In a tick.  The ids are forgotten whatever a load still has in hand.
rollDay ==
    /\ today # closedDay
    /\ closedDay' = today
    /\ closedToday' = {i \in closedToday : rows[i].day = today}
    /\ twice' = twice \cap closedToday'
    /\ closedIDs' = {} /\ deletedIDs' = {}
    /\ staleLoad' = (staleLoad \/ load.at \in {"adopt", "merge"}
                                \/ \E u \in BookKeys : entry[u].at = "adopt")
    /\ UNCHANGED <<storeVars, held, margins, jobVars, unseen, lateList, ahead, upsets>>

\* Another process on the same storage, as while one replaces the other.
OtherCloses(i) ==
    /\ rows[i].st = "open" /\ CloseRow(i, today) /\ unseen' = unseen \cup {i} /\ Upset
    /\ UNCHANGED <<today, memoryVars, jobVars, staleLoad, lateList, ahead>>

Restart ==
    /\ Upset /\ FreshMemory
    /\ unseen' = {} /\ staleLoad' = FALSE /\ lateList' = {} /\ ahead' = {}
    /\ UNCHANGED storeVars

BookNext ==
    \/ loadSettingsStep \/ loadTradesOpen \/ loadTradesAdopt \/ loadTradesClosed \/ loadTradesMerge
    \/ EnsureReady \/ LoadFails \/ Midnight \/ rollDay \/ Restart
    \/ \E u \in BookKeys : enter(u) \/ InsertLands(u) \/ finishEnter(u) \/ DuplicateRead(u) \/ DuplicateAdopt(u)
    \/ \E i \in Ids :
        \/ finalize(i) \/ CloseLands(i) \/ finishFinalize(i) \/ LostRead(i) \/ LostList(i)
        \/ DeleteOpen(i) \/ DeleteLands(i) \/ DeleteOpenEnds(i)
        \/ DeleteStored(i) \/ DeleteRead(i) \/ DeleteMark(i) \/ forgetClosed(i)
        \/ captureMargin(i) \/ applyMargin(i) \/ MarginWrite(i) \/ MarginGivesUp(i)
        \/ OtherCloses(i)

BookSpec == BookInit /\ [][BookNext]_bookVars

-----------------------------------------------------------------------------
(* Properties                                                              *)

\* A position in memory is open in storage, but for the time from the landing of
\* its close or delete to the answer.  The exceptions are named by what happened:
\* a write landed that this process was not told of, midnight let a load bring back
\* a row that was closed after it was read, or the position was read back from
\* storage, and ended, before its own insert was answered.
HeldAgrees ==
    \A i \in held :
        rows[i].st = "open" \/ exits[i].at \in {"closed", "deleted"} \/ i \in unseen \cup ahead \/ staleLoad

\* Today's list has every trade this process closed today, and none that was
\* deleted: a delete takes a trade out of every list, also when a load, a close
\* that lost its race or a late margin figure is under way.  It has no trade two
\* times, but for one whose close a load read back before it was answered.
TodayAgrees ==
    /\ \A i \in closedIDs \ (closing \cup unseen) :
          (rows[i].st = "closed" /\ rows[i].day = today /\ closedDay = today) => i \in closedToday
    /\ \A i \in closedToday :
          \/ rows[i].st = "closed"
          \/ purge[i] = "forget" \/ i \in unseen \cup lateList \/ staleLoad
    /\ twice \subseteq ahead

Paper == INSTANCE PaperBook WITH
    Trades <- Ids,
    status <- [i \in Ids |-> rows[i].st],
    tradeOf <- [i \in Ids |-> rows[i].und],
    figure <- {i \in Ids : rows[i].mg}

\* Whatever is lost, duplicated, restarted or closed elsewhere, storage behaves
\* as the abstract paper book.
ImplementsPaperBook == Paper!PaperSpec

\* What the engine shows, held positions and today's list, is what is stored.
BookAgrees == HeldAgrees /\ TodayAgrees

-----------------------------------------------------------------------------
(* The inductive invariant behind BookAgrees and ImplementsPaperBook        *)

Row == [st : {"none", "open", "closed", "deleted"}, und : BookKeys, day : Nat, mg : BOOLEAN]
BookTypeOK ==
    /\ rows \in [Ids -> Row] /\ today \in Nat
    /\ held \subseteq Ids /\ closedIDs \subseteq Ids /\ closedToday \subseteq Ids
    /\ twice \subseteq Ids
    /\ load \in [at : {"settings", "open", "adopt", "closed", "merge", "index", "ready"},
                 rows : SUBSET Ids, day : Nat]
    /\ entry \in [BookKeys -> [at : {"none", "insert", "opened", "reload", "adopt"}, id : 0 .. MaxIds,
                               rows : SUBSET Ids]]
    /\ exits \in [Ids -> [at : {"none", "close", "closed", "beaten", "lost", "list", "delete", "deleted"},
                          day : Nat]]
    /\ purge \in [Ids -> {"none", "get", "mark", "forget"}]
    /\ marginJob \in [Ids -> {"none", "ask", "write"}]

\* No day is ahead of the calendar.
DaysPassed == closedDay \in 0 .. today /\ load.day <= today /\ \A i \in Ids : exits[i].day <= today

\* A row is without a margin figure before it exists, and a job for one is of a trade that does.
FiguresOfRows ==
    /\ \A i \in Ids : rows[i].st = "none" => ~rows[i].mg
    /\ \A i \in Ids : marginJob[i] # "none" => rows[i].st # "none"

\* An id belongs to one entry, and to no row until that entry's insert.
IdsFresh ==
    /\ \A u \in BookKeys : entry[u].at \in {"insert", "opened"} => entry[u].id \in Ids
    /\ \A u \in BookKeys : entry[u].at = "insert" => rows[entry[u].id].st = "none"
    /\ \A u, v \in BookKeys : entry[u].id = entry[v].id /\ entry[u].id # NoId => u = v
    /\ \A u \in BookKeys : entry[u].at # "none" => load.at = "ready"

\* A row read as open still is, or it is being or was closed or deleted here, or it is missed.
StillOpen(i) ==
    /\ rows[i].st # "none"
    /\ \/ rows[i].st = "open" \/ exits[i].at \in {"closed", "deleted"}
       \/ i \in closedIDs \cup deletedIDs \cup unseen \/ staleLoad

\* A row read as closed still is, or its delete is at the door of the lists.
StillClosed(i) ==
    /\ rows[i].st \in {"closed", "deleted"}
    /\ rows[i].st = "closed" \/ purge[i] = "forget" \/ i \in unseen

\* A position is open, at its end, or known to be missed, held while it is closed, and never held
\* again once it is known to be closed.
Excused(i) == exits[i].at \in {"closed", "deleted"} \/ i \in unseen \cup ahead \/ staleLoad

HeldOK(i) ==
    /\ i \in held => (i \notin closedIDs \/ i \in ahead) /\ (rows[i].st = "open" \/ Excused(i))
    /\ i \in held \cup closedIDs => rows[i].st # "none"
    /\ exits[i].at \in {"close", "closed", "beaten", "delete", "deleted"} => i \in held

\* A trade that is stored and not yet in memory is nobody's to close, unless it was read back.
OpenedOK(i) ==
    opening(i) =>
        /\ rows[i].st # "none"
        /\ i \in ahead \/ (i \notin held \cup closedIDs /\ (rows[i].st = "open" \/ i \in unseen))

\* A close that landed has closed its row, on its day; one that was beaten, and a delete, found or
\* left it otherwise; and nobody has listed the trade but a load that read it back.
LandedOK(i) ==
    /\ exits[i].at = "closed" =>
          /\ rows[i].st \in {"closed", "deleted"} /\ (StillClosed(i) \/ i \in lateList)
          /\ rows[i].st = "closed" => rows[i].day = exits[i].day
          /\ i \in closedToday => i \in ahead
    /\ exits[i].at = "beaten" => rows[i].st \in {"closed", "deleted"}
    /\ exits[i].at = "deleted" => rows[i].st = "deleted"
    /\ i \in twice => i \in ahead

\* What is listed, or about to be, is closed; what was closed here today is listed.  Until the
\* load has set the day it read the list's day only goes forward: no close is of a later one.
ListOK(i) ==
    /\ i \in closedToday => rows[i].st \in {"closed", "deleted"} /\ (StillClosed(i) \/ i \in lateList \/ staleLoad)
    /\ exits[i].at = "list" => rows[i].st \in {"closed", "deleted"} /\ (StillClosed(i) \/ i \in lateList)
    /\ purge[i] = "forget" => rows[i].st = "deleted"
    /\ (exits[i].at \in {"close", "closed"} /\ load.at \notin {"index", "ready"}) => exits[i].day <= closedDay
    /\ (i \in closedIDs \ unseen /\ exits[i].at \in {"none", "close", "delete"} /\ rows[i].st = "closed") =>
          /\ load.at \notin {"index", "ready"} => rows[i].day <= closedDay
          /\ (rows[i].day = today /\ closedDay = today) => i \in closedToday

\* The rows a load or a refused entry has in hand.
ReadsOK(i) ==
    /\ (load.at = "adopt" /\ i \in load.rows) => StillOpen(i)
    /\ \A u \in BookKeys : (entry[u].at = "adopt" /\ i \in entry[u].rows) => StillOpen(i)
    /\ (load.at = "merge" /\ i \in load.rows) =>
          rows[i].st \in {"closed", "deleted"} /\ (StillClosed(i) \/ i \in deletedIDs \/ staleLoad)

TradeOK(i) == HeldOK(i) /\ OpenedOK(i) /\ LandedOK(i) /\ ListOK(i) /\ ReadsOK(i)

BookIInv ==
    /\ BookTypeOK /\ DaysPassed /\ FiguresOfRows /\ IdsFresh
    /\ \A i \in Ids : TradeOK(i)
=============================================================================
