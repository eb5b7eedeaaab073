----------------------------- MODULE SynthProofs ----------------------------
(***************************************************************************)
(* Proofs about the synthetic engine, for every value of its constants:    *)
(* the paper book under failing storage calls, midnights, closes by        *)
(* another process and restarts; the settings and their turns; the browser *)
(* streams; and the scanner's share of the lane across broker switches.    *)
(***************************************************************************)
EXTENDS SynthBook, SynthSettings, SynthStream, SynthLane, SequenceTheorems, FiniteSetTheorems, TLAPS

-----------------------------------------------------------------------------
(* Storage calls                                                           *)

\* An insert adds one open row without a margin figure.
LEMMA Inserted ==
    ASSUME BookTypeOK, NEW i \in Ids, NEW u \in BookKeys, InsertRow(i, u)
    PROVE  /\ rows' \in [Ids -> Row]
           /\ rows'[i].st = "open" /\ rows'[i].und = u /\ ~rows'[i].mg
           /\ \A j \in Ids \ {i} : rows'[j] = rows[j]
  <1>1. [st |-> "open", und |-> u, day |-> 0, mg |-> FALSE] \in Row
    BY DEF Row
  <1> QED BY <1>1 DEF BookTypeOK, InsertRow

\* A close that finds its row open changes its status and its day.
LEMMA Closed ==
    ASSUME BookTypeOK, NEW i \in Ids, NEW day \in Nat, CloseRow(i, day), rows[i].st = "open"
    PROVE  /\ rows' \in [Ids -> Row]
           /\ rows'[i].st = "closed" /\ rows'[i].day = day
           /\ \A j \in Ids : rows'[j].und = rows[j].und /\ rows'[j].mg = rows[j].mg
           /\ \A j \in Ids \ {i} : rows'[j] = rows[j]
  <1> DEFINE r == [[rows[i] EXCEPT !.st = "closed"] EXCEPT !.day = day]
  <1>1. rows[i] \in Row
    BY DEF BookTypeOK
  <1>2. r \in Row /\ r.st = "closed" /\ r.day = day /\ r.und = rows[i].und /\ r.mg = rows[i].mg
    BY <1>1 DEF Row
  <1>3. rows' = [rows EXCEPT ![i] = r]
    BY DEF BookTypeOK, CloseRow
  <1> HIDE DEF r
  <1> QED BY <1>2, <1>3 DEF BookTypeOK

\* A delete that finds its row in the status it expects changes only that status.
LEMMA Deleted ==
    ASSUME BookTypeOK, NEW i \in Ids, DeleteRow(i, rows[i].st)
    PROVE  /\ rows' \in [Ids -> Row]
           /\ rows'[i].st = "deleted"
           /\ \A j \in Ids : rows'[j].und = rows[j].und /\ rows'[j].mg = rows[j].mg
           /\ \A j \in Ids \ {i} : rows'[j] = rows[j]
  <1> DEFINE r == [rows[i] EXCEPT !.st = "deleted"]
  <1>1. rows[i] \in Row
    BY DEF BookTypeOK
  <1>2. r \in Row /\ r.st = "deleted" /\ r.und = rows[i].und /\ r.mg = rows[i].mg
    BY <1>1 DEF Row
  <1>3. rows' = [rows EXCEPT ![i] = r]
    BY DEF BookTypeOK, DeleteRow
  <1> HIDE DEF r
  <1> QED BY <1>2, <1>3 DEF BookTypeOK

\* A figure is all that the margin job changes, and never of a deleted row.
LEMMA Figured ==
    ASSUME BookTypeOK, NEW i \in Ids, SetMargin(i, TRUE) \/ SetMargin(i, FALSE)
    PROVE  /\ rows' \in [Ids -> Row]
           /\ \A j \in Ids : /\ rows'[j].st = rows[j].st
                             /\ rows'[j].und = rows[j].und /\ rows'[j].day = rows[j].day
           /\ \A j \in Ids \ {i} : rows'[j] = rows[j]
           /\ rows[i].st = "deleted" => rows' = rows
  <1>1. rows[i] \in Row
    BY DEF BookTypeOK
  <1>2. CASE rows[i].st = "deleted"
    BY <1>2 DEF SetMargin, BookTypeOK
  <1>3. ASSUME NEW f \in {TRUE, FALSE}, rows[i].st # "deleted", SetMargin(i, f)
        PROVE  /\ rows' \in [Ids -> Row]
               /\ \A j \in Ids : /\ rows'[j].st = rows[j].st
                                 /\ rows'[j].und = rows[j].und /\ rows'[j].day = rows[j].day
               /\ \A j \in Ids \ {i} : rows'[j] = rows[j]
    <2> DEFINE r == [rows[i] EXCEPT !.mg = f]
    <2>1. r \in Row /\ r.st = rows[i].st /\ r.und = rows[i].und /\ r.day = rows[i].day
      BY <1>1 DEF Row
    <2>2. rows' = [rows EXCEPT ![i] = r]
      BY <1>3 DEF BookTypeOK, SetMargin
    <2> HIDE DEF r
    <2> QED BY <2>1, <2>2 DEF BookTypeOK
  <1> QED BY <1>2, <1>3

-----------------------------------------------------------------------------
(* One trade at a time                                                     *)

\* The step changes nothing of any other trade, of the days, the load and the entries.
OnlyTouches(i) ==
    /\ UNCHANGED <<today, closedDay, load, entry, staleLoad>>
    /\ \A j \in Ids \ {i} : /\ rows'[j] = rows[j] /\ exits'[j] = exits[j]
                            /\ purge'[j] = purge[j] /\ marginJob'[j] = marginJob[j]
    /\ held' \ {i} = held \ {i} /\ closedIDs' \ {i} = closedIDs \ {i}
    /\ deletedIDs' \ {i} = deletedIDs \ {i} /\ closedToday' \ {i} = closedToday \ {i}
    /\ unseen' \ {i} = unseen \ {i} /\ lateList' \ {i} = lateList \ {i}
    /\ twice' \ {i} = twice \ {i} /\ ahead' = ahead

\* A trade that no step touches stays as the invariant says, while no entry or load moves.
LEMMA Untouched ==
    ASSUME NEW j, TradeOK(j), UNCHANGED <<today, closedDay, load, entry, staleLoad>>,
           rows'[j] = rows[j], exits'[j] = exits[j], purge'[j] = purge[j],
           j \in held' <=> j \in held, j \in closedIDs' <=> j \in closedIDs,
           j \in deletedIDs' <=> j \in deletedIDs, j \in closedToday' <=> j \in closedToday,
           j \in unseen' <=> j \in unseen, j \in lateList' <=> j \in lateList,
           j \in twice' <=> j \in twice, ahead' = ahead
    PROVE  TradeOK(j)'
  <1>1. HeldOK(j) /\ OpenedOK(j) /\ LandedOK(j) /\ ListOK(j) /\ ReadsOK(j)
    BY DEF TradeOK
  <1>2. HeldOK(j)'
    BY <1>1 DEF HeldOK, Excused
  <1>3. OpenedOK(j)'
    BY <1>1 DEF OpenedOK, opening
  <1>4. LandedOK(j)'
    BY <1>1 DEF LandedOK, StillClosed
  <1>5. ListOK(j)'
    BY <1>1 DEF ListOK, StillClosed
  <1>6. ReadsOK(j)'
    BY <1>1 DEF ReadsOK, StillOpen, StillClosed
  <1> QED BY <1>2, <1>3, <1>4, <1>5, <1>6 DEF TradeOK

\* Such a step keeps the invariant when it keeps what the invariant says of its own trade.
LEMMA OneTrade ==
    ASSUME BookIInv, BookTypeOK', NEW i \in Ids, OnlyTouches(i),
           rows'[i].st = "none" <=> rows[i].st = "none",
           rows'[i].st = "none" => rows'[i].mg = rows[i].mg,
           marginJob'[i] # "none" => rows[i].st # "none",
           exits'[i].day <= today,
           TradeOK(i)'
    PROVE  BookIInv'
  <1> USE DEF BookIInv
  <1>1. DaysPassed'
    BY DEF DaysPassed, OnlyTouches
  <1>2. FiguresOfRows'
    <2>1. ASSUME NEW j \in Ids PROVE rows'[j].st = "none" => ~rows'[j].mg
      <3>1. CASE j = i
        BY <3>1 DEF FiguresOfRows
      <3>2. CASE j # i
        BY <3>2 DEF FiguresOfRows, OnlyTouches
      <3> QED BY <3>1, <3>2
    <2>2. \A j \in Ids : marginJob'[j] # "none" => rows'[j].st # "none"
      BY DEF FiguresOfRows, OnlyTouches
    <2> QED BY <2>1, <2>2 DEF FiguresOfRows
  <1>3. IdsFresh'
    BY DEF IdsFresh, OnlyTouches
  <1>4. ASSUME NEW j \in Ids \ {i} PROVE TradeOK(j)'
    <2>1. /\ rows'[j] = rows[j] /\ exits'[j] = exits[j] /\ purge'[j] = purge[j]
          /\ (j \in held' <=> j \in held) /\ (j \in closedIDs' <=> j \in closedIDs)
          /\ (j \in deletedIDs' <=> j \in deletedIDs) /\ (j \in closedToday' <=> j \in closedToday)
          /\ (j \in unseen' <=> j \in unseen) /\ (j \in lateList' <=> j \in lateList)
          /\ (j \in twice' <=> j \in twice) /\ ahead' = ahead
          /\ UNCHANGED <<today, closedDay, load, entry, staleLoad>>
      BY DEF OnlyTouches
    <2> QED BY <2>1, Untouched
  <1> QED BY <1>1, <1>2, <1>3, <1>4

-----------------------------------------------------------------------------
(* Closes and deletes                                                      *)

\* A close or a delete of a held position starts: it is of today, and the position stays held.
LEMMA finalizeKeeps ==
    ASSUME BookIInv, BookTypeOK', NEW i \in Ids, finalize(i) \/ DeleteOpen(i)
    PROVE  BookIInv'
  <1> USE DEF BookIInv, storeVars, memoryVars, historyVars
  <1>1. /\ i \in held /\ exits[i].at = "none"
        /\ exits'[i].at = "delete" \/ (exits'[i].at = "close" /\ closedDay = today)
        /\ exits'[i].day \in {0, today} /\ \A j \in Ids \ {i} : exits'[j] = exits[j]
        /\ UNCHANGED <<rows, today, held, closedIDs, deletedIDs, closedToday, twice, closedDay, load, entry,
                       purge, marginJob, unseen, staleLoad, lateList, ahead>>
    BY DEF finalize, DeleteOpen, NoExit, closing, BookTypeOK
  <1>2. TradeOK(i) /\ OnlyTouches(i)
    BY <1>1 DEF OnlyTouches
  <1>3. HeldOK(i)' /\ OpenedOK(i)' /\ LandedOK(i)'
    BY <1>1, <1>2 DEF TradeOK, HeldOK, OpenedOK, opening, LandedOK, Excused, StillClosed
  <1>4. ListOK(i)' /\ ReadsOK(i)'
    BY <1>1, <1>2 DEF TradeOK, ListOK, ReadsOK, StillOpen, StillClosed, BookTypeOK
  <1> QED BY <1>1, <1>2, <1>3, <1>4, OneTrade DEF FiguresOfRows, BookTypeOK, TradeOK

\* The update lands: it closes an open row, which nothing has listed, or finds it closed or deleted.
LEMMA CloseLandsKeeps ==
    ASSUME BookIInv, BookTypeOK', NEW i \in Ids, CloseLands(i)
    PROVE  BookIInv'
  <1> USE DEF BookIInv, memoryVars, historyVars
  <1>1. /\ exits[i].at = "close" /\ CloseRow(i, exits[i].day)
        /\ UNCHANGED <<today, held, closedIDs, deletedIDs, closedToday, twice, closedDay, load, entry,
                       purge, marginJob, unseen, staleLoad, lateList, ahead>>
    BY DEF CloseLands
  <1>2. /\ exits'[i].at = IF rows[i].st = "open" THEN "closed" ELSE "beaten"
        /\ exits'[i].day = exits[i].day /\ \A j \in Ids \ {i} : exits'[j] = exits[j]
        /\ exits[i].day \in Nat /\ exits[i].day <= today
    BY DEF CloseLands, BookTypeOK, DaysPassed
  <1>3. /\ \A j \in Ids \ {i} : rows'[j] = rows[j]
        /\ \/ rows[i].st = "open" /\ rows'[i].st = "closed" /\ rows'[i].day = exits[i].day
           \/ rows[i].st \in {"none", "closed", "deleted"} /\ rows'[i] = rows[i]
    <2>1. CASE rows[i].st = "open"
      BY <1>1, <1>2, <2>1, Closed
    <2>2. CASE rows[i].st # "open"
      BY <1>1, <2>2 DEF CloseRow, BookTypeOK, Row
    <2> QED BY <2>1, <2>2
  <1>4. TradeOK(i) /\ OnlyTouches(i)
    BY <1>1, <1>2, <1>3 DEF OnlyTouches
  <1>5. HeldOK(i)' /\ OpenedOK(i)' /\ LandedOK(i)'
    BY <1>1, <1>2, <1>3, <1>4 DEF TradeOK, HeldOK, OpenedOK, opening, LandedOK, ListOK, Excused, StillClosed
  <1>6. ListOK(i)' /\ ReadsOK(i)'
    BY <1>1, <1>2, <1>3, <1>4 DEF TradeOK, ListOK, ReadsOK, StillOpen, StillClosed
  <1>7. rows[i].st # "none"
    BY <1>1, <1>4 DEF TradeOK, HeldOK
  <1> QED BY <1>1, <1>2, <1>3, <1>4, <1>5, <1>6, <1>7, OneTrade DEF FiguresOfRows, TradeOK

\* The close was answered: the position leaves memory and, when it is of the list's day, joins
\* the list, on which it stands already only if a load read the row before.
LEMMA CloseWonKeeps ==
    ASSUME BookIInv, BookTypeOK', NEW i \in Ids, finishFinalize(i), CloseWon(i)
    PROVE  BookIInv'
  <1> USE DEF BookIInv, storeVars
  <1>1. /\ exits[i].at = "closed"
        /\ held' = held \ {i} /\ closedIDs' = closedIDs \cup {i} /\ closedToday \subseteq closedToday'
        /\ closedToday' \subseteq closedToday \cup {i} /\ (exits[i].day = closedDay => i \in closedToday')
        /\ twice' \ {i} = twice \ {i} /\ (i \in twice' => i \in twice \cup closedToday)
        /\ UNCHANGED <<rows, today, deletedIDs, closedDay, load, entry, purge, marginJob, unseen, staleLoad,
                       lateList, ahead>>
    BY DEF finishFinalize, CloseWon, ForgetPosition
  <1>2. /\ exits'[i].at = "none" /\ exits'[i].day = 0 /\ \A j \in Ids \ {i} : exits'[j] = exits[j]
        /\ exits[i].day \in Nat /\ exits[i].day <= today
    BY DEF CloseWon, NoExit, BookTypeOK, DaysPassed
  <1>4. TradeOK(i) /\ OnlyTouches(i)
    BY <1>1, <1>2 DEF OnlyTouches
  <1>5. HeldOK(i)' /\ OpenedOK(i)' /\ LandedOK(i)'
    BY <1>1, <1>2, <1>4 DEF TradeOK, HeldOK, OpenedOK, opening, LandedOK, Excused, StillClosed
  <1>6. ListOK(i)' /\ ReadsOK(i)'
    BY <1>1, <1>2, <1>4 DEF TradeOK, LandedOK, ListOK, ReadsOK, StillOpen, StillClosed
  <1> QED BY <1>1, <1>2, <1>4, <1>5, <1>6, OneTrade DEF FiguresOfRows, BookTypeOK, TradeOK

\* The row was closed elsewhere: the position leaves memory, and the row is to be read again.
LEMMA CloseLostKeeps ==
    ASSUME BookIInv, BookTypeOK', NEW i \in Ids, finishFinalize(i), CloseLost(i)
    PROVE  BookIInv'
  <1> USE DEF BookIInv, storeVars
  <1>1. /\ exits[i].at = "beaten" /\ rows' = rows
        /\ held' = held \ {i} /\ closedIDs' = closedIDs \cup {i}
        /\ unseen' \subseteq unseen /\ unseen \subseteq unseen' \cup {i} /\ (rows[i].st = "closed" \/ unseen' = unseen)
        /\ UNCHANGED <<today, closedToday, twice, deletedIDs, closedDay, load, entry, purge, marginJob,
                       staleLoad, lateList, ahead>>
    BY DEF finishFinalize, CloseLost, ForgetPosition
  <1>2. /\ exits'[i].at = "lost" /\ exits'[i].day = exits[i].day /\ \A j \in Ids \ {i} : exits'[j] = exits[j]
    BY DEF CloseLost, BookTypeOK
  <1>4. TradeOK(i) /\ OnlyTouches(i)
    BY <1>1, <1>2 DEF OnlyTouches
  <1>5. HeldOK(i)' /\ OpenedOK(i)' /\ LandedOK(i)'
    BY <1>1, <1>2, <1>4 DEF TradeOK, HeldOK, OpenedOK, opening, LandedOK, Excused, StillClosed
  <1>6. ListOK(i)' /\ ReadsOK(i)'
    BY <1>1, <1>2, <1>4 DEF TradeOK, ListOK, ReadsOK, StillOpen, StillClosed
  <1> QED BY <1>1, <1>2, <1>4, <1>5, <1>6, OneTrade DEF FiguresOfRows, DaysPassed, TradeOK

\* No answer to the close; if it landed all the same, the row is one this process does not know of.
LEMMA closeFailedKeeps ==
    ASSUME BookIInv, BookTypeOK', NEW i \in Ids, finishFinalize(i), closeFailed(i)
    PROVE  BookIInv'
  <1> USE DEF BookIInv, storeVars
  <1>1. /\ exits[i].at \in {"close", "closed"}
        /\ unseen' = IF exits[i].at = "closed" THEN unseen \cup {i} ELSE unseen
        /\ UNCHANGED <<rows, today, held, closedIDs, closedToday, twice, deletedIDs, closedDay, load, entry, purge,
                       marginJob, staleLoad, lateList, ahead>>
    BY DEF finishFinalize, closeFailed
  <1>2. /\ exits'[i].at = "none" /\ exits'[i].day = 0 /\ \A j \in Ids \ {i} : exits'[j] = exits[j]
    BY DEF closeFailed, NoExit, BookTypeOK
  <1>4. TradeOK(i) /\ OnlyTouches(i)
    BY <1>1, <1>2 DEF OnlyTouches
  <1>5. HeldOK(i)' /\ OpenedOK(i)' /\ LandedOK(i)'
    BY <1>1, <1>2, <1>4 DEF TradeOK, HeldOK, OpenedOK, opening, LandedOK, Excused, StillClosed
  <1>6. ListOK(i)' /\ ReadsOK(i)'
    BY <1>1, <1>2, <1>4 DEF TradeOK, ListOK, ReadsOK, StillOpen, StillClosed
  <1> QED BY <1>1, <1>2, <1>4, <1>5, <1>6, OneTrade DEF FiguresOfRows, BookTypeOK, TradeOK

\* The delete of an open row lands: nothing has listed the trade, and its position stays held.
LEMMA DeleteLandsKeeps ==
    ASSUME BookIInv, BookTypeOK', NEW i \in Ids, DeleteLands(i)
    PROVE  BookIInv'
  <1> USE DEF BookIInv, memoryVars, historyVars
  <1>1. /\ exits[i].at = "delete" /\ rows[i].st = "open" /\ DeleteRow(i, rows[i].st)
        /\ UNCHANGED <<today, held, closedIDs, deletedIDs, closedToday, twice, closedDay, load, entry,
                       purge, marginJob, unseen, staleLoad, lateList, ahead>>
    BY DEF DeleteLands
  <1>2. /\ exits'[i].at = "deleted" /\ exits'[i].day = exits[i].day /\ \A j \in Ids \ {i} : exits'[j] = exits[j]
    BY DEF DeleteLands, BookTypeOK
  <1>3. rows'[i].st = "deleted" /\ \A j \in Ids \ {i} : rows'[j] = rows[j]
    BY <1>1, Deleted
  <1>4. TradeOK(i) /\ OnlyTouches(i)
    BY <1>1, <1>2, <1>3 DEF OnlyTouches
  <1>5. HeldOK(i)' /\ OpenedOK(i)' /\ LandedOK(i)'
    BY <1>1, <1>2, <1>3, <1>4 DEF TradeOK, HeldOK, OpenedOK, opening, LandedOK, Excused, StillClosed
  <1>6. ListOK(i)' /\ ReadsOK(i)'
    BY <1>1, <1>2, <1>3, <1>4 DEF TradeOK, ListOK, ReadsOK, StillOpen, StillClosed
  <1> QED BY <1>1, <1>2, <1>3, <1>4, <1>5, <1>6, OneTrade DEF FiguresOfRows, DaysPassed, TradeOK

\* The delete of a held position ends: known, it leaves memory for good; unknown, it is missed.
LEMMA DeleteOpenEndsKeeps ==
    ASSUME BookIInv, BookTypeOK', NEW i \in Ids, DeleteOpenEnds(i)
    PROVE  BookIInv'
  <1> USE DEF BookIInv, storeVars
  <1>1. /\ exits[i].at \in {"delete", "deleted"}
        /\ UNCHANGED <<rows, today, closedToday, twice, closedDay, load, entry, purge, marginJob, staleLoad,
                       lateList, ahead>>
    BY DEF DeleteOpenEnds
  <1>2. /\ exits'[i].at = "none" /\ exits'[i].day = 0 /\ \A j \in Ids \ {i} : exits'[j] = exits[j]
    BY DEF DeleteOpenEnds, NoExit, BookTypeOK
  <1>3. \/ /\ rows[i].st = "deleted" /\ unseen' = unseen
           /\ held' = held \ {i} /\ closedIDs' = closedIDs \cup {i} /\ deletedIDs' = deletedIDs \cup {i}
        \/ /\ rows[i].st = "closed" /\ UNCHANGED <<held, closedIDs, deletedIDs, unseen>>
        \/ /\ unseen' = IF exits[i].at = "deleted" THEN unseen \cup {i} ELSE unseen
           /\ UNCHANGED <<held, closedIDs, deletedIDs>>
    BY DEF DeleteOpenEnds, forgetOpen, ForgetPosition
  <1>4. TradeOK(i) /\ OnlyTouches(i)
    BY <1>1, <1>2, <1>3 DEF OnlyTouches
  <1>5. HeldOK(i)' /\ OpenedOK(i)' /\ LandedOK(i)'
    BY <1>1, <1>2, <1>3, <1>4 DEF TradeOK, HeldOK, OpenedOK, opening, LandedOK, Excused, StillClosed
  <1>6. ListOK(i)' /\ ReadsOK(i)'
    BY <1>1, <1>2, <1>3, <1>4 DEF TradeOK, LandedOK, ListOK, ReadsOK, StillOpen, StillClosed
  <1> QED BY <1>1, <1>2, <1>4, <1>5, <1>6, OneTrade DEF FiguresOfRows, BookTypeOK, TradeOK

\* What a caller of markDeletedReconciled may rely on: a known delete is stored, and an
\* unknown one either did nothing or is remembered as missed.
LEMMA Reconciled ==
    ASSUME BookTypeOK, NEW i \in Ids, NEW known \in BOOLEAN, markDeletedReconciled(i, known)
    PROVE  /\ \/ rows' = rows
              \/ rows[i].st = "closed" /\ rows'[i].st = "deleted" /\ \A j \in Ids \ {i} : rows'[j] = rows[j]
           /\ known => rows'[i].st = "deleted" /\ unseen' = unseen
           /\ ~known => unseen' \in {unseen, unseen \cup {i}} /\ (rows' = rows \/ i \in unseen')
  <1>1. DeleteRow(i, "closed") \/ rows' = rows
    BY DEF markDeletedReconciled
  <1>2. \/ rows' = rows
        \/ rows[i].st = "closed" /\ rows'[i].st = "deleted" /\ \A j \in Ids \ {i} : rows'[j] = rows[j]
    <2>1. CASE rows[i].st = "closed" /\ DeleteRow(i, "closed")
      BY <2>1, Deleted
    <2>2. CASE ~(rows[i].st = "closed" /\ DeleteRow(i, "closed"))
      BY <1>1, <2>2 DEF DeleteRow
    <2> QED BY <2>1, <2>2
  <1>3. CASE known
    <2>1. (known = (rows'[i].st = "deleted")) /\ unseen' = unseen
      BY <1>3, Zenon DEF markDeletedReconciled
    <2> QED BY <1>2, <1>3, <2>1
  <1>4. CASE ~known
    <2>1. \/ (known = (rows'[i].st = "deleted")) /\ unseen' = unseen
          \/ unseen' = unseen \cup {i}
      BY <1>4, Zenon DEF markDeletedReconciled
    <2> QED BY <1>2, <1>4, <2>1
  <1> QED BY <1>3, <1>4

\* The delete of a closed trade ends: known, it is at the door of the lists.
LEMMA DeleteMarkKeeps ==
    ASSUME BookIInv, BookTypeOK', NEW i \in Ids, DeleteMark(i)
    PROVE  BookIInv'
  <1> USE DEF BookIInv, memoryVars
  <1>1. /\ purge[i] = "mark"
        /\ UNCHANGED <<today, held, closedIDs, deletedIDs, closedToday, twice, closedDay, load, entry, exits,
                       marginJob, staleLoad, lateList, ahead>>
    BY DEF DeleteMark
  <1>3. PICK known \in BOOLEAN :
            /\ markDeletedReconciled(i, known)
            /\ purge' = [purge EXCEPT ![i] = IF known THEN "forget" ELSE "none"]
    BY DEF DeleteMark
  <1>4. \/ rows' = rows
        \/ rows[i].st = "closed" /\ rows'[i].st = "deleted" /\ \A j \in Ids \ {i} : rows'[j] = rows[j]
    BY <1>3, Reconciled
  <1>5. /\ \A j \in Ids \ {i} : purge'[j] = purge[j]
        /\ \/ rows'[i].st = "deleted" /\ unseen' = unseen /\ purge'[i] = "forget"
           \/ (rows' = rows \/ i \in unseen') /\ unseen' \in {unseen, unseen \cup {i}} /\ purge'[i] = "none"
    <2>1. /\ \A j \in Ids \ {i} : purge'[j] = purge[j]
          /\ purge'[i] = IF known THEN "forget" ELSE "none"
      BY <1>3 DEF BookTypeOK
    <2>2. CASE known
      BY <1>3, <2>1, <2>2, Reconciled
    <2>3. CASE ~known
      BY <1>3, <2>1, <2>3, Reconciled
    <2> QED BY <2>1, <2>2, <2>3
  <1> HIDE <1>3
  <1>6. TradeOK(i) /\ OnlyTouches(i)
    BY <1>1, <1>4, <1>5 DEF OnlyTouches
  <1>7. HeldOK(i)' /\ OpenedOK(i)' /\ LandedOK(i)'
    BY <1>1, <1>4, <1>5, <1>6 DEF TradeOK, HeldOK, OpenedOK, opening, LandedOK, Excused, StillClosed
  <1>12. ListOK(i)' /\ ReadsOK(i)'
    BY <1>1, <1>4, <1>5, <1>6 DEF TradeOK, LandedOK, ListOK, ReadsOK, StillOpen, StillClosed
  <1> QED BY <1>1, <1>4, <1>5, <1>6, <1>7, <1>12, OneTrade DEF FiguresOfRows, DaysPassed, TradeOK

\* The row of a lost race is read: closed it is to be listed, unread it is missed.
LEMMA LostReadKeeps ==
    ASSUME BookIInv, BookTypeOK', NEW i \in Ids, LostRead(i)
    PROVE  BookIInv'
  <1> USE DEF BookIInv, storeVars, memoryVars
  <1>1. /\ exits[i].at = "lost" /\ unseen' \in {unseen, unseen \cup {i}}
        /\ UNCHANGED <<rows, today, held, closedIDs, deletedIDs, closedToday, twice, closedDay, load, entry,
                       purge, marginJob, staleLoad, lateList, ahead>>
    BY DEF LostRead, Answers
  <1>2. /\ exits'[i].at \in {"none", "list"} /\ exits'[i].day \in {0, exits[i].day}
        /\ exits'[i].at = "list" => rows[i].st = "closed"
        /\ exits'[i].at = "none" => rows[i].st # "closed" \/ i \in unseen'
        /\ \A j \in Ids \ {i} : exits'[j] = exits[j]
    BY DEF LostRead, Get, NoExit, BookTypeOK
  <1>3. TradeOK(i) /\ OnlyTouches(i)
    BY <1>1, <1>2 DEF OnlyTouches
  <1>4. HeldOK(i)' /\ OpenedOK(i)' /\ LandedOK(i)'
    BY <1>1, <1>2, <1>3 DEF TradeOK, HeldOK, OpenedOK, opening, LandedOK, Excused, StillClosed
  <1>9. ListOK(i)' /\ ReadsOK(i)'
    BY <1>1, <1>2, <1>3 DEF TradeOK, LandedOK, ListOK, ReadsOK, StillOpen, StillClosed
  <1> QED BY <1>1, <1>2, <1>3, <1>4, <1>9, OneTrade DEF FiguresOfRows, DaysPassed, BookTypeOK, TradeOK

\* It is listed when it is of the list's day.
LEMMA LostListKeeps ==
    ASSUME BookIInv, BookTypeOK', NEW i \in Ids, LostList(i)
    PROVE  BookIInv'
  <1> USE DEF BookIInv, storeVars
  <1>1. /\ exits[i].at = "list" /\ closedToday' \in {closedToday, closedToday \cup {i}}
        /\ unseen' \in {unseen, unseen \cup {i}} /\ (i \in closedToday' \/ i \in unseen')
        /\ UNCHANGED <<rows, today, held, closedIDs, deletedIDs, twice, closedDay, load, entry, purge,
                       marginJob, staleLoad, lateList, ahead>>
        /\ i \in closedToday' /\ i \notin unseen' => i \in closedToday \/ rows[i].day = closedDay
    BY DEF LostList
  <1>2. exits'[i].at = "none" /\ exits'[i].day = 0 /\ \A j \in Ids \ {i} : exits'[j] = exits[j]
    BY DEF LostList, NoExit, BookTypeOK
  <1>3. i \in unseen' \/ rows[i].day = closedDay
    BY DEF LostList
  <1>4. TradeOK(i) /\ OnlyTouches(i)
    BY <1>1, <1>2 DEF OnlyTouches
  <1>5. HeldOK(i)' /\ OpenedOK(i)' /\ LandedOK(i)'
    BY <1>1, <1>2, <1>3, <1>4 DEF TradeOK, HeldOK, OpenedOK, opening, LandedOK, Excused, StillClosed
  <1>10. ListOK(i)' /\ ReadsOK(i)'
    BY <1>1, <1>2, <1>3, <1>4 DEF TradeOK, LandedOK, ListOK, ReadsOK, StillOpen, StillClosed, BookTypeOK, DaysPassed
  <1> QED BY <1>1, <1>2, <1>4, <1>5, <1>10, OneTrade DEF FiguresOfRows, BookTypeOK, TradeOK

\* The row of a trade to delete is asked for and read; only a deleted one is to be forgotten.
LEMMA DeleteReadKeeps ==
    ASSUME BookIInv, BookTypeOK', NEW i \in Ids, DeleteStored(i) \/ DeleteRead(i)
    PROVE  BookIInv'
  <1> USE DEF BookIInv, storeVars, memoryVars, historyVars
  <1>1. /\ purge[i] # "forget" /\ (purge'[i] = "forget" => rows[i].st = "deleted")
        /\ \A j \in Ids \ {i} : purge'[j] = purge[j]
        /\ UNCHANGED <<rows, today, held, closedIDs, deletedIDs, closedToday, twice, closedDay, load, entry,
                       exits, marginJob, unseen, staleLoad, lateList, ahead>>
    BY DEF DeleteStored, DeleteRead, Get, BookTypeOK
  <1>2. TradeOK(i) /\ OnlyTouches(i)
    BY <1>1 DEF OnlyTouches
  <1>3. HeldOK(i)' /\ OpenedOK(i)' /\ LandedOK(i)'
    BY <1>1, <1>2 DEF TradeOK, HeldOK, OpenedOK, opening, LandedOK, Excused, StillClosed
  <1>8. ListOK(i)' /\ ReadsOK(i)'
    BY <1>1, <1>2 DEF TradeOK, LandedOK, ListOK, ReadsOK, StillOpen, StillClosed
  <1> QED BY <1>1, <1>2, <1>3, <1>8, OneTrade DEF FiguresOfRows, DaysPassed, TradeOK

\* A deleted trade leaves the list; a lost race about to list it is remembered.
LEMMA forgetClosedKeeps ==
    ASSUME BookIInv, BookTypeOK', NEW i \in Ids, forgetClosed(i)
    PROVE  BookIInv'
  <1> USE DEF BookIInv, storeVars
  <1>1. /\ purge[i] = "forget" /\ deletedIDs' = deletedIDs \cup {i} /\ closedToday' = closedToday \ {i}
        /\ twice' = twice \ {i}
        /\ lateList' \in {lateList, lateList \cup {i}} /\ (exits[i].at \in {"closed", "list"} => i \in lateList')
        /\ UNCHANGED <<rows, today, held, closedIDs, closedDay, load, entry, exits, marginJob, unseen,
                       staleLoad, ahead>>
    BY DEF forgetClosed
  <1>2. purge'[i] = "none" /\ \A j \in Ids \ {i} : purge'[j] = purge[j]
    BY DEF forgetClosed, BookTypeOK
  <1>3. TradeOK(i) /\ OnlyTouches(i)
    BY <1>1, <1>2 DEF OnlyTouches
  <1>4. HeldOK(i)' /\ OpenedOK(i)' /\ LandedOK(i)'
    BY <1>1, <1>2, <1>3 DEF TradeOK, HeldOK, OpenedOK, opening, LandedOK, Excused, StillClosed
  <1>9. ListOK(i)' /\ ReadsOK(i)'
    BY <1>1, <1>2, <1>3 DEF TradeOK, LandedOK, ListOK, ReadsOK, StillOpen, StillClosed
  <1> QED BY <1>1, <1>2, <1>3, <1>4, <1>9, OneTrade DEF FiguresOfRows, DaysPassed, TradeOK

\* The margin jobs change figures only.
LEMMA MarginKeeps ==
    ASSUME BookIInv, BookTypeOK', NEW i \in Ids,
           captureMargin(i) \/ applyMargin(i) \/ MarginWrite(i) \/ MarginGivesUp(i)
    PROVE  BookIInv'
  <1> USE DEF BookIInv, storeVars, memoryVars, historyVars
  <1>1. UNCHANGED <<today, held, closedIDs, deletedIDs, closedToday, twice, closedDay, load, entry, exits,
                    purge, unseen, staleLoad, lateList, ahead>>
    BY DEF captureMargin, applyMargin, MarginWrite, MarginGivesUp
  <1>2. \A j \in Ids \ {i} : marginJob'[j] = marginJob[j]
    <2>1. \E job : marginJob' = [marginJob EXCEPT ![i] = job]
      BY DEF captureMargin, applyMargin, MarginWrite, MarginGivesUp
    <2> QED BY <2>1 DEF BookTypeOK
  <1>3. rows[i].st # "none"
    BY DEF captureMargin, applyMargin, MarginWrite, MarginGivesUp, FiguresOfRows, TradeOK, HeldOK
  <1>4. SetMargin(i, TRUE) \/ SetMargin(i, FALSE) \/ rows' = rows
    BY DEF captureMargin, applyMargin, MarginWrite, MarginGivesUp
  <1>5. /\ rows'[i].st = rows[i].st /\ rows'[i].day = rows[i].day
        /\ \A j \in Ids \ {i} : rows'[j] = rows[j]
    BY <1>4, Figured
  <1>6. TradeOK(i) /\ OnlyTouches(i)
    BY <1>1, <1>2, <1>5 DEF OnlyTouches
  <1>7. HeldOK(i)' /\ OpenedOK(i)' /\ LandedOK(i)'
    BY <1>1, <1>5, <1>6 DEF TradeOK, HeldOK, OpenedOK, opening, LandedOK, Excused, StillClosed
  <1>12. ListOK(i)' /\ ReadsOK(i)'
    BY <1>1, <1>5, <1>6 DEF TradeOK, LandedOK, ListOK, ReadsOK, StillOpen, StillClosed
  <1> QED BY <1>1, <1>3, <1>5, <1>6, <1>7, <1>12, OneTrade DEF DaysPassed, TradeOK

\* A close by another process is one this process does not know of.
LEMMA OtherClosesKeeps ==
    ASSUME BookIInv, BookTypeOK', NEW i \in Ids, OtherCloses(i)
    PROVE  BookIInv'
  <1> USE DEF BookIInv, memoryVars, jobVars
  <1>1. /\ rows[i].st = "open" /\ CloseRow(i, today) /\ unseen' = unseen \cup {i}
        /\ UNCHANGED <<today, held, closedIDs, deletedIDs, closedToday, twice, closedDay, load, entry, exits,
                       purge, marginJob, staleLoad, lateList, ahead>>
    BY DEF OtherCloses
  <1>2. rows'[i].st = "closed" /\ \A j \in Ids \ {i} : rows'[j] = rows[j]
    BY <1>1, Closed DEF BookTypeOK
  <1>3. TradeOK(i) /\ OnlyTouches(i)
    BY <1>1, <1>2 DEF OnlyTouches
  <1>4. HeldOK(i)' /\ OpenedOK(i)' /\ LandedOK(i)'
    BY <1>1, <1>2, <1>3 DEF TradeOK, HeldOK, OpenedOK, opening, LandedOK, Excused, StillClosed
  <1>9. ListOK(i)' /\ ReadsOK(i)'
    BY <1>1, <1>2, <1>3 DEF TradeOK, LandedOK, ListOK, ReadsOK, StillOpen, StillClosed
  <1> QED BY <1>1, <1>2, <1>3, <1>4, <1>9, OneTrade DEF FiguresOfRows, DaysPassed, TradeOK

-----------------------------------------------------------------------------
(* Entries and loads                                                       *)

\* The positions in memory grow by trades that nobody closed and that are open or excused; one whose
\* insert is not answered counts as read back.
HeldGrows ==
    /\ held \subseteq held' /\ ahead \subseteq ahead' /\ unseen \subseteq unseen'
    /\ \A i \in held' \ held :
          /\ rows[i].st # "none" /\ (i \notin closedIDs \/ i \in ahead')
          /\ \/ rows[i].st = "open" \/ exits[i].at \in {"closed", "deleted"}
             \/ i \in unseen' \cup ahead' \/ staleLoad
          /\ opening(i)' => i \in ahead'

\* So they do when rows read as open are adopted.
LEMMA Adopted ==
    ASSUME NEW read, adopt(read), \A i \in read : StillOpen(i), UNCHANGED unseen, ahead \subseteq ahead',
           \A i \in held' \ held : opening(i)' => i \in ahead'
    PROVE  HeldGrows
  BY DEF adopt, HeldGrows, StillOpen

\* And when nothing is.
LEMMA SameHeld == UNCHANGED <<held, unseen, ahead>> => HeldGrows
  BY DEF HeldGrows

\* While no row, close, delete or load moves, what the invariant says of a trade outlives such growth.
LEMMA GrowthKeeps ==
    ASSUME NEW i, TradeOK(i), HeldGrows, opening(i)' => opening(i),
           UNCHANGED <<rows, today, closedIDs, deletedIDs, closedToday, twice, closedDay, exits, purge,
                       staleLoad, lateList>>
    PROVE  HeldOK(i)' /\ OpenedOK(i)' /\ LandedOK(i)'
  <1>1. HeldOK(i) /\ OpenedOK(i) /\ LandedOK(i)
    BY DEF TradeOK
  <1>2. HeldOK(i)'
    BY <1>1 DEF HeldOK, HeldGrows, Excused
  <1>3. OpenedOK(i)'
    <2>1. CASE opening(i)'
      <3>1. opening(i)
        BY <2>1
      <3> QED BY <1>1, <2>1, <3>1 DEF OpenedOK, HeldGrows
    <2>2. CASE ~opening(i)'
      BY <2>2 DEF OpenedOK
    <2> QED BY <2>1, <2>2
  <1>4. LandedOK(i)'
    BY <1>1 DEF LandedOK, HeldGrows, StillClosed
  <1> QED BY <1>2, <1>3, <1>4

\* A step of an entry that leaves storage alone keeps the invariant: a new id is fresh, the rows
\* in hand are open, and what it adopts may be.
LEMMA EntryStepKeeps ==
    ASSUME BookIInv, NEW u \in BookKeys, rows' = rows,
           UNCHANGED <<today, closedIDs, deletedIDs, closedToday, twice, closedDay, load, exits, purge,
                       marginJob, staleLoad, lateList>>,
           BookTypeOK', \A v \in BookKeys \ {u} : entry'[v] = entry[v],
           entry'[u].id \in {NoId, entry[u].id} \/ entry'[u].id \in FreshIds,
           entry'[u].at = "insert" => entry'[u].id \in FreshIds,
           entry'[u].at # "opened", entry'[u].at # "none" => load.at = "ready",
           entry'[u].at = "adopt" => \A i \in entry'[u].rows : StillOpen(i),
           HeldGrows
    PROVE  BookIInv'
  <1> USE DEF BookIInv
  <1>1. DaysPassed' /\ FiguresOfRows'
    BY DEF DaysPassed, FiguresOfRows
  <1>2. IdsFresh'
    BY DEF IdsFresh, FreshIds
  <1>3. ASSUME NEW i \in Ids PROVE TradeOK(i)'
    <2>1. TradeOK(i)
      OBVIOUS
    <2>2. opening(i)' => opening(i)
      BY DEF opening
    <2>3. HeldOK(i)' /\ OpenedOK(i)' /\ LandedOK(i)'
      BY <2>1, <2>2, GrowthKeeps
    <2>4. ListOK(i)'
      BY <2>1 DEF TradeOK, ListOK, StillClosed, HeldGrows
    <2>5. ReadsOK(i)'
      BY <2>1 DEF TradeOK, ReadsOK, StillOpen, StillClosed, HeldGrows
    <2> QED BY <2>3, <2>4, <2>5 DEF TradeOK
  <1> QED BY <1>1, <1>2, <1>3

\* An entry starts with a fresh id.
LEMMA enterKeeps ==
    ASSUME BookIInv, BookTypeOK', NEW u \in BookKeys, enter(u)
    PROVE  BookIInv'
  <1>1. NewID \in FreshIds
    BY DEF enter, NewID
  <1>2. /\ entry'[u].at = "insert" /\ entry'[u].id = NewID /\ \A v \in BookKeys \ {u} : entry'[v] = entry[v]
        /\ load.at = "ready"
        /\ UNCHANGED <<rows, today, held, closedIDs, deletedIDs, closedToday, twice, closedDay, load, exits,
                       purge, marginJob, unseen, staleLoad, lateList, ahead>>
    BY DEF enter, storeReady, BookIInv, BookTypeOK, storeVars, memoryVars, historyVars
  <1> QED BY <1>1, <1>2, SameHeld, EntryStepKeeps

\* A refused entry reads what storage holds open.
LEMMA DuplicateReadKeeps ==
    ASSUME BookIInv, BookTypeOK', NEW u \in BookKeys, DuplicateRead(u)
    PROVE  BookIInv'
  <1>1. /\ entry'[u].at = "adopt" /\ entry'[u].id = entry[u].id /\ entry'[u].rows = StoredOpen
        /\ \A v \in BookKeys \ {u} : entry'[v] = entry[v]
        /\ load.at = "ready"
        /\ UNCHANGED <<rows, today, held, closedIDs, deletedIDs, closedToday, twice, closedDay, load, exits,
                       purge, marginJob, unseen, staleLoad, lateList, ahead>>
    BY DEF DuplicateRead, LoadOpen, BookIInv, BookTypeOK, IdsFresh, storeVars, memoryVars, historyVars
  <1>2. \A i \in StoredOpen : StillOpen(i)
    BY DEF StoredOpen, StillOpen
  <1> QED BY <1>1, <1>2, SameHeld, EntryStepKeeps

\* It adopts what it read.
LEMMA DuplicateAdoptKeeps ==
    ASSUME BookIInv, BookTypeOK', NEW u \in BookKeys, DuplicateAdopt(u)
    PROVE  BookIInv'
  <1>1. /\ entry[u].at = "adopt" /\ adopt(entry[u].rows) /\ entry'[u].at = "none" /\ entry'[u].id = NoId
        /\ \A v \in BookKeys \ {u} : entry'[v] = entry[v]
        /\ ahead \subseteq ahead' /\ \A i \in held' \ held : i \in Ids /\ (opening(i) => i \in ahead')
        /\ UNCHANGED <<rows, today, closedIDs, deletedIDs, closedToday, twice, closedDay, load, exits, purge,
                       marginJob, unseen, staleLoad, lateList>>
    BY DEF DuplicateAdopt, NoEntry, BookIInv, BookTypeOK, storeVars
  <1>2. \A i \in entry[u].rows : StillOpen(i)
    BY <1>1 DEF BookIInv, TradeOK, ReadsOK, BookTypeOK
  <1>3. \A i \in held' \ held : opening(i)' => i \in ahead'
    BY <1>1 DEF opening
  <1>4. HeldGrows
    BY <1>1, <1>2, <1>3, Adopted
  <1> QED BY <1>1, <1>4, EntryStepKeeps

\* The answer to an insert puts its trade into memory, or leaves it to be read back.
LEMMA finishEnterKeeps ==
    ASSUME BookIInv, BookTypeOK', NEW u \in BookKeys, finishEnter(u)
    PROVE  BookIInv'
  <1>0. PICK i \in Ids : i = entry[u].id
    BY DEF BookIInv, IdsFresh, finishEnter
  <1>1. /\ entry[u].at \in {"insert", "opened"} /\ (entry[u].at = "opened" => opening(i))
        /\ TradeOK(i)
    BY <1>0 DEF BookIInv, finishEnter, opening
  <1>2. UNCHANGED <<rows, today, closedIDs, deletedIDs, closedToday, twice, closedDay, load, exits, purge,
                    marginJob, staleLoad, lateList, ahead>>
    BY DEF finishEnter, storeVars
  <1>3. /\ entry'[u].at = "none" /\ entry'[u].id = NoId
        /\ \A v \in BookKeys \ {u} : entry'[v] = entry[v]
    BY DEF finishEnter, BookIInv, BookTypeOK, NoEntry
  <1>4. \/ entry[u].at = "opened" /\ held' = held \cup {i} /\ unseen' = unseen
        \/ held' = held /\ unseen \subseteq unseen'
    BY <1>0 DEF finishEnter
  <1>5. ~opening(i)'
    BY <1>0, <1>1, <1>3 DEF BookIInv, IdsFresh, opening, Ids, NoId
  <1>6. entry[u].at = "opened" => /\ rows[i].st # "none" /\ (i \notin closedIDs \/ i \in ahead)
                                  /\ rows[i].st = "open" \/ i \in unseen \cup ahead
    BY <1>1 DEF TradeOK, OpenedOK
  <1>7. HeldGrows
    BY <1>2, <1>4, <1>5, <1>6 DEF HeldGrows
  <1> QED BY <1>2, <1>3, <1>7, EntryStepKeeps

\* The insert lands, and nobody has heard of its trade yet; or it is refused.
LEMMA InsertLandsKeeps ==
    ASSUME BookIInv, BookTypeOK', NEW u \in BookKeys, InsertLands(u)
    PROVE  BookIInv'
  <1> USE DEF BookIInv, memoryVars, historyVars
  <1> DEFINE i == entry[u].id
  <1>1. /\ i \in Ids /\ entry[u].at = "insert" /\ rows[i].st = "none" /\ load.at = "ready"
        /\ UNCHANGED <<today, held, closedIDs, deletedIDs, closedToday, twice, closedDay, load, exits, purge,
                       marginJob, unseen, staleLoad, lateList, ahead>>
    BY DEF InsertLands, IdsFresh
  <1>2. /\ \/ rows' = rows /\ entry'[u].at = "reload"
           \/ InsertRow(i, u) /\ entry'[u].at = "opened"
        /\ entry'[u].id = i /\ \A v \in BookKeys \ {u} : entry'[v] = entry[v]
    BY DEF InsertLands, BookTypeOK
  <1>3. CASE rows' = rows /\ entry'[u].at = "reload"
    BY <1>1, <1>2, <1>3, SameHeld, EntryStepKeeps
  <1>4. CASE InsertRow(i, u) /\ entry'[u].at = "opened"
    <2> HIDE DEF i
    <2>1. rows'[i].st = "open" /\ ~rows'[i].mg /\ \A j \in Ids \ {i} : rows'[j] = rows[j]
      BY <1>1, <1>4, Inserted
    <2>2. DaysPassed'
      BY <1>1 DEF DaysPassed
    <2>3. FiguresOfRows'
      BY <1>1, <2>1 DEF FiguresOfRows
    <2>4. IdsFresh'
      BY <1>1, <1>2, <1>4, <2>1 DEF IdsFresh, Ids, NoId, i
    <2>5. ASSUME NEW j \in Ids PROVE TradeOK(j)'
      <3>1. TradeOK(j)
        OBVIOUS
      <3>2. CASE j = i
        <4>1. HeldOK(j)' /\ LandedOK(j)'
          BY <1>1, <2>1, <3>1, <3>2 DEF TradeOK, HeldOK, LandedOK, StillClosed, Excused
        <4>2. OpenedOK(j)'
          BY <1>1, <2>1, <3>1, <3>2 DEF TradeOK, HeldOK, OpenedOK
        <4>3. ListOK(j)'
          BY <1>1, <2>1, <3>1, <3>2 DEF TradeOK, HeldOK, ListOK, StillClosed
        <4>4. ReadsOK(j)'
          BY <1>1, <1>2, <1>4, <2>1, <3>1, <3>2 DEF TradeOK, ReadsOK, StillOpen, StillClosed, BookTypeOK
        <4> QED BY <4>1, <4>2, <4>3, <4>4 DEF TradeOK
      <3>3. CASE j # i
        <4>1. rows'[j] = rows[j]
          BY <2>1, <3>3
        <4>2. opening(j)' => opening(j)
          BY <1>2, <3>3 DEF opening
        <4>3. HeldOK(j)' /\ OpenedOK(j)' /\ LandedOK(j)'
          BY <1>1, <3>1, <4>1, <4>2 DEF TradeOK, HeldOK, OpenedOK, LandedOK, StillClosed, Excused
        <4>4. ListOK(j)' /\ ReadsOK(j)'
          BY <1>1, <1>2, <1>4, <3>1, <4>1 DEF TradeOK, ListOK, ReadsOK, StillOpen, StillClosed
        <4> QED BY <4>3, <4>4 DEF TradeOK
      <3> QED BY <3>2, <3>3
    <2> QED BY <2>2, <2>3, <2>4, <2>5
  <1> QED BY <1>2, <1>3, <1>4

\* A step of the boot load that leaves memory and storage alone: what it has in hand is as
\* storage has it now.
LEMMA LoadStepKeeps ==
    ASSUME BookIInv, BookTypeOK',
           UNCHANGED <<rows, today, held, closedIDs, deletedIDs, closedToday, twice, closedDay, entry, exits,
                       purge, marginJob, unseen, staleLoad, lateList, ahead>>,
           load.at # "ready", load.at = "index" => load'.at \in {"index", "ready"},
           load'.day = load.day,
           load'.at = "adopt" => load'.rows = StoredOpen,
           load'.at = "merge" => \A i \in load'.rows : rows[i].st = "closed"
    PROVE  BookIInv'
  <1> USE DEF BookIInv
  <1>1. DaysPassed' /\ FiguresOfRows' /\ IdsFresh'
    BY DEF DaysPassed, FiguresOfRows, IdsFresh
  <1>2. ASSUME NEW i \in Ids PROVE TradeOK(i)'
    <2>1. TradeOK(i)
      OBVIOUS
    <2>2. HeldOK(i)' /\ OpenedOK(i)' /\ LandedOK(i)'
      BY <2>1 DEF TradeOK, HeldOK, OpenedOK, opening, LandedOK, Excused, StillClosed
    <2>3. ListOK(i)'
      BY <2>1 DEF TradeOK, ListOK, StillClosed
    <2>4. ReadsOK(i)'
      BY <2>1 DEF TradeOK, ReadsOK, StillOpen, StillClosed, StoredOpen
    <2> QED BY <2>2, <2>3, <2>4 DEF TradeOK
  <1> QED BY <1>1, <1>2

\* The reading steps of the load.
LEMMA LoadKeeps ==
    ASSUME BookIInv, BookTypeOK', loadSettingsStep \/ loadTradesOpen \/ loadTradesClosed \/ EnsureReady \/ LoadFails
    PROVE  BookIInv'
  <1>1. UNCHANGED <<rows, today, held, closedIDs, deletedIDs, closedToday, twice, closedDay, entry, exits,
                    purge, marginJob, unseen, staleLoad, lateList, ahead>>
    BY DEF loadSettingsStep, loadTradesOpen, loadTradesClosed, EnsureReady, LoadFails, storeVars, memoryVars,
           historyVars
  <1>2. /\ load.at # "ready" /\ (load.at = "index" => load'.at \in {"index", "ready"})
        /\ load'.day = load.day
        /\ load'.at = "adopt" => load'.rows = StoredOpen
        /\ load'.at = "merge" => load'.rows = LoadClosed(load.day)
    <2>1. CASE loadSettingsStep
      BY <2>1 DEF loadSettingsStep, LoadStep, BookIInv, BookTypeOK
    <2>2. CASE loadTradesOpen
      BY <2>2 DEF loadTradesOpen, LoadStep, LoadOpen, BookIInv, BookTypeOK
    <2>3. CASE loadTradesClosed
      BY <2>3 DEF loadTradesClosed, LoadStep, BookIInv, BookTypeOK
    <2>4. CASE EnsureReady
      BY <2>4 DEF EnsureReady, LoadStep, BookIInv, BookTypeOK
    <2>5. CASE LoadFails
      BY <2>5 DEF LoadFails, BookIInv, BookTypeOK
    <2> QED BY <2>1, <2>2, <2>3, <2>4, <2>5
  <1>3. \A i \in LoadClosed(load.day) : rows[i].st = "closed"
    BY DEF LoadClosed
  <1> QED BY <1>1, <1>2, <1>3, LoadStepKeeps

\* The load adopts the open rows it read, while no entry is under way.
LEMMA loadTradesAdoptKeeps ==
    ASSUME BookIInv, BookTypeOK', loadTradesAdopt
    PROVE  BookIInv'
  <1> USE DEF BookIInv
  <1>1. /\ load.at = "adopt" /\ adopt(load.rows) /\ load'.at = "closed" /\ load'.day = today
        /\ UNCHANGED <<rows, today, closedIDs, deletedIDs, closedToday, twice, closedDay, entry, exits, purge,
                       marginJob, unseen, staleLoad, lateList, ahead>>
    BY DEF loadTradesAdopt, storeVars, historyVars
  <1>2. \A i \in load.rows : StillOpen(i)
    BY <1>1 DEF TradeOK, ReadsOK, BookTypeOK
  <1>3. \A u \in BookKeys : entry[u].at = "none"
    BY <1>1 DEF IdsFresh
  <1>4. \A i : ~opening(i) /\ ~opening(i)'
    BY <1>1, <1>3 DEF opening
  <1>5. HeldGrows
    BY <1>1, <1>2, <1>4, Adopted
  <1>6. DaysPassed' /\ FiguresOfRows' /\ IdsFresh'
    BY <1>1, <1>3 DEF DaysPassed, FiguresOfRows, IdsFresh, BookTypeOK
  <1>7. ASSUME NEW i \in Ids PROVE TradeOK(i)'
    <2>1. TradeOK(i)
      OBVIOUS
    <2>2. HeldOK(i)' /\ OpenedOK(i)' /\ LandedOK(i)'
      BY <1>1, <1>4, <1>5, <2>1, GrowthKeeps
    <2>3. ListOK(i)'
      BY <1>1, <2>1 DEF TradeOK, ListOK, StillClosed
    <2>4. ReadsOK(i)'
      BY <1>1, <2>1 DEF TradeOK, ReadsOK, StillOpen, StillClosed
    <2> QED BY <2>2, <2>3, <2>4 DEF TradeOK
  <1> QED BY <1>6, <1>7

\* It lists the closed rows it read and sets the list's day, which may lie in the past but then
\* is not today's.  A trade whose close is not answered yet counts as read back.
LEMMA loadTradesMergeKeeps ==
    ASSUME BookIInv, BookTypeOK', loadTradesMerge
    PROVE  BookIInv'
  <1> USE DEF BookIInv
  <1>1. /\ load.at = "merge" /\ load'.at = "index" /\ load'.day = load.day
        /\ closedDay' = load.day /\ closedToday' = closedToday \cup (load.rows \ deletedIDs)
        /\ ahead \subseteq ahead' /\ \A i \in closedToday' \ closedToday : exits[i].at = "closed" => i \in ahead'
        /\ UNCHANGED <<rows, today, held, closedIDs, deletedIDs, twice, entry, exits, purge, marginJob, unseen,
                       staleLoad, lateList>>
    BY DEF loadTradesMerge, LoadStep, BookTypeOK, storeVars
  <1>2. DaysPassed' /\ FiguresOfRows' /\ IdsFresh'
    BY <1>1 DEF DaysPassed, FiguresOfRows, IdsFresh, BookTypeOK
  <1>3. ASSUME NEW i \in Ids PROVE TradeOK(i)'
    <2>1. TradeOK(i) /\ rows[i].day \in Nat /\ closedDay \in Nat /\ closedDay <= today
      BY DEF BookTypeOK, Row, DaysPassed
    <2>2. HeldOK(i)' /\ OpenedOK(i)'
      BY <1>1, <2>1 DEF TradeOK, HeldOK, OpenedOK, opening, Excused
    <2>3. LandedOK(i)'
      BY <1>1, <2>1 DEF TradeOK, LandedOK, StillClosed
    <2>4. ListOK(i)'
      BY <1>1, <2>1 DEF TradeOK, ListOK, ReadsOK, StillClosed, BookTypeOK
    <2>5. ReadsOK(i)'
      BY <1>1, <2>1 DEF TradeOK, ReadsOK, StillOpen, StillClosed
    <2> QED BY <2>2, <2>3, <2>4, <2>5 DEF TradeOK
  <1> QED BY <1>2, <1>3

-----------------------------------------------------------------------------
(* Time                                                                    *)

\* The day rolls: the ids are forgotten, and a load with rows in hand is remembered.
LEMMA rollDayKeeps ==
    ASSUME BookIInv, BookTypeOK', rollDay
    PROVE  BookIInv'
  <1> USE DEF BookIInv
  <1>1. /\ closedDay' = today /\ closedIDs' = {} /\ deletedIDs' = {} /\ closedToday' \subseteq closedToday
        /\ twice' \subseteq twice
        /\ UNCHANGED <<rows, today, held, load, entry, exits, purge, marginJob, unseen, lateList, ahead>>
    BY DEF rollDay, storeVars, jobVars
  <1>2. staleLoad \/ load.at \in {"adopt", "merge"} \/ (\E u \in BookKeys : entry[u].at = "adopt") => staleLoad'
    BY Zenon DEF rollDay
  <1>3. DaysPassed' /\ FiguresOfRows' /\ IdsFresh'
    BY <1>1 DEF DaysPassed, FiguresOfRows, IdsFresh, BookTypeOK
  <1>4. ASSUME NEW i \in Ids PROVE TradeOK(i)'
    <2>1. TradeOK(i) /\ exits[i].day <= today
      BY DEF DaysPassed
    <2>2. HeldOK(i)'
      BY <1>1, <1>2, <2>1 DEF TradeOK, HeldOK, Excused
    <2>3. OpenedOK(i)' /\ LandedOK(i)'
      BY <1>1, <1>2, <2>1 DEF TradeOK, OpenedOK, opening, LandedOK, StillClosed
    <2>4. ListOK(i)'
      BY <1>1, <1>2, <2>1 DEF TradeOK, ListOK, StillClosed
    <2>5. ReadsOK(i)'
      BY <1>1, <1>2, <2>1 DEF TradeOK, ReadsOK, StillOpen, StillClosed
    <2> QED BY <2>2, <2>3, <2>4, <2>5 DEF TradeOK
  <1> QED BY <1>3, <1>4

\* A new day begins; the list is still of an earlier one.
LEMMA MidnightKeeps ==
    ASSUME BookIInv, BookTypeOK', Midnight
    PROVE  BookIInv'
  <1> USE DEF BookIInv
  <1>1. /\ today' = today + 1 /\ today \in Nat /\ closedDay \in Nat /\ closedDay <= today
        /\ UNCHANGED <<rows, held, closedIDs, deletedIDs, closedToday, twice, closedDay, load, entry, exits,
                       purge, marginJob, unseen, staleLoad, lateList, ahead>>
    BY DEF Midnight, memoryVars, jobVars, BookTypeOK, DaysPassed
  <1>2. DaysPassed' /\ FiguresOfRows' /\ IdsFresh'
    BY <1>1 DEF DaysPassed, FiguresOfRows, IdsFresh, BookTypeOK
  <1>3. ASSUME NEW i \in Ids PROVE TradeOK(i)'
    <2>1. TradeOK(i)
      OBVIOUS
    <2>2. HeldOK(i)' /\ OpenedOK(i)' /\ LandedOK(i)'
      BY <1>1, <2>1 DEF TradeOK, HeldOK, OpenedOK, opening, LandedOK, Excused, StillClosed
    <2>3. ReadsOK(i)'
      BY <1>1, <2>1 DEF TradeOK, ReadsOK, StillOpen, StillClosed
    <2>4. ListOK(i)'
      BY <1>1, <2>1 DEF TradeOK, ListOK, StillClosed
    <2> QED BY <2>2, <2>3, <2>4 DEF TradeOK
  <1> QED BY <1>2, <1>3

\* The process restarts with nothing in memory.
LEMMA RestartKeeps ==
    ASSUME BookIInv, BookTypeOK', Restart
    PROVE  BookIInv'
  <1> USE DEF BookIInv
  <1>1. /\ held' = {} /\ closedIDs' = {} /\ closedToday' = {} /\ closedDay' = today /\ today \in Nat
        /\ twice' = {} /\ load'.at = "settings" /\ load'.day = 0 /\ UNCHANGED <<rows, today>>
        /\ \A u \in BookKeys : entry'[u].at = "none" /\ entry'[u].id = NoId
        /\ \A i \in Ids : exits'[i].at = "none" /\ exits'[i].day = 0 /\ purge'[i] = "none" /\ marginJob'[i] = "none"
    BY DEF Restart, FreshMemory, NoLoad, NoEntry, NoExit, storeVars, BookTypeOK
  <1>2. DaysPassed' /\ FiguresOfRows' /\ IdsFresh'
    BY <1>1 DEF DaysPassed, FiguresOfRows, IdsFresh
  <1>3. \A i \in Ids : TradeOK(i)'
    BY <1>1 DEF TradeOK, HeldOK, OpenedOK, opening, LandedOK, ListOK, ReadsOK
  <1> QED BY <1>2, <1>3

-----------------------------------------------------------------------------
(* Types                                                                   *)

\* Every step keeps the types: the load,
LEMMA LoadTypes ==
    ASSUME BookTypeOK,
           loadSettingsStep \/ loadTradesOpen \/ loadTradesAdopt \/ loadTradesClosed \/ loadTradesMerge
           \/ EnsureReady \/ LoadFails
    PROVE  BookTypeOK'
  <1> USE DEF BookTypeOK, storeVars, memoryVars, historyVars
  <1>1. CASE loadSettingsStep
    BY <1>1 DEF loadSettingsStep, LoadStep
  <1>2. CASE loadTradesOpen
    BY <1>2 DEF loadTradesOpen, LoadStep, LoadOpen, StoredOpen
  <1>3. CASE loadTradesAdopt
    BY <1>3 DEF loadTradesAdopt, adopt
  <1>4. CASE loadTradesClosed
    BY <1>4 DEF loadTradesClosed, LoadStep, LoadClosed
  <1>5. CASE loadTradesMerge
    BY <1>5 DEF loadTradesMerge, LoadStep
  <1>6. CASE EnsureReady
    BY <1>6 DEF EnsureReady, LoadStep
  <1>7. CASE LoadFails
    BY <1>7 DEF LoadFails
  <1> QED BY <1>1, <1>2, <1>3, <1>4, <1>5, <1>6, <1>7

\* the entries,
LEMMA EntryTypes ==
    ASSUME BookTypeOK, IdsFresh, NEW u \in BookKeys,
           enter(u) \/ InsertLands(u) \/ finishEnter(u) \/ DuplicateRead(u) \/ DuplicateAdopt(u)
    PROVE  BookTypeOK'
  <1> DEFINE Entry == [at : {"none", "insert", "opened", "reload", "adopt"}, id : 0 .. MaxIds, rows : SUBSET Ids]
  <1> USE DEF storeVars, memoryVars, historyVars
  <1>1. entry \in [BookKeys -> Entry] /\ entry[u] \in Entry
    BY DEF BookTypeOK
  <1>2. \E e \in Entry : entry' = [entry EXCEPT ![u] = e]
    <2>1. NoEntry \in Entry
      BY BookBounds DEF NoEntry, NoId
    <2>2. CASE enter(u)
      <3>1. NewID \in Ids
        BY <2>2 DEF enter, NewID, FreshIds
      <3>2. [at |-> "insert", id |-> NewID, rows |-> {}] \in Entry
        BY <3>1, BookBounds DEF Ids
      <3> QED BY <2>2, <3>2 DEF enter
    <2>3. CASE InsertLands(u)
      <3>1. [entry[u] EXCEPT !.at = "reload"] \in Entry /\ [entry[u] EXCEPT !.at = "opened"] \in Entry
        BY <1>1
      <3>2. \/ entry' = [entry EXCEPT ![u] = [entry[u] EXCEPT !.at = "opened"]]
            \/ entry' = [entry EXCEPT ![u] = [entry[u] EXCEPT !.at = "reload"]]
        BY <1>1, <2>3 DEF InsertLands
      <3> QED BY <3>1, <3>2
    <2>6. CASE finishEnter(u)
      BY <2>1, <2>6 DEF finishEnter
    <2>4. CASE DuplicateRead(u)
      <3>1. StoredOpen \in SUBSET Ids
        BY DEF StoredOpen
      <3> DEFINE e == [entry[u] EXCEPT !.at = "adopt"]
      <3>2. entry' = [entry EXCEPT ![u] = [e EXCEPT !.rows = StoredOpen]]
        BY <1>1, <2>4 DEF DuplicateRead, LoadOpen
      <3>3. e \in Entry
        BY <1>1
      <3> HIDE DEF e
      <3>4. [e EXCEPT !.rows = StoredOpen] \in Entry
        BY <3>1, <3>3
      <3> QED BY <3>2, <3>4
    <2>5. CASE DuplicateAdopt(u)
      BY <2>1, <2>5 DEF DuplicateAdopt
    <2> QED BY <2>2, <2>3, <2>4, <2>5, <2>6
  <1>3. entry' \in [BookKeys -> Entry]
    BY <1>1, <1>2
  <1>4. rows' \in [Ids -> Row] /\ held' \subseteq Ids
    <2>1. CASE enter(u) \/ DuplicateRead(u)
      BY <2>1 DEF enter, DuplicateRead, BookTypeOK
    <2>2. CASE InsertLands(u)
      <3>1. entry[u].id \in Ids
        BY <2>2 DEF InsertLands, IdsFresh
      <3>2. rows' = rows \/ InsertRow(entry[u].id, u)
        BY <2>2 DEF InsertLands
      <3> QED BY <2>2, <3>1, <3>2, Inserted DEF InsertLands, BookTypeOK
    <2>4. CASE finishEnter(u)
      BY <2>4 DEF finishEnter, IdsFresh, BookTypeOK
    <2>3. CASE DuplicateAdopt(u)
      BY <1>1, <2>3 DEF DuplicateAdopt, adopt, BookTypeOK
    <2> QED BY <2>1, <2>2, <2>3, <2>4
  <1>5. UNCHANGED <<today, closedIDs, closedToday, twice, load, exits, purge, marginJob>>
    BY DEF enter, InsertLands, finishEnter, DuplicateRead, DuplicateAdopt
  <1> QED BY <1>3, <1>4, <1>5 DEF BookTypeOK

\* the closes,
LEMMA ExitTypes ==
    ASSUME BookTypeOK, NEW i \in Ids, finalize(i) \/ CloseLands(i) \/ finishFinalize(i) \/ LostRead(i) \/ LostList(i)
    PROVE  BookTypeOK'
  <1> DEFINE Exit == [at : {"none", "close", "closed", "beaten", "lost", "list", "delete", "deleted"}, day : Nat]
  <1> USE DEF storeVars, memoryVars, historyVars
  <1>1. exits \in [Ids -> Exit] /\ exits[i] \in Exit /\ NoExit \in Exit
    BY DEF BookTypeOK, NoExit
  <1>2. \E e \in Exit : exits' = [exits EXCEPT ![i] = e]
    <2>1. CASE finalize(i)
      <3>1. [at |-> "close", day |-> today] \in Exit
        BY DEF BookTypeOK
      <3> QED BY <2>1, <3>1 DEF finalize
    <2>2. CASE finishFinalize(i)
      <3>1. [exits[i] EXCEPT !.at = "lost"] \in Exit
        BY <1>1
      <3>2. exits' = [exits EXCEPT ![i] = NoExit] \/ exits' = [exits EXCEPT ![i] = [exits[i] EXCEPT !.at = "lost"]]
        BY <1>1, <2>2 DEF finishFinalize, CloseWon, CloseLost, closeFailed
      <3> QED BY <1>1, <3>1, <3>2
    <2>3. CASE LostRead(i)
      <3>1. [exits[i] EXCEPT !.at = "list"] \in Exit
        BY <1>1
      <3>2. exits' = [exits EXCEPT ![i] = NoExit] \/ exits' = [exits EXCEPT ![i] = [exits[i] EXCEPT !.at = "list"]]
        BY <1>1, <2>3 DEF LostRead
      <3> QED BY <1>1, <3>1, <3>2
    <2>4. CASE LostList(i)
      BY <1>1, <2>4 DEF LostList
    <2>5. CASE CloseLands(i)
      <3>1. [exits[i] EXCEPT !.at = "closed"] \in Exit /\ [exits[i] EXCEPT !.at = "beaten"] \in Exit
        BY <1>1
      <3>2. \/ exits' = [exits EXCEPT ![i] = [exits[i] EXCEPT !.at = "closed"]]
            \/ exits' = [exits EXCEPT ![i] = [exits[i] EXCEPT !.at = "beaten"]]
        BY <1>1, <2>5 DEF CloseLands
      <3> QED BY <3>1, <3>2
    <2> QED BY <2>1, <2>2, <2>3, <2>4, <2>5
  <1>3. exits' \in [Ids -> Exit]
    BY <1>1, <1>2
  <1>4. rows' \in [Ids -> Row]
    <2>1. CloseLands(i) => rows' = rows \/ (rows[i].st = "open" /\ CloseRow(i, exits[i].day))
      BY DEF CloseLands, CloseRow
    <2>2. finalize(i) \/ finishFinalize(i) \/ LostRead(i) \/ LostList(i) => rows' = rows
      BY DEF finalize, finishFinalize, LostRead, LostList
    <2> QED BY <1>1, <2>1, <2>2, Closed DEF BookTypeOK
  <1>5. held' \subseteq Ids /\ closedIDs' \subseteq Ids /\ closedToday' \subseteq Ids /\ twice' \subseteq Ids
    BY DEF finalize, CloseLands, finishFinalize, CloseWon, CloseLost, closeFailed, ForgetPosition, LostRead,
           LostList, BookTypeOK
  <1>6. UNCHANGED <<today, load, entry, purge, marginJob>>
    BY DEF finalize, CloseLands, finishFinalize, LostRead, LostList
  <1> QED BY <1>3, <1>4, <1>5, <1>6 DEF BookTypeOK

\* the deletes,
LEMMA DeleteTypes ==
    ASSUME BookTypeOK, NEW i \in Ids,
           DeleteOpen(i) \/ DeleteLands(i) \/ DeleteOpenEnds(i) \/ DeleteStored(i) \/ DeleteRead(i)
           \/ DeleteMark(i) \/ forgetClosed(i)
    PROVE  BookTypeOK'
  <1> DEFINE Exit == [at : {"none", "close", "closed", "beaten", "lost", "list", "delete", "deleted"}, day : Nat]
  <1> USE DEF storeVars, memoryVars, historyVars
  <1>1. exits' \in [Ids -> Exit]
    <2>1. /\ exits \in [Ids -> Exit] /\ NoExit \in Exit /\ [NoExit EXCEPT !.at = "delete"] \in Exit
          /\ [exits[i] EXCEPT !.at = "deleted"] \in Exit
      BY DEF BookTypeOK, NoExit
    <2>2. \/ exits' = exits \/ exits' = [exits EXCEPT ![i] = NoExit]
          \/ exits' = [exits EXCEPT ![i] = [NoExit EXCEPT !.at = "delete"]]
          \/ exits' = [exits EXCEPT ![i] = [exits[i] EXCEPT !.at = "deleted"]]
      BY DEF BookTypeOK, DeleteOpen, DeleteLands, DeleteOpenEnds, DeleteStored, DeleteRead, DeleteMark, forgetClosed
    <2> QED BY <2>1, <2>2
  <1>2. rows' \in [Ids -> Row]
    <2>1. rows' = rows \/ DeleteRow(i, "open") \/ DeleteRow(i, "closed")
      BY DEF DeleteOpen, DeleteLands, DeleteOpenEnds, DeleteStored, DeleteRead, DeleteMark, forgetClosed,
             markDeletedReconciled
    <2>2. rows' = rows \/ DeleteRow(i, rows[i].st)
      BY <2>1 DEF DeleteRow
    <2> QED BY <2>2, Deleted DEF BookTypeOK
  <1>3. purge' \in [Ids -> {"none", "get", "mark", "forget"}]
    <2>1. CASE DeleteOpen(i) \/ DeleteLands(i) \/ DeleteOpenEnds(i)
      BY <2>1 DEF DeleteOpen, DeleteLands, DeleteOpenEnds, BookTypeOK
    <2>2. CASE DeleteStored(i) \/ DeleteRead(i) \/ forgetClosed(i)
      BY <2>2 DEF DeleteStored, DeleteRead, forgetClosed, Get, BookTypeOK
    <2>3. CASE DeleteMark(i)
      <3>1. \E p \in {"forget", "none"} : purge' = [purge EXCEPT ![i] = p]
        BY <2>3 DEF DeleteMark
      <3> QED BY <3>1 DEF BookTypeOK
    <2> QED BY <2>1, <2>2, <2>3
  <1>4. held' \subseteq Ids /\ closedIDs' \subseteq Ids /\ closedToday' \subseteq Ids /\ twice' \subseteq Ids
    BY DEF DeleteOpen, DeleteLands, DeleteOpenEnds, DeleteStored, DeleteRead, DeleteMark, forgetClosed, forgetOpen,
           ForgetPosition, BookTypeOK
  <1>5. UNCHANGED <<today, load, entry, marginJob>>
    BY DEF DeleteOpen, DeleteLands, DeleteOpenEnds, DeleteStored, DeleteRead, DeleteMark, forgetClosed
  <1> QED BY <1>1, <1>2, <1>3, <1>4, <1>5 DEF BookTypeOK

\* the margin jobs,
LEMMA MarginTypes ==
    ASSUME BookTypeOK, NEW i \in Ids, captureMargin(i) \/ applyMargin(i) \/ MarginWrite(i) \/ MarginGivesUp(i)
    PROVE  BookTypeOK'
  <1> USE DEF storeVars, memoryVars, historyVars
  <1>1. \E job \in {"none", "ask", "write"} : marginJob' = [marginJob EXCEPT ![i] = job]
    BY DEF captureMargin, applyMargin, MarginWrite, MarginGivesUp
  <1>2. marginJob' \in [Ids -> {"none", "ask", "write"}]
    BY <1>1 DEF BookTypeOK
  <1>3. rows' = rows \/ SetMargin(i, TRUE) \/ SetMargin(i, FALSE)
    BY DEF captureMargin, applyMargin, MarginWrite, MarginGivesUp
  <1>4. rows' \in [Ids -> Row]
    BY <1>3, Figured DEF BookTypeOK
  <1>5. UNCHANGED <<today, held, closedIDs, closedToday, twice, load, entry, exits, purge>>
    BY DEF captureMargin, applyMargin, MarginWrite, MarginGivesUp
  <1> QED BY <1>2, <1>4, <1>5 DEF BookTypeOK

\* midnight, the day's roll, a restart and the other process.
LEMMA TimeTypes ==
    ASSUME BookTypeOK, Midnight \/ rollDay \/ Restart \/ (\E i \in Ids : OtherCloses(i))
    PROVE  BookTypeOK'
  <1> USE DEF storeVars, memoryVars, jobVars, historyVars
  <1>1. CASE Midnight
    BY <1>1 DEF Midnight, BookTypeOK
  <1>2. CASE rollDay
    BY <1>2 DEF rollDay, BookTypeOK
  <1>3. CASE Restart
    <2>1. NoEntry \in [at : {"none", "insert", "opened", "reload", "adopt"}, id : 0 .. MaxIds, rows : SUBSET Ids]
      BY BookBounds DEF NoEntry, NoId
    <2>2. NoExit \in [at : {"none", "close", "closed", "beaten", "lost", "list", "delete", "deleted"}, day : Nat]
      BY DEF NoExit
    <2>3. entry' \in [BookKeys -> [at : {"none", "insert", "opened", "reload", "adopt"}, id : 0 .. MaxIds, rows : SUBSET Ids]]
      BY <1>3, <2>1 DEF Restart, FreshMemory
    <2>4. /\ exits' \in [Ids -> [at : {"none", "close", "closed", "beaten", "lost", "list", "delete", "deleted"}, day : Nat]]
          /\ purge' \in [Ids -> {"none", "get", "mark", "forget"}] /\ marginJob' \in [Ids -> {"none", "ask", "write"}]
      BY <1>3, <2>2 DEF Restart, FreshMemory
    <2>5. load' \in [at : {"settings", "open", "adopt", "closed", "merge", "index", "ready"}, rows : SUBSET Ids, day : Nat]
          /\ held' \subseteq Ids /\ closedIDs' \subseteq Ids /\ closedToday' \subseteq Ids /\ twice' \subseteq Ids /\ UNCHANGED <<rows, today>>
      BY <1>3 DEF Restart, FreshMemory, NoLoad
    <2> QED BY <2>3, <2>4, <2>5 DEF BookTypeOK
  <1>4. ASSUME NEW i \in Ids, OtherCloses(i) PROVE BookTypeOK'
    <2>1. rows' \in [Ids -> Row]
      BY <1>4, Closed DEF OtherCloses, BookTypeOK
    <2> QED BY <1>4, <2>1 DEF OtherCloses, BookTypeOK
  <1> QED BY <1>1, <1>2, <1>3, <1>4

-----------------------------------------------------------------------------
(* The invariant                                                           *)

\* At first there are no trades.
LEMMA NoRowsYet == BookInit => rows \in [Ids -> Row] /\ \A i \in Ids : rows[i].st = "none" /\ ~rows[i].mg
  <1> SUFFICES ASSUME BookInit PROVE rows \in [Ids -> Row] /\ \A i \in Ids : rows[i].st = "none" /\ ~rows[i].mg
    OBVIOUS
  <1>1. (CHOOSE u \in BookKeys : TRUE) \in BookKeys
    BY BookBounds
  <1> DEFINE none == [st |-> "none", und |-> CHOOSE u \in BookKeys : TRUE, day |-> 0, mg |-> FALSE]
  <1>2. none \in Row /\ none.st = "none" /\ ~none.mg
    BY <1>1 DEF Row
  <1>3. rows = [i \in Ids |-> none]
    BY DEF BookInit
  <1> HIDE DEF none
  <1> QED BY <1>2, <1>3

\* The inductive invariant holds at first, with an empty memory.
LEMMA BookInitEstablishes == BookInit => BookIInv
  <1> SUFFICES ASSUME BookInit PROVE BookIInv
    OBVIOUS
  <1>2. rows \in [Ids -> Row] /\ \A i \in Ids : rows[i].st = "none" /\ ~rows[i].mg
    BY NoRowsYet
  <1>3. NoEntry \in [at : {"none", "insert", "opened", "reload", "adopt"}, id : 0 .. MaxIds, rows : SUBSET Ids]
    BY BookBounds DEF NoEntry, NoId
  <1>4. entry \in [BookKeys -> [at : {"none", "insert", "opened", "reload", "adopt"}, id : 0 .. MaxIds, rows : SUBSET Ids]]
    BY <1>3 DEF BookInit
  <1>5. BookTypeOK
    BY <1>2, <1>4 DEF BookInit, BookTypeOK, NoLoad, NoExit
  <1>6. DaysPassed /\ IdsFresh
    BY <1>5 DEF BookInit, DaysPassed, IdsFresh, NoLoad, NoExit, NoEntry
  <1>7. FiguresOfRows
    BY <1>2 DEF BookInit, FiguresOfRows
  <1>8. \A i \in Ids : TradeOK(i)
    BY DEF BookInit, TradeOK, HeldOK, OpenedOK, opening, LandedOK, ListOK, ReadsOK, NoLoad, NoExit, NoEntry
  <1> QED BY <1>5, <1>6, <1>7, <1>8 DEF BookIInv

\* Every step keeps it: storage calls that land unanswered, lost races, closes elsewhere,
\* midnights between a read and its use, and restarts.
LEMMA BookStepKeeps == BookIInv /\ [BookNext]_bookVars => BookIInv'
  <1> SUFFICES ASSUME BookIInv, [BookNext]_bookVars PROVE BookIInv'
    OBVIOUS
  <1>1. BookTypeOK /\ IdsFresh
    BY DEF BookIInv
  <1>2. CASE \/ loadSettingsStep \/ loadTradesOpen \/ loadTradesAdopt \/ loadTradesClosed \/ loadTradesMerge
             \/ EnsureReady \/ LoadFails
    BY <1>1, <1>2, LoadTypes, LoadKeeps, loadTradesAdoptKeeps, loadTradesMergeKeeps
  <1>3. CASE Midnight \/ rollDay \/ Restart
    BY <1>1, <1>3, TimeTypes, MidnightKeeps, rollDayKeeps, RestartKeeps
  <1>4. ASSUME NEW u \in BookKeys,
               enter(u) \/ InsertLands(u) \/ finishEnter(u) \/ DuplicateRead(u) \/ DuplicateAdopt(u)
        PROVE  BookIInv'
    BY <1>1, <1>4, EntryTypes, enterKeeps, InsertLandsKeeps, finishEnterKeeps, DuplicateReadKeeps, DuplicateAdoptKeeps
  <1>5. ASSUME NEW i \in Ids,
               finalize(i) \/ CloseLands(i) \/ finishFinalize(i) \/ LostRead(i) \/ LostList(i)
        PROVE  BookIInv'
    <2>1. BookTypeOK'
      BY <1>1, <1>5, ExitTypes
    <2>2. finishFinalize(i) => CloseWon(i) \/ CloseLost(i) \/ closeFailed(i)
      BY DEF finishFinalize
    <2> QED BY <1>5, <2>1, <2>2, finalizeKeeps, CloseLandsKeeps, CloseWonKeeps, CloseLostKeeps,
               closeFailedKeeps, LostReadKeeps, LostListKeeps
  <1>6. ASSUME NEW i \in Ids,
               DeleteOpen(i) \/ DeleteLands(i) \/ DeleteOpenEnds(i) \/ DeleteStored(i) \/ DeleteRead(i)
               \/ DeleteMark(i) \/ forgetClosed(i)
        PROVE  BookIInv'
    BY <1>1, <1>6, DeleteTypes, finalizeKeeps, DeleteLandsKeeps, DeleteOpenEndsKeeps, DeleteReadKeeps, DeleteMarkKeeps,
       forgetClosedKeeps
  <1>7. ASSUME NEW i \in Ids, captureMargin(i) \/ applyMargin(i) \/ MarginWrite(i) \/ MarginGivesUp(i)
        PROVE  BookIInv'
    BY <1>1, <1>7, MarginTypes, MarginKeeps
  <1>8. ASSUME NEW i \in Ids, OtherCloses(i) PROVE BookIInv'
    BY <1>1, <1>8, TimeTypes, OtherClosesKeeps
  <1>9. CASE UNCHANGED bookVars
    BY <1>9 DEF bookVars, storeVars, memoryVars, jobVars, historyVars, BookIInv, BookTypeOK, DaysPassed,
                FiguresOfRows, IdsFresh, TradeOK, HeldOK, OpenedOK, opening, LandedOK, ListOK, ReadsOK, Excused,
                StillOpen, StillClosed
  <1> QED BY <1>2, <1>3, <1>4, <1>5, <1>6, <1>7, <1>8, <1>9 DEF BookNext

\* The inductive invariant always holds.
THEOREM BookInvariant == BookSpec => []BookIInv
  BY BookInitEstablishes, BookStepKeeps, PTL DEF BookSpec

\* What the engine holds and lists is what is stored, apart from the writes it was never told
\* of: for every set of underlyings, any number of trades, failures, midnights and restarts.
THEOREM BookAlwaysAgrees == BookSpec => []BookAgrees
  <1>1. BookIInv => HeldAgrees
    BY DEF BookIInv, HeldAgrees, TradeOK, HeldOK, Excused, BookTypeOK
  <1>2. BookIInv => TodayAgrees
    <2> SUFFICES ASSUME BookIInv PROVE TodayAgrees
      OBVIOUS
    <2>1. \A i \in closedIDs \cup closedToday : i \in Ids /\ ListOK(i)
      BY DEF BookIInv, TradeOK, BookTypeOK
    <2>2. \A i \in closedIDs \ (closing \cup unseen) :
            (rows[i].st = "closed" /\ rows[i].day = today /\ closedDay = today) => i \in closedToday
      BY <2>1 DEF ListOK, closing
    <2>3. \A i \in closedToday : \/ rows[i].st = "closed"
                                \/ purge[i] = "forget" \/ i \in unseen \cup lateList \/ staleLoad
      BY <2>1 DEF ListOK, StillClosed
    <2>4. twice \subseteq ahead
      BY DEF BookIInv, TradeOK, LandedOK, BookTypeOK
    <2> QED BY <2>2, <2>3, <2>4 DEF TodayAgrees
  <1> QED BY <1>1, <1>2, BookInvariant, PTL DEF BookAgrees

-----------------------------------------------------------------------------
(* The book implements the abstract paper book                             *)

\* What a step does to storage: nothing, an insert the index allows, a close of an open row, a
\* delete of one that is not deleted, or a figure for one that exists.
LEMMA StorageSteps ==
    ASSUME BookIInv, BookNext
    PROVE  \/ rows' = rows
           \/ \E u \in BookKeys, i \in Ids : rows[i].st = "none" /\ IndexAllows(i, u) /\ InsertRow(i, u)
           \/ \E i \in Ids, day \in Nat : rows[i].st = "open" /\ CloseRow(i, day)
           \/ \E i \in Ids : rows[i].st \in {"open", "closed"} /\ DeleteRow(i, rows[i].st)
           \/ \E i \in Ids : rows[i].st # "none" /\ (SetMargin(i, TRUE) \/ SetMargin(i, FALSE))
  <1>1. CASE \/ loadSettingsStep \/ loadTradesOpen \/ loadTradesAdopt \/ loadTradesClosed \/ loadTradesMerge
             \/ EnsureReady \/ LoadFails
             \/ Midnight \/ rollDay \/ Restart
    BY <1>1 DEF loadSettingsStep, loadTradesOpen, loadTradesAdopt, loadTradesClosed, loadTradesMerge,
                EnsureReady, LoadFails, Midnight, rollDay, Restart, storeVars
  <1>2. ASSUME NEW u \in BookKeys, enter(u) \/ finishEnter(u) \/ DuplicateRead(u) \/ DuplicateAdopt(u)
        PROVE  rows' = rows
    BY <1>2 DEF enter, finishEnter, DuplicateRead, DuplicateAdopt, storeVars
  <1>3. ASSUME NEW u \in BookKeys, InsertLands(u)
        PROVE  rows' = rows \/ \E i \in Ids : rows[i].st = "none" /\ IndexAllows(i, u) /\ InsertRow(i, u)
    <2>1. entry[u].id \in Ids /\ rows[entry[u].id].st = "none"
      BY <1>3 DEF InsertLands, BookIInv, IdsFresh
    <2>2. rows' = rows \/ (IndexAllows(entry[u].id, u) /\ InsertRow(entry[u].id, u))
      BY <1>3 DEF InsertLands
    <2> QED BY <2>1, <2>2
  <1>4. ASSUME NEW i \in Ids, finalize(i) \/ finishFinalize(i) \/ LostRead(i) \/ LostList(i) \/ DeleteOpen(i)
               \/ DeleteOpenEnds(i) \/ DeleteStored(i) \/ DeleteRead(i) \/ forgetClosed(i)
        PROVE  rows' = rows
    BY <1>4 DEF finalize, finishFinalize, LostRead, LostList, DeleteOpen, DeleteOpenEnds, DeleteStored,
                DeleteRead, forgetClosed, storeVars
  <1>5. ASSUME NEW i \in Ids, CloseLands(i) \/ OtherCloses(i)
        PROVE  rows' = rows \/ (\E day \in Nat : rows[i].st = "open" /\ CloseRow(i, day))
    <2>1. exits[i].day \in Nat /\ today \in Nat
      BY DEF BookIInv, BookTypeOK
    <2>2. CloseLands(i) => rows' = rows \/ (rows[i].st = "open" /\ CloseRow(i, exits[i].day))
      BY DEF CloseLands, CloseRow
    <2>3. OtherCloses(i) => rows[i].st = "open" /\ CloseRow(i, today)
      BY DEF OtherCloses
    <2> QED BY <1>5, <2>1, <2>2, <2>3
  <1>6. ASSUME NEW i \in Ids, DeleteLands(i) \/ DeleteMark(i)
        PROVE  rows' = rows \/ (rows[i].st \in {"open", "closed"} /\ DeleteRow(i, rows[i].st))
    <2>1. rows' = rows \/ DeleteRow(i, "open") \/ DeleteRow(i, "closed")
      BY <1>6 DEF DeleteLands, DeleteMark, markDeletedReconciled
    <2>2. rows' = rows \/ DeleteRow(i, rows[i].st)
      BY <2>1 DEF DeleteRow
    <2>3. rows' = rows \/ rows[i].st \in {"open", "closed"}
      BY <2>1 DEF DeleteRow
    <2> QED BY <2>2, <2>3
  <1>7. ASSUME NEW i \in Ids, captureMargin(i) \/ applyMargin(i) \/ MarginWrite(i) \/ MarginGivesUp(i)
        PROVE  rows' = rows \/ (rows[i].st # "none" /\ (SetMargin(i, TRUE) \/ SetMargin(i, FALSE)))
    <2>1. rows' = rows \/ SetMargin(i, TRUE) \/ SetMargin(i, FALSE)
      BY <1>7 DEF captureMargin, applyMargin, MarginWrite, MarginGivesUp, storeVars
    <2>2. rows' = rows \/ marginJob[i] # "none"
      BY <1>7 DEF captureMargin, applyMargin, MarginWrite, MarginGivesUp, storeVars
    <2>3. rows' = rows \/ rows[i].st # "none"
      BY <2>2 DEF BookIInv, FiguresOfRows
    <2> QED BY <2>1, <2>3
  <1> QED BY <1>1, <1>2, <1>3, <1>4, <1>5, <1>6, <1>7 DEF BookNext

\* Each of these is a step of the abstract paper book, or a stutter.
LEMMA PaperStep == BookIInv /\ BookIInv' /\ [BookNext]_bookVars => [Paper!PaperNext]_(Paper!paperVars)
  <1> SUFFICES ASSUME BookIInv, BookIInv', [BookNext]_bookVars PROVE [Paper!PaperNext]_(Paper!paperVars)
    OBVIOUS
  <1>0. BookTypeOK /\ BookTypeOK'
    BY DEF BookIInv
  <1>1. CASE rows' = rows
    BY <1>1 DEF Paper!paperVars
  <1>2. ASSUME NEW u \in BookKeys, NEW i \in Ids, rows[i].st = "none", IndexAllows(i, u), InsertRow(i, u)
        PROVE  Paper!Open(i, u)
    <2>1. /\ rows'[i].st = "open" /\ rows'[i].und = u /\ ~rows'[i].mg
          /\ \A j \in Ids \ {i} : rows'[j] = rows[j]
      BY <1>0, <1>2, Inserted
    <2>2. ~rows[i].mg
      BY <1>2 DEF BookIInv, FiguresOfRows
    <2>3. Paper!OpenOn(u) = {}
      BY <1>2 DEF Paper!OpenOn, IndexAllows, StoredOpen
    <2>4. {j \in Ids : rows'[j].mg} = {j \in Ids : rows[j].mg}
      BY <2>1, <2>2
    <2> QED BY <1>2, <2>1, <2>3, <2>4 DEF Paper!Open
  <1>3. ASSUME NEW i \in Ids, NEW day \in Nat, rows[i].st = "open", CloseRow(i, day)
        PROVE  Paper!CloseOut(i)
    <2>1. /\ rows'[i].st = "closed" /\ \A j \in Ids \ {i} : rows'[j] = rows[j]
          /\ \A j \in Ids : rows'[j].und = rows[j].und /\ rows'[j].mg = rows[j].mg
      BY <1>0, <1>3, Closed
    <2> QED BY <1>3, <2>1 DEF Paper!CloseOut
  <1>4. ASSUME NEW i \in Ids, rows[i].st \in {"open", "closed"}, DeleteRow(i, rows[i].st)
        PROVE  Paper!Remove(i)
    <2>1. /\ rows'[i].st = "deleted" /\ \A j \in Ids \ {i} : rows'[j] = rows[j]
          /\ \A j \in Ids : rows'[j].und = rows[j].und /\ rows'[j].mg = rows[j].mg
      BY <1>0, <1>4, Deleted
    <2> QED BY <1>4, <2>1 DEF Paper!Remove
  <1>5. ASSUME NEW i \in Ids, rows[i].st # "none", rows' # rows, SetMargin(i, TRUE) \/ SetMargin(i, FALSE)
        PROVE  Paper!Record(i)
    <2>1. /\ \A j \in Ids : rows'[j].st = rows[j].st /\ rows'[j].und = rows[j].und
          /\ \A j \in Ids \ {i} : rows'[j] = rows[j]
          /\ rows[i].st # "deleted"
      BY <1>0, <1>5, Figured
    <2>2. rows[i].st \in {"open", "closed"}
      BY <1>0, <1>5, <2>1 DEF BookTypeOK, Row
    <2>3. CASE rows'[i].mg
      BY <2>1, <2>2, <2>3 DEF Paper!Record
    <2>4. CASE ~rows'[i].mg
      BY <2>1, <2>2, <2>4 DEF Paper!Record
    <2> QED BY <2>3, <2>4
  <1>6. CASE BookNext
    BY <1>1, <1>2, <1>3, <1>4, <1>5, <1>6, StorageSteps DEF Paper!PaperNext
  <1>7. CASE UNCHANGED bookVars
    BY <1>1, <1>7 DEF bookVars, storeVars
  <1> QED BY <1>6, <1>7

\* Storage behaves as the abstract paper book: a trade is opened, closed and deleted at most
\* once and in that order, and an underlying has at most one open trade.
THEOREM BookIsPaperBook == BookSpec => ImplementsPaperBook
  <1>1. BookInit => Paper!PaperInit
    <2> SUFFICES ASSUME BookInit PROVE Paper!PaperInit
      OBVIOUS
    <2>1. rows \in [Ids -> Row] /\ \A i \in Ids : rows[i].st = "none" /\ ~rows[i].mg
      BY NoRowsYet
    <2> QED BY <2>1 DEF Paper!PaperInit, Row
  <1> QED BY <1>1, BookInvariant, PaperStep, PTL DEF BookSpec, ImplementsPaperBook, Paper!PaperSpec

-----------------------------------------------------------------------------
(* Settings: turns                                                         *)

\* An idle turn taker's record, and what a step makes of one.
LEMMA IdleTyped == Idle \in TurnType /\ Idle.at = "idle"
  BY DEF Idle, TurnType, Setting

\* Who begins or saves is first in the queue.
LEMMA FirstActs ==
    ASSUME SettingsTypeOK, TurnsInOrder, NEW a \in Actors, beginTurn(a) \/ t[a].at = "saving"
    PROVE  /\ turns # <<>> /\ turns[1] = a /\ Len(turns) \in Nat \ {0} /\ t[a].at # "idle"
           /\ \A b \in Actors \ {a} : t[b].at # "saving"
  <1>1. PICK i \in 1..Len(turns) : turns[i] = a
    BY DEF TurnsInOrder, beginTurn
  <1>2. Len(turns) \in Nat \ {0} /\ turns # <<>>
    BY <1>1, LenProperties, EmptySeq DEF SettingsTypeOK
  <1>3. turns[1] = a
    BY <1>2 DEF beginTurn, TurnsInOrder, SettingsTypeOK
  <1> QED BY <1>2, <1>3 DEF TurnsInOrder, beginTurn

\* The first one's turn ends: the others move up (the turn's done signal).
LEMMA TurnEnds ==
    ASSUME SettingsTypeOK, TurnsInOrder, NEW a \in Actors, beginTurn(a) \/ t[a].at = "saving", endTurn(a)
    PROVE  /\ t' \in [Actors -> TurnType] /\ turns' \in Seq(Actors) /\ TurnsInOrder'
           /\ t'[a].at = "idle" /\ \A b \in Actors \ {a} : t'[b] = t[b] /\ t'[b].at # "saving"
  <1>1. /\ turns # <<>> /\ turns[1] = a /\ Len(turns) \in Nat \ {0}
        /\ \A b \in Actors \ {a} : t[b].at # "saving"
    BY FirstActs
  <1>2. turns' = Tail(turns)
    <2>0. PICK i \in 1..Len(turns) : turns[i] = a /\ turns' = RemoveAt(turns, i)
      BY DEF endTurn
    <2>4. i = 1
      BY <1>1, <2>0 DEF TurnsInOrder
    <2>5. turns' = SubSeq(turns, 1, 0) \o SubSeq(turns, 2, Len(turns))
      BY <2>0, <2>4 DEF RemoveAt
    <2>1. turns' = SubSeq(turns, 1, 0) \o Tail(turns)
      BY <1>1, <2>5, TailIsSubSeq DEF SettingsTypeOK
    <2>2. SubSeq(turns, 1, 0) = <<>>
      BY SubSeqEmpty
    <2>3. Tail(turns) \in Seq(Actors)
      BY <1>1, HeadTailProperties DEF SettingsTypeOK
    <2> QED BY <2>1, <2>2, <2>3, ConcatEmptySeq
  <1>3. /\ turns' \in Seq(Actors) /\ Len(turns') = Len(turns) - 1
        /\ \A i \in 1..Len(turns') : turns'[i] = turns[i + 1]
    BY <1>1, <1>2, HeadTailProperties DEF SettingsTypeOK
  <1>4. /\ t' = [t EXCEPT ![a] = Idle] /\ t \in [Actors -> TurnType]
        /\ t'[a] = Idle /\ \A b \in Actors \ {a} : t'[b] = t[b]
    BY DEF endTurn, SettingsTypeOK
  <1>5. t' \in [Actors -> TurnType]
    BY <1>4, IdleTyped
  <1>6. TurnsInOrder'
    <2>1. ASSUME NEW i \in 1..Len(turns'), NEW j \in 1..Len(turns'), turns'[i] = turns'[j]
          PROVE  i = j
      <3>1. i + 1 \in 1..Len(turns) /\ j + 1 \in 1..Len(turns) /\ turns[i + 1] = turns[j + 1]
        BY <1>1, <1>3, <2>1
      <3>2. i + 1 = j + 1
        BY <3>1 DEF TurnsInOrder
      <3> QED BY <3>2
    <2>2. ASSUME NEW b \in Actors
          PROVE  t'[b].at # "idle" <=> \E i \in 1..Len(turns') : turns'[i] = b
      <3>1. CASE b = a
        <4>1. ASSUME NEW i \in 1..Len(turns') PROVE turns'[i] # a
          <5>1. i + 1 \in 1..Len(turns) /\ 1 \in 1..Len(turns) /\ i + 1 # 1
            BY <1>1, <1>3
          <5> QED BY <1>1, <1>3, <5>1 DEF TurnsInOrder
        <4> QED BY <3>1, <4>1, <1>4, IdleTyped
      <3>2. CASE b # a /\ t[b].at = "idle"
        <4>1. ASSUME NEW i \in 1..Len(turns') PROVE turns'[i] # b
          <5>1. i + 1 \in 1..Len(turns)
            BY <1>1, <1>3
          <5> QED BY <3>2, <1>3, <5>1 DEF TurnsInOrder
        <4> QED BY <3>2, <4>1, <1>4
      <3>3. CASE b # a /\ t[b].at # "idle"
        <4>1. PICK i \in 1..Len(turns) : turns[i] = b
          BY <3>3 DEF TurnsInOrder
        <4>2. i # 1 /\ i - 1 \in 1..Len(turns') /\ turns'[i - 1] = turns[i]
          BY <4>1, <3>3, <1>1, <1>3
        <4> QED BY <3>3, <4>1, <4>2, <1>4
      <3> QED BY <3>1, <3>2, <3>3
    <2>3. \A b \in Actors : t'[b].at # "saving"
      BY <1>1, <1>4, IdleTyped
    <2> QED BY <2>1, <2>2, <2>3 DEF TurnsInOrder
  <1> QED BY <1>1, <1>3, <1>4, <1>5, <1>6, IdleTyped

\* A place at the end of the queue is taken (settingsTurnLocked).
LEMMA TurnQueued ==
    ASSUME SettingsTypeOK, TurnsInOrder, NEW a \in Actors, t[a] = Idle, NEW rec \in TurnType,
           rec.at = "queued", settingsTurn(a, rec)
    PROVE  /\ t' \in [Actors -> TurnType] /\ turns' \in Seq(Actors) /\ TurnsInOrder'
           /\ t'[a] = rec /\ \A b \in Actors \ {a} : t'[b] = t[b]
  <1>1. /\ turns' \in Seq(Actors) /\ Len(turns) \in Nat /\ Len(turns') = Len(turns) + 1
        /\ \A i \in 1..Len(turns) : turns'[i] = turns[i]
        /\ turns'[Len(turns) + 1] = a
    BY AppendProperties, LenProperties DEF settingsTurn, SettingsTypeOK
  <1>2. \A i \in 1..Len(turns) : turns[i] # a
    BY IdleTyped DEF TurnsInOrder
  <1>3. t' \in [Actors -> TurnType] /\ t'[a] = rec /\ \A b \in Actors \ {a} : t'[b] = t[b]
    BY DEF settingsTurn, SettingsTypeOK
  <1>4. \A i, j \in 1..Len(turns') : turns'[i] = turns'[j] => i = j
    BY <1>1, <1>2 DEF TurnsInOrder
  <1>5. ASSUME NEW b \in Actors
        PROVE  t'[b].at # "idle" <=> \E i \in 1..Len(turns') : turns'[i] = b
    <2>1. CASE b = a
      BY <2>1, <1>1, <1>3
    <2>2. CASE b # a /\ t[b].at = "idle"
      <3>1. ASSUME NEW i \in 1..Len(turns') PROVE turns'[i] # b
        <4>1. i \in 1..Len(turns) \/ i = Len(turns) + 1
          BY <1>1
        <4> QED BY <2>2, <4>1, <1>1 DEF TurnsInOrder
      <3> QED BY <2>2, <3>1, <1>3
    <2>3. CASE b # a /\ t[b].at # "idle"
      <3>1. PICK i \in 1..Len(turns) : turns[i] = b
        BY <2>3 DEF TurnsInOrder
      <3>2. i \in 1..Len(turns') /\ turns'[i] = b
        BY <3>1, <1>1
      <3> QED BY <2>3, <3>2, <1>3
    <2> QED BY <2>1, <2>2, <2>3
  <1>6. ASSUME NEW b \in Actors, t'[b].at = "saving" PROVE turns'[1] = b
    <2>1. b # a /\ t[b].at = "saving"
      BY <1>6, <1>3
    <2>2. turns[1] = b /\ 1 \in 1..Len(turns)
      BY <2>1, FirstActs
    <2> QED BY <2>2, <1>1
  <1> QED BY <1>1, <1>3, <1>4, <1>5, <1>6 DEF TurnsInOrder

-----------------------------------------------------------------------------
(* Settings: loads, changes and saves                                      *)

\* Nothing in force is Absent.
LEMMA NeverAbsent ==
    ASSUME NEW s \in [Keys -> Setting]
    PROVE  /\ s \in [Keys -> Setting \cup {Absent}] /\ over(s, defaults) = s
           /\ \A k \in Keys : s[k] # Absent
  <1>1. \A k \in Keys : s[k] \in Setting /\ s[k] # Absent
    BY SettingsAssumption DEF Setting
  <1>2. over(s, defaults) = [k \in Keys |-> s[k]]
    BY <1>1 DEF over
  <1> QED BY <1>1, <1>2

\* A load reads the table over the defaults, wherever no change was saved under it.
LEMMA LoadsRow ==
    ASSUME SettingsTypeOK, backed(mem), ~dirty, ~torn, ~loaded
    PROVE  over(row, mem) = over(row, defaults)
  BY DEF backed, over, defaults

\* Where no setting moves and no save begins or ends, nothing is at stake.
LEMMA SavingSame ==
    ASSUME SavingChange, UNCHANGED <<mem, loaded, dirty, row, torn>>, t'[Loader].at = "saving" => ~loaded,
           \A a \in Admins : t'[a] = t[a] \/ (t'[a].at # "saving" /\ t[a].at # "saving")
    PROVE  SavingChange'
  <1>1. ASSUME NEW a \in Admins, t'[a].at = "saving"
        PROVE  backed(t[a].before)' /\ mem' = [t'[a].before EXCEPT ![t'[a].key] = t'[a].val]
    <2>1. t'[a] = t[a] /\ backed(t[a].before) /\ mem = [t[a].before EXCEPT ![t[a].key] = t[a].val]
      BY <1>1 DEF SavingChange
    <2> QED BY <2>1 DEF backed
  <1>2. ASSUME \A a \in Admins : t'[a].at # "saving"
        PROVE  backed(mem)'
    <2>1. backed(mem)
      BY <1>2 DEF SavingChange
    <2> QED BY <2>1 DEF backed
  <1> QED BY <1>1, <1>2 DEF SavingChange

\* The load's turn (loadSettings).
LEMMA LoaderKeeps ==
    ASSUME SettingsIInv,
           attemptLoad \/ loadSettings \/ loadSaved
    PROVE  SettingsIInv'
  <1> USE DEF SettingsIInv
  <1>a. Loader \in Actors /\ Admins \subseteq Actors /\ \A a \in Admins : a # Loader
    BY SettingsAssumption DEF Actors
  <1>1. CASE attemptLoad
    <2> DEFINE rec == [Idle EXCEPT !.at = "queued"]
    <2>1. rec \in TurnType /\ rec.at = "queued"
      BY IdleTyped DEF TurnType
    <2>2. t[Loader] = Idle /\ settingsTurn(Loader, rec)
      BY <1>1 DEF attemptLoad
    <2>3. UNCHANGED <<mem, loaded, dirty, row, torn>>
      BY <1>1 DEF attemptLoad, memVars
    <2> HIDE DEF rec
    <2>4. /\ t' \in [Actors -> TurnType] /\ turns' \in Seq(Actors) /\ TurnsInOrder'
          /\ t'[Loader].at = "queued" /\ \A b \in Actors \ {Loader} : t'[b] = t[b]
      BY <2>1, <2>2, <1>a, TurnQueued
    <2>5. SavingChange'
      BY <1>a, <2>3, <2>4, SavingSame
    <2> QED BY <1>a, <2>3, <2>4, <2>5 DEF SettingsTypeOK
  <1>2. CASE loadSettings
    <2>1. /\ beginTurn(Loader) /\ UNCHANGED <<row, torn>>
          /\ \A b \in Actors \ {Loader} : t[b].at # "saving"
      BY <1>2, <1>a, FirstActs DEF loadSettings
    <2>2. backed(mem)
      BY <2>1, <1>a DEF SavingChange
    <2>3. CASE endTurn(Loader) /\ UNCHANGED memVars
      BY <1>a, <2>1, <2>3, <2>2, TurnEnds DEF SettingsTypeOK, SavingChange, backed, memVars
    <2>4. CASE ~loaded /\ dirty /\ step(Loader, "saving") /\ UNCHANGED <<memVars, turns>>
      <3> DEFINE rec == [t[Loader] EXCEPT !.at = "saving"]
      <3>0. rec \in TurnType /\ rec.at = "saving"
        BY <1>a DEF SettingsTypeOK, TurnType
      <3>1. t' = [t EXCEPT ![Loader] = rec]
        BY <2>4 DEF step
      <3> HIDE DEF rec
      <3>2. t' \in [Actors -> TurnType] /\ t'[Loader].at = "saving" /\ \A b \in Actors \ {Loader} : t'[b] = t[b]
        BY <3>0, <3>1, <1>a DEF SettingsTypeOK
      <3>3. turns[1] = Loader /\ t[Loader].at # "idle"
        BY <2>1, <1>a, FirstActs
      <3>4. TurnsInOrder'
        BY <2>4, <3>2, <3>3, <1>a DEF TurnsInOrder
      <3> QED BY <1>a, <2>1, <2>2, <2>4, <3>2, <3>4 DEF SettingsTypeOK, SavingChange, backed, memVars
    <2>5. CASE ~loaded /\ ~dirty /\ endTurn(Loader) /\ mem' = over(row, mem) /\ loaded' = TRUE /\ UNCHANGED dirty
      <3>1. mem' \in [Keys -> Setting]
        BY <2>5 DEF over, SettingsTypeOK
      <3>2. ~torn => mem' = over(row, defaults)
        BY <2>5, <2>2, LoadsRow
      <3>3. backed(mem)'
        BY <2>5, <2>1, <3>2 DEF backed, over, defaults
      <3> QED BY <1>a, <2>1, <2>5, <3>1, <3>3, TurnEnds DEF SettingsTypeOK, SavingChange
    <2> QED BY <1>2, <2>3, <2>4, <2>5 DEF loadSettings
  <1>3. CASE loadSaved
    <2>1. t[Loader].at = "saving" /\ endTurn(Loader) /\ mem' = mem
      BY <1>3 DEF loadSaved
    <2>2. /\ t' \in [Actors -> TurnType] /\ turns' \in Seq(Actors) /\ TurnsInOrder'
          /\ t'[Loader].at = "idle" /\ \A b \in Actors \ {Loader} : t'[b] = t[b] /\ t'[b].at # "saving"
      BY <1>a, <2>1, TurnEnds
    <2>3. backed(mem)
      BY <1>a, <2>1, FirstActs DEF SavingChange
    <2>4. row' \in [Keys -> Setting \cup {Absent}] /\ backed(mem)'
      <3>1. mem \in [Keys -> Setting \cup {Absent}] /\ mem = over(mem, defaults) /\ \A k \in Keys : mem[k] # Absent
        BY NeverAbsent DEF SettingsTypeOK
      <3>2. CASE row' = mem /\ dirty' = FALSE /\ loaded' = TRUE /\ torn' = FALSE
        BY <2>1, <3>1, <3>2 DEF backed, over, defaults
      <3>3. CASE row' = mem /\ torn' = TRUE
        BY <3>1, <3>3 DEF backed
      <3>4. CASE UNCHANGED <<row, dirty, loaded, torn>>
        BY <2>1, <2>3, <3>4 DEF backed, SettingsTypeOK
      <3> QED BY <1>3, <3>2, <3>3, <3>4 DEF loadSaved, SaveSettings
    <2> QED BY <1>a, <2>1, <2>2, <2>4 DEF SettingsTypeOK, SavingChange
  <1> QED BY <1>1, <1>2, <1>3

\* A request's turn (UpdateSettings).
LEMMA ChangesKeep ==
    ASSUME SettingsIInv, NEW a \in Admins,
           (\E k \in Keys, v \in Values : UpdateSettings(a, k, v)) \/ applySettings(a) \/ settingsSaved(a)
    PROVE  SettingsIInv'
  <1> USE DEF SettingsIInv
  <1>a. a \in Actors /\ Loader \in Actors /\ a # Loader /\ Admins \subseteq Actors
    BY SettingsAssumption DEF Actors
  <1>1. ASSUME NEW k \in Keys, NEW v \in Values, UpdateSettings(a, k, v)
        PROVE  SettingsIInv'
    <2> DEFINE rec == [Idle EXCEPT !.at = "queued", !.key = k, !.val = v]
    <2>1. rec \in TurnType /\ rec.at = "queued" /\ rec.key = k /\ rec.val = v
      BY IdleTyped DEF TurnType
    <2>2. t[a] = Idle /\ settingsTurn(a, rec)
      BY <1>1 DEF UpdateSettings
    <2>3. UNCHANGED <<mem, loaded, dirty, row, torn>>
      BY <1>1 DEF UpdateSettings, memVars
    <2> HIDE DEF rec
    <2>4. /\ t' \in [Actors -> TurnType] /\ turns' \in Seq(Actors) /\ TurnsInOrder'
          /\ t'[a] = rec /\ \A b \in Actors \ {a} : t'[b] = t[b]
      BY <2>1, <2>2, <1>a, TurnQueued
    <2>5. SavingChange'
      <3>1. t'[Loader] = t[Loader] /\ t[a].at # "saving" /\ t'[a].at # "saving"
        BY <1>a, <2>1, <2>2, <2>4, IdleTyped
      <3>2. t[Loader].at = "saving" => ~loaded
        BY DEF SavingChange
      <3> QED BY <1>a, <2>3, <2>4, <3>1, <3>2, SavingSame
    <2> QED BY <1>a, <2>1, <2>2, <2>3, <2>4, <2>5 DEF SettingsTypeOK
  <1>2. CASE applySettings(a)
    <2> DEFINE changed == [mem EXCEPT ![t[a].key] = t[a].val]
    <2>1. /\ beginTurn(a) /\ t[a].at # "idle" /\ turns[1] = a
          /\ \A b \in Actors \ {a} : t[b].at # "saving"
      BY <1>2, <1>a, FirstActs DEF applySettings
    <2>2. backed(mem) /\ UNCHANGED <<loaded, row, torn>> /\ mem' = changed
      BY <1>2, <2>1, <1>a DEF SavingChange, applySettings, beginTurn
    <2>3. changed \in [Keys -> Setting]
      BY <2>1 DEF SettingsTypeOK, Setting
    <2>4. CASE enabled
      <3> DEFINE rec == [t[a] EXCEPT !.at = "saving", !.before = mem]
      <3>0. /\ rec \in TurnType /\ rec.at = "saving" /\ rec.before = mem
            /\ rec.key = t[a].key /\ rec.val = t[a].val
        BY <1>a DEF SettingsTypeOK, TurnType
      <3>1. t' = [t EXCEPT ![a] = rec] /\ UNCHANGED <<dirty, turns>>
        BY <1>2, <2>4 DEF applySettings
      <3> HIDE DEF rec
      <3>2. t' \in [Actors -> TurnType] /\ t'[a] = rec /\ \A b \in Actors \ {a} : t'[b] = t[b]
        BY <3>0, <3>1, <1>a DEF SettingsTypeOK
      <3>4. TurnsInOrder'
        BY <2>1, <3>0, <3>1, <3>2, <1>a DEF TurnsInOrder
      <3>5. backed(t[a].before)' /\ mem' = [t'[a].before EXCEPT ![t'[a].key] = t'[a].val]
        BY <2>2, <3>0, <3>1, <3>2 DEF backed
      <3> QED BY <1>a, <2>1, <2>2, <2>3, <3>0, <3>1, <3>2, <3>4, <3>5 DEF SettingsTypeOK, SavingChange, backed
    <2>5. CASE ~enabled
      <3>1. endTurn(a) /\ dirty' = TRUE
        BY <1>2, <2>5 DEF applySettings
      <3> HIDE DEF changed
      <3> QED BY <1>a, <2>1, <2>2, <2>3, <3>1, TurnEnds DEF SettingsTypeOK, SavingChange, backed
    <2> QED BY <2>4, <2>5
  <1>3. CASE settingsSaved(a)
    <2> DEFINE next == [t[a].before EXCEPT ![t[a].key] = t[a].val]
    <2>1. t[a].at = "saving" /\ endTurn(a) /\ loaded' = loaded
      BY <1>3 DEF settingsSaved
    <2>2. /\ t' \in [Actors -> TurnType] /\ turns' \in Seq(Actors) /\ TurnsInOrder'
          /\ t'[a].at = "idle" /\ \A b \in Actors \ {a} : t'[b] = t[b] /\ t'[b].at # "saving"
      BY <1>a, <2>1, TurnEnds
    <2>3. backed(t[a].before) /\ mem = next /\ t[a].before \in [Keys -> Setting] /\ next \in [Keys -> Setting]
      BY <2>1, <1>a DEF SavingChange, SettingsTypeOK, TurnType
    <2>4. t[Loader].at # "saving"
      BY <2>1, <1>a, FirstActs
    <2> HIDE DEF next
    <2>5. next \in [Keys -> Setting \cup {Absent}] /\ next = over(next, defaults) /\ \A k \in Keys : next[k] # Absent
      BY <2>3, NeverAbsent
    <2>6. mem' \in [Keys -> Setting] /\ row' \in [Keys -> Setting \cup {Absent}] /\ backed(mem)'
      <3>1. CASE row' = next /\ dirty' = FALSE /\ torn' = FALSE /\ mem' = mem
        BY <2>1, <2>3, <2>5, <3>1 DEF backed, over, defaults
      <3>2. CASE mem' = t[a].before /\ dirty' = dirty /\ row' = next /\ torn' = TRUE
        BY <2>3, <2>5, <3>2 DEF backed
      <3>3. CASE mem' = t[a].before /\ dirty' = dirty /\ UNCHANGED <<row, torn>>
        BY <2>1, <2>3, <3>3 DEF backed, SettingsTypeOK
      <3> QED BY <1>3, <3>1, <3>2, <3>3 DEF settingsSaved, SaveSettings, next
    <2> QED BY <1>a, <2>2, <2>4, <2>6 DEF SettingsTypeOK, SavingChange
  <1> QED BY <1>1, <1>2, <1>3

\* When no turn is running, the settings in force are the saved ones, for any number of keys,
\* operators, changes, failed saves and restarts (loadSettings, UpdateSettings).
THEOREM SettingsInForceAreSaved == SettingsSpec => []ForceIsSaved
  <1>1. SettingsInit => SettingsIInv
    <2> SUFFICES ASSUME SettingsInit PROVE SettingsIInv
      OBVIOUS
    <2>1. mem \in [Keys -> Setting] /\ row \in [Keys -> Setting \cup {Absent}] /\ turns = <<>> /\ Len(turns) = 0
      BY DEF SettingsInit, defaults, Setting
    <2>2. t \in [Actors -> TurnType] /\ \A a \in Actors : t[a].at = "idle"
      BY IdleTyped DEF SettingsInit
    <2>3. turns \in Seq(Actors)
      BY <2>1
    <2>4. backed(mem)
      BY DEF backed, SettingsInit, defaults
    <2>5. Admins \subseteq Actors /\ Loader \in Actors
      BY DEF Actors
    <2> QED BY <2>1, <2>2, <2>3, <2>4, <2>5 DEF SettingsIInv, SettingsTypeOK, TurnsInOrder, SavingChange
  <1>2. SettingsIInv /\ [SettingsNext]_settingsVars => SettingsIInv'
    <2> SUFFICES ASSUME SettingsIInv, [SettingsNext]_settingsVars PROVE SettingsIInv'
      OBVIOUS
    <2>1. CASE UNCHANGED settingsVars \/ Connects
      BY <2>1 DEF settingsVars, memVars, boundVars, Connects, SettingsIInv, SettingsTypeOK, TurnsInOrder,
         SavingChange, backed
    <2>2. CASE Restarts
      <3>1. mem' \in [Keys -> Setting] /\ row' = row /\ turns' = <<>> /\ Len(turns') = 0 /\ turns' \in Seq(Actors)
        BY <2>2 DEF Restarts, defaults, Setting
      <3>2. t' \in [Actors -> TurnType] /\ \A a \in Actors : t'[a].at = "idle"
        BY <2>2, IdleTyped DEF Restarts
      <3>3. backed(mem)'
        BY <2>2 DEF backed, Restarts, defaults
      <3>4. Admins \subseteq Actors /\ Loader \in Actors
        BY DEF Actors
      <3> QED BY <3>1, <3>2, <3>3, <3>4 DEF SettingsIInv, SettingsTypeOK, TurnsInOrder, SavingChange
    <2> QED BY <2>1, <2>2, LoaderKeeps, ChangesKeep DEF SettingsNext
  <1>3. SettingsIInv => ForceIsSaved
    <2> SUFFICES ASSUME SettingsIInv, loaded, turns = <<>>, ~dirty, ~torn PROVE mem = over(row, defaults)
      BY DEF ForceIsSaved
    <2>1. \A a \in Admins : t[a].at # "saving"
      <3>1. Len(turns) = 0
        OBVIOUS
      <3> QED BY <3>1 DEF SettingsIInv, TurnsInOrder, Actors
    <2> QED BY <2>1 DEF SettingsIInv, SavingChange, backed
  <1> QED BY <1>1, <1>2, <1>3, PTL DEF SettingsSpec

-----------------------------------------------------------------------------
(* Streams                                                                 *)

\* What push does to each stream's queue: room is left or nothing changes.
LEMMA Pushed ==
    ASSUME StreamTypeOK, NEW S, NEW frame \in Nat, push(S, frame)
    PROVE  /\ queue' \in [Streams -> Seq(Nat)] /\ notify' \in [Streams -> BOOLEAN]
           /\ \A s \in Streams :
                IF s \in S /\ ~full(s)
                THEN /\ notify'[s] /\ queue'[s] # <<>> /\ queue'[s][Len(queue'[s])] = frame
                ELSE queue'[s] = queue[s] /\ notify'[s] = notify[s]
  <1>1. ASSUME NEW s \in Streams
        PROVE  /\ Append(queue[s], frame) \in Seq(Nat) /\ Append(queue[s], frame) # <<>>
               /\ Append(queue[s], frame)[Len(Append(queue[s], frame))] = frame
    <2>1. queue[s] \in Seq(Nat)
      BY DEF StreamTypeOK
    <2> QED BY <2>1, AppendProperties
  <1>2. queue' = [s \in Streams |-> IF s \in S /\ ~full(s) THEN Append(queue[s], frame) ELSE queue[s]]
    BY DEF push
  <1>3. \A s \in Streams : queue'[s] = IF s \in S /\ ~full(s) THEN Append(queue[s], frame) ELSE queue[s]
    BY <1>2
  <1>4. queue' \in [Streams -> Seq(Nat)]
    BY <1>1, <1>2 DEF StreamTypeOK
  <1>5. notify' \in [Streams -> BOOLEAN] /\ \A s \in Streams : notify'[s] = (notify[s] \/ (s \in S /\ ~full(s)))
    BY DEF push, StreamTypeOK
  <1>6. ASSUME NEW s \in Streams
        PROVE  IF s \in S /\ ~full(s)
               THEN /\ notify'[s] /\ queue'[s] # <<>> /\ queue'[s][Len(queue'[s])] = frame
               ELSE queue'[s] = queue[s] /\ notify'[s] = notify[s]
    BY <1>1, <1>3, <1>5 DEF StreamTypeOK
  <1> QED BY <1>4, <1>5, <1>6

\* Who fell behind was ended for it before anything else ends it.
LEMMA Overflowed ==
    ASSUME StreamTypeOK
    PROVE  /\ overflows(clients) \in [Streams -> Nat \cup {Overflow}]
           /\ \A s \in Streams : \/ overflows(clients)[s] = ended[s] /\ ~(s \in clients /\ full(s) /\ ended[s] = Open)
                                 \/ overflows(clients)[s] = Overflow /\ ended[s] = Open /\ s \in clients /\ full(s)
  BY DEF overflows, StreamTypeOK

\* A stream registers with its first snapshot (addSSEClient).
LEMMA FirstFrameKeeps ==
    ASSUME StreamIInv, NEW s \in Streams, addSSEClient(s)
    PROVE  StreamIInv'
  <1>1. /\ at[s] = "idle" /\ at' = [at EXCEPT ![s] = "waiting"] /\ clients' = clients \cup {s} /\ timer' = TRUE
        /\ seq' = seq + 1 /\ push({s}, seq + 1) /\ UNCHANGED <<ended, sent>>
    BY DEF addSSEClient, go
  <1>2. seq + 1 \in Nat
    BY DEF StreamIInv, StreamTypeOK
  <1>3. /\ queue' \in [Streams -> Seq(Nat)] /\ notify' \in [Streams -> BOOLEAN]
        /\ \A q \in Streams \ {s} : queue'[q] = queue[q] /\ notify'[q] = notify[q]
        /\ notify'[s] \/ queue'[s] = queue[s]
    BY <1>1, <1>2, Pushed DEF StreamIInv
  <1>4. StreamTypeOK'
    BY <1>1, <1>2, <1>3 DEF StreamIInv, StreamTypeOK
  <1>5. /\ at'[s] = "waiting" /\ \A q \in Streams \ {s} : at'[q] = at[q]
        /\ queue[s] = <<>> /\ ended[s] = Open
    BY <1>1 DEF StreamIInv, StreamTypeOK, EndsInTurn
  <1>6. WakeupKept'
    BY <1>1, <1>3, <1>5 DEF StreamIInv, WakeupKept
  <1>7. LastSnapshotOut'
    BY <1>1, <1>5 DEF StreamIInv, LastSnapshotOut
  <1>8. EndsInTurn'
    BY <1>1, <1>3, <1>5 DEF StreamIInv, EndsInTurn
  <1>9. LastIsLast'
    <2>1. ~(ended[s] > 0)
      BY <1>5 DEF Open
    <2> QED BY <1>1, <1>3, <1>5, <2>1 DEF StreamIInv, LastIsLast
  <1> QED BY <1>4, <1>6, <1>7, <1>8, <1>9 DEF StreamIInv

\* Every client is sent one frame more, or is ended for its backlog (Publish).
LEMMA PublishKeeps == ASSUME StreamIInv, Publish PROVE StreamIInv'
  <1>1. seq + 1 \in Nat /\ seq' = seq + 1 /\ push(clients, seq + 1) /\ ended' = overflows(clients)
        /\ UNCHANGED <<clients, timer, at, sent>>
    BY DEF Publish, StreamIInv, StreamTypeOK
  <1>2. /\ queue' \in [Streams -> Seq(Nat)] /\ notify' \in [Streams -> BOOLEAN]
        /\ \A s \in Streams : IF s \in clients /\ ~full(s) THEN notify'[s]
                              ELSE queue'[s] = queue[s] /\ notify'[s] = notify[s]
    BY <1>1, Pushed DEF StreamIInv
  <1>3. /\ ended' \in [Streams -> Nat \cup {Overflow}]
        /\ \A s \in Streams : \/ ended'[s] = ended[s] /\ ~(s \in clients /\ full(s) /\ ended[s] = Open)
                              \/ ended'[s] = Overflow /\ ended[s] = Open /\ s \in clients /\ full(s)
    BY <1>1, Overflowed DEF StreamIInv
  <1>4. StreamTypeOK'
    BY <1>1, <1>2, <1>3 DEF StreamIInv, StreamTypeOK
  <1>5. WakeupKept'
    BY <1>1, <1>2, <1>3 DEF StreamIInv, WakeupKept, Open, Overflow
  <1>6. \A s \in Streams : ended'[s] > 0 => ended'[s] = ended[s] /\ s \notin clients
    BY <1>3 DEF StreamIInv, LastIsLast, Overflow
  <1>7. LastSnapshotOut'
    BY <1>1, <1>6 DEF StreamIInv, LastSnapshotOut
  <1>8. EndsInTurn'
    BY <1>1, <1>2, <1>3 DEF StreamIInv, EndsInTurn, Open, Overflow
  <1>9. LastIsLast'
    BY <1>1, <1>2, <1>6 DEF StreamIInv, LastIsLast
  <1> QED BY <1>4, <1>5, <1>7, <1>8, <1>9 DEF StreamIInv

\* A last snapshot, and every client ends behind it (stopLocked, Dispose).
LEMMA DisposeKeeps == ASSUME StreamIInv, Dispose PROVE StreamIInv'
  <1>1. seq + 1 \in Nat /\ seq + 1 > 0 /\ seq' = seq + 1 /\ push(clients, seq + 1) /\ clients' = {} /\ timer' = FALSE
        /\ ended' = [s \in Streams |-> IF s \in clients /\ overflows(clients)[s] = Open THEN seq + 1
                                       ELSE overflows(clients)[s]]
        /\ UNCHANGED <<at, sent>>
    BY DEF Dispose, StreamIInv, StreamTypeOK
  <1>2. /\ queue' \in [Streams -> Seq(Nat)] /\ notify' \in [Streams -> BOOLEAN]
        /\ \A s \in Streams : IF s \in clients /\ ~full(s)
                              THEN notify'[s] /\ queue'[s] # <<>> /\ queue'[s][Len(queue'[s])] = seq + 1
                              ELSE queue'[s] = queue[s] /\ notify'[s] = notify[s]
    BY <1>1, Pushed DEF StreamIInv
  <1>3. \A s \in Streams : \/ overflows(clients)[s] = ended[s] /\ ~(s \in clients /\ full(s) /\ ended[s] = Open)
                           \/ overflows(clients)[s] = Overflow /\ ended[s] = Open /\ s \in clients /\ full(s)
    BY Overflowed DEF StreamIInv
  <1>4. ASSUME NEW s \in Streams
        PROVE  \/ ended'[s] = seq + 1 /\ ended[s] = Open /\ s \in clients /\ ~full(s)
               \/ ended'[s] = Overflow /\ ended[s] = Open /\ s \in clients
               \/ ended'[s] = ended[s] /\ (s \in clients => ended[s] # Open)
    BY <1>1, <1>3 DEF Open, Overflow
  <1>5. StreamTypeOK'
    BY <1>1, <1>2, <1>4 DEF StreamIInv, StreamTypeOK
  <1>6. WakeupKept'
    BY <1>1, <1>2, <1>4 DEF StreamIInv, WakeupKept, Open, Overflow
  <1>7. LastIsLast'
    <2> SUFFICES ASSUME NEW s \in Streams, ended'[s] > 0, at'[s] \in {"waiting", "writing", "last"}
                 PROVE  IF queue'[s] = <<>> THEN sent'[s] = ended'[s] ELSE queue'[s][Len(queue'[s])] = ended'[s]
      BY <1>1 DEF LastIsLast
    <2>1. CASE ended'[s] = seq + 1 /\ s \in clients /\ ~full(s)
      BY <2>1, <1>2
    <2>2. CASE ended'[s] = ended[s]
      BY <2>2, <1>1, <1>2 DEF StreamIInv, LastIsLast
    <2> QED BY <1>4, <2>1, <2>2 DEF Overflow
  <1>8. EndsInTurn'
    BY <1>1, <1>2, <1>4 DEF StreamIInv, EndsInTurn, Open, Overflow
  <1>9. LastSnapshotOut'
    <2>1. ASSUME NEW s \in Streams, at[s] = "finished", ended'[s] > 0
          PROVE  sent[s] = ended'[s]
      <3>1. ended[s] # Open
        BY <2>1 DEF StreamIInv, EndsInTurn
      <3> QED BY <2>1, <3>1, <1>4 DEF StreamIInv, LastSnapshotOut, Overflow
    <2> QED BY <1>1, <2>1 DEF LastSnapshotOut
  <1> QED BY <1>5, <1>6, <1>7, <1>8, <1>9 DEF StreamIInv

\* The request's goroutine wakes, writes what is queued, sees its end, or leaves.
LEMMA WriterKeeps ==
    ASSUME StreamIInv, NEW s \in Streams,
           wake(s) \/ seesEnd(s) \/ write(s) \/ peerGone(s) \/ remove(s)
    PROVE  StreamIInv'
  <1>1. CASE wake(s)
    BY <1>1 DEF wake, go, StreamIInv, StreamTypeOK, WakeupKept, LastSnapshotOut, EndsInTurn, LastIsLast
  <1>2. CASE seesEnd(s)
    BY <1>2 DEF seesEnd, go, clientVars, StreamIInv, StreamTypeOK, WakeupKept, LastSnapshotOut, EndsInTurn, LastIsLast
  <1>3. CASE write(s)
    <2>1. /\ at[s] \in {"writing", "last"} /\ queue' = [queue EXCEPT ![s] = <<>>]
          /\ UNCHANGED <<clients, timer, seq, notify, ended>>
      BY <1>3 DEF write
    <2>2. /\ queue' \in [Streams -> Seq(Nat)] /\ queue'[s] = <<>>
          /\ \A q \in Streams \ {s} : queue'[q] = queue[q]
      BY <2>1 DEF StreamIInv, StreamTypeOK
    <2>3. CASE at' = [at EXCEPT ![s] = "left"] /\ sent' = sent
      BY <2>1, <2>2, <2>3 DEF StreamIInv, StreamTypeOK, WakeupKept, LastSnapshotOut, EndsInTurn, LastIsLast
    <2>4. ASSUME sent' = [sent EXCEPT ![s] = IF queue[s] = <<>> THEN @ ELSE queue[s][Len(queue[s])]],
                 at' = [at EXCEPT ![s] = IF at[s] = "last" THEN "finished" ELSE "waiting"]
          PROVE  StreamIInv'
      <3>1. (IF queue[s] = <<>> THEN sent[s] ELSE queue[s][Len(queue[s])]) \in Nat
        <4>1. queue[s] \in Seq(Nat) /\ sent[s] \in Nat
          BY DEF StreamIInv, StreamTypeOK
        <4>2. ASSUME queue[s] # <<>> PROVE queue[s][Len(queue[s])] \in Nat
          <5>1. Len(queue[s]) \in 1..Len(queue[s])
            BY <4>1, <4>2, EmptySeq
          <5> QED BY <4>1, <5>1, ElementOfSeq
        <4> QED BY <4>1, <4>2
      <3>2. /\ sent' \in [Streams -> Nat] /\ \A q \in Streams \ {s} : sent'[q] = sent[q]
            /\ sent'[s] = IF queue[s] = <<>> THEN sent[s] ELSE queue[s][Len(queue[s])]
        BY <2>4, <3>1 DEF StreamIInv, StreamTypeOK
      <3>3. /\ at'[s] = IF at[s] = "last" THEN "finished" ELSE "waiting"
            /\ \A q \in Streams \ {s} : at'[q] = at[q]
        BY <2>4 DEF StreamIInv, StreamTypeOK
      <3>4. StreamTypeOK'
        BY <2>1, <2>2, <2>4, <3>2 DEF StreamIInv, StreamTypeOK
      <3>5. ended[s] > 0 => sent'[s] = ended[s]
        BY <2>1, <3>2 DEF StreamIInv, LastIsLast
      <3>6. WakeupKept' /\ LastSnapshotOut' /\ EndsInTurn' /\ LastIsLast'
        BY <2>1, <2>2, <3>2, <3>3, <3>5 DEF StreamIInv, WakeupKept, LastSnapshotOut, EndsInTurn, LastIsLast
      <3> QED BY <3>4, <3>6 DEF StreamIInv
    <2> QED BY <1>3, <2>3, <2>4 DEF write, go
  <1>4. CASE peerGone(s)
    BY <1>4 DEF peerGone, go, clientVars, StreamIInv, StreamTypeOK, WakeupKept, LastSnapshotOut, EndsInTurn, LastIsLast
  <1>5. CASE remove(s)
    BY <1>5 DEF remove, go, clientVars, StreamIInv, StreamTypeOK, WakeupKept, LastSnapshotOut, EndsInTurn, LastIsLast
  <1> QED BY <1>1, <1>2, <1>3, <1>4, <1>5

\* Every stream is woken for what it is owed, and one that Dispose ends has written the last
\* snapshot before it returns, for any number of streams, frames and calls of Dispose.
THEOREM StreamsAlwaysServed == SynthStreamSpec => []StreamsServed
  <1>1. SynthStreamInit => StreamIInv
    <2> SUFFICES ASSUME SynthStreamInit PROVE StreamIInv
      OBVIOUS
    <2>1. StreamTypeOK
      <3>1. <<>> \in Seq(Nat)
        BY EmptySeq
      <3> QED BY <3>1 DEF SynthStreamInit, StreamTypeOK, Open
    <2>2. WakeupKept /\ EndsInTurn
      BY DEF SynthStreamInit, WakeupKept, EndsInTurn
    <2>3. LastSnapshotOut /\ LastIsLast
      BY DEF SynthStreamInit, LastSnapshotOut, LastIsLast, Open
    <2> QED BY <2>1, <2>2, <2>3 DEF StreamIInv
  <1>2. StreamIInv /\ [SynthStreamNext]_synthStreamVars => StreamIInv'
    <2> SUFFICES ASSUME StreamIInv, [SynthStreamNext]_synthStreamVars PROVE StreamIInv'
      OBVIOUS
    <2>1. CASE UNCHANGED synthStreamVars
      BY <2>1 DEF synthStreamVars, clientVars, StreamIInv, StreamTypeOK, WakeupKept, LastSnapshotOut, EndsInTurn, LastIsLast
    <2> QED BY <2>1, FirstFrameKeeps, PublishKeeps, DisposeKeeps, WriterKeeps DEF SynthStreamNext
  <1>3. StreamIInv => StreamsServed
    BY DEF StreamIInv, StreamsServed
  <1> QED BY <1>1, <1>2, <1>3, PTL DEF SynthStreamSpec

-----------------------------------------------------------------------------
(* The scanner's lane: tokens and declarations                             *)

WindowsTyped(w) == w \in [Unders -> Window]
LegsTyped(l) == l \in [Positions -> Nat \cup {NoLegs}]

\* Windows and legs of one namespace make tokens of that namespace.
LEMMA TokensTyped ==
    ASSUME NEW w, NEW l, WindowsTyped(w), LegsTyped(l), NEW n, ofNamespace(w, l, n)
    PROVE  TokensOf(w, l) \in SUBSET Token /\ \A tok \in TokensOf(w, l) : tok.ns = n
  <1>1. ASSUME NEW p \in Positions, l[p] > 0
        PROVE  PositionToken(p, l[p]) \in Token /\ PositionToken(p, l[p]).ns = n
    <2>1. l[p] = n /\ l[p] \in Nat
      BY <1>1 DEF ofNamespace, LegsTyped, NoLegs, Unlinked
    <2> QED BY <2>1 DEF PositionToken, Token
  <1>2. ASSUME NEW u \in Unders, w[u].ns # NoNs, NEW tok \in WindowTokens(u, w[u])
        PROVE  tok \in Token /\ tok.ns = n
    <2>1. w[u] \in Window /\ w[u].ns = n /\ w[u].ns \in Nat /\ w[u].lvl \in {0, 1, 2}
      BY <1>2 DEF ofNamespace, WindowsTyped, Window, Levels
    <2>2. PICK k \in 1..w[u].lvl : tok = [ns |-> w[u].ns, of |-> "window", key |-> u, k |-> k]
      BY <1>2 DEF WindowTokens
    <2>3. k \in Levels
      BY <2>1, <2>2 DEF Levels
    <2> QED BY <2>1, <2>2, <2>3 DEF Token
  <1> QED BY <1>1, <1>2 DEF TokensOf, selection

\* The budget drops windows and changes none.
LEMMA FitsKeeps ==
    ASSUME NEW w, NEW l, NEW lvl, WindowsTyped(w), NEW n, ofNamespace(w, l, n)
    PROVE  /\ WindowsTyped(fitToBudget(w, l, lvl)) /\ ofNamespace(fitToBudget(w, l, lvl), l, n)
           /\ \A u \in Unders : fitToBudget(w, l, lvl)[u] \in {w[u], NoWindow}
  <1>1. /\ fitToBudget(w, l, lvl) = [u \in Unders |-> fitToBudget(w, l, lvl)[u]]
        /\ \A u \in Unders : fitToBudget(w, l, lvl)[u] \in {w[u], NoWindow}
    BY DEF fitToBudget
  <1>2. NoWindow \in Window /\ NoWindow.ns = NoNs
    BY DEF NoWindow, Window, NoNs
  <1> QED BY <1>1, <1>2 DEF WindowsTyped, ofNamespace

\* What is watched is what was declared last, or nothing was declared.
Declared ==
    /\ watched' \in SUBSET Token /\ effects' \in Seq(SUBSET Token) /\ \A tok \in watched' : tok.ns = gen
    /\ IF effects' = <<>> THEN effects = <<>> /\ watched' = watched ELSE effects'[Len(effects')] = watched'

\* A declaration (applySubscriptionsLocked).
LEMMA Applied ==
    ASSUME SynthLaneIInv, NEW w, NEW l, NEW b, WindowsTyped(w), LegsTyped(l), ofNamespace(w, l, gen),
           applySubscriptions(w, l, b)
    PROVE  Declared /\ (b => watched' = watched)
  <1> DEFINE next == TokensOf(w, l)
  <1>1. next \in SUBSET Token /\ \A tok \in next : tok.ns = gen
    BY TokensTyped
  <1>2. CASE UNCHANGED <<watched, effects>>
    BY <1>2 DEF Declared, SynthLaneIInv, SynthLaneTypeOK, CurrentNamespace, LastDeclared
  <1>3. CASE ~b /\ watched' = next /\ effects' = Append(effects, next)
    <2> HIDE DEF next
    <2>1. effects \in Seq(SUBSET Token)
      BY DEF SynthLaneIInv, SynthLaneTypeOK
    <2>2. effects' \in Seq(SUBSET Token) /\ effects' # <<>> /\ effects'[Len(effects')] = next
      BY <1>1, <1>3, <2>1, AppendProperties
    <2> QED BY <1>1, <1>3, <2>2 DEF Declared
  <1> QED BY <1>2, <1>3 DEF applySubscriptions

\* Nothing is declared.
LEMMA NothingDeclared == ASSUME SynthLaneIInv, UNCHANGED <<watched, effects>> PROVE Declared
  BY DEF Declared, SynthLaneIInv, SynthLaneTypeOK, CurrentNamespace, LastDeclared

\* A flight ends, or all go on.
LEMMA FlightsGoOn ==
    ASSUME SynthLaneIInv, UNCHANGED <<gen, epoch>>, refresh' \in {refresh, NoFlight},
           relink' \in {relink, NoFlight}, entering' \in {entering, NoFlight}
    PROVE  /\ refresh' \in Flight /\ relink' \in Flight /\ entering' \in Flight /\ FlightsCurrent'
           /\ phase = "invalid" => \A f \in {refresh', relink', entering'} : f = NoFlight \/ f.epoch < epoch
  <1>1. NoFlight \in Flight /\ NoFlight.at = "none" /\ NoFlight.epoch = 0 /\ NoFlight.gen = 0
    BY DEF NoFlight, Flight, NoNs
  <1>2. epoch \in Nat /\ gen \in Nat
    BY DEF SynthLaneIInv, SynthLaneTypeOK
  <1>3. refresh' \in Flight /\ relink' \in Flight /\ entering' \in Flight
    BY <1>1 DEF SynthLaneIInv, SynthLaneTypeOK
  <1>4. carries(refresh)' /\ carries(relink)' /\ carries(entering)'
    BY <1>1, <1>2 DEF SynthLaneIInv, FlightsCurrent, carries
  <1>5. (refresh.at \in {"plan", "build"} /\ ~superseded(refresh) => refresh.ns = gen)'
    BY <1>1 DEF SynthLaneIInv, FlightsCurrent, superseded
  <1>6. (relink.at = "link" /\ ~superseded(relink) => relink.ns = gen)'
    BY <1>1 DEF SynthLaneIInv, FlightsCurrent, superseded
  <1>7. (entering # NoFlight /\ entering.epoch = epoch => entering.ns = gen)'
    BY DEF SynthLaneIInv, FlightsCurrent
  <1>8. phase = "invalid" => \A f \in {refresh', relink', entering'} : f = NoFlight \/ f.epoch < epoch
    BY DEF SynthLaneIInv, NothingOfTheOld
  <1> QED BY <1>3, <1>4, <1>5, <1>6, <1>7, <1>8 DEF FlightsCurrent

\* A step that keeps windows and legs in the namespace and declares what it watches.
LEMMA DeclaringKeeps ==
    ASSUME SynthLaneIInv, UNCHANGED <<gen, epoch, lane>>, level' \in Levels, Declared,
           phase' = phase \/ (phase = "idle" /\ phase' = "stopped") \/ (phase = "waits" /\ phase' \in {"reloads", "idle"})
             \/ (phase = "reloads" /\ phase' = "idle"),
           WindowsTyped(windows'), LegsTyped(legs'), ofNamespace(windows', legs', gen),
           refresh' \in Flight, relink' \in Flight, entering' \in Flight, FlightsCurrent', NothingOfTheOld'
    PROVE  SynthLaneIInv'
  <1>1. SynthLaneTypeOK'
    BY DEF SynthLaneIInv, SynthLaneTypeOK, Declared, WindowsTyped, LegsTyped
  <1>2. LastDeclared'
    BY DEF SynthLaneIInv, LastDeclared, Declared
  <1>3. CurrentNamespace'
    BY DEF CurrentNamespace, Declared, ofNamespace
  <1> QED BY <1>1, <1>2, <1>3 DEF SynthLaneIInv

-----------------------------------------------------------------------------
(* The scanner's lane: windows and positions                               *)

\* The empty window and the empty board.
LEMMA EmptyBoard ==
    /\ NoWindow \in Window /\ NoWindow.ns = NoNs
    /\ WindowsTyped([u \in Unders |-> NoWindow])
    /\ \A l, n : (\A p \in Positions : l[p] \in {NoLegs, Unlinked, n}) => ofNamespace([u \in Unders |-> NoWindow], l, n)
  BY DEF NoWindow, Window, NoNs, WindowsTyped, ofNamespace

\* The operator stops the scanner, or a switch does (stopLocked).
LEMMA StopKeeps == ASSUME SynthLaneIInv, Stop \/ SwitchStops PROVE SynthLaneIInv'
  <1> DEFINE none == [u \in Unders |-> NoWindow]
  <1>1. /\ windows' = none /\ applySubscriptions(none, legs, stale)
        /\ UNCHANGED <<gen, epoch, lane, level, stale, legs, refresh, relink, entering>>
        /\ phase' = phase \/ (phase = "idle" /\ phase' = "stopped")
    BY DEF Stop, SwitchStops, stopped, worldVars, flightVars
  <1>2. WindowsTyped(none) /\ ofNamespace(none, legs, gen) /\ LegsTyped(legs) /\ \A u \in Unders : none[u].ns = NoNs
    BY EmptyBoard DEF SynthLaneIInv, SynthLaneTypeOK, CurrentNamespace, ofNamespace, LegsTyped
  <1> HIDE DEF none
  <1>3. Declared /\ (stale => watched' = watched)
    BY <1>1, <1>2, Applied
  <1>4. /\ refresh' \in Flight /\ relink' \in Flight /\ entering' \in Flight /\ FlightsCurrent'
        /\ phase = "invalid" => \A f \in {refresh', relink', entering'} : f = NoFlight \/ f.epoch < epoch
    BY <1>1, FlightsGoOn
  <1>5. NothingOfTheOld'
    BY <1>1, <1>2, <1>3, <1>4 DEF NothingOfTheOld, SynthLaneIInv
  <1>6. level' \in Levels
    BY <1>1 DEF SynthLaneIInv, SynthLaneTypeOK
  <1> QED BY <1>1, <1>2, <1>3, <1>4, <1>5, <1>6, DeclaringKeeps

\* The windows of a board w that fit the budget are declared.
FittedFrom(w) ==
    /\ WindowsTyped(w) /\ ofNamespace(w, legs, gen) /\ \A u \in Unders : w[u].ns = windows[u].ns
    /\ windows' = fitToBudget(w, legs, level') /\ applySubscriptions(windows', legs, stale)

\* The windows are resized, and dropped where they exceed the budget (SetStrikeLevel, tick).
LEMMA BudgetKeeps ==
    ASSUME SynthLaneIInv, (\E lvl \in Levels : SetStrikeLevel(lvl)) \/ tickFits
    PROVE  SynthLaneIInv'
  <1>1. /\ UNCHANGED <<gen, phase, epoch, lane, stale, legs, refresh, relink, entering>> /\ level' \in Levels
        /\ \/ UNCHANGED <<windows, watched, effects>>
           \/ \E w : FittedFrom(w)
    <2>1. ASSUME NEW lvl \in Levels, SetStrikeLevel(lvl), NEW built \in SUBSET selection(windows)
          PROVE  LET rebuilt == [u \in Unders |-> IF u \in built THEN [windows[u] EXCEPT !.lvl = lvl] ELSE windows[u]]
                 IN  /\ WindowsTyped(rebuilt) /\ ofNamespace(rebuilt, legs, gen)
                     /\ \A u \in Unders : rebuilt[u].ns = windows[u].ns
      <3> DEFINE rebuilt == [u \in Unders |-> IF u \in built THEN [windows[u] EXCEPT !.lvl = lvl] ELSE windows[u]]
      <3>1. \A u \in Unders : rebuilt[u] \in Window /\ rebuilt[u].ns = windows[u].ns
        BY DEF SynthLaneIInv, SynthLaneTypeOK, Window
      <3>2. WindowsTyped(rebuilt)
        BY <3>1 DEF WindowsTyped
      <3>3. ofNamespace(rebuilt, legs, gen)
        BY <3>1 DEF ofNamespace, SynthLaneIInv, CurrentNamespace
      <3> QED BY <3>1, <3>2, <3>3
    <2>2. ASSUME NEW lvl \in Levels, SetStrikeLevel(lvl)
          PROVE  \/ UNCHANGED <<windows, watched, effects>>
                 \/ \E built \in SUBSET selection(windows) :
                      LET rebuilt == [u \in Unders |-> IF u \in built THEN [windows[u] EXCEPT !.lvl = lvl] ELSE windows[u]]
                      IN  windows' = fitToBudget(rebuilt, legs, level') /\ applySubscriptions(windows', legs, stale)
      BY <2>2 DEF SetStrikeLevel
    <2>3. ASSUME NEW lvl \in Levels, SetStrikeLevel(lvl)
          PROVE  UNCHANGED <<gen, phase, epoch, lane, stale, legs, refresh, relink, entering>> /\ level' \in Levels
      BY <2>3 DEF SetStrikeLevel, worldVars, flightVars
    <2>4. CASE tickFits
      <3>1. WindowsTyped(windows) /\ ofNamespace(windows, legs, gen) /\ level \in Levels
        BY DEF SynthLaneIInv, SynthLaneTypeOK, WindowsTyped, CurrentNamespace
      <3>2. level' = level /\ windows' = fitToBudget(windows, legs, level) /\ applySubscriptions(windows', legs, stale)
        BY <2>4 DEF tickFits
      <3>3. UNCHANGED <<gen, phase, epoch, lane, stale, legs, refresh, relink, entering>>
        BY <2>4 DEF tickFits, worldVars, flightVars
      <3>4. windows' = fitToBudget(windows, legs, level')
        BY <3>2
      <3>5. FittedFrom(windows)
        BY <3>1, <3>2, <3>4 DEF FittedFrom
      <3>6. level' \in Levels
        BY <3>1, <3>2
      <3> QED BY <3>3, <3>5, <3>6
    <2>5. ASSUME NEW lvl \in Levels, SetStrikeLevel(lvl)
          PROVE  UNCHANGED <<windows, watched, effects>> \/ \E w : FittedFrom(w)
      <3>1. CASE UNCHANGED <<windows, watched, effects>>
        BY <3>1
      <3>2. ASSUME NEW built \in SUBSET selection(windows),
                   LET rebuilt == [u \in Unders |-> IF u \in built THEN [windows[u] EXCEPT !.lvl = lvl] ELSE windows[u]]
                   IN  windows' = fitToBudget(rebuilt, legs, level') /\ applySubscriptions(windows', legs, stale)
            PROVE  \E w : FittedFrom(w)
        <4> DEFINE rebuilt == [u \in Unders |-> IF u \in built THEN [windows[u] EXCEPT !.lvl = lvl] ELSE windows[u]]
        <4>1. WindowsTyped(rebuilt) /\ ofNamespace(rebuilt, legs, gen) /\ \A u \in Unders : rebuilt[u].ns = windows[u].ns
          BY <2>1, <2>5, <3>2
        <4>2. windows' = fitToBudget(rebuilt, legs, level') /\ applySubscriptions(windows', legs, stale)
          BY <3>2
        <4> HIDE DEF rebuilt
        <4> QED BY <4>1, <4>2 DEF FittedFrom
      <3> QED BY <2>2, <2>5, <3>1, <3>2
    <2> QED BY <2>3, <2>4, <2>5
  <1>2. LegsTyped(legs)
    BY DEF SynthLaneIInv, SynthLaneTypeOK, LegsTyped
  <1>3. /\ WindowsTyped(windows') /\ ofNamespace(windows', legs, gen) /\ Declared /\ (stale => watched' = watched)
        /\ \A u \in Unders : windows[u].ns = NoNs => windows'[u].ns = NoNs
    <2>1. CASE UNCHANGED <<windows, watched, effects>>
      BY <2>1, NothingDeclared DEF SynthLaneIInv, SynthLaneTypeOK, WindowsTyped, CurrentNamespace
    <2>2. ASSUME NEW w, FittedFrom(w)
          PROVE  /\ WindowsTyped(windows') /\ ofNamespace(windows', legs, gen) /\ Declared /\ (stale => watched' = watched)
                 /\ \A u \in Unders : windows[u].ns = NoNs => windows'[u].ns = NoNs
      <3>1. /\ WindowsTyped(windows') /\ ofNamespace(windows', legs, gen)
            /\ \A u \in Unders : windows'[u] \in {w[u], NoWindow}
        BY <2>2, FitsKeeps DEF FittedFrom
      <3>2. Declared /\ (stale => watched' = watched)
        BY <2>2, <3>1, <1>2, Applied DEF FittedFrom
      <3> QED BY <2>2, <3>1, <3>2, EmptyBoard DEF FittedFrom
    <2> QED BY <1>1, <2>1, <2>2
  <1>4. /\ refresh' \in Flight /\ relink' \in Flight /\ entering' \in Flight /\ FlightsCurrent'
        /\ phase = "invalid" => \A f \in {refresh', relink', entering'} : f = NoFlight \/ f.epoch < epoch
    BY <1>1, FlightsGoOn
  <1>5. NothingOfTheOld'
    BY <1>1, <1>3, <1>4 DEF NothingOfTheOld, SynthLaneIInv
  <1> QED BY <1>1, <1>2, <1>3, <1>4, <1>5, DeclaringKeeps

\* Positions come, in the namespace of their entry, or unlinked when it went; and go.
LEMMA PositionKeeps ==
    ASSUME SynthLaneIInv, NEW p \in Positions, enterLinks(p) \/ adoptPosition(p) \/ dropPosition(p)
    PROVE  SynthLaneIInv'
  <1>1. /\ WindowsTyped(windows) /\ LegsTyped(legs) /\ ofNamespace(windows, legs, gen) /\ level \in Levels
        /\ gen \in Nat /\ epoch \in Nat
    BY DEF SynthLaneIInv, SynthLaneTypeOK, WindowsTyped, LegsTyped, CurrentNamespace
  <1>2. PICK x : /\ legs' = [legs EXCEPT ![p] = x] /\ x \in {NoLegs, Unlinked, gen}
                 /\ phase = "invalid" => x \in {NoLegs, Unlinked}
    <2>1. CASE enterLinks(p)
      <3>1. legs' = [legs EXCEPT ![p] = IF entering.epoch = epoch THEN entering.ns ELSE Unlinked] /\ entering # NoFlight
        BY <2>1 DEF enterLinks
      <3>2. CASE entering.epoch = epoch
        <4>1. entering.ns = gen /\ phase # "invalid"
          BY <1>1, <3>1, <3>2 DEF SynthLaneIInv, FlightsCurrent, NothingOfTheOld
        <4> QED BY <3>1, <3>2, <4>1
      <3>3. CASE entering.epoch # epoch
        BY <3>1, <3>3
      <3> QED BY <3>2, <3>3
    <2> QED BY <2>1 DEF adoptPosition, dropPosition
  <1>3. LegsTyped(legs') /\ ofNamespace(windows, legs', gen)
    BY <1>1, <1>2 DEF LegsTyped, ofNamespace, Unlinked
  <1>4. UNCHANGED <<gen, phase, epoch, lane, level, stale, refresh, relink>> /\ entering' \in {entering, NoFlight}
    BY DEF enterLinks, adoptPosition, dropPosition, worldVars, universeVars, flightVars
  <1>5. /\ WindowsTyped(windows') /\ ofNamespace(windows', legs', gen) /\ Declared /\ (stale => watched' = watched)
        /\ \A u \in Unders : windows'[u] \in {windows[u], NoWindow}
    <2>1. CASE enterLinks(p)
      <3>1. windows' = fitToBudget(windows, legs', level) /\ applySubscriptions(windows', legs', stale)
        BY <2>1 DEF enterLinks
      <3> QED BY <3>1, <1>1, <1>3, FitsKeeps, Applied
    <2>2. CASE adoptPosition(p)
      BY <2>2, <1>1, <1>3, NothingDeclared DEF adoptPosition, universeVars
    <2>3. CASE dropPosition(p)
      BY <2>3, <1>1, <1>3, Applied DEF dropPosition, universeVars
    <2> QED BY <2>1, <2>2, <2>3
  <1>6. /\ refresh' \in Flight /\ relink' \in Flight /\ entering' \in Flight /\ FlightsCurrent'
        /\ phase = "invalid" => \A f \in {refresh', relink', entering'} : f = NoFlight \/ f.epoch < epoch
    BY <1>4, FlightsGoOn
  <1>7. ASSUME phase = "invalid"
        PROVE  /\ \A u \in Unders : windows'[u].ns = NoNs
               /\ \A q \in Positions : legs'[q] \in {NoLegs, Unlinked}
    BY <1>7, <1>1, <1>2, <1>5, EmptyBoard DEF SynthLaneIInv, NothingOfTheOld, LegsTyped
  <1>8. NothingOfTheOld'
    BY <1>4, <1>5, <1>6, <1>7 DEF NothingOfTheOld, SynthLaneIInv
  <1> QED BY <1>1, <1>3, <1>4, <1>5, <1>6, <1>8, DeclaringKeeps

-----------------------------------------------------------------------------
(* The scanner's lane: refreshes and relinks                               *)

\* A relinked leg is in the dump's namespace, or unlinked (relinkPositionsLocked).
LEMMA Relinked ==
    ASSUME NEW l, NEW n \in Nat, NEW m \in relinked(l, n)
    PROVE  LegsTyped(m) /\ \A p \in Positions : m[p] \in {NoLegs, Unlinked, n}
  BY DEF relinked, LegsTyped, Unlinked

\* A relink in flight ends: of the registry's namespace, or without effect (runRelink).
LEMMA RelinkKeeps == ASSUME SynthLaneIInv, relinkEnds PROVE SynthLaneIInv'
  <1>1. /\ WindowsTyped(windows) /\ LegsTyped(legs) /\ ofNamespace(windows, legs, gen) /\ level \in Levels
        /\ gen \in Nat
    BY DEF SynthLaneIInv, SynthLaneTypeOK, WindowsTyped, LegsTyped, CurrentNamespace
  <1>2. /\ UNCHANGED <<gen, phase, epoch, lane, level, stale, windows, refresh, entering>> /\ relink' = NoFlight
        /\ relink.at = "link"
    BY DEF relinkEnds, worldVars, universeVars
  <1>3. \/ UNCHANGED <<legs, watched, effects>>
        \/ ~superseded(relink) /\ legs' \in relinked(legs, relink.ns) /\ applySubscriptions(windows, legs', stale)
    BY DEF relinkEnds
  <1>4. /\ LegsTyped(legs') /\ ofNamespace(windows, legs', gen) /\ Declared
        /\ phase = "invalid" => UNCHANGED <<legs, watched>>
    <2>1. CASE UNCHANGED <<legs, watched, effects>>
      BY <2>1, <1>1, NothingDeclared
    <2>2. CASE ~superseded(relink) /\ legs' \in relinked(legs, relink.ns) /\ applySubscriptions(windows, legs', stale)
      <3>1. relink.ns = gen /\ relink # NoFlight /\ phase # "invalid"
        BY <1>2, <2>2 DEF SynthLaneIInv, FlightsCurrent, NothingOfTheOld, superseded, NoFlight, SynthLaneTypeOK
      <3>2. LegsTyped(legs') /\ \A p \in Positions : legs'[p] \in {NoLegs, Unlinked, gen}
        BY <1>1, <2>2, <3>1, Relinked
      <3>3. ofNamespace(windows, legs', gen)
        BY <1>1, <3>2 DEF ofNamespace
      <3> QED BY <1>1, <2>2, <3>1, <3>2, <3>3, Applied
    <2> QED BY <1>3, <2>1, <2>2
  <1>5. /\ refresh' \in Flight /\ relink' \in Flight /\ entering' \in Flight /\ FlightsCurrent'
        /\ phase = "invalid" => \A f \in {refresh', relink', entering'} : f = NoFlight \/ f.epoch < epoch
    BY <1>2, FlightsGoOn
  <1>6. NothingOfTheOld'
    BY <1>2, <1>4, <1>5 DEF NothingOfTheOld, SynthLaneIInv
  <1> QED BY <1>1, <1>2, <1>4, <1>5, <1>6, DeclaringKeeps

\* A refresh has its dump and relinks the positions, or was superseded (runRefresh).
LEMMA PlanKeeps == ASSUME SynthLaneIInv, planRefresh PROVE SynthLaneIInv'
  <1>1. /\ WindowsTyped(windows) /\ LegsTyped(legs) /\ ofNamespace(windows, legs, gen) /\ level \in Levels
        /\ gen \in Nat /\ epoch \in Nat /\ refresh \in Flight /\ relink \in Flight /\ entering \in Flight
    BY DEF SynthLaneIInv, SynthLaneTypeOK, WindowsTyped, LegsTyped, CurrentNamespace
  <1>2. /\ UNCHANGED <<gen, phase, epoch, lane, level, stale, windows, watched, effects, relink, entering>>
        /\ refresh.at = "plan"
    BY DEF planRefresh, worldVars, universeVars
  <1>3. CASE refresh' = NoFlight /\ legs' = legs
    <2>1. /\ refresh' \in Flight /\ relink' \in Flight /\ entering' \in Flight /\ FlightsCurrent'
          /\ phase = "invalid" => \A f \in {refresh', relink', entering'} : f = NoFlight \/ f.epoch < epoch
      BY <1>2, <1>3, FlightsGoOn
    <2>2. NothingOfTheOld'
      BY <1>2, <1>3, <2>1 DEF NothingOfTheOld, SynthLaneIInv
    <2> QED BY <1>1, <1>2, <1>3, <2>1, <2>2, NothingDeclared, DeclaringKeeps
  <1>4. CASE ~superseded(refresh) /\ legs' \in relinked(legs, refresh.ns)
             /\ \E picked \in SUBSET Unders : refresh' = [refresh EXCEPT !.at = "build", !.picked = picked]
    <2>1. refresh.ns = gen /\ refresh # NoFlight /\ phase # "invalid"
      BY <1>2, <1>4 DEF SynthLaneIInv, FlightsCurrent, NothingOfTheOld, superseded, NoFlight, SynthLaneTypeOK
    <2>2. LegsTyped(legs') /\ \A p \in Positions : legs'[p] \in {NoLegs, Unlinked, gen}
      BY <1>1, <1>4, <2>1, Relinked
    <2>3. ofNamespace(windows, legs', gen)
      BY <1>1, <2>2 DEF ofNamespace
    <2>4. /\ refresh' \in Flight /\ refresh'.epoch = refresh.epoch /\ refresh'.gen = refresh.gen /\ refresh'.ns = gen
      BY <1>1, <1>4, <2>1 DEF Flight
    <2>5. carries(refresh)' /\ carries(relink)' /\ carries(entering)'
      BY <1>2, <2>4 DEF SynthLaneIInv, FlightsCurrent, carries
    <2>6. FlightsCurrent'
      BY <1>2, <2>4, <2>5 DEF SynthLaneIInv, FlightsCurrent, superseded
    <2>7. NothingOfTheOld'
      BY <1>2, <2>1 DEF NothingOfTheOld
    <2> QED BY <1>1, <1>2, <2>2, <2>3, <2>4, <2>6, <2>7, NothingDeclared, DeclaringKeeps
  <1>5. pickWithinBudget(Unders, legs, level) \in SUBSET Unders
    BY DEF pickWithinBudget
  <1> QED BY <1>3, <1>4, <1>5 DEF planRefresh, endRefresh

\* The windows of a refresh are built and declared, unless it was superseded (buildWindows).
LEMMA BuildKeeps == ASSUME SynthLaneIInv, buildRefresh PROVE SynthLaneIInv'
  <1>1. /\ WindowsTyped(windows) /\ LegsTyped(legs) /\ ofNamespace(windows, legs, gen) /\ level \in Levels
        /\ gen \in Nat /\ epoch \in Nat /\ refresh \in Flight
    BY DEF SynthLaneIInv, SynthLaneTypeOK, WindowsTyped, LegsTyped, CurrentNamespace
  <1>2. /\ UNCHANGED <<gen, phase, epoch, lane, level, legs, relink, entering>> /\ refresh' = NoFlight
        /\ refresh.at = "build"
    BY DEF buildRefresh, worldVars, endRefresh
  <1>3. \/ UNCHANGED <<windows, stale, watched, effects>>
        \/ /\ ~superseded(refresh)
           /\ \E built \in SUBSET Unders :
                LET made == [u \in Unders |-> IF u \in built THEN [ns |-> refresh.ns, lvl |-> level] ELSE NoWindow]
                IN  windows' = fitToBudget(made, legs, level) /\ applySubscriptions(windows', legs, FALSE)
    <2>1. refresh.picked \in SUBSET Unders
      BY <1>1 DEF Flight
    <2> QED BY <2>1 DEF buildRefresh
  <1>4. /\ WindowsTyped(windows') /\ ofNamespace(windows', legs, gen) /\ Declared
        /\ phase = "invalid" => UNCHANGED <<windows, stale, watched>>
    <2>1. CASE UNCHANGED <<windows, stale, watched, effects>>
      BY <2>1, <1>1, NothingDeclared
    <2>2. ASSUME ~superseded(refresh), NEW built \in SUBSET Unders,
                 LET made == [u \in Unders |-> IF u \in built THEN [ns |-> refresh.ns, lvl |-> level] ELSE NoWindow]
                 IN  windows' = fitToBudget(made, legs, level) /\ applySubscriptions(windows', legs, FALSE)
          PROVE  WindowsTyped(windows') /\ ofNamespace(windows', legs, gen) /\ Declared /\ phase # "invalid"
      <3> DEFINE made == [u \in Unders |-> IF u \in built THEN [ns |-> refresh.ns, lvl |-> level] ELSE NoWindow]
      <3>1. refresh.ns = gen /\ refresh # NoFlight /\ phase # "invalid"
        BY <1>2, <2>2 DEF SynthLaneIInv, FlightsCurrent, NothingOfTheOld, superseded, NoFlight, SynthLaneTypeOK
      <3>2. WindowsTyped(made) /\ ofNamespace(made, legs, gen)
        BY <1>1, <3>1, EmptyBoard DEF WindowsTyped, ofNamespace, Window
      <3>3. windows' = fitToBudget(made, legs, level) /\ applySubscriptions(windows', legs, FALSE)
        BY <2>2
      <3> HIDE DEF made
      <3>4. WindowsTyped(windows') /\ ofNamespace(windows', legs, gen)
        BY <3>2, <3>3, FitsKeeps
      <3> QED BY <1>1, <3>1, <3>3, <3>4, Applied
    <2> QED BY <1>3, <2>1, <2>2
  <1>5. /\ refresh' \in Flight /\ relink' \in Flight /\ entering' \in Flight /\ FlightsCurrent'
        /\ phase = "invalid" => \A f \in {refresh', relink', entering'} : f = NoFlight \/ f.epoch < epoch
    BY <1>2, FlightsGoOn
  <1>6. NothingOfTheOld'
    BY <1>2, <1>4, <1>5 DEF NothingOfTheOld, SynthLaneIInv
  <1> QED BY <1>1, <1>2, <1>4, <1>5, <1>6, DeclaringKeeps

-----------------------------------------------------------------------------
(* The scanner's lane: flights                                             *)

\* A step that touches flights alone.
LEMMA FlyingKeeps ==
    ASSUME SynthLaneIInv, UNCHANGED <<gen, epoch, lane, level, stale, windows, legs, watched, effects>>,
           phase' = phase \/ (phase = "waits" /\ phase' \in {"reloads", "idle"}) \/ (phase = "reloads" /\ phase' = "idle"),
           refresh' \in Flight, relink' \in Flight, entering' \in Flight, FlightsCurrent',
           phase = "invalid" => \A f \in {refresh', relink', entering'} : f = NoFlight \/ f.epoch < epoch
    PROVE  SynthLaneIInv'
  <1>1. WindowsTyped(windows) /\ LegsTyped(legs) /\ ofNamespace(windows, legs, gen) /\ level \in Levels
    BY DEF SynthLaneIInv, SynthLaneTypeOK, WindowsTyped, LegsTyped, CurrentNamespace
  <1>2. NothingOfTheOld'
    BY DEF NothingOfTheOld, SynthLaneIInv
  <1> QED BY <1>1, <1>2, NothingDeclared, DeclaringKeeps

\* The scanner's refreshes begin and get their universe.
LEMMA RefreshKeeps ==
    ASSUME SynthLaneIInv, tickRefresh \/ loadUniverse \/ ReloadRefreshes \/ SwitchEnds \/ Start
    PROVE  SynthLaneIInv'
  <1>0. gen \in Nat /\ epoch \in Nat /\ refresh \in Flight /\ relink \in Flight /\ entering \in Flight
    BY DEF SynthLaneIInv, SynthLaneTypeOK
  <1>1. CASE refresh' = refresh \/ refresh' = NoFlight
    <2>1. /\ UNCHANGED <<gen, epoch, lane, level, stale, windows, legs, watched, effects, relink, entering>>
          /\ phase' = phase \/ (phase = "waits" /\ phase' \in {"reloads", "idle"}) \/ (phase = "reloads" /\ phase' = "idle")
      BY DEF tickRefresh, loadUniverse, ReloadRefreshes, SwitchEnds, Start, worldVars, universeVars, flightVars
    <2> QED BY <1>1, <2>1, FlightsGoOn, FlyingKeeps
  <1>2. CASE beginRefresh /\ (tickRefresh \/ ReloadRefreshes)
    <2>1. /\ UNCHANGED <<gen, epoch, lane, level, stale, windows, legs, watched, effects, relink, entering>>
          /\ phase # "invalid"
          /\ phase' = phase \/ (phase = "waits" /\ phase' \in {"reloads", "idle"})
      BY <1>2 DEF tickRefresh, ReloadRefreshes, worldVars, universeVars, switching
    <2>2. refresh' \in Flight /\ refresh'.at = "fetch" /\ refresh'.epoch = epoch /\ refresh'.gen = gen
      BY <1>0, <1>2 DEF beginRefresh, NoFlight, NoNs, Flight
    <2>3. carries(refresh)' /\ carries(relink)' /\ carries(entering)'
      BY <1>0, <2>1, <2>2 DEF SynthLaneIInv, FlightsCurrent, carries
    <2>4. FlightsCurrent'
      BY <2>1, <2>2, <2>3 DEF SynthLaneIInv, FlightsCurrent, superseded
    <2> QED BY <1>0, <2>1, <2>2, <2>4, FlyingKeeps
  <1>3. CASE loadUniverse /\ refresh' = [refresh EXCEPT !.at = "plan", !.ns = gen]
    <2>1. /\ UNCHANGED <<gen, phase, epoch, lane, level, stale, windows, legs, watched, effects, relink, entering>>
          /\ refresh.at = "fetch"
      BY <1>3 DEF loadUniverse, worldVars, universeVars
    <2>2. /\ refresh' \in Flight /\ refresh'.epoch = refresh.epoch /\ refresh'.gen = refresh.gen /\ refresh'.ns = gen
      BY <1>0, <1>3 DEF Flight
    <2>3. carries(refresh)' /\ carries(relink)' /\ carries(entering)'
      BY <2>1, <2>2 DEF SynthLaneIInv, FlightsCurrent, carries
    <2>4. FlightsCurrent'
      BY <2>1, <2>2, <2>3 DEF SynthLaneIInv, FlightsCurrent, superseded
    <2>5. refresh # NoFlight
      BY <2>1 DEF NoFlight
    <2>6. phase = "invalid" => \A f \in {refresh', relink', entering'} : f = NoFlight \/ f.epoch < epoch
      BY <2>1, <2>2, <2>5 DEF SynthLaneIInv, NothingOfTheOld
    <2> QED BY <1>0, <2>1, <2>2, <2>4, <2>6, FlyingKeeps
  <1>4. \/ refresh' = refresh \/ refresh' = NoFlight
        \/ beginRefresh /\ (tickRefresh \/ ReloadRefreshes)
        \/ loadUniverse /\ refresh' = [refresh EXCEPT !.at = "plan", !.ns = gen]
    BY DEF tickRefresh, loadUniverse, ReloadRefreshes, SwitchEnds, Start, flightVars, endRefresh
  <1> QED BY <1>1, <1>2, <1>3, <1>4

\* Relinks begin and get their dump; an entry begins with tokens of a window on the board.
LEMMA RelinkBeginKeeps ==
    ASSUME SynthLaneIInv, tickRelink \/ relinkFetched \/ enterPosition
    PROVE  SynthLaneIInv'
  <1>0. gen \in Nat /\ epoch \in Nat /\ refresh \in Flight /\ relink \in Flight /\ entering \in Flight
    BY DEF SynthLaneIInv, SynthLaneTypeOK
  <1>1. UNCHANGED <<gen, phase, epoch, lane, level, stale, windows, legs, watched, effects, refresh>>
    BY DEF tickRelink, relinkFetched, enterPosition, worldVars, universeVars
  <1>2. CASE relinkFetched /\ relink' = NoFlight
    BY <1>1, <1>2, FlightsGoOn, FlyingKeeps DEF relinkFetched
  <1>3. CASE relinkFetched /\ relink' = [relink EXCEPT !.at = "link", !.ns = gen]
    <2>1. entering' = entering /\ relink.at = "fetch" /\ relink # NoFlight
      BY <1>3 DEF relinkFetched, NoFlight
    <2>2. /\ relink' \in Flight /\ relink'.epoch = relink.epoch /\ relink'.gen = relink.gen /\ relink'.ns = gen
      BY <1>0, <1>3 DEF Flight
    <2>3. carries(refresh)' /\ carries(relink)' /\ carries(entering)'
      BY <1>1, <2>1, <2>2 DEF SynthLaneIInv, FlightsCurrent, carries
    <2>4. FlightsCurrent'
      BY <1>1, <2>1, <2>2, <2>3 DEF SynthLaneIInv, FlightsCurrent, superseded
    <2>5. phase = "invalid" => \A f \in {refresh', relink', entering'} : f = NoFlight \/ f.epoch < epoch
      BY <1>1, <2>1, <2>2 DEF SynthLaneIInv, NothingOfTheOld
    <2> QED BY <1>0, <1>1, <2>1, <2>2, <2>4, <2>5, FlyingKeeps
  <1>4. CASE tickRelink
    <2>1. entering' = entering /\ phase # "invalid"
      BY <1>4 DEF tickRelink, switching
    <2>2. relink' \in Flight /\ relink'.at = "fetch" /\ relink'.epoch = epoch /\ relink'.gen = gen
      BY <1>0, <1>4 DEF tickRelink, NoFlight, NoNs, Flight
    <2>3. carries(refresh)' /\ carries(relink)' /\ carries(entering)'
      BY <1>0, <1>1, <2>1, <2>2 DEF SynthLaneIInv, FlightsCurrent, carries
    <2>4. FlightsCurrent'
      BY <1>1, <2>1, <2>2, <2>3 DEF SynthLaneIInv, FlightsCurrent, superseded
    <2> QED BY <1>0, <1>1, <2>1, <2>2, <2>4, FlyingKeeps
  <1>5. CASE enterPosition
    <2>1. relink' = relink /\ phase # "invalid"
      BY <1>5 DEF enterPosition, SynthLaneIInv, NothingOfTheOld
    <2>2. entering' \in Flight /\ entering'.epoch = epoch /\ entering'.gen = 0 /\ entering'.ns = gen
      <3>1. PICK u \in selection(windows) :
              entering' = [NoFlight EXCEPT !.at = "insert", !.epoch = epoch, !.ns = windows[u].ns]
        BY <1>5 DEF enterPosition
      <3>2. windows[u].ns = gen
        BY DEF selection, SynthLaneIInv, CurrentNamespace, ofNamespace
      <3> QED BY <1>0, <3>1, <3>2 DEF NoFlight, Flight
    <2>3. carries(refresh)' /\ carries(relink)' /\ carries(entering)'
      BY <1>0, <1>1, <2>1, <2>2 DEF SynthLaneIInv, FlightsCurrent, carries
    <2>4. FlightsCurrent'
      BY <1>1, <2>1, <2>2, <2>3 DEF SynthLaneIInv, FlightsCurrent, superseded
    <2> QED BY <1>0, <1>1, <2>1, <2>2, <2>4, FlyingKeeps
  <1> QED BY <1>2, <1>3, <1>4, <1>5 DEF relinkFetched

-----------------------------------------------------------------------------
(* The scanner's lane: the queue and the switch                            *)

\* The oldest declaration runs (unlock).
LEMMA EffectKeeps == ASSUME SynthLaneIInv, runEffect PROVE SynthLaneIInv'
  <1>1. /\ effects # <<>> /\ lane' = Head(effects) /\ effects' = Tail(effects) /\ effects \in Seq(SUBSET Token)
        /\ UNCHANGED <<gen, phase, epoch, level, stale, windows, legs, watched, refresh, relink, entering>>
    BY DEF runEffect, SynthLaneIInv, SynthLaneTypeOK, worldVars, universeVars, flightVars
  <1>2. /\ Tail(effects) \in Seq(SUBSET Token) /\ Len(Tail(effects)) = Len(effects) - 1 /\ Len(effects) \in Nat \ {0}
        /\ \A i \in 1..Len(Tail(effects)) : Tail(effects)[i] = effects[i + 1]
        /\ Head(effects) = effects[1]
    BY <1>1, HeadTailProperties, EmptySeq
  <1>3. effects[Len(effects)] = watched
    BY <1>1 DEF SynthLaneIInv, LastDeclared
  <1>4. LastDeclared'
    <2>1. CASE Len(effects) = 1
      <3>1. Tail(effects) = <<>>
        <4> DEFINE rest == Tail(effects)
        <4>1. rest \in Seq(SUBSET Token) /\ Len(rest) = 0
          BY <1>2, <2>1
        <4> HIDE DEF rest
        <4>2. rest = <<>>
          BY <4>1, EmptySeq
        <4> QED BY <4>2 DEF rest
      <3> QED BY <1>1, <1>2, <1>3, <2>1, <3>1 DEF LastDeclared
    <2>2. CASE Len(effects) # 1
      <3>1. Tail(effects) # <<>> /\ Len(effects) - 1 \in 1..Len(Tail(effects))
        <4> DEFINE rest == Tail(effects)
        <4>1. Len(rest) = Len(effects) - 1 /\ Len(rest) \in Nat \ {0}
          BY <1>2, <2>2
        <4> HIDE DEF rest
        <4>2. rest # <<>>
          BY <4>1, EmptySeq
        <4> QED BY <1>2, <4>1, <4>2 DEF rest
      <3>2. Tail(effects)[Len(Tail(effects))] = watched
        BY <1>2, <1>3, <3>1
      <3> QED BY <1>1, <3>1, <3>2 DEF LastDeclared
    <2> QED BY <2>1, <2>2
  <1>5. SynthLaneTypeOK'
    BY <1>1, <1>2 DEF SynthLaneIInv, SynthLaneTypeOK
  <1>6. CurrentNamespace' /\ NothingOfTheOld'
    BY <1>1 DEF SynthLaneIInv, CurrentNamespace, NothingOfTheOld
  <1>7. FlightsCurrent'
    BY <1>1, FlightsGoOn
  <1> QED BY <1>4, <1>5, <1>6, <1>7 DEF SynthLaneIInv

\* The namespace goes: nothing of it is left (InvalidateNamespace).
LEMMA InvalidationKeeps == ASSUME SynthLaneIInv, SessionInvalidates \/ SwitchInvalidates PROVE SynthLaneIInv'
  <1>0. /\ gen \in Nat \ {0} /\ epoch \in Nat /\ refresh \in Flight /\ relink \in Flight /\ entering \in Flight
        /\ effects \in Seq(SUBSET Token) /\ legs \in [Positions -> Nat \cup {NoLegs}]
    BY DEF SynthLaneIInv, SynthLaneTypeOK
  <1>1. /\ effects' = Append(effects, {}) /\ epoch' = epoch + 1 /\ stale' = TRUE
        /\ windows' = [u \in Unders |-> NoWindow] /\ watched' = {}
        /\ legs' = [p \in Positions |-> IF legs[p] = NoLegs THEN NoLegs ELSE Unlinked]
        /\ UNCHANGED <<gen, level, lane, refresh, relink, entering>>
    BY DEF SessionInvalidates, SwitchInvalidates, InvalidateNamespace, flightVars, worldVars
  <1>2. {} \in SUBSET Token /\ effects' \in Seq(SUBSET Token) /\ effects' # <<>> /\ effects'[Len(effects')] = {}
    BY <1>0, <1>1, AppendProperties
  <1>3. LastDeclared'
    BY <1>1, <1>2 DEF LastDeclared
  <1>4. LegsTyped(legs') /\ \A p \in Positions : legs'[p] \in {NoLegs, Unlinked}
    BY <1>0, <1>1 DEF LegsTyped, Unlinked
  <1>5. WindowsTyped(windows') /\ ofNamespace(windows', legs', gen) /\ \A u \in Unders : windows'[u].ns = NoNs
    <2>1. \A u \in Unders : windows'[u] = NoWindow
      BY <1>1
    <2>2. \A p \in Positions : legs'[p] \in {NoLegs, Unlinked, gen}
      BY <1>4
    <2> QED BY <1>1, <2>1, <2>2, EmptyBoard
  <1>6. SynthLaneTypeOK'
    BY <1>0, <1>1, <1>2, <1>4, <1>5 DEF SynthLaneIInv, SynthLaneTypeOK, WindowsTyped, LegsTyped
  <1>7. CurrentNamespace'
    BY <1>1, <1>5 DEF CurrentNamespace, ofNamespace
  <1>8. \A f \in {refresh, relink, entering} : f.epoch < epoch' /\ f.gen <= gen
    BY <1>0, <1>1 DEF SynthLaneIInv, FlightsCurrent, carries, Flight
  <1>9. FlightsCurrent'
    <2>1. carries(refresh)' /\ carries(relink)' /\ carries(entering)'
      BY <1>0, <1>1, <1>8 DEF carries, Flight
    <2>2. refresh'.epoch # epoch' /\ relink'.epoch # epoch' /\ entering'.epoch # epoch'
      BY <1>0, <1>1, <1>8 DEF Flight
    <2> QED BY <2>1, <2>2 DEF FlightsCurrent, superseded
  <1>10. NothingOfTheOld'
    BY <1>1, <1>4, <1>5, <1>8 DEF NothingOfTheOld
  <1> QED BY <1>3, <1>6, <1>7, <1>9, <1>10 DEF SynthLaneIInv

\* The registry moves while nothing of the old namespace is left, and reloads (SwitchTo).
LEMMA MovesKeep == ASSUME SynthLaneIInv, SwitchResets \/ SwitchMoves \/ ReloadUniverse PROVE SynthLaneIInv'
  <1>0. gen \in Nat \ {0} /\ epoch \in Nat /\ refresh \in Flight /\ relink \in Flight /\ entering \in Flight
    BY DEF SynthLaneIInv, SynthLaneTypeOK
  <1>a. UNCHANGED <<level, stale, windows, legs, watched, effects, refresh, relink, entering>>
    BY DEF SwitchResets, SwitchMoves, ReloadUniverse, universeVars, flightVars
  <1>1. CASE SwitchResets
    <2>1. UNCHANGED <<gen, epoch>> /\ phase' = "reset"
      BY <1>1 DEF SwitchResets, universeVars
    <2>2. FlightsCurrent'
      BY <1>a, <2>1, FlightsGoOn
    <2>3. LastDeclared'
      BY <1>a, <2>1 DEF SynthLaneIInv, LastDeclared
    <2> QED BY <1>a, <2>1, <2>2, <2>3 DEF SynthLaneIInv, SynthLaneTypeOK, CurrentNamespace, NothingOfTheOld
  <1>2. CASE SwitchMoves
    <2>1. gen' = gen + 1 /\ UNCHANGED <<lane, epoch>> /\ phase' = "moved" /\ phase = "invalid"
      BY <1>2 DEF SwitchMoves, universeVars
    <2>2. watched = {} /\ ofNamespace(windows, legs, gen + 1)
      BY <2>1 DEF SynthLaneIInv, NothingOfTheOld, ofNamespace
    <2>3. CurrentNamespace'
      BY <1>a, <2>1, <2>2 DEF CurrentNamespace, ofNamespace
    <2>4. LastDeclared' /\ NothingOfTheOld'
      BY <1>a, <2>1 DEF SynthLaneIInv, LastDeclared, NothingOfTheOld
    <2>5. carries(refresh)' /\ carries(relink)' /\ carries(entering)'
      BY <1>0, <1>a, <2>1 DEF SynthLaneIInv, FlightsCurrent, carries, Flight
    <2>6. refresh.gen # gen + 1 /\ relink.gen # gen + 1 /\ (entering = NoFlight \/ entering.epoch < epoch)
      BY <1>0, <2>1 DEF SynthLaneIInv, FlightsCurrent, NothingOfTheOld, carries, Flight
    <2>7. FlightsCurrent'
      BY <1>0, <1>a, <2>1, <2>5, <2>6 DEF FlightsCurrent, superseded, Flight
    <2>8. SynthLaneTypeOK'
      BY <1>0, <1>a, <2>1 DEF SynthLaneIInv, SynthLaneTypeOK
    <2> QED BY <2>3, <2>4, <2>7, <2>8 DEF SynthLaneIInv
  <1>3. CASE ReloadUniverse
    <2>1. epoch' = epoch + 1 /\ UNCHANGED <<gen, lane>> /\ phase' = "waits" /\ phase = "moved"
      BY <1>3 DEF ReloadUniverse
    <2>2. \A f \in {refresh, relink, entering} : f.epoch < epoch' /\ f.gen <= gen
      BY <1>0, <2>1 DEF SynthLaneIInv, FlightsCurrent, carries, Flight
    <2>3. carries(refresh)' /\ carries(relink)' /\ carries(entering)'
      BY <1>0, <1>a, <2>1, <2>2 DEF carries, Flight
    <2>4. refresh'.epoch # epoch' /\ relink'.epoch # epoch' /\ entering'.epoch # epoch'
      BY <1>0, <1>a, <2>1, <2>2 DEF Flight
    <2>5. FlightsCurrent'
      BY <2>3, <2>4 DEF FlightsCurrent, superseded
    <2>6. LastDeclared' /\ NothingOfTheOld' /\ CurrentNamespace'
      BY <1>a, <2>1 DEF SynthLaneIInv, LastDeclared, NothingOfTheOld, CurrentNamespace
    <2>7. SynthLaneTypeOK'
      BY <1>0, <1>a, <2>1 DEF SynthLaneIInv, SynthLaneTypeOK
    <2> QED BY <2>5, <2>6, <2>7 DEF SynthLaneIInv
  <1> QED BY <1>1, <1>2, <1>3

\* The lane carries what the scanner watches, and that of one broker only, for any board, budget
\* and number of switches, lost sessions, refreshes and positions (InvalidateNamespace, SetTokens).
THEOREM LaneAlwaysFollows == SynthLaneSpec => []LaneFollowsScanner
  <1>1. SynthLaneInit => SynthLaneIInv
    <2> SUFFICES ASSUME SynthLaneInit PROVE SynthLaneIInv
      OBVIOUS
    <2>1. SynthLaneTypeOK
      <3>1. NoFlight \in Flight /\ <<>> \in Seq(SUBSET Token)
        BY DEF NoFlight, Flight, NoNs
      <3>2. windows \in [Unders -> Window] /\ legs \in [Positions -> Nat \cup {NoLegs}]
        BY EmptyBoard DEF SynthLaneInit
      <3> QED BY <3>1, <3>2 DEF SynthLaneInit, SynthLaneTypeOK, Levels
    <2>2. LastDeclared /\ NothingOfTheOld
      BY DEF SynthLaneInit, LastDeclared, NothingOfTheOld
    <2>3. CurrentNamespace
      BY EmptyBoard DEF SynthLaneInit, CurrentNamespace, ofNamespace
    <2>4. FlightsCurrent
      BY DEF SynthLaneInit, FlightsCurrent, carries, NoFlight
    <2> QED BY <2>1, <2>2, <2>3, <2>4 DEF SynthLaneIInv
  <1>2. SynthLaneIInv /\ [SynthLaneNext]_synthLaneVars => SynthLaneIInv'
    <2> SUFFICES ASSUME SynthLaneIInv, [SynthLaneNext]_synthLaneVars PROVE SynthLaneIInv'
      OBVIOUS
    <2>1. CASE UNCHANGED synthLaneVars
      <3>1. UNCHANGED <<gen, phase, epoch, lane, level, stale, windows, legs, watched, effects, refresh, relink, entering>>
        BY <2>1 DEF synthLaneVars, worldVars, universeVars, flightVars
      <3> QED BY <3>1, FlightsGoOn, FlyingKeeps
    <2> QED BY <2>1, StopKeeps, BudgetKeeps, PositionKeeps, RelinkKeeps, PlanKeeps, BuildKeeps, RefreshKeeps,
            RelinkBeginKeeps, EffectKeeps, InvalidationKeeps, MovesKeep DEF SynthLaneNext
  <1>3. SynthLaneIInv => LaneFollowsScanner
    BY DEF SynthLaneIInv, LastDeclared, CurrentNamespace, LaneFollowsScanner, DeclaredIsWatched, OwnNamespace
  <1> QED BY <1>1, <1>2, <1>3, PTL DEF SynthLaneSpec

=============================================================================
