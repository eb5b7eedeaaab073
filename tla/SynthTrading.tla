---------------------------- MODULE SynthTrading ----------------------------
(***************************************************************************)
(* The synthetic scanner's trading rules on one strike: pricing a          *)
(* conversion or a reversal at the touch, confirming it on new books,      *)
(* entering, monitoring, exiting and settling the paper position.          *)
(*                                                                         *)
(* Source: internal/synthetic/math.go and the loop of engine.go, over the  *)
(* books of internal/quotes/quotes.go.                                     *)
(*                                                                         *)
(* Prices are integers and one lot is traded.  Whether a book is fresh is  *)
(* a flag that time clears.  The calendar runs from an ordinary session    *)
(* through the night and the expiry session to its close.  What is stored  *)
(* and what is declared on the lane are SynthBook's and SynthLane's.       *)
(***************************************************************************)
EXTENDS Integers, FiniteSets, FiniteSetsExt

CONSTANTS
    Confirmations,  \* cfg.SignalConfirmations
    IncludeCarry,   \* cfg.IncludeCarry: the gate of an entry counts the carry
    MaxEvents       \* bound on book updates, lapses of freshness and operator requests

ASSUME SynthTradingBounds ==
    Confirmations \in Nat \ {0} /\ IncludeCarry \in BOOLEAN /\ MaxEvents \in Nat

Roles == {"FUT", "CE", "PE"}
Dirs == {"conversion", "reversal"}

Strike == 100
Charge == 1         \* of one order, whatever its price
MinNet == 2         \* minExpectedNetProfit + safetyBuffer + expectedSlippage
MinExitNetPnl == 1
ConvergenceFloor == 2
ConvergencePct == 20
ProfitCapturePct == 75      \* of the edge after charges
MinCapturedPct == 75        \* of the edge before them
CarryPct == 25      \* rf times the years to expiry in the first session; nothing is left in the last

Book(b, a) == [bid |-> b, ask |-> a, lots |-> 1]
NoBook == [bid |-> 0, ask |-> 0, lots |-> 0]

\* The books a leg may show; the call's may be rich, thin, crossed or empty.
Books(r) ==
    CASE r = "FUT" -> {Book(110, 111)}
      [] r = "PE"  -> {Book(10, 11)}
      [] r = "CE"  -> {Book(20, 21), Book(60, 61), Book(61, 60), Book(27, 28), NoBook,
                       [Book(60, 61) EXCEPT !.lots = 0]}

VARIABLES
    books,      \* the last book of each leg
    aged,       \* legs whose book is older than QuoteMaxAgeMs
    versions,   \* its version, 0 when there is no book
    nextVersion,
    feedOk,     \* a tick came within FeedMaxAgeMs
    resolved,   \* the namespace is not stale: the rows are of the active broker
    clock,      \* "open", "night", "expiry", "safety", "settled"
    streak,     \* eligibleStreak, eligibleSig
    entering,   \* pendingEntries: the trade being inserted
    held,       \* the open position
    linked,     \* its legs, or those of the entry, are resolved in this namespace
    closing,    \* the close being stored
    retrying,   \* retryAt: a close failed a moment ago
    exits,      \* exitStreak and exitSig of the position
    closedTrades,   \* the trades closed
    seenBooks,  \* history: signatures on which the signal has held at every look since it broke
    events

marketVars == <<books, aged, versions, nextVersion, feedOk, resolved, clock>>
rowVars == <<streak, entering>>
tradeVars == <<held, linked, closing, retrying, exits, closedTrades>>
tradingVars == <<marketVars, rowVars, tradeVars, seenBooks, events>>

None == [dir |-> "none"]
Fresh == [n |-> 0, sig |-> <<>>]
SignalKinds == Dirs \cup {"exit"}

TradingInit ==
    /\ books = [r \in Roles |-> NoBook] /\ aged = {} /\ versions = [r \in Roles |-> 0] /\ nextVersion = 1
    /\ feedOk = FALSE /\ resolved = TRUE /\ clock = "open"
    /\ streak = [d \in Dirs |-> Fresh] /\ entering = None
    /\ held = None /\ linked = TRUE /\ closing = None /\ retrying = FALSE /\ exits = Fresh /\ closedTrades = {}
    /\ seenBooks = [s \in SignalKinds |-> {}] /\ events = 0

-----------------------------------------------------------------------------
(* Pricing                                                                 *)

marketOpen == clock \in {"open", "expiry", "safety"}
InExpirySafetyWindow == clock \in {"safety", "settled"}
IsPastSettlement == clock = "settled"
feedHealthy == marketOpen /\ feedOk

\* A conversion buys the future and the put and sells the call.
EntrySide(d, r) == IF (d = "conversion") = (r # "CE") THEN "BUY" ELSE "SELL"
flipSide(s) == IF s = "BUY" THEN "SELL" ELSE "BUY"
touchOf(q, side) == IF side = "BUY" THEN q.ask ELSE q.bid

\* evaluateLeg: a leg fills only at a real, uncrossed, deep and fresh touch.
executable(r, side) ==
    LET q == books[r] IN
    /\ touchOf(q, side) > 0 /\ ~(q.bid > 0 /\ q.ask > 0 /\ q.bid >= q.ask)
    /\ q.lots > 0 /\ r \notin aged

OrderCharges == Charge * Cardinality(Roles)

entryPrice(d) == [r \in Roles |-> touchOf(books[r], EntrySide(d, r))]
Mispricing(d, p) ==
    LET lock == Strike + p["CE"] - p["PE"] - p["FUT"]
    IN  IF d = "conversion" THEN lock ELSE -lock

\* The net premium, received on a conversion and paid on a reversal, is financed until expiry.
carry(d, p) ==
    LET interest == ((p["CE"] - p["PE"]) * CarryPct) \div 100
    IN  IF ~IncludeCarry \/ clock # "open" THEN 0 ELSE IF d = "conversion" THEN interest ELSE -interest

grossEdge(d) == Mispricing(d, entryPrice(d)) + carry(d, entryPrice(d))

\* Mutation: the gate is compared with the edge before charges.
Mut_GrossGate(d) == grossEdge(d)

expectedNet(d) == grossEdge(d) - 2 * OrderCharges

\* EvaluateSynthetic: rejected legs first, then the gate; nothing while the market is shut.
ELIGIBLE(d) ==
    /\ marketOpen /\ resolved
    /\ \A r \in Roles : executable(r, EntrySide(d, r))
    /\ expectedNet(d) >= MinNet

\* EntryEdge is the lock alone; the carry is recorded next to it.
OpenTradeFromOpportunity(d) ==
    [dir |-> d, price |-> entryPrice(d), edge |-> Mispricing(d, entryPrice(d)),
     carry |-> carry(d, entryPrice(d))]

\* bookSig: it changes whenever a leg's book does.
bookSig == <<versions["FUT"], versions["CE"], versions["PE"]>>

-----------------------------------------------------------------------------
(* Exits                                                                   *)

exitPrice(t) == [r \in Roles |-> touchOf(books[r], flipSide(EntrySide(t.dir, r)))]
canExit(t) == marketOpen /\ resolved /\ linked /\ \A r \in Roles : executable(r, flipSide(EntrySide(t.dir, r)))
priced(t) == marketOpen /\ resolved /\ linked /\ \A r \in Roles : exitPrice(t)[r] > 0

\* A long leg gains when its price rises, a short leg when it falls.
grossPnl(t) ==
    LET gain(r) == IF EntrySide(t.dir, r) = "BUY" THEN exitPrice(t)[r] - t.price[r]
                   ELSE t.price[r] - exitPrice(t)[r]
    IN  gain("FUT") + gain("CE") + gain("PE")
netPnl(t) == grossPnl(t) - 2 * OrderCharges

EntryNetEdge(t) == t.edge - 2 * OrderCharges
magnitude(e) == IF e < 0 THEN -e ELSE e

\* EvaluateExit's rule: converged or captured, and never at a loss.
ruleReason(t) ==
    LET remaining == t.edge - grossPnl(t)
        converged == remaining <= ConvergenceFloor \/ 100 * remaining <= ConvergencePct * EntryNetEdge(t)
        captured == \/ 100 * netPnl(t) >= ProfitCapturePct * EntryNetEdge(t)
                    \/ t.edge # 0 /\ 100 * grossPnl(t) >= MinCapturedPct * magnitude(t.edge)
    IN  IF ~priced(t) \/ netPnl(t) <= 0 \/ netPnl(t) < MinExitNetPnl THEN "none"
        ELSE IF converged THEN "EDGE_CONVERGED" ELSE IF captured THEN "PROFIT_CAPTURE" ELSE "none"

exitReason(t) ==
    IF ~canExit(t) THEN "none"
    ELSE IF ruleReason(t) # "none" THEN ruleReason(t)
    ELSE IF InExpirySafetyWindow THEN "EXPIRY_SAFETY" ELSE "none"

CloseTradeAtTouch(t, reason) == [trade |-> t, reason |-> reason, dir |-> "close",
                                 net |-> grossPnl(t) - 2 * OrderCharges]
SettleTradeAtExpiry(t) == [trade |-> t, reason |-> "EXPIRED", dir |-> "close",
                           net |-> EntryNetEdge(t)]

-----------------------------------------------------------------------------
(* The loop                                                                *)

\* A signal must hold on new books: the same books confirm nothing more.
confirmed(s) ==
    IF s.sig = bookSig THEN [s EXCEPT !.n = IF s.n > 1 THEN s.n ELSE 1]
    ELSE [n |-> s.n + 1, sig |-> bookSig]

evaluated == [d \in Dirs |-> IF ELIGIBLE(d) THEN confirmed(streak[d]) ELSE Fresh]

monitored(t) ==
    IF ruleReason(t) # "none" /\ canExit(t)
    THEN IF exits.sig = bookSig THEN exits ELSE [n |-> exits.n + 1, sig |-> bookSig]
    ELSE Fresh

\* A position that is being closed, or was a moment ago without success, is not looked at.
resting == held = None \/ closing # None \/ retrying

observe ==
    seenBooks' = [s \in SignalKinds |->
               IF s \in Dirs
               THEN IF ELIGIBLE(s) THEN seenBooks[s] \cup {bookSig} ELSE {}
               ELSE IF resting \/ IsPastSettlement THEN seenBooks[s]
               ELSE IF ruleReason(held) # "none" /\ canExit(held) THEN seenBooks[s] \cup {bookSig} ELSE {}]

\* Mutation: a position that is not linked is skipped before settlement is considered.
Mut_SkipUnlinked ==
    IF resting \/ ~resolved \/ ~linked \/ ~marketOpen THEN UNCHANGED <<closing, exits>>
    ELSE exits' = monitored(held) /\ UNCHANGED closing

\* monitorPositionsLocked: settlement before everything, then the exit rules.
monitorPositions ==
    IF resting THEN UNCHANGED <<closing, exits>>
    ELSE IF IsPastSettlement THEN closing' = SettleTradeAtExpiry(held) /\ UNCHANGED exits
    ELSE LET s == monitored(held) why == exitReason(held) IN
         /\ exits' = s
         /\ IF feedHealthy /\ why # "none" /\ (why = "EXPIRY_SAFETY" \/ s.n >= Confirmations)
            THEN closing' = CloseTradeAtTouch(held, why)
            ELSE UNCHANGED closing

\* annotateLocked and autoEnterLocked: the best confirmed signal, one per underlying.
autoEnter ==
    LET free == feedHealthy /\ held = None /\ entering = None /\ ~InExpirySafetyWindow
        ready == {d \in Dirs : ELIGIBLE(d) /\ streak'[d].n >= Confirmations}
    IN  IF free /\ ready # {}
        THEN \E d \in ready : /\ \A o \in ready : expectedNet(d) >= expectedNet(o)
                              /\ entering' = OpenTradeFromOpportunity(d) /\ linked' = TRUE
        ELSE UNCHANGED <<entering, linked>>

tick ==
    /\ streak' = evaluated
    /\ monitorPositions /\ autoEnter /\ observe
    /\ UNCHANGED <<marketVars, held, retrying, closedTrades, events>>

\* A new row priced on the same books is no observation: refreshRowsLocked, UpdateSettings.
refreshRows == streak' = IF resolved THEN streak ELSE [d \in Dirs |-> Fresh]

\* finishEnter: the insert landed, or failed. If the namespace was replaced meanwhile the
\* position is unlinked.
finishEnter ==
    /\ entering # None /\ entering' = None
    /\ \/ /\ held' = entering /\ exits' = Fresh /\ seenBooks' = [seenBooks EXCEPT !["exit"] = {}]
          /\ streak' = [streak EXCEPT ![entering.dir].n = 0]
       \/ refreshRows /\ UNCHANGED <<held, exits, seenBooks>>
    /\ UNCHANGED <<marketVars, linked, closing, retrying, closedTrades, events>>

\* finishFinalize: the close was stored, or failed: the position is monitored again when the
\* retry is due, with the confirmations it had.
closeStored ==
    /\ closing # None /\ closing' = None /\ linked' = TRUE /\ retrying' = FALSE
    /\ closedTrades' = closedTrades \cup {closing} /\ held' = None /\ exits' = Fresh
    /\ seenBooks' = [seenBooks EXCEPT !["exit"] = {}] /\ refreshRows
    /\ UNCHANGED <<marketVars, entering, events>>

closeFailed ==
    /\ closing # None /\ closing' = None /\ retrying' = TRUE
    /\ UNCHANGED <<marketVars, rowVars, held, linked, exits, closedTrades, seenBooks, events>>

RetryDue ==
    /\ retrying /\ retrying' = FALSE
    /\ UNCHANGED <<marketVars, rowVars, held, linked, closing, exits, closedTrades, seenBooks, events>>

-----------------------------------------------------------------------------
(* Books, time and the operator                                            *)

Event == events < MaxEvents /\ events' = events + 1

\* ApplyTicks: an empty book deletes the old one, and consumes a version too.
ApplyTicks(r, b) ==
    /\ books' = [books EXCEPT ![r] = b] /\ aged' = aged \ {r}
    /\ versions' = [versions EXCEPT ![r] = IF b = NoBook THEN 0 ELSE nextVersion]
    /\ nextVersion' = nextVersion + 1

\* Bound: a fresh book is replaced for the call only; the others come when there is none or an
\* old one.
Moving(r) == r = "CE" \/ books[r] = NoBook \/ r \in aged

OnTicks(r, b) ==
    /\ Moving(r) /\ Event /\ marketOpen /\ resolved /\ ApplyTicks(r, b) /\ feedOk' = TRUE
    /\ UNCHANGED <<resolved, clock, rowVars, tradeVars, seenBooks>>

FeedLapses ==
    /\ Event /\ feedOk /\ feedOk' = FALSE /\ aged' = {r \in Roles : books[r] # NoBook}
    /\ UNCHANGED <<books, versions, nextVersion, resolved, clock, rowVars, tradeVars, seenBooks>>

ClearBooks == books' = [r \in Roles |-> NoBook] /\ aged' = {} /\ versions' = [r \in Roles |-> 0]

\* The lane reconnected.
InvalidateBooks ==
    /\ Event /\ ClearBooks
    /\ UNCHANGED <<nextVersion, feedOk, resolved, clock, rowVars, tradeVars, seenBooks>>

\* A switch: no books, no rows, no streaks; a position, and an entry under way, is unlinked until
\* its legs are found again.
InvalidateNamespace ==
    /\ Event /\ resolved /\ resolved' = FALSE /\ ClearBooks
    /\ streak' = [d \in Dirs |-> Fresh] /\ exits' = Fresh
    /\ linked' = (held = None /\ entering = None)
    /\ seenBooks' = [s \in SignalKinds |-> {}]
    /\ UNCHANGED <<nextVersion, feedOk, clock, entering, held, closing, retrying, closedTrades>>

\* The universe is reloaded; a position's legs are found, then or by a later relink, or are not.
Relinked ==
    /\ ~resolved \/ ~linked
    /\ resolved' = TRUE /\ linked' \in IF held = None THEN {linked} ELSE BOOLEAN
    /\ UNCHANGED <<books, aged, versions, nextVersion, feedOk, clock, rowVars, held, closing, retrying,
                   exits, closedTrades, seenBooks, events>>

\* No feed or confirmation is asked of a manual close; a price is never invented.
CloseManually ==
    /\ Event /\ held # None /\ closing = None /\ canExit(held)
    /\ closing' = CloseTradeAtTouch(held, "MANUAL")
    /\ UNCHANGED <<marketVars, rowVars, held, linked, retrying, exits, closedTrades, seenBooks>>

TimePasses ==
    /\ clock' = CASE clock = "open" -> "night" [] clock = "night" -> "expiry"
                  [] clock = "expiry" -> "safety" [] clock = "safety" -> "settled"
                  [] OTHER -> clock
    /\ clock # "settled" /\ feedOk' = FALSE /\ aged' = {r \in Roles : books[r] # NoBook}
    /\ UNCHANGED <<books, versions, nextVersion, resolved, rowVars, tradeVars, seenBooks, events>>

TradingNext ==
    \/ tick \/ finishEnter \/ closeStored \/ closeFailed \/ RetryDue \/ CloseManually
    \/ \E r \in Roles : \E b \in Books(r) : OnTicks(r, b)
    \/ FeedLapses \/ InvalidateBooks \/ InvalidateNamespace \/ Relinked \/ TimePasses

\* The loop runs for as long as the process, store calls return, a close that is tried again
\* and again is stored at last, time passes.
TradingSpec ==
    /\ TradingInit /\ [][TradingNext]_tradingVars
    /\ WF_tradingVars(tick) /\ WF_tradingVars(finishEnter) /\ SF_tradingVars(closeStored)
    /\ WF_tradingVars(RetryDue) /\ WF_tradingVars(TimePasses)

-----------------------------------------------------------------------------
(* Properties                                                              *)

\* A position is entered, and closed by an exit rule, only when its signal held on
\* Confirmations different books in a row, at every look the engine took: whatever re-priced
\* them between, also when a close failed after it was confirmed.
ActsConfirmed ==
    /\ (entering = None /\ entering' # None)
          => Cardinality(seenBooks'[entering'.dir]) >= Confirmations
    /\ (closing = None /\ closing' # None /\ closing'.reason \in {"EDGE_CONVERGED", "PROFIT_CAPTURE"})
          => Cardinality(seenBooks'["exit"]) >= Confirmations

\* EvaluateExit: a close by a rule keeps a profit.  SettleTradeAtExpiry: a position held to
\* expiry settles at its lock and pays what the entry gate asked, less the carry which the gate
\* counted and the settlement does not: with IncludeCarry it may end at a loss, but at no larger
\* one than that carry.
RuleExitsPay ==
    \A c \in closedTrades :
        /\ c.reason \in {"EDGE_CONVERGED", "PROFIT_CAPTURE"} => c.net > 0
        /\ c.reason = "EXPIRED" => c.net + c.trade.carry >= MinNet

Holding == held # None

\* No position outlives its expiry, however badly it was priced or linked.
PositionEnds == Holding ~> ~Holding

\* The rules hold for every trade: it is entered and closed on confirmed signals only, a close by
\* a rule never loses, and a settlement pays what the entry was made for without its carry.
RulesKept == [][ActsConfirmed /\ RuleExitsPay']_tradingVars

-----------------------------------------------------------------------------
(* RulesKept is inductive together with the parts below                    *)

Signature == Nat \X Nat \X Nat
Streak == [n : Nat, sig : Signature \cup {<<>>}]
Trade == [dir : Dirs, price : [Roles -> Int], edge : Int, carry : Int]

TradingTypeOK ==
    /\ books \in [Roles -> [bid : Nat, ask : Nat, lots : Nat]]
    /\ versions \in [Roles -> Nat] /\ nextVersion \in Nat
    /\ streak \in [Dirs -> Streak] /\ exits \in Streak
    /\ entering \in Trade \cup {None} /\ held \in Trade \cup {None}
    /\ seenBooks \in [SignalKinds -> SUBSET Signature]

\* A book has a version of its own, and versions only grow.
VersionsGrow ==
    \A r \in Roles : versions[r] < nextVersion /\ (versions[r] = 0 => books[r] = NoBook)

\* A signature of the past: none of its legs is newer than now.
Past(x) ==
    /\ \A k \in 1..3 : x[k] < nextVersion
    /\ versions["FUT"] # 0 => x[1] <= versions["FUT"]
    /\ versions["CE"] # 0 => x[2] <= versions["CE"]
    /\ versions["PE"] # 0 => x[3] <= versions["PE"]

NotAfter(x, y) == \A k \in 1..3 : x[k] <= y[k]

\* A streak counts no more books than the signal was seen on, and its signature is the latest
\* of them: the same three versions never come back.
CountsBooks(s, looks) ==
    /\ IsFiniteSet(looks) /\ s.n <= Cardinality(looks)
    /\ \A x \in looks : Past(x)
    /\ s.n > 0 => s.sig \in looks /\ \A x \in looks : NotAfter(x, s.sig)

\* A trade is entered when its edge and its carry pay for it, and a close pays as RuleExitsPay says.
Pays(t) == t.edge + t.carry - 2 * OrderCharges >= MinNet
ClosePays(c) ==
    /\ c.reason \in {"EDGE_CONVERGED", "PROFIT_CAPTURE"} => c.net > 0
    /\ c.reason = "EXPIRED" => c.net + c.trade.carry >= MinNet

TradingIInv ==
    /\ TradingTypeOK /\ VersionsGrow
    /\ \A d \in Dirs : CountsBooks(streak[d], seenBooks[d])
    /\ CountsBooks(exits, seenBooks["exit"])
    /\ entering # None => Pays(entering)
    /\ held # None => Pays(held)
    /\ closing # None => ClosePays(closing)
    /\ RuleExitsPay
=============================================================================
