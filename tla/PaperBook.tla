----------------------------- MODULE PaperBook ------------------------------
(***************************************************************************)
(* What the paper-trade storage promises its readers: a trade is opened,   *)
(* closed and soft-deleted at most once and in that order, an underlying   *)
(* has at most one open trade, and a deleted trade is an audit record that *)
(* stays as it was.  SynthBook implements it.                              *)
(***************************************************************************)
CONSTANTS
    Trades,         \* trade ids
    BookKeys        \* the underlyings

VARIABLES
    status,         \* per trade: "none", "open", "closed" or "deleted"
    tradeOf,        \* per trade: its underlying
    figure          \* the trades with a margin figure

paperVars == <<status, tradeOf, figure>>

OpenOn(u) == {t \in Trades : status[t] = "open" /\ tradeOf[t] = u}

PaperInit ==
    /\ status = [t \in Trades |-> "none"]
    /\ tradeOf \in [Trades -> BookKeys]
    /\ figure = {}

Open(t, u) ==
    /\ status[t] = "none" /\ OpenOn(u) = {}
    /\ status' = [status EXCEPT ![t] = "open"]
    /\ tradeOf' = [tradeOf EXCEPT ![t] = u]
    /\ UNCHANGED figure

CloseOut(t) ==
    /\ status[t] = "open"
    /\ status' = [status EXCEPT ![t] = "closed"]
    /\ UNCHANGED <<tradeOf, figure>>

Remove(t) ==
    /\ status[t] \in {"open", "closed"}
    /\ status' = [status EXCEPT ![t] = "deleted"]
    /\ UNCHANGED <<tradeOf, figure>>

Record(t) ==
    /\ status[t] \in {"open", "closed"}
    /\ figure' \in {figure \cup {t}, figure \ {t}}
    /\ UNCHANGED <<status, tradeOf>>

PaperNext ==
    \E t \in Trades :
        \/ \E u \in BookKeys : Open(t, u)
        \/ CloseOut(t)
        \/ Remove(t)
        \/ Record(t)

PaperSpec == PaperInit /\ [][PaperNext]_paperVars
=============================================================================
