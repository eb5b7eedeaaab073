------------------------------ MODULE MCStored ------------------------------
(* What is published and stored: Fair Value's surfaces and history with the worker pool it   *)
(* computes them on, the hourly and end-of-day rows, and the calendar trades. No state is    *)
(* shared: a behaviour picks one of them and the others stay as they started, so one run     *)
(* checks all five over the sum, not the product, of their states.                           *)
EXTENDS FairValue, WorkerPool, HourlyCapture, EodCapture, CalendarTrades

CONSTANTS sa, sb, b1, b2, b3, c1, c2, j1, j2, j3, j4

VARIABLE part       \* the component that moves

StoredVars == <<part, fairValueVars, poolVars, hourlyVars, calendarVars, eodVars>>

StoredInit ==
    /\ part \in {"fv", "pool", "hourly", "eod", "trades"}
    /\ FairValueInit /\ PoolInit /\ HourlyInit /\ CalendarInit /\ EodInit
    /\ part # "hourly" => ~session /\ validLookback

StoredNext ==
    \/ /\ part = "fv" /\ FairValueNext
       /\ UNCHANGED <<part, poolVars, hourlyVars, calendarVars, eodVars>>
    \/ /\ part = "pool" /\ PoolNext
       /\ UNCHANGED <<part, fairValueVars, hourlyVars, calendarVars, eodVars>>
    \/ /\ part = "hourly" /\ HourlyNext
       /\ UNCHANGED <<part, fairValueVars, poolVars, calendarVars, eodVars>>
    \/ /\ part = "trades" /\ CalendarNext
       /\ UNCHANGED <<part, fairValueVars, poolVars, hourlyVars, eodVars>>
    \/ /\ part = "eod" /\ EodNext
       /\ UNCHANGED <<part, fairValueVars, poolVars, hourlyVars, calendarVars>>

StoredSpec == StoredInit /\ [][StoredNext]_StoredVars
=============================================================================
