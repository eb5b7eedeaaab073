---------------------------- MODULE MCAnalytics -----------------------------
(* The analytics frames and the write-behind buffer. A behaviour picks one of them and the  *)
(* other stays as it started, so one run checks both over the sum, not the product, of their *)
(* states: what the frames ask to store is stored at once in theirs, and the buffer has      *)
(* writes of its own.                                                                        *)
EXTENDS AnalyticsFrames, WriteBehind

VARIABLE part       \* the component that moves

AnalyticsVars == <<part, frameVars, writeBehindVars>>

AnalyticsInit ==
    /\ part \in {"frames", "buffer"} /\ FramesInit /\ WriteBehindInit
    /\ part # "frames" => family = "opt"

AnalyticsNext ==
    \/ part = "frames" /\ FramesNext /\ UNCHANGED <<part, writeBehindVars>>
    \/ part = "buffer" /\ WriteBehindNext /\ UNCHANGED <<part, frameVars>>

AnalyticsSpec == AnalyticsInit /\ [][AnalyticsNext]_AnalyticsVars
=============================================================================
