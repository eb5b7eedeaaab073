---------------------------- MODULE MCSwitchLive ----------------------------
(* The broker switch, with two streams, three switches at most and two crashes, and the    *)
(* Dhan feed, with one token, two sockets and two reconnect timers. No state is shared: a   *)
(* behaviour picks one of them, so that one run checks both over the sum, not the product,  *)
(* of their states.                                                                         *)
EXTENDS BrokerSwitch, DhanFeed

CONSTANTS s1, s2, t1

VARIABLE part       \* the component that moves
switchLiveVars == <<part, switchVars, feedVars>>

SwitchLiveInit ==
    /\ part \in {"switch", "feed"} /\ SwitchInit /\ FeedInit
    /\ part # "feed" => creds

SwitchLiveNext ==
    \/ part = "switch" /\ SwitchNext /\ UNCHANGED <<part, feedVars>>
    \/ part = "feed" /\ FeedNext /\ UNCHANGED <<part, switchVars>>

\* The fairness of each component, as its own module states and justifies it.
SwitchLiveFairness ==
    /\ SF_switchVars(part = "switch" /\ SwitchReset) /\ WF_switchVars(part = "switch" /\ SwitchSteps)
    /\ \A s \in Streams : /\ WF_switchVars(part = "switch" /\ StreamRoute(s))
                          /\ WF_switchVars(part = "switch" /\ StreamSubscribe(s))
    /\ WF_feedVars(part = "feed" /\ TimerExpires)
    /\ \A n \in 1..MaxTimers : WF_feedVars(part = "feed" /\ TimerCallback(n))
    /\ WF_feedVars(part = "feed" /\ DrainCall) /\ WF_feedVars(part = "feed" /\ DrainLoop)

SwitchLiveSpec == SwitchLiveInit /\ [][SwitchLiveNext]_switchLiveVars /\ SwitchLiveFairness
=============================================================================
