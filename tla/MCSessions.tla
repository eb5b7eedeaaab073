----------------------------- MODULE MCSessions -----------------------------
(* Logins and what hangs on them: the Dhan and the Kite session, a Kite lane's socket, the *)
(* browser sessions and the instrument loads. A behaviour picks one of them, and one run    *)
(* checks all five over the sum, not the product, of their states.                          *)
EXTENDS DhanSession, KiteSession, KiteLaneFeed, BrowserSessions, InstrumentLoads

CONSTANTS c1, c2

VARIABLE part       \* the component that moves

SessionsVars == <<part, dhanSessionVars, kiteSessionVars, laneFeedVars, browserVars, loadVars>>

SessionsInit ==
    /\ part \in {"dhan", "kite", "socket", "browser", "load"}
    /\ DhanSessionInit /\ KiteSessionInit /\ LaneFeedInit /\ BrowserInit /\ LoadInit

SessionsNext ==
    /\ UNCHANGED part
    /\ \/ /\ part = "dhan" /\ DhanSessionNext
          /\ UNCHANGED <<kiteSessionVars, laneFeedVars, browserVars, loadVars>>
       \/ /\ part = "kite" /\ KiteSessionNext
          /\ UNCHANGED <<dhanSessionVars, laneFeedVars, browserVars, loadVars>>
       \/ /\ part = "socket" /\ LaneFeedNext
          /\ UNCHANGED <<dhanSessionVars, kiteSessionVars, browserVars, loadVars>>
       \/ /\ part = "browser" /\ BrowserNext
          /\ UNCHANGED <<dhanSessionVars, kiteSessionVars, laneFeedVars, loadVars>>
       \/ /\ part = "load" /\ LoadNext
          /\ UNCHANGED <<dhanSessionVars, kiteSessionVars, laneFeedVars, browserVars>>

SessionsSpec == SessionsInit /\ [][SessionsNext]_SessionsVars
=============================================================================
