---------------------------- MODULE MCLaneBudget ----------------------------
(* Two browser streams and Fair Value on a lane with room for one token.    *)
EXTENDS LaneBudget

CONSTANTS t1, t2, s1, s2

MCTokens == {t1, t2}
MCStreams == {s1, s2}
MCLeaseOwners == {Browser}
MCSetOwners == {Analytics}
=============================================================================
