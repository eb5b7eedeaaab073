----------------------------- MODULE MCDhanFeed -----------------------------
(* Small instances of DhanFeed for TLC. *)
EXTENDS DhanFeed, TLC

CONSTANTS t1, t2, t3

MCTokens == {t1, t2, t3}
MCResolvable == {t1, t2}
\* The third token encodes no segment: Resolve does not know it.
TokenSymmetry == Permutations(MCResolvable)
=============================================================================
