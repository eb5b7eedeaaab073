------------------------------- MODULE MCHub --------------------------------
(* Small instances of Hub for TLC. *)
EXTENDS Hub, TLC

CONSTANTS t1, t2, b1, e1

MCTokens == {t1, t2}
TokenSymmetry == Permutations(MCTokens)
=============================================================================
