--------------------------- MODULE MC_RamhogPool ---------------------------
(* Instantiation of RamhogPool for TLC. *)
EXTENDS RamhogPool, TLC

CONSTANTS m1, m2, k1, k2

MCMiners   == {m1, m2}
MCCheckers == {k1}
MCCheckers2 == {k1, k2}
MCMiners1   == {m1}
MCNoCheckers == {}

Symm == Permutations(MCMiners)
=============================================================================
