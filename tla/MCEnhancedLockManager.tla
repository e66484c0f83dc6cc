----------------------- MODULE MCEnhancedLockManager -----------------------
(***************************************************************************)
(* Small instances of EnhancedLockManager for TLC.                         *)
(***************************************************************************)
EXTENDS EnhancedLockManager, TLC

CONSTANTS a1, a2, i1, i2, c1, c2

MCAgents == {a1, a2}
MCIds2 == {i1, i2}
TwoCalls == {c1, c2}

TwoResources == {1, 2}

\* The same pair in both orders: the sort must make the orders agree.
CrossedRequests == {<<1, 2>>, <<2, 1>>}

Symmetry22 == Permutations(MCAgents) \cup Permutations(MCIds2) \cup Permutations(TwoCalls)
=============================================================================
