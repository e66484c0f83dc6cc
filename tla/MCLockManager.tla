--------------------------- MODULE MCLockManager ---------------------------
(***************************************************************************)
(* Small instances of LockManager for TLC.                                 *)
(***************************************************************************)
EXTENDS LockManager, TLC

CONSTANTS a1, a2, i1, i2, i3, i4, i5, g1, g2

MCAgents == {a1, a2}
MCIds3 == {i1, i2, i3}
MCIds4 == {i1, i2, i3, i4}
MCIds5 == {i1, i2, i3, i4, i5}
MCGoroutines == {g1, g2}

OneResource == {1}
TwoResources == {1, 2}

NoRequests == {}
\* The same pair in both orders: the sort must make the orders agree.
CrossedRequests == {<<1, 2>>, <<2, 1>>}

OneTTL == {2}
ShortTTL == {1}
ZeroTTL == {0}

Symmetry4 == Permutations(MCAgents) \cup Permutations(MCIds4) \cup Permutations(MCGoroutines)
Symmetry5 == Permutations(MCAgents) \cup Permutations(MCIds5) \cup Permutations(MCGoroutines)
=============================================================================
