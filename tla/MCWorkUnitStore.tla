-------------------------- MODULE MCWorkUnitStore --------------------------
(***************************************************************************)
(* Small instances of WorkUnitStore for TLC.                               *)
(***************************************************************************)
EXTENDS WorkUnitStore, TLC

CONSTANTS k1, k2, u1, u2, u3, p1, p2

TwoContexts == {k1, k2}
MCUnitIds == {u1, u2, u3}
MCCreators == {p1, p2}

UnitSymmetry == Permutations(MCUnitIds) \cup Permutations(MCCreators)
=============================================================================
