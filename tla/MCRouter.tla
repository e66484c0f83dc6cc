------------------------------ MODULE MCRouter ------------------------------
(***************************************************************************)
(* Small instances of Router for TLC.                                      *)
(***************************************************************************)
EXTENDS Router, TLC

CONSTANTS x, s1, s2

OneContext == {x}
MCSubIds == {s1, s2}

TwoEvents == <<x, x>>
OddEvents == <<NoContext, x>>

SubSymmetry == Permutations(MCSubIds)
=============================================================================
