----------------------------- MODULE MCNotifier -----------------------------
(***************************************************************************)
(* A small instance of Notifier for TLC.                                   *)
(***************************************************************************)
EXTENDS Notifier

CONSTANTS c1, k1

OneClient == {c1}
MCContexts == {k1}
\* The client wants everything, and may ask for nothing later.
MCAsked == {Star}
MCRequests == {{}}
TwoUnits == <<k1, k1>>
=============================================================================
