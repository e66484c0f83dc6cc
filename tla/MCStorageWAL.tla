---------------------------- MODULE MCStorageWAL ----------------------------
(***************************************************************************)
(* Small instances of StorageWAL for TLC.                                  *)
(***************************************************************************)
EXTENDS StorageWAL

CONSTANTS c1, u1

MCContexts == {c1}
MCWorkUnits == {u1}
=============================================================================
