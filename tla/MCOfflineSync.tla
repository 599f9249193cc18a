----------------------------- MODULE MCOfflineSync -----------------------------
(***************************************************************************)
(* A TLC instance of OfflineSync: two operations and two possible runs.    *)
(***************************************************************************)
EXTENDS OfflineSync

CONSTANTS o1, o2, r1, r2

=============================================================================
