----------------------------- MODULE MCFailover -----------------------------
(***************************************************************************)
(* TLC instances of Failover: two calls, with a migration beside them.     *)
(***************************************************************************)
EXTENDS Failover, TLC

CONSTANTS c1, c2, m1, k1, k2

\* c2 retries the operation of c1, or each call has a key of its own.
Retry == c1 :> k1 @@ c2 :> k1
OwnKeys == c1 :> k1 @@ c2 :> k2

=============================================================================
