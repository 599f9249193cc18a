----------------------------- MODULE MCMigration -----------------------------
(***************************************************************************)
(* TLC instances of Migration: some of four calls, for two tenants.        *)
(***************************************************************************)
EXTENDS Migration, TLC

CONSTANTS c1, c2, c3, c4, t1, t2, k1, k2

\* c2 retries the operation of c1 for t1, c3 migrates t2, c4 presents the key
\* of c1 for t2.
TwoTenants == c1 :> t1 @@ c2 :> t1 @@ c3 :> t2 @@ c4 :> t2
RetryAndOthers == c1 :> k1 @@ c2 :> k1 @@ c3 :> k2 @@ c4 :> k1

\* A route that was published once.
PublishedOnce == [gen |-> 1, version |-> 1]

=============================================================================
