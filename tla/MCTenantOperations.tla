-------------------------- MODULE MCTenantOperations --------------------------
(***************************************************************************)
(* TLC instances of TenantOperations: failovers or migrations c1, c2, c3   *)
(* and an onboarding o1.                                                   *)
(***************************************************************************)
EXTENDS TenantOperations, TLC

CONSTANTS t1, t2, k1, k2, c1, c2, c3, o1

\* c2 retries c1, c3 presents their key for another tenant by mistake.
CallTenant == [c \in Calls |-> IF c = c3 THEN t2 ELSE t1]
CallKey == [c \in Calls |-> IF c = o1 THEN k2 ELSE k1]

\* A request the table allows, one it refuses, and the end that the retry of an
\* operation rolled back reaches at once.
FewRequests == {"PREPARING", "FINALIZED"}

=============================================================================
