-------------------------- MODULE MCTenantLifecycle --------------------------
(***************************************************************************)
(* TLC instances of TenantLifecycle: two administrators and a writer.      *)
(***************************************************************************)
EXTENDS TenantLifecycle, TLC

CONSTANTS a1, a2, w1

\* The calls of administrators are interchangeable.
Symmetry == Permutations(Admins)

=============================================================================
