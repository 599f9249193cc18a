--------------------------- MODULE MCProvisioning ---------------------------
(***************************************************************************)
(* A TLC instance of Provisioning: three requests for one tenant.          *)
(* Requests for different tenants share nothing the model has.             *)
(***************************************************************************)
EXTENDS Provisioning, TLC

CONSTANTS p1, p2, p3, t1

Thrice == p1 :> t1 @@ p2 :> t1 @@ p3 :> t1

=============================================================================
