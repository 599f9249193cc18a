-------------------------------- MODULE MCJobs --------------------------------
(***************************************************************************)
(* A TLC instance of Jobs: two jobs, one without a second attempt, and two *)
(* workers that may both hold the same job.                                *)
(***************************************************************************)
EXTENDS Jobs, TLC

CONSTANTS j1, j2, w1, w2

KnownAndAny == {j1 :> "known" @@ j2 :> k : k \in Kind}
OneAndThree == j1 :> 1 @@ j2 :> 3

=============================================================================
