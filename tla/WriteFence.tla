---------------------------- MODULE WriteFence ----------------------------
(***************************************************************************)
(* What a regional failover promises about a tenant's control record: a    *)
(* write fence (a token and a higher fence generation) is only put up      *)
(* while writes are frozen, generations only grow, and writes resume only  *)
(* with the fence taken down in the same step.  Failover is shown to       *)
(* implement it.                                                           *)
(***************************************************************************)
EXTENDS Naturals

CONSTANTS Tokens,  \* write fence tokens
          None     \* no token

VARIABLES frozen,  \* isFrozen
          token,   \* writeFenceToken
          fence    \* fenceGeneration

fenceVars == <<frozen, token, fence>>

FenceInit == frozen = FALSE /\ token = None /\ fence = 0

Freeze == frozen' = TRUE /\ UNCHANGED <<token, fence>>

RaiseFence ==
    /\ frozen
    /\ token' \in Tokens
    /\ fence' \in Nat /\ fence' > fence
    /\ UNCHANGED frozen

Resume == frozen' = FALSE /\ token' = None /\ UNCHANGED fence

FenceNext == Freeze \/ RaiseFence \/ Resume

FenceSpec == FenceInit /\ [][FenceNext]_fenceVars

=============================================================================
