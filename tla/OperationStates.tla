-------------------------- MODULE OperationStates --------------------------
(***************************************************************************)
(* The vocabulary of the tenant control plane: the states a control-plane  *)
(* operation goes through and the table of legal moves between them        *)
(* (libs/kernel/tenant: tenant-config.interface.ts and                     *)
(* TenantOperationService.isInvalidTransition).                            *)
(***************************************************************************)

OperationState ==
    {"REQUESTED", "PREPARING", "VALIDATING", "DRY_RUN", "SWITCHING",
     "SWITCHED", "MONITORING", "RECONCILING", "FINALIZED", "ROLLBACK"}

\* The table `allowed` of isInvalidTransition, as a relation: no state may
\* follow itself, FINALIZED is final, ROLLBACK may still be closed as FINALIZED.
AllowedMoves ==
    UNION {{"REQUESTED"}   \X {"PREPARING", "ROLLBACK"},
           {"PREPARING"}   \X {"VALIDATING", "ROLLBACK"},
           {"VALIDATING"}  \X {"DRY_RUN", "ROLLBACK", "SWITCHING"},
           {"DRY_RUN"}     \X {"SWITCHING", "ROLLBACK"},
           {"SWITCHING"}   \X {"SWITCHED", "ROLLBACK"},
           {"SWITCHED"}    \X {"MONITORING", "ROLLBACK", "FINALIZED"},
           {"MONITORING"}  \X {"RECONCILING", "ROLLBACK"},
           {"RECONCILING"} \X {"FINALIZED", "ROLLBACK"},
           {"ROLLBACK"}    \X {"FINALIZED"}}

IsInvalidTransition(current, next) == <<current, next>> \notin AllowedMoves

=============================================================================
