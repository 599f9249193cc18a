-------------------------- MODULE OperationLedger --------------------------
(***************************************************************************)
(* What the control plane promises about its operation rows, without       *)
(* callers, locks or failures: an idempotency key names at most one        *)
(* operation, created REQUESTED for one tenant, that from then on only     *)
(* moves along the table.  Rows are written from copies, so the promise    *)
(* about the table ends where two calls work with one key at a time; the   *)
(* key and the tenant of an operation stay even there.  TenantOperations,  *)
(* Failover, Migration and Provisioning are shown to implement it.         *)
(***************************************************************************)
EXTENDS OperationStates

CONSTANTS Tenants,  \* tenant identifiers
          Keys,     \* idempotency keys clients may present
          None      \* absence of a row or of a value

VARIABLES ledger,    \* key -> None, or the operation it names
          contended  \* the keys several calls may work with at a time

Operation == [tenant : Tenants, state : OperationState]

LedgerTypeOK == ledger \in [Keys -> Operation \cup {None}]

LedgerInit == ledger = [k \in Keys |-> None]

\* An unused key is given to a new operation.
Open(k) ==
    /\ ledger[k] = None
    /\ \E t \in Tenants :
          ledger' = [ledger EXCEPT ![k] = [tenant |-> t, state |-> "REQUESTED"]]

\* The operation moves to a state that may follow its own.
Advance(k) ==
    /\ ledger[k] # None
    /\ \E s \in OperationState :
          /\ ~IsInvalidTransition(ledger[k].state, s)
          /\ ledger' = [ledger EXCEPT ![k].state = s]

\* A call that does not know what the others did to the operation writes it.
Overwrite(k) ==
    /\ k \in contended
    /\ ledger[k] # None
    /\ \E s \in OperationState : ledger' = [ledger EXCEPT ![k].state = s]

LedgerNext == \E k \in Keys : Open(k) \/ Advance(k) \/ Overwrite(k)

LedgerSpec == LedgerInit /\ [][LedgerNext]_ledger

=============================================================================
