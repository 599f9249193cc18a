----------------------------- MODULE Provisioning -----------------------------
(***************************************************************************)
(* How a tenant comes into being: POST /admin/tenants (TenantsController,  *)
(* libs/domain/admin) inserts it (TenantService.createTenant) and starts   *)
(* ProvisioningService.startProvisioning, whose saga goes on after the     *)
(* answer, one statement per step.  The saga is a program, the statements  *)
(* of its try block, and is data here (Try), so that statements no saga    *)
(* reaches are written down all the same.                                  *)
(*                                                                         *)
(* The operation it reports to is TenantOperationService's.  An append to  *)
(* the journal that fails is only logged for PROVISION and no statement    *)
(* here reads the journal: TenantOperations has it, with the onboarding    *)
(* among the callers that write to it.                                     *)
(***************************************************************************)
EXTENDS OperationStates, Naturals, Sequences

CONSTANTS
    Posts,         \* requests POST /admin/tenants
    Tenants,       \* the identifiers they ask for
    TenantOf,      \* request -> its tenant
    None,          \* absence of a row
    Failures,      \* may a statement throw?
    Crashes        \* may the process of a request die?

ASSUME PostsAssumption == TenantOf \in [Posts -> Tenants]
ASSUME FlagsAssumption == {Failures, Crashes} \subseteq BOOLEAN
ASSUME NoneAssumption ==
    None \notin OperationState \cup [tenant : Tenants, state : OperationState]
ASSUME KeysAssumption == Posts \cap Tenants = {}

\* The statements of the saga: transitions of its operation, and work.
To(s) == [do |-> "transition", state |-> s]
Do(w) == [do |-> w, state |-> None]

\* Mutant: the seed rows are stored before the state that announces them.
TrySeedsFirst == <<To("PREPARING"), Do("config"), Do("schema"),
                   To("VALIDATING"), Do("migrate"),
                   Do("system_settings"), Do("tax_profiles"), To("SWITCHING"),
                   To("MONITORING"), Do("smoke"),
                   To("FINALIZED"), Do("activate")>>

\* The try block, seedTenantData and runSmokeTests inlined.  The two INSERTs of
\* seedTenantData go to the connection and not to the transaction begun around
\* them, so each commits on its own and the rollback takes nothing back.
Try == <<To("PREPARING"), Do("config"), Do("schema"),
         To("VALIDATING"), Do("migrate"),
         To("SWITCHING"), Do("system_settings"), Do("tax_profiles"),
         To("MONITORING"), Do("smoke"),
         To("FINALIZED"), Do("activate")>>

Seeds == {"system_settings", "tax_profiles"}

VARIABLES
    tenant,   \* tenant -> is its row in tenants?
    control,  \* tenant -> the status of its control record, or "none"
    lock,     \* tenant -> is lock:provisioning:<tenant> set in Redis?
    prov,     \* request -> the state of its PROVISION operation's row, or None
    query,    \* tenant -> the state of the row named query-<tenant>, or None
    seeds,    \* the seed rows stored, each with the request that stored it
    pc,       \* request -> where it is
    at,       \* request -> the statement of the try block it is about to run
    view      \* request -> its managed copy of the operation's state

vars == <<tenant, control, lock, prov, query, seeds, pc, at, view>>

Stage == {"new", "insertTenant", "insertControl", "lock", "operation", "try", "catch",
          "unlock", "rejected", "done", "failed", "dead"}

TypeOK ==
    /\ tenant \in [Tenants -> BOOLEAN]
    /\ control \in [Tenants -> {"none", "PROVISIONING", "ACTIVE"}]
    /\ lock \in [Tenants -> BOOLEAN]
    /\ prov \in [Posts -> OperationState \cup {None}]
    /\ query \in [Tenants -> OperationState \cup {None}]
    /\ seeds \subseteq Posts \X Seeds
    /\ pc \in [Posts -> Stage]
    /\ at \in [Posts -> 1..Len(Try)]
    /\ view \in [Posts -> OperationState]

Init ==
    /\ tenant = [t \in Tenants |-> FALSE]
    /\ control = [t \in Tenants |-> "none"]
    /\ lock = [t \in Tenants |-> FALSE]
    /\ prov = [p \in Posts |-> None]
    /\ query = [t \in Tenants |-> None]
    /\ seeds = {}
    /\ pc = [p \in Posts |-> "new"]
    /\ at = [p \in Posts |-> 1]
    /\ view = [p \in Posts |-> "REQUESTED"]

Goto(p, s) == pc' = [pc EXCEPT ![p] = s]

\* Is the saga of the request running?
Saga(p) == pc[p] \in {"try", "catch", "unlock", "rejected"}

-----------------------------------------------------------------------------
\* createTenant: the tenant must be unknown, or the answer is 409.
FindTenant(p) ==
    /\ pc[p] = "new"
    /\ Goto(p, IF tenant[TenantOf[p]] THEN "done" ELSE "insertTenant")
    /\ UNCHANGED <<tenant, control, lock, prov, query, seeds, at, view>>

\* Mutant: the row is upserted.
UpsertTenant(p) ==
    /\ pc[p] = "insertTenant"
    /\ Goto(p, "insertControl")
    /\ tenant' = [tenant EXCEPT ![TenantOf[p]] = TRUE]
    /\ UNCHANGED <<control, lock, prov, query, seeds, at, view>>

\* Its row is inserted; the primary key refuses a second one.
InsertTenant(p) ==
    /\ pc[p] = "insertTenant"
    /\ Goto(p, IF tenant[TenantOf[p]] THEN "done" ELSE "insertControl")
    /\ tenant' = [tenant EXCEPT ![TenantOf[p]] = TRUE]
    /\ UNCHANGED <<control, lock, prov, query, seeds, at, view>>

\* Its control record is inserted by another flush, and the configuration that
\* may be cached for it deleted.
InsertControl(p) ==
    /\ pc[p] = "insertControl"
    /\ control' = [control EXCEPT ![TenantOf[p]] = "PROVISIONING"]
    /\ Goto(p, "lock")
    /\ UNCHANGED <<tenant, lock, prov, query, seeds, at, view>>

\* startProvisioning: SET lock EX 300 NX, or the answer is 409.
TakeLock(p) ==
    /\ pc[p] = "lock"
    /\ Goto(p, IF lock[TenantOf[p]] THEN "done" ELSE "operation")
    /\ lock' = [lock EXCEPT ![TenantOf[p]] = TRUE]
    /\ UNCHANGED <<tenant, control, prov, query, seeds, at, view>>

\* createOperation with a key of its own, provision-<tenant>-<now>; then the
\* request is answered and the saga starts.
CreateOperation(p) ==
    /\ pc[p] = "operation"
    /\ prov' = [prov EXCEPT ![p] = "REQUESTED"]
    /\ Goto(p, "try")
    /\ UNCHANGED <<tenant, control, lock, query, seeds, at, view>>

\* A statement of the request throws and the answer is 500.  Nothing is taken
\* back: neither the rows nor, when there is no saga yet to free it, the lock.
Refuse(p) ==
    /\ Failures
    /\ pc[p] \in {"new", "insertTenant", "insertControl", "lock", "operation"}
    /\ Goto(p, IF pc[p] = "operation" THEN "failed" ELSE "done")
    /\ UNCHANGED <<tenant, control, lock, prov, query, seeds, at, view>>

-----------------------------------------------------------------------------
\* The statement after the one the saga is at.
Advance(p) ==
    IF at[p] = Len(Try)
    THEN Goto(p, "unlock") /\ UNCHANGED at
    ELSE UNCHANGED pc /\ at' = [at EXCEPT ![p] = @ + 1]

\* Mutant: transitionState without isInvalidTransition.
TransitionUnchecked(p) ==
    LET s == Try[at[p]].state IN
    /\ pc[p] = "try" /\ Try[at[p]].do = "transition"
    /\ prov' = [prov EXCEPT ![p] = s]
    /\ view' = [view EXCEPT ![p] = s]
    /\ Advance(p)
    /\ UNCHANGED <<tenant, control, lock, query, seeds>>

\* transitionState: validated against the managed copy; if the flush is
\* refused, the copy keeps the new state.
Transition(p) ==
    LET s == Try[at[p]].state IN
    /\ pc[p] = "try" /\ Try[at[p]].do = "transition"
    /\ \/ /\ ~IsInvalidTransition(view[p], s)
          /\ prov' = [prov EXCEPT ![p] = s]
          /\ view' = [view EXCEPT ![p] = s]
          /\ Advance(p)
       \/ /\ ~IsInvalidTransition(view[p], s) /\ Failures
          /\ view' = [view EXCEPT ![p] = s]
          /\ Goto(p, "catch")
          /\ UNCHANGED <<prov, at>>
       \/ /\ IsInvalidTransition(view[p], s)
          /\ Goto(p, "catch")
          /\ UNCHANGED <<prov, at, view>>
    /\ UNCHANGED <<tenant, control, lock, query, seeds>>

\* The other statements: the configuration, the schema and its migrations, the
\* seed rows, the probes, and activateTenant.
Work(p) ==
    LET w == Try[at[p]].do IN
    /\ pc[p] = "try" /\ w # "transition"
    /\ seeds' = IF w \in Seeds THEN seeds \cup {<<p, w>>} ELSE seeds
    /\ control' = IF w = "activate" THEN [control EXCEPT ![TenantOf[p]] = "ACTIVE"] ELSE control
    /\ Advance(p)
    /\ UNCHANGED <<tenant, lock, prov, query, view>>

WorkThrows(p) ==
    /\ Failures
    /\ pc[p] = "try" /\ Try[at[p]].do # "transition"
    /\ Goto(p, "catch")
    /\ UNCHANGED <<tenant, control, lock, prov, query, seeds, at, view>>

\* Mutant: the catch block only logs.
RollBackLogged(p) ==
    /\ pc[p] = "catch"
    /\ UNCHANGED prov
    /\ Goto(p, "unlock")
    /\ UNCHANGED <<tenant, control, lock, query, seeds, at, view>>

\* The catch block: the transition to ROLLBACK, which undoes nothing.
RollBack(p) ==
    /\ pc[p] = "catch"
    /\ prov' = [prov EXCEPT ![p] = IF IsInvalidTransition(view[p], "ROLLBACK") THEN @ ELSE "ROLLBACK"]
    /\ Goto(p, "unlock")
    /\ UNCHANGED <<tenant, control, lock, query, seeds, at, view>>

\* Mutant: no finally block.
UnlockForgotten(p) ==
    /\ pc[p] \in {"unlock", "rejected"}
    /\ Goto(p, "done")
    /\ UNCHANGED <<tenant, control, lock, prov, query, seeds, at, view>>

\* The finally block: DEL, whoever set it.
Unlock(p) ==
    /\ pc[p] \in {"unlock", "rejected"}
    /\ lock' = [lock EXCEPT ![TenantOf[p]] = FALSE]
    /\ Goto(p, "done")
    /\ UNCHANGED <<tenant, control, prov, query, seeds, at, view>>

\* The transition to ROLLBACK, or DEL, is refused: the saga's promise is
\* rejected, which is only logged.  The process of a request may also die.
RollBackRefused(p) ==
    /\ Failures
    /\ pc[p] = "catch"
    /\ Goto(p, "rejected")
    /\ UNCHANGED <<tenant, control, lock, prov, query, seeds, at, view>>

UnlockRefused(p) ==
    /\ Failures
    /\ pc[p] \in {"unlock", "rejected"}
    /\ Goto(p, "failed")
    /\ UNCHANGED <<tenant, control, lock, prov, query, seeds, at, view>>

Crash(p) ==
    /\ Crashes
    /\ pc[p] \notin {"new", "done", "failed", "dead"}
    /\ Goto(p, "dead")
    /\ UNCHANGED <<tenant, control, lock, prov, query, seeds, at, view>>

-----------------------------------------------------------------------------
\* The lock's TTL elapses, 300 s after it was set, whatever still runs under it.
ExpireLock(t) ==
    /\ lock[t]
    /\ lock' = [lock EXCEPT ![t] = FALSE]
    /\ UNCHANGED <<tenant, control, prov, query, seeds, pc, at, view>>

\* GET /admin/tenants/:id/provisioning-status: createOperation with the key
\* query-<tenant> returns the row of that key, and inserts it the first time.
AskStatus(t) ==
    /\ query' = [query EXCEPT ![t] = IF @ = None THEN "REQUESTED" ELSE @]
    /\ UNCHANGED <<tenant, control, lock, prov, seeds, pc, at, view>>

-----------------------------------------------------------------------------
\* The statements of a request once it is made.
Step(p) ==
    \/ InsertTenant(p) \/ InsertControl(p) \/ TakeLock(p) \/ CreateOperation(p)
    \/ Transition(p) \/ Work(p) \/ RollBack(p) \/ Unlock(p)

Fault(p) ==
    \/ Refuse(p) \/ WorkThrows(p) \/ RollBackRefused(p) \/ UnlockRefused(p) \/ Crash(p)

Next ==
    \/ \E p \in Posts : FindTenant(p) \/ Step(p) \/ Fault(p)
    \/ \E t \in Tenants : ExpireLock(t) \/ AskStatus(t)

Spec == Init /\ [][Next]_vars

\* A request goes on until it is answered, a saga until it ends.  Of Redis
\* nothing is assumed: a key may expire at any moment, or late.
Fairness == \A p \in Posts : WF_vars(Step(p))

FairSpec == Spec /\ Fairness

-----------------------------------------------------------------------------
\* A tenant is provisioned at most once, and so seeded at most once, whatever
\* is sent again, fails, dies or outlives its lock: it is the primary key of
\* tenants that sees to it, since the lock may be gone while the saga runs.
ProvisionedOnce ==
    \A p, q \in Posts :
        prov[p] # None /\ prov[q] # None /\ TenantOf[p] = TenantOf[q] => p = q

\* Seed rows are never stored for an onboarding whose operation does not say
\* so: its row has reached SWITCHING, although the state is written by one
\* statement and each seed row by another, and any of them may be refused.
SeededAfterSwitching ==
    \A r \in seeds : prov[r[1]] \in {"SWITCHING", "MONITORING", "FINALIZED", "ROLLBACK"}

\* The rows of provisioning and of its status queries follow the ledger of
\* operations: each key names one operation, which moves along the table only.
RowOf(x, t) == IF x = None THEN None ELSE [tenant |-> t, state |-> x]
Rows == [k \in Posts \cup Tenants |->
            IF k \in Posts THEN RowOf(prov[k], TenantOf[k]) ELSE RowOf(query[k], k)]
Ledger == INSTANCE OperationLedger WITH Keys <- Posts \cup Tenants, ledger <- Rows, contended <- {}
ImplementsLedger == Ledger!LedgerSpec

\* A saga that was started closes its operation, whatever throws on the way,
\* unless its process dies or the transition to ROLLBACK itself is refused.
Closed(p) == prov[p] \in {"ROLLBACK", "FINALIZED"}
OutcomeRecorded ==
    \A p \in Posts : Saga(p) ~> (Closed(p) \/ pc[p] \in {"rejected", "dead"})

\* The saga frees the lock of its tenant itself, on every path through its catch
\* and finally blocks, a refused transition to ROLLBACK included.  Only a key that
\* createOperation, a refused DEL or a death left behind has to expire.
LockFreed ==
    \A t \in Tenants : lock[t] ~>
        (~lock[t] \/ \E p \in Posts : TenantOf[p] = t /\ pc[p] \in {"failed", "dead"})

=============================================================================
