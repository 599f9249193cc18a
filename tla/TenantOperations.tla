-------------------------- MODULE TenantOperations --------------------------
(***************************************************************************)
(* TenantOperationService (libs/kernel/tenant): the operation rows behind  *)
(* idempotency keys and the hash-chained operation journal, driven by      *)
(* callers that use it the way FailoverService, MigrationOrchestrator-     *)
(* Service and ProvisioningService do: take a lock, create or find the     *)
(* operation, move it from state to state, try to move it to ROLLBACK once *)
(* when anything throws, and release the lock last.  Failovers and         *)
(* migrations share one Redis lock per tenant, onboardings have another,   *)
(* and either key runs out after its TTL whoever works under it.           *)
(*                                                                         *)
(* One step is one statement sent to Redis or to the database.  A caller   *)
(* keeps its own copy of the operation (`view`, the MikroORM identity map):*)
(* a transition is validated against the copy and written by primary key,  *)
(* since TenantOperation has no version column.                            *)
(***************************************************************************)
EXTENDS OperationStates, Naturals, Sequences, FiniteSets

CONSTANTS
    Calls,            \* calls of a control-plane service, each made once
    Onboardings,      \* those of ProvisioningService.startProvisioning
    Tenants, Keys,    \* tenants operated upon, idempotency keys
    TenantOf, KeyOf,  \* call -> its tenant and its key (a retry reuses the key)
    Requests,         \* the states the services move operations to
    None,             \* absence of a row or of a value
    RedisConfigured,  \* REDIS_URL is set
    Production,       \* NODE_ENV is production
    Crashes,          \* may the process of a call die?
    MaxCalls          \* bound: how many of the calls are made

Operation == [tenant : Tenants, state : OperationState]

\* A key in Redis: lock:tenant:ops:<tenant> or lock:provisioning:<tenant>.
LockName == {"ops", "provisioning"} \X Tenants

\* The lock a call takes.
LockOf(c) == <<IF c \in Onboardings THEN "provisioning" ELSE "ops", TenantOf[c]>>

\* The key of an onboarding carries the time it began and is its own.
ASSUME CallsAssumption ==
    /\ Onboardings \subseteq Calls
    /\ TenantOf \in [Calls -> Tenants]
    /\ KeyOf \in [Calls -> Keys]
    /\ \A o \in Onboardings, c \in Calls : KeyOf[o] = KeyOf[c] => o = c
ASSUME RequestsAssumption == Requests \subseteq OperationState
ASSUME NoneAssumption ==
    None \notin Tenants \cup Keys \cup OperationState \cup Operation
ASSUME FlagsAssumption == {RedisConfigured, Production, Crashes} \subseteq BOOLEAN
ASSUME BoundAssumption == MaxCalls \in Nat

VARIABLES
    lock,     \* the lock keys set in Redis
    ops,      \* idempotency key -> tenant_operations row, or None
    journal,  \* tenant -> tenant_operation_journal rows in insertion order
    call      \* call -> how far it got and what it knows

\* History, read by the properties only.
VARIABLES
    exposed,   \* tenants no lock has protected all along from the calls at work on them
    contested  \* idempotency keys ever worked with on an exposed tenant

sys == <<lock, ops, journal, call>>
vars == <<lock, ops, journal, call, exposed, contested>>

Stage == {"idle", "lookup", "insert", "run", "readHash", "append", "rollback", "release", "done"}

\* stage: next statement;  view: the call's copy of the operation's state;
\* owner: the tenant of the operation it works on (op.tenantId);
\* tip: the number of journal rows seen by the SELECT of the last hash;
\* failing: the catch block has been entered.
Call == [stage   : Stage,
         view    : OperationState \cup {None},
         owner   : Tenants \cup {None},
         tip     : Nat,
         failing : BOOLEAN]

NoCall == [stage |-> "idle", view |-> None, owner |-> None, tip |-> 0, failing |-> FALSE]

\* A journal row; prev is the row whose chain_hash was hashed in (0: genesis).
Entry == [key : Keys, state : OperationState, prev : Nat]

TypeOK ==
    /\ lock \subseteq LockName
    /\ ops \in [Keys -> Operation \cup {None}]
    /\ journal \in [Tenants -> Seq(Entry)]
    /\ call \in [Calls -> Call]
    /\ exposed \subseteq Tenants
    /\ contested \subseteq Keys

Init ==
    /\ lock = {}
    /\ ops = [k \in Keys |-> None]
    /\ journal = [t \in Tenants |-> <<>>]
    /\ call = [c \in Calls |-> NoCall]
    /\ exposed = {}
    /\ contested = {}

Live(c) == call[c].stage \notin {"idle", "done"}

\* The call is over and its memory gone.
End(c) == call' = [call EXCEPT ![c] = [NoCall EXCEPT !.stage = "done"]]

\* Mutant: an error in the catch block is handled by the catch block.
ThrowAgain(c, s) ==
    call' = [call EXCEPT ![c] = [@ EXCEPT !.stage = "rollback", !.failing = TRUE, !.view = s]]

\* Something threw while the copy of the operation says s: the first time the
\* catch block is entered, the second time it is left.
Throw(c, s) ==
    call' = [call EXCEPT ![c] =
                [@ EXCEPT !.stage = IF call[c].failing THEN "release" ELSE "rollback",
                          !.failing = TRUE,
                          !.view = s]]

-----------------------------------------------------------------------------
\* acquireLock does without Redis where there is none; ProvisioningService
\* always has one.
Locked(c) == c \in Onboardings \/ RedisConfigured

\* Mutant: SET without NX.
LockGrantedWithoutNX(c) == IF Locked(c) THEN TRUE ELSE ~Production

\* acquireLock(tenantId): SET key locked PX 30000 NX; without Redis it is
\* refused in production and granted everywhere else.  startProvisioning: SET
\* key LOCKED EX 300 NX.
LockGranted(c) == IF Locked(c) THEN LockOf(c) \notin lock ELSE ~Production

Made == {c \in Calls : call[c].stage # "idle"}

AcquireLock(c) ==
    /\ call[c].stage = "idle"
    /\ Cardinality(Made) < MaxCalls
    /\ LockGranted(c)
    /\ lock' = IF Locked(c) THEN lock \cup {LockOf(c)} ELSE lock
    /\ call' = [call EXCEPT ![c].stage = "lookup"]
    /\ UNCHANGED <<ops, journal>>

\* releaseLock(tenantId), in the caller's finally block: DEL key, whoever set it.
ReleaseLock(c) ==
    /\ call[c].stage = "release"
    /\ lock' = lock \ {LockOf(c)}
    /\ End(c)
    /\ UNCHANGED <<ops, journal>>

\* Mutant: SET without PX.
ExpireLockNever(n) == n \in lock /\ n \notin LockName /\ UNCHANGED sys

\* The TTL of a lock elapses; no call renews its key.
ExpireLock(n) ==
    /\ n \in lock
    /\ lock' = lock \ {n}
    /\ UNCHANGED <<ops, journal, call>>

-----------------------------------------------------------------------------
\* createOperation throws: failovers and migrations are inside the block whose
\* finally releases the lock, startProvisioning is not.
Abandon(c) ==
    IF c \in Onboardings THEN End(c) ELSE call' = [call EXCEPT ![c].stage = "release"]

\* createOperation, first statement: findOne({ idempotencyKey }).  The row
\* found is returned as it is; the caller returns at once if it is FINALIZED
\* (an onboarding, whose key is its own, finds none).
FindOperation(c) ==
    LET row == ops[KeyOf[c]] IN
    /\ call[c].stage = "lookup"
    /\ \/ /\ row = None
          /\ call' = [call EXCEPT ![c].stage = "insert"]
       \/ /\ row # None
          /\ call' = [call EXCEPT ![c] =
                [@ EXCEPT !.stage = IF row.state = "FINALIZED" THEN "release" ELSE "run",
                          !.view  = row.state,
                          !.owner = row.tenant]]
       \/ Abandon(c)
    /\ UNCHANGED <<lock, ops, journal>>

\* createOperation, second statement: the INSERT, which may fail and is refused
\* by the unique index on idempotencyKey when another call inserted the key
\* since the lookup; an error here is thrown outside the inner try block, so no
\* rollback is tried.
InsertOperation(c) ==
    /\ call[c].stage = "insert"
    /\ \/ /\ ops[KeyOf[c]] = None
          /\ ops' = [ops EXCEPT ![KeyOf[c]] = [tenant |-> TenantOf[c], state |-> "REQUESTED"]]
          /\ call' = [call EXCEPT ![c] = [@ EXCEPT !.stage = "run", !.view = "REQUESTED",
                                                   !.owner = TenantOf[c]]]
       \/ Abandon(c) /\ UNCHANGED ops
    /\ UNCHANGED <<lock, journal>>

-----------------------------------------------------------------------------
\* Mutant: transitionState without isInvalidTransition.
TransitionToUnchecked(c, s) ==
    /\ ops' = [ops EXCEPT ![KeyOf[c]].state = s]
    /\ call' = [call EXCEPT ![c] = [@ EXCEPT !.stage = "readHash", !.view = s]]

\* transitionState(operationId, s) up to its flush.
TransitionTo(c, s) ==
    \/ /\ IsInvalidTransition(call[c].view, s)             \* ConflictException
       /\ Throw(c, call[c].view)
       /\ UNCHANGED ops
    \/ /\ ~IsInvalidTransition(call[c].view, s)
       /\ ops' = [ops EXCEPT ![KeyOf[c]].state = s]
       /\ call' = [call EXCEPT ![c] = [@ EXCEPT !.stage = "readHash", !.view = s]]
    \/ /\ ~IsInvalidTransition(call[c].view, s)            \* the flush fails and
       /\ Throw(c, s)                                      \* the copy keeps s
       /\ UNCHANGED ops

\* The try block asks for the next state it wants.
Transition(c, s) ==
    /\ call[c].stage = "run"
    /\ TransitionTo(c, s)
    /\ UNCHANGED <<lock, journal>>

\* Work of the try block that is not a transition throws.
WorkFails(c) ==
    /\ call[c].stage = "run"
    /\ Throw(c, call[c].view)
    /\ UNCHANGED <<lock, ops, journal>>

\* The try block ends: it does so only after FINALIZED.
Finish(c) ==
    /\ call[c].stage = "run"
    /\ call[c].view = "FINALIZED"
    /\ call' = [call EXCEPT ![c].stage = "release"]
    /\ UNCHANGED <<lock, ops, journal>>

\* The catch block asks for ROLLBACK.
RollBack(c) ==
    /\ call[c].stage = "rollback"
    /\ TransitionTo(c, "ROLLBACK")
    /\ UNCHANGED <<lock, journal>>

-----------------------------------------------------------------------------
\* Mutant: ORDER BY id instead of ORDER BY id DESC.
ReadFirstHash(c) ==
    /\ call[c].stage = "readHash"
    /\ call' = [call EXCEPT ![c] =
                   [@ EXCEPT !.stage = "append",
                             !.tip = IF journal[call[c].owner] = <<>> THEN 0 ELSE 1]]
    /\ UNCHANGED <<lock, ops, journal>>

\* Mutant: no 'GENESIS' for a tenant whose journal is empty.
ReadLastHashOrNone(c) ==
    /\ call[c].stage = "readHash"
    /\ call' = [call EXCEPT ![c] =
                   [@ EXCEPT !.stage = "append",
                             !.tip = IF journal[call[c].owner] = <<>>
                                     THEN None ELSE Len(journal[call[c].owner])]]
    /\ UNCHANGED <<lock, ops, journal>>

\* A call leaves the journal with its transition done.
Journaled(c) ==
    call' = [call EXCEPT ![c] =
                [@ EXCEPT !.stage = IF call[c].failing THEN "release" ELSE "run", !.tip = 0]]

\* A journal statement fails: MIGRATE and FAILOVER are strict and throw, for an
\* onboarding it is only logged.
NotJournaled(c) == IF c \in Onboardings THEN Journaled(c) ELSE Throw(c, call[c].view)

\* appendToJournal: SELECT the last chain_hash of the tenant ...
ReadLastHash(c) ==
    /\ call[c].stage = "readHash"
    /\ \/ call' = [call EXCEPT ![c] = [@ EXCEPT !.stage = "append",
                                                !.tip = Len(journal[call[c].owner])]]
       \/ NotJournaled(c)
    /\ UNCHANGED <<lock, ops, journal>>

\* ... then INSERT the row chained on it.
AppendToJournal(c) ==
    /\ call[c].stage = "append"
    /\ \/ /\ journal' = [journal EXCEPT ![call[c].owner] =
                            Append(@, [key |-> KeyOf[c], state |-> call[c].view,
                                       prev |-> call[c].tip])]
          /\ Journaled(c)
       \/ NotJournaled(c) /\ UNCHANGED journal
    /\ UNCHANGED <<lock, ops>>

-----------------------------------------------------------------------------
\* The process running the call dies: its memory is gone, Redis keeps the lock.
Crash(c) ==
    /\ Crashes
    /\ Live(c)
    /\ End(c)
    /\ UNCHANGED <<lock, ops, journal>>

\* The statements of a call that are due once it has begun.
Step(c) ==
    \/ FindOperation(c)
    \/ InsertOperation(c)
    \/ \E s \in Requests : Transition(c, s)
    \/ WorkFails(c)
    \/ Finish(c)
    \/ RollBack(c)
    \/ ReadLastHash(c)
    \/ AppendToJournal(c)
    \/ ReleaseLock(c)

\* Nothing runs.
Rest == (\A c \in Calls : ~Live(c)) /\ UNCHANGED sys

Act ==
    \/ \E c \in Calls : AcquireLock(c) \/ Step(c) \/ Crash(c)
    \/ \E n \in LockName : ExpireLock(n)
    \/ Rest

\* The tenants a call works on: the one it was made for, and the one whose
\* operation its key turned out to name.
WorksOn(c, t) == Live(c) /\ t \in {TenantOf[c], call[c].owner}

\* Calls at work on t whose lock is gone, or that took different locks.
Unlocked(t) ==
    \E c \in Calls :
        /\ WorksOn(c, t)
        /\ \/ LockOf(c) \notin lock
           \/ \E d \in Calls :
                 WorksOn(d, t) /\ LockOf(d) # LockOf(c)

\* A tenant stays exposed until the last of the calls at work on it has ended,
\* and passes it on to the other tenant its calls work on.
Observe ==
    /\ exposed' = {t \in Tenants :
           \/ Unlocked(t)'
           \/ \E c \in Calls : WorksOn(c, t)' /\ {t, TenantOf[c]} \cap exposed # {}}
    /\ contested' = contested \cup
           {KeyOf[c] : c \in {d \in Calls : \E t \in exposed' : WorksOn(d, t)'}}

Next == Act /\ Observe

Spec == Init /\ [][Next]_vars

\* A call keeps running until its process dies, and a key nobody works under
\* any more runs out.
Held(n) == \E c \in Calls : Live(c) /\ LockOf(c) = n

Fairness == /\ \A c \in Calls : WF_sys(Step(c))
            /\ \A n \in LockName : WF_sys(ExpireLock(n) /\ ~Held(n))

FairSpec == Spec /\ Fairness

-----------------------------------------------------------------------------
\* Two running calls never operate on the same tenant: what acquireLock is
\* for, and what its callers report as "Another control-plane operation is in
\* progress".  It fails only once a key ran out under its call, or where an
\* onboarding works beside.
OneOperationAtATime ==
    \A c, d \in Calls : \A t \in Tenants \ exposed : WorksOn(c, t) /\ WorksOn(d, t) => c = d

\* A row is chained on the row inserted just before it, although the last hash
\* is read by one statement and the row inserted by another; a fork needs two
\* calls that no lock keeps apart.
ChainExtended ==
    [][\A t \in Tenants \ exposed :
          journal'[t] # journal[t] => journal'[t][Len(journal'[t])].prev = Len(journal[t])]_vars

\* What "Immutable Audit Trail with Chained Hashing" asks of the lock: as long
\* as every call's key is set in Redis, a row is chained on the last one.
ChainedUnderLocks ==
    [][(\A c \in Calls : Live(c) => LockOf(c) \in lock) =>
          \A t \in Tenants :
             journal'[t] # journal[t] => journal'[t][Len(journal'[t])].prev = Len(journal[t])]_vars

\* The order in which operations go through their states: legal moves only
\* go forward in it.
StateOrder == <<"REQUESTED", "PREPARING", "VALIDATING", "DRY_RUN", "SWITCHING", "SWITCHED",
                "MONITORING", "RECONCILING", "ROLLBACK", "FINALIZED">>

Before(s, t) ==
    \E i \in 1..10 : \E j \in 1..10 : i < j /\ StateOrder[i] = s /\ StateOrder[j] = t

\* The journal never tells a story the operation row did not live: it shows no
\* state the row has not reached, and the states it shows for one operation
\* are in the order of the table, with no repetition, in spite of retries with
\* the same key, failed appends and crashes between the flush and the append.
\* Operations worked on without the protection of a lock are apart.
JournalFollowsOperation ==
    \A t \in Tenants : \A j \in 1..Len(journal[t]) :
        LET e == journal[t][j] IN e.key \notin contested =>
        /\ ops[e.key] # None
        /\ e.state = ops[e.key].state \/ Before(e.state, ops[e.key].state)
        /\ \A i \in 1..(j - 1) :
              journal[t][i].key = e.key => Before(journal[t][i].state, e.state)

\* Operation rows, as the database holds them, follow the abstract ledger,
\* even though rows are written by primary key from a copy read earlier: a key
\* is given to one operation of one tenant for good, and its row leaves the
\* table only by the hand of a call on a tenant that is exposed.
Ledger == INSTANCE OperationLedger WITH
             ledger <- ops,
             contended <- {KeyOf[c] : c \in {d \in Calls : \E t \in exposed : WorksOn(d, t)}}
ImplementsLedger == Ledger!LedgerSpec

\* Every call ends, by returning or by dying.
CallsEnd == \A c \in Calls : Live(c) ~> ~Live(c)

\* A lock is always freed again: by the finally block of its call, or by its TTL
\* when the call died or never reached that block.
LockFreed == \A n \in LockName : n \in lock ~> n \notin lock

=============================================================================
