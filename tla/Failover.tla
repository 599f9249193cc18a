------------------------------ MODULE Failover ------------------------------
(***************************************************************************)
(* FailoverService.triggerRegionalFailover (libs/kernel/tenant) for one    *)
(* tenant, with everything it shares with other actors: the tenant's       *)
(* control record, its routing snapshot, its operation rows and its lock.  *)
(* The other actors are lifecycle administrators (TenantService) and       *)
(* migrations, whose rollback publishes the route again                    *)
(* (RoutingPlaneService).                                                  *)
(*                                                                         *)
(* One step is one statement sent to the database or to Redis.  Each call  *)
(* has an identity map of its own: `copy` is its managed control record,   *)
(* `pending` the snapshot it has assigned, and a flush, whoever asks for   *)
(* it, writes all that is dirty in one transaction.  The control record    *)
(* has a version column, so its UPDATE fails when the version has moved;   *)
(* operation and snapshot rows have none and are overwritten blindly.      *)
(***************************************************************************)
EXTENDS OperationStates, Naturals

CONSTANTS
    Calls,         \* calls of triggerRegionalFailover, each made once
    Drills,        \* those whose idempotency key starts with "drill"
    Keys, KeyOf,   \* idempotency keys; call -> its key (a retry reuses it)
    Migrations,    \* migrations of the tenant that end in rollback
    None,          \* absence of a row or of a value
    StartVersion,  \* version of the control record of an activated tenant
    StartGens,     \* generations the route may have reached by then
    Lifecycle,     \* statuses administrators set
    MaxVersion,    \* bound: administrators act below this version
    Failing,       \* the work statements that may throw
    Outages,       \* what the database may refuse: "flush", "journal"
    Crashes        \* may the process of a call die?

Workers == Calls \cup Migrations

Status == {"ACTIVE", "SUSPENDED", "DEGRADED", "ARCHIVED", "LEGAL_HOLD", "PURGED"}

\* A row of tenant_control_records; the token is named after its call.
Control == [status : Status, frozen : BOOLEAN, token : Calls \cup {None},
            fence : Nat, version : Nat]

\* A row of tenant_routing_snapshots: its generation (0: no row), the region it
\* routes to, and who issued it, which stands for issuedAt and the signature.
Snapshot == [gen : Nat, target : {"primary", "secondary"}, issuer : Workers \cup {None}]

\* createSnapshot, what it assigns: worker w signs targets t, one generation
\* after snapshot s.
Signed(w, s, t) == [gen |-> s.gen + 1, target |-> t, issuer |-> w]

ASSUME CallsAssumption ==
    /\ Drills \subseteq Calls
    /\ KeyOf \in [Calls -> Keys]
    /\ Calls \cap Migrations = {}
ASSUME NoneAssumption == None \notin Calls \cup OperationState \cup Control \cup Snapshot
ASSUME RowAssumption == None \notin [tenant : {"tenant"}, state : OperationState]
ASSUME StartAssumption ==
    /\ StartVersion \in Nat \ {0}
    /\ StartGens \subseteq Nat
    /\ MaxVersion \in Nat
    /\ Lifecycle \subseteq Status \ {"DEGRADED"}
ASSUME FlagsAssumption == Crashes \in BOOLEAN

VARIABLES
    control,   \* the tenant's control record
    snapshot,  \* the tenant's routing snapshot
    op,        \* key -> state of the operation it names, or None
    lock,      \* is lock:tenant:ops:<tenant> set in Redis?
    pc,        \* worker -> the statement it is about to run
    view,      \* call -> its copy of the state of its operation
    copy,      \* call -> its managed control record
    dirty,     \* call -> has that record unsaved changes?
    pending    \* worker -> the snapshot it has assigned and not saved

\* History, read by the properties only.
VARIABLES
    overlapped,  \* workers of the current spell in which no lock keeps them apart
    stranded     \* have writes stayed frozen with nobody left to resume them?

sys == <<control, snapshot, op, lock, pc, view, copy, dirty, pending>>
vars == <<control, snapshot, op, lock, pc, view, copy, dirty, pending, overlapped, stranded>>

Try == {"prepare", "load", "validate", "check", "switching", "freeze", "assign", "publish",
        "degrade", "switched", "recover", "unfreeze", "finalize", "record"}
Catch == {"rollback", "reopen", "reactivate"}
Republish == {"resolve", "reevaluate", "republish"}
Stage == {"idle", "create", "release", "done"} \cup Try \cup Catch \cup Republish

TypeOK ==
    /\ control \in Control
    /\ snapshot \in Snapshot
    /\ op \in [Keys -> OperationState \cup {None}]
    /\ lock \in BOOLEAN
    /\ pc \in [Workers -> Stage]
    /\ view \in [Calls -> OperationState \cup {None}]
    /\ copy \in [Calls -> Control \cup {None}]
    /\ dirty \in [Calls -> BOOLEAN]
    /\ pending \in [Workers -> Snapshot \cup {None}]
    /\ overlapped \subseteq Workers
    /\ stranded \in BOOLEAN

Init ==
    /\ control = [status |-> "ACTIVE", frozen |-> FALSE, token |-> None,
                  fence |-> 0, version |-> StartVersion]
    /\ snapshot \in {[gen |-> g, target |-> "primary", issuer |-> None] : g \in StartGens}
    /\ op = [k \in Keys |-> None]
    /\ lock = FALSE
    /\ pc = [w \in Workers |-> "idle"]
    /\ view = [c \in Calls |-> None]
    /\ copy = [c \in Calls |-> None]
    /\ dirty = [c \in Calls |-> FALSE]
    /\ pending = [w \in Workers |-> None]
    /\ overlapped = {}
    /\ stranded = FALSE

Live(w) == pc[w] \notin {"idle", "done"}

Goto(w, s) == pc' = [pc EXCEPT ![w] = s]

\* Mutant: an error in the catch block is handled by the catch block.
ThrowAgain(c) == Goto(c, "rollback")

\* An error in the try block enters the catch block; one there ends it.
Throw(c) == Goto(c, IF pc[c] \in Catch THEN "release" ELSE "rollback")

-----------------------------------------------------------------------------
\* em.flush() of worker w: its snapshot is written by primary key; one that is
\* new to it is INSERTed and must not exist.
InsertRefused(w) == pending[w] # None /\ pending[w].gen = 1 /\ snapshot.gen # 0

SaveSnapshot(w) ==
    /\ ~InsertRefused(w)
    /\ snapshot' = IF pending[w] = None THEN snapshot ELSE pending[w]

\* After a failed flush an entity found in the database is still managed and
\* dirty, one that was to be inserted is forgotten.
KeepSnapshot(w) ==
    /\ pending' = [pending EXCEPT ![w] = IF @ # None /\ @.gen = 1 THEN None ELSE @]
    /\ UNCHANGED snapshot

\* Mutant: no version column.
FlushedUnversioned(c, r, d) ==
    LET saved == IF d THEN [r EXCEPT !.version = @ + 1] ELSE r IN
    /\ control' = IF d THEN saved ELSE control
    /\ copy' = [copy EXCEPT ![c] = saved]
    /\ dirty' = [dirty EXCEPT ![c] = FALSE]
    /\ SaveSnapshot(c)
    /\ pending' = [pending EXCEPT ![c] = None]

\* em.flush() of call c while its managed control record is r, changed if d.
Flushed(c, r, d) ==
    LET saved == IF d THEN [r EXCEPT !.version = @ + 1] ELSE r IN
    /\ d => control.version = r.version
    /\ control' = IF d THEN saved ELSE control
    /\ copy' = [copy EXCEPT ![c] = saved]
    /\ dirty' = [dirty EXCEPT ![c] = FALSE]
    /\ SaveSnapshot(c)
    /\ pending' = [pending EXCEPT ![c] = None]

NotFlushed(c, r, d) ==
    /\ "flush" \in Outages \/ InsertRefused(c) \/ (d /\ control.version # r.version)
    /\ copy' = [copy EXCEPT ![c] = r]
    /\ dirty' = [dirty EXCEPT ![c] = d]
    /\ KeepSnapshot(c)
    /\ UNCHANGED control

\* Changes the managed control record to r, touching updatedAt or not, and
\* flushes; nothing is sent when nothing changed.
SetAndFlush(c, r, touched, next) ==
    LET d == dirty[c] \/ touched \/ r # copy[c] IN
    /\ \/ Flushed(c, r, d) /\ Goto(c, next)
       \/ (d \/ pending[c] # None) /\ NotFlushed(c, r, d) /\ Throw(c)
    /\ UNCHANGED <<op, lock, view>>

-----------------------------------------------------------------------------
\* Mutant: SET without NX.
AcquireLockAnyway(w) ==
    /\ pc[w] = "idle"
    /\ lock' = TRUE
    /\ Goto(w, IF w \in Calls THEN "create" ELSE "resolve")
    /\ UNCHANGED <<control, snapshot, op, view, copy, dirty, pending>>

\* acquireLock, refused while the key is set.
AcquireLock(w) ==
    /\ pc[w] = "idle"
    /\ ~lock
    /\ lock' = TRUE
    /\ Goto(w, IF w \in Calls THEN "create" ELSE "resolve")
    /\ UNCHANGED <<control, snapshot, op, view, copy, dirty, pending>>

\* createOperation: the row found by its key, or a new one; a FINALIZED
\* operation ends the call, an error too.
CreateOperation(c) ==
    /\ pc[c] = "create"
    /\ \/ /\ op[KeyOf[c]] = None
          /\ op' = [op EXCEPT ![KeyOf[c]] = "REQUESTED"]
          /\ view' = [view EXCEPT ![c] = "REQUESTED"]
          /\ Goto(c, "prepare")
       \/ /\ op[KeyOf[c]] # None
          /\ view' = [view EXCEPT ![c] = op[KeyOf[c]]]
          /\ Goto(c, IF op[KeyOf[c]] = "FINALIZED" THEN "release" ELSE "prepare")
          /\ UNCHANGED op
       \/ "flush" \in Outages /\ Goto(c, "release") /\ UNCHANGED <<op, view>>
    /\ UNCHANGED <<control, snapshot, lock, copy, dirty, pending>>

\* Mutant: transitionState without isInvalidTransition.
TransitionUnchecked(c, from, s, next) ==
    /\ pc[c] = from
    /\ view' = [view EXCEPT ![c] = s]
    /\ \/ /\ Flushed(c, copy[c], dirty[c])
          /\ op' = [op EXCEPT ![KeyOf[c]] = s]
          /\ Goto(c, next) \/ ("journal" \in Outages /\ Throw(c))
       \/ /\ NotFlushed(c, copy[c], dirty[c])
          /\ Throw(c)
          /\ UNCHANGED op
    /\ UNCHANGED lock

\* transitionState(operationId, s): the flush also saves whatever else is dirty;
\* the journal row that follows it may fail.
Transition(c, from, s, next) ==
    /\ pc[c] = from
    /\ \/ /\ IsInvalidTransition(view[c], s)
          /\ Throw(c)
          /\ UNCHANGED <<control, snapshot, op, view, copy, dirty, pending>>
       \/ /\ ~IsInvalidTransition(view[c], s)
          /\ Flushed(c, copy[c], dirty[c])
          /\ op' = [op EXCEPT ![KeyOf[c]] = s]
          /\ view' = [view EXCEPT ![c] = s]
          /\ Goto(c, next) \/ ("journal" \in Outages /\ Throw(c))
       \/ /\ ~IsInvalidTransition(view[c], s)
          /\ NotFlushed(c, copy[c], dirty[c])
          /\ view' = [view EXCEPT ![c] = s]
          /\ Throw(c)
          /\ UNCHANGED op
    /\ UNCHANGED lock

-----------------------------------------------------------------------------
\* The control record is loaded; a tenant in failover is rejected, drills apart.
LoadControl(c) ==
    /\ pc[c] = "load"
    /\ copy' = [copy EXCEPT ![c] = control]
    /\ IF control.status = "DEGRADED" /\ c \notin Drills THEN Throw(c) ELSE Goto(c, "validate")
    /\ UNCHANGED <<control, snapshot, op, lock, view, dirty, pending>>

\* Work that changes nothing here but may throw: the probes of the target
\* region and the replication lag, the recovery of the event plane, the drill
\* evidence.
Work(c, from, next) ==
    /\ pc[c] = from
    /\ Goto(c, next) \/ (from \in Failing /\ Throw(c))
    /\ UNCHANGED <<control, snapshot, op, lock, view, copy, dirty, pending>>

\* freezeTenantWrites.
FreezeTenantWrites(c) ==
    /\ pc[c] = "freeze"
    /\ SetAndFlush(c, [copy[c] EXCEPT !.frozen = TRUE], FALSE, "assign")

\* The write fence is put on the managed record; then createSnapshot finds the
\* snapshot, compares its generation with the expected one and assigns it the
\* new targets.
ExpectedGeneration(r) == IF r.fence # 0 THEN r.fence ELSE r.version

\* Mutant: the generation is not compared.
AssignSnapshotUnchecked(c) ==
    /\ pc[c] = "assign"
    /\ copy' = [copy EXCEPT ![c] = [@ EXCEPT !.token = c,
                                              !.fence = ExpectedGeneration(copy[c]) + 1]]
    /\ dirty' = [dirty EXCEPT ![c] = TRUE]
    /\ pending' = [pending EXCEPT ![c] = Signed(c, snapshot, "secondary")]
    /\ Goto(c, "publish")
    /\ UNCHANGED <<control, snapshot, op, lock, view>>

AssignSnapshot(c) ==
    LET expected == ExpectedGeneration(copy[c]) IN
    /\ pc[c] = "assign"
    /\ copy' = [copy EXCEPT ![c] = [@ EXCEPT !.token = c, !.fence = expected + 1]]
    /\ dirty' = [dirty EXCEPT ![c] = TRUE]
    /\ \/ /\ snapshot.gen = expected
          /\ pending' = [pending EXCEPT ![c] = Signed(c, snapshot, "secondary")]
          /\ Goto(c, "publish")
       \/ /\ snapshot.gen # expected
          /\ Throw(c)
          /\ UNCHANGED pending
    /\ UNCHANGED <<control, snapshot, op, lock, view>>

\* createSnapshot, its flush: the snapshot and the fence in one transaction.
PublishSnapshot(c) ==
    /\ pc[c] = "publish"
    /\ SetAndFlush(c, copy[c], FALSE, "degrade")

\* The tenant is DEGRADED; updatedAt is set as well.
Degrade(c) ==
    /\ pc[c] = "degrade"
    /\ SetAndFlush(c, [copy[c] EXCEPT !.status = "DEGRADED"], TRUE, "switched")

\* Mutant: the token is left behind.
UnfrozenKeepingToken(r) == [r EXCEPT !.frozen = FALSE]

Unfrozen(r) == [r EXCEPT !.frozen = FALSE, !.token = None]

\* unfreezeTenantWrites.
UnfreezeTenantWrites(c) ==
    /\ pc[c] = "unfreeze"
    /\ SetAndFlush(c, Unfrozen(copy[c]), FALSE, "finalize")

-----------------------------------------------------------------------------
\* executeFailoverRollback after its transition: writes resume ...
Managed(c) == IF copy[c] = None THEN control ELSE copy[c]

\* Mutant: the rollback only resets the status.
ReopenForgotten(c) ==
    /\ pc[c] = "reopen"
    /\ copy' = [copy EXCEPT ![c] = Managed(c)]
    /\ Goto(c, "reactivate")
    /\ UNCHANGED <<control, snapshot, op, lock, view, dirty, pending>>

Reopen(c) ==
    LET r == Managed(c)
        d == dirty[c] \/ Unfrozen(r) # r IN
    /\ pc[c] = "reopen"
    /\ \/ Flushed(c, Unfrozen(r), d) /\ Goto(c, "reactivate")
       \/ (d \/ pending[c] # None) /\ NotFlushed(c, Unfrozen(r), d) /\ Throw(c)
    /\ UNCHANGED <<op, lock, view>>

\* ... and the tenant is ACTIVE; the route stays as it is.
Reactivate(c) ==
    /\ pc[c] = "reactivate"
    /\ SetAndFlush(c, [copy[c] EXCEPT !.status = "ACTIVE"], FALSE, "release")

ReleaseLock(w) ==
    /\ pc[w] = "release"
    /\ lock' = FALSE
    /\ Goto(w, "done")
    /\ UNCHANGED <<control, snapshot, op, view, copy, dirty, pending>>

-----------------------------------------------------------------------------
\* A migration that rolls back resolves the route: a valid snapshot is taken
\* as it is and published again if it has a policy version, a missing or
\* expired one is evaluated again from the control record.
ResolveRoute(m) ==
    /\ pc[m] = "resolve"
    /\ \/ /\ snapshot.gen # 0
          /\ \/ /\ pending' = [pending EXCEPT ![m] = Signed(m, snapshot, snapshot.target)]
                /\ Goto(m, "republish")
             \/ Goto(m, "release") /\ UNCHANGED pending
       \/ /\ pending' = [pending EXCEPT ![m] =
                Signed(m, snapshot, IF control.status = "DEGRADED" THEN "secondary" ELSE "primary")]
          /\ Goto(m, "reevaluate")
    /\ UNCHANGED <<control, snapshot, op, lock, view, copy, dirty>>

\* createSnapshot of a migration, without an expected generation: once for a
\* route evaluated again, and once more, on the row just written, for the
\* migration itself.
RepublishRoute(m) ==
    /\ pc[m] \in {"reevaluate", "republish"}
    /\ \/ /\ SaveSnapshot(m)
          /\ \/ /\ pc[m] = "reevaluate"
                /\ pending' = [pending EXCEPT ![m] = Signed(m, snapshot', snapshot'.target)]
                /\ Goto(m, "republish")
             \/ /\ pc[m] = "republish"
                /\ pending' = [pending EXCEPT ![m] = None]
                /\ Goto(m, "release")
       \/ ("flush" \in Outages \/ InsertRefused(m)) /\ KeepSnapshot(m) /\ Goto(m, "release")
    /\ UNCHANGED <<control, op, lock, view, copy, dirty>>

-----------------------------------------------------------------------------
\* updateTenantStatus and what its callers set before it: terminate and legal
\* hold freeze writes, reopen and activate do not unfreeze them, purge wants an
\* ARCHIVED tenant.  A version conflict makes the administrator's call fail as a
\* whole.
SetStatus(s) ==
    /\ control.version < MaxVersion
    /\ s = "PURGED" => control.status = "ARCHIVED"
    /\ control' = [control EXCEPT !.status = s,
                                  !.frozen = @ \/ s \in {"ARCHIVED", "LEGAL_HOLD"},
                                  !.version = @ + 1]
    /\ UNCHANGED <<snapshot, op, lock, pc, view, copy, dirty, pending>>

\* The TTL of the lock elapses, whoever works under it: nobody renews the key.
ExpireLock ==
    /\ lock
    /\ lock' = FALSE
    /\ UNCHANGED <<control, snapshot, op, pc, view, copy, dirty, pending>>

Crash(w) ==
    /\ Crashes
    /\ Live(w)
    /\ Goto(w, "done")
    /\ UNCHANGED <<control, snapshot, op, lock, view, copy, dirty, pending>>

Step(c) ==
    \/ CreateOperation(c)
    \/ Transition(c, "prepare", "PREPARING", "load")
    \/ LoadControl(c)
    \/ Transition(c, "validate", "VALIDATING", "check")
    \/ Work(c, "check", "switching")
    \/ Transition(c, "switching", "SWITCHING", "freeze")
    \/ FreezeTenantWrites(c)
    \/ AssignSnapshot(c)
    \/ PublishSnapshot(c)
    \/ Degrade(c)
    \/ Transition(c, "switched", "SWITCHED", "recover")
    \/ Work(c, "recover", "unfreeze")
    \/ UnfreezeTenantWrites(c)
    \/ Transition(c, "finalize", "FINALIZED", "record")
    \/ Work(c, "record", "release")
    \/ Transition(c, "rollback", "ROLLBACK", "reopen")
    \/ Reopen(c)
    \/ Reactivate(c)

Finished == (\A w \in Workers : pc[w] = "done") /\ UNCHANGED sys

Act ==
    \/ \E w \in Workers : AcquireLock(w) \/ ReleaseLock(w) \/ Crash(w)
    \/ \E c \in Calls : Step(c)
    \/ \E m \in Migrations : ResolveRoute(m) \/ RepublishRoute(m)
    \/ \E s \in Lifecycle : SetStatus(s)
    \/ ExpireLock
    \/ Finished

LiveWorkers == {w \in Workers : Live(w)}

\* Writes are accepted and no failover holds the fence.
Open == ~control.frozen /\ control.token = None

\* What leaves writes frozen: a worker dies, the catch block of a call fails
\* before it has resumed them, or an administrator freezes them.
Strands ==
    \/ \E w \in Workers : Live(w) /\ pc[w] # "release" /\ pc'[w] = "done"
    \/ \E c \in Calls : pc[c] \in {"rollback", "reopen"} /\ pc'[c] = "release"
    \/ pc' = pc /\ ~control.frozen /\ control'.frozen

\* A spell begins when the lock goes from under a worker, and ends when nobody
\* works any more.
Observe ==
    /\ overlapped' = IF LiveWorkers' # {} /\ (overlapped # {} \/ ~lock')
                     THEN overlapped \cup LiveWorkers' ELSE {}
    /\ stranded' = (~Open' /\ (stranded \/ Strands))

Next == Act /\ Observe

Spec == Init /\ [][Next]_vars

\* A worker keeps running until its process dies.
Fairness ==
    /\ \A c \in Calls : WF_sys(Step(c)) /\ WF_sys(ReleaseLock(c))
    /\ \A m \in Migrations : WF_sys(ResolveRoute(m) \/ RepublishRoute(m) \/ ReleaseLock(m))

FairSpec == Spec /\ Fairness

-----------------------------------------------------------------------------
\* A call's clean copy of the control record whose version is still the row's
\* is the row: the optimistic lock on `version` really detects every change,
\* whoever made it and however the lock of the tenant was lost.
CopiesAgree ==
    \A c \in Calls : copy[c] # None =>
        /\ copy[c].version <= control.version
        /\ copy[c].version = control.version /\ ~dirty[c] => copy[c] = control

\* Seen from the control record, failovers, their rollbacks and administrators
\* do only what WriteFence allows, even when they run at the same time.
Fence == INSTANCE WriteFence WITH
            Tokens <- Calls,
            frozen <- control.frozen, token <- control.token, fence <- control.fence
ImplementsFence == Fence!FenceSpec

\* A failover only ever switches the route while writes are frozen, in the same
\* transaction as its own fence, whose generation is the snapshot's.
RouteSwitchedUnderFence ==
    [][\A c \in Calls : snapshot' # snapshot /\ pc'[c] # pc[c] =>
          control.frozen /\ control'.token = c /\ control'.fence = snapshot'.gen]_vars

\* Two snapshots never carry the same generation, or a signed route could be
\* taken for another: "Atomic Routing Switch with generation fencing".  Failovers
\* are kept apart by the version of the control record even where the lock ran
\* out; a migration, which does not write that record, only by the lock.
GenerationsAdvance ==
    [][snapshot' # snapshot =>
          snapshot'.gen > snapshot.gen \/ overlapped \cap Migrations # {}]_vars

\* Another call with the key of c works, or worked, beside it without a lock.
Shared(c) == /\ c \in overlapped
             /\ \E d \in overlapped \cap Calls : d # c /\ KeyOf[d] = KeyOf[c]

\* A fence is raised only while the operation's row says SWITCHING, which it
\* says once: a retry with the same key, after a call that failed or died at any
\* statement, never switches a second time.  Beside the call it retries it may.
SwitchesOncePerKey ==
    [][\A c \in Calls : control'.token = c /\ control.token # c =>
          op[KeyOf[c]] = "SWITCHING" \/ Shared(c)]_vars

\* When no operation runs, no failover has left writes frozen: whatever of its
\* statements fail, its catch block resumes them, even when the lock was lost to
\* another call, unless that block fails itself or the process dies.
FreezeLifted == (\A w \in Workers : ~Live(w)) => Open \/ stranded

\* The operation rows of the tenant, as the ledger sees them.
Rows == [k \in Keys |-> IF op[k] = None THEN None ELSE [tenant |-> "tenant", state |-> op[k]]]

\* However calls fail and are retried, and although a call checks its own copy
\* of the state and not the row: a key names one operation, that only moves
\* along the table, except where two calls work with the key at a time.
Ledger == INSTANCE OperationLedger WITH
             Tenants <- {"tenant"}, ledger <- Rows,
             contended <- {KeyOf[c] : c \in {d \in Calls : Shared(d)}}
ImplementsLedger == Ledger!LedgerSpec

\* Every call ends.
CallsEnd == \A c \in Calls : Live(c) ~> pc[c] = "done"

=============================================================================
