# TLA+ models of the Virteex ERP

Virteex ERP is a multi-tenant ERP: an Nx monorepo of NestJS services over
PostgreSQL (MikroORM 6), Redis and Kafka, with Angular clients. This directory
models the parts whose mistakes are the most expensive and the hardest to test:

* the **tenant control plane** in `libs/kernel/tenant`: moving a tenant to another
  region, migrating its schema, freezing, holding and purging it, while its users
  write and while other control-plane calls run;
* the **onboarding** of a tenant (`libs/domain/admin`), a saga over that plane;
* three queues: the **job worker** with its inbox (`libs/domain/scheduler`,
  `libs/kernel/messaging`), the **outbox** of accounting with its relay
  (`libs/domain/accounting`), and the **offline queue** of the mobile client
  (`apps/client/mobile`).

Each model is checked by TLC on small instances; the results that matter most
are proved by TLAPS for every value of the constants. `PROJECT.json` lists the
runs, what every definition stands for in the source, the hazards and the
findings.

Run a model with `tlc -config Failover.cfg MCFailover`, a proof with
`tlapm FailoverProofs.tla`.

## 1. Inventory

### 1.1 The system

| part | state it keeps | operations | what makes it hard |
|---|---|---|---|
| `TenantOperationService` | `tenant_operations` rows, `tenant_operation_journal`, a Redis key per tenant | acquire and release the lock, create or find an operation, move it along a table of states, append to a hash-chained journal | lock with a TTL nobody renews, callers that take another one, retries with an idempotency key, two statements per journal row, crashes |
| `FailoverService` | `tenant_control_records` (status, freeze, fence, version), the routing snapshot | promote the secondary region, roll back, drills | four flushes per switch, a managed copy kept across remote probes, an error path that flushes what the failed one left dirty |
| `MigrationOrchestratorService` | the schema, the routing snapshot | guard, dry run, migrate, switch, reconcile, roll back | undo of something that may not have happened, retries, tenants that share a schema |
| `TenantService` | `tenants`, control records, tenant data, a Redis configuration cache | create, activate, suspend, terminate, hold, purge, reopen, update | several administrators, optimistic locking, destructive steps outside it |
| `RoutingPlaneService` | `tenant_routing_snapshots` | resolve, publish, enforce | generations computed from a row that was read |
| `TenantRlsInterceptor`, `TenantModelSubscriber` | none | admit a request, check again when its rows are flushed | what was checked may change before the commit; the identity map answers instead of the database |
| residency compliance, FinOps | policies, cost metrics | authorise, record | lookups and metrics |
| `ProvisioningService` | the tenant's rows, a Redis lock, an operation, seed rows | create a tenant, run the saga, tell its status | a saga that goes on after the answer, a lock that may run out, a catch block that may fail |
| kernel messaging | `outbox_events`, `inbox_messages`, saga states | publish, consume once, compensate | at-least-once delivery, two deliveries at once |
| scheduler | jobs, BullMQ queues | take, run, record, settle | stalls, retries and duplicates against one row and one inbox |
| accounting | accounts, an outbox, journal entries, fiscal periods | create an account, relay its event, set up a chart of accounts; record, post, close | two transactions on one pool, crashes between send and mark, batches that cannot be marked |
| mobile client | an offline queue and its copy in IndexedDB | enqueue, synchronise, dismiss, restart | changes, saves and runs that interleave at every await; a save is reported before it is committed |
| inventory, CRM | stock, movements, sales | reserve, move, sell | read-check-write, remote reservation before local commit |
| identity | users, sessions, tokens | log in, refresh, onboard | token rotation by concurrent clients, multi-step onboarding |
| subscription | subscriptions | webhooks of the payment provider | unordered, repeated webhooks |
| billing, fiscal, payroll | documents | build, stamp | state at an external authority |
| other domains, UIs, deployment | one repository each | create, read, update | none that interleaves |

How they interact: failovers and migrations take the tenant's lock and record
themselves through `TenantOperationService`; both publish routes through
`RoutingPlaneService`; failovers, administrators and `createTenant` write the
same control record, which is protected by a version column; requests read it.
Operations and snapshots have no version and are written by primary key. The
onboarding records itself through `TenantOperationService` too, in the same
journal, but under a lock of its own. The job worker runs its handlers inside the transaction of
`InboxService`; the accounting relay reads the outbox its own service writes. The
business services meet the control plane only through the control record and
the route, and each other through outbox events.

### 1.2 What has to be right

* operations: exclusive per tenant as far as a lock reaches, idempotent per key,
  along the table, journaled truthfully in one chain, and the lock is always
  freed;
* failover: no write is taken by the old region once the route leads to the new
  one, a generation names one route, a key switches once, and nothing leaves the
  tenant frozen;
* migration: a rollback takes back one migration at most, and only on record;
* lifecycle: decisions are taken on the record they change, frozen tenants take
  no writes, only archived tenants are purged, and what is purged is gone;
* onboarding: a tenant is provisioned once, is seeded on the record, and its
  operation is closed and its lock freed whatever throws;
* jobs: the inbox and the job row agree, a decision is final, no job leaves the
  queue unrecorded, every job settles;
* outbox: no account of `CreateAccountUseCase` goes unannounced, nothing is marked
  that was not published, codes are unique, requests that exhaust the pool end
  all the same;
* offline queue: what was queued and committed survives the application, the disk
  follows the signal, and no run keeps the queue from the next.

`PROJECT.json` lists every hazard at its line with the properties that watch it.

## 2. The models

Granularity is the same everywhere: **one step is one statement sent to the
database or to Redis, or one transaction**. Between two of them any other actor
may run, any process may die and (where the module says so) the statement may
fail.

What is assumed of MikroORM 6, since the code leans on it:

* each call has an identity map of its own; `findOne` by primary key returns
  the managed entity without a query once it was loaded;
* `flush()` writes everything that is dirty in one transaction, whoever asks
  for it, and nothing when nothing changed;
* only `TenantControlRecord` has a version: its UPDATE compares the version and
  fails when it moved; after a failed flush, managed entities stay dirty while
  entities that were to be inserted are forgotten;
* `transactional()` copies the identity map into its fork; `fork({ connectionString })`
  ignores that option and starts clean;
* `getConnection().execute()` runs outside the transaction the call is written in.

**Locks run out.** Every lock in this code is a Redis key with a TTL (30 s for
failovers and migrations, 300 s for onboardings) that nothing renews, so
`ExpireLock` may fire at any time, under a working call or not, in every module
that has one. What the lock was to guarantee then fails, in the code as in the
model. No property and no theorem assumes the contrary: the modules keep history
variables that say where calls worked together without a lock between them
(`exposed` and `contested` in TenantOperations and Migration, `overlapped` in
Failover), and a property that depends on the lock excepts exactly these. A run
therefore shows that a lock that ran out harms the calls beside it and nobody
else, and never what comes after them. History variables are read by no action.

### OperationStates, OperationLedger, TenantOperations

`OperationStates` holds the states and the table of
`isInvalidTransition`. `TenantOperations` is the service with its three callers:
failovers and migrations, which share `lock:tenant:ops:<tenant>`, and onboardings
(`Onboardings`), which take `lock:provisioning:<tenant>` and write to the same
journal (`LockOf`). `AcquireLock`/`ReleaseLock`/`ExpireLock` are the Redis keys,
`FindOperation` and `InsertOperation` the two statements of `createOperation`
(`Abandon` when it throws: an onboarding is then outside its finally block),
`Transition` and `RollBack` the flush of `transitionState` from the try and from
the catch block (`TransitionTo`), `ReadLastHash` and `AppendToJournal` the two
statements of `appendToJournal` (`Journaled`, `NotJournaled`: only an onboarding
survives a failed one), `WorkFails` anything else that throws, `Crash` the death
of the process. A caller's `view` is its copy of the operation's state, `tip` the
journal length it saw when it read the last hash (a hash stands for the row it
was computed for). Callers ask for any state of `Requests` at any time: a
superset of what the callers in the source do.

`exposed` are the tenants on which calls work that no lock has kept apart all
along: a key ran out under its call, or an onboarding and another call work side
by side. A tenant stays exposed until the last of these calls has ended.
`contested` are the keys of the operations ever worked on so.

`OperationLedger` is the abstract promise: a key names at most one operation,
which only moves along the table. Its parameter `contended` is the set of keys with
which several calls may work at a time: their rows may be overwritten with any
state (`Overwrite`), but a key keeps its operation and its tenant even there.
`ImplementsLedger` is the refinement. Failover, Migration and Provisioning refine
it too, each with the rows of its own operations (`Rows`).

### WriteFence, Failover

`Failover` is `triggerRegionalFailover` for one tenant, with administrators
(`SetStatus`) and migrations that end in rollback (`ResolveRoute`,
`RepublishRoute`) beside it. `copy` and `dirty` are a call's managed control
record, `pending` the snapshot it has assigned and not saved; `Flushed` and
`NotFlushed` are the two outcomes of `em.flush()`. The stages of `pc` are the
statements of the try block and of the catch block in the order of the source.
The probes, the lag query, the recovery of the event plane and the drill
evidence are `Work`: they change nothing here and may throw (`Failing`).
The region a snapshot leads to is "primary" or "secondary", as seen from the
control record. `SetStatus` covers the statuses administrators set, reactivation
among them; which ones a run lets them set is `Lifecycle`.

`overlapped` are the workers of the current spell, which begins when the lock
goes from under a worker and ends when nobody works any more; `stranded` says
that writes stayed frozen because a process died, a catch block failed before it
had resumed them, or an administrator froze them.

`WriteFence` is the abstract promise about freeze, token and generation;
`ImplementsFence` the refinement.

### TenantLifecycle

One tenant in one of the three modes, administrators with one call each
(`Begin` .. `FlushStatus`) and writers (`Admit`, `Recheck`, `Commit`). Purging a
SHARED tenant is `DeleteRows` and `DeleteControl` in any order, since
`tenant_control_records` is one of the tables with a `tenant_id`; purging the
other modes is `DropStore`, which touches only the tenant's own schema or
database. `Recheck` reads the copy the interceptor loaded, except in DATABASE
mode, where the request runs in a clean fork.

### Migration

`migrateTenantWithOperation` written as data: `Try` and `Catch` are the
statements of the two blocks with the private methods inlined, so statements no
call can reach are written down all the same. `level` is the number of
migrations applied to the schema all tenants share, `route` each tenant's
snapshot. Table statistics are reduced to the level they were taken at
(`Differs`): they contain a hash of the structure of every table.

A transition is checked against the call's copy of the operation (`view`) and its
flush may be refused with the copy changed: the catch block may then meet a copy
that says ROLLBACK and a row that does not. `held` is the managed snapshot, and
`unsaved` says that it was assigned and not written: the next flush writes it
(`Flushed`). `ResolveRoute` reads the snapshot and, if there is none or it is
expired, publishes one; `PublishRoute` is the `createSnapshot` of the switch and of
the rollback. `reverted` are the keys whose operation has taken a migration back.

### Provisioning

`POST /admin/tenants` from `FindTenant` to the answer, and the saga that goes on
after it. The saga's try block is data (`Try`), its transitions are
`Transition`, its work `Work`, the seed rows the two statements of
`seedTenantData`, which are sent to the connection and commit one by one.
`RollBack` and `Unlock` are the catch and finally blocks, `Refuse`,
`RollBackRefused` and `UnlockRefused` what happens when a statement of the
request, the catch block or the finally block is refused. `AskStatus` is the
status query, which creates an operation of its own. There is one saga per
tenant because the primary key of `tenants` precedes it (`InsertTenant`). Where a
request or a saga ends with its lock still set, its `pc` is "failed".
Journal appends fail silently for PROVISION and nothing here reads the journal:
`TenantOperations` has it, with onboardings among its callers. The administrator is
one whose own tenant has SCHEMA or DATABASE mode: for SHARED ones the
interceptor's transaction ends with the answer, before the saga does.

### Jobs

BullMQ's queue (`Add`, `Take`, `StallOrphan`, `StallOwned`, `Settle`, external),
and `InboxService.process` around `JobProcessorService.executeJob`: `ReadInbox`,
`FindJob`, `Start` (attempt counted and flushed, which waits for row locks),
`Route` (the handler: it sends or finds nothing to send, and returns or throws, in
any combination), `Commit`
(last flush, inbox row and COMMIT at once, because the job's entity manager
joins the inbox's transaction), `DuplicateKey`, `CommitUnanswered`, `Throw` and
`Crash`. A worker's `copy` is its managed job. `sent` is what left for the
notification service, with the attempt that is part of its key. Jobs models the
classes as they are written and without `TenantModelSubscriber`; what the
worker's application lacks to start is in section 6.

### AccountOutbox

`CreateAccountUseCase` is `Begin`, `FindByCode`, `Insert`, `SaveEvent` and
`Commit`. `SetupChartOfAccountsUseCase`, which `POST accounting/setup` and the
listener of `tenant.created` run, is `FindAll`, `BeginSetup`, `Insert` (its thirteen
INSERTs, which only wait for each other's codes) and `Commit`, without an event;
`setups` are the requests that are one. The outbox repository forks the entity manager, so `SaveEvent` is a
transaction of its own on a second connection (`Free`) while the account's is
open; `TimesOut` is the pool's timeout. `Insert` waits for an uncommitted insert
of the same code. The relay of each process is `Tick` (fetch a batch), `Send`,
`SendFails`, `Mark`, `MarkFails` and `EndRun`; `Boot` connects the producer or
gives it up. `guarded` says whether `TenantModelSubscriber` is registered, which
refuses marks made outside a tenant's context. A tie of `createdAt` is broken
arbitrarily, as ORDER BY does.

### OfflineSync

A step is what JavaScript does between two awaits. `Ask`, `Answer` and
`NoAnswer` are the user's request, `Save` the change of the signal with the save
it starts. A save ends in two steps: `Written` is `request.onsuccess`, on which the
code resolves (`Resume`), `Committed` the end of its transaction; in between it may
abort (`Aborted`, no one listens) or die with the application (`Restart`).
`SaveFailed` is a write that is refused. `Load` and `LoadRefused` are the two ends of
`initialize`, which nobody awaits or catches; `MayRun`, `NextItem`, `ItemAnswered`, `ItemKept` and `Finish` one
run over its snapshot, `Dismiss` the user, `GoOffline`, `GoOnline` and `Restart`
the device. Backoff is a choice of the clock, the order of the items is left out
(the queue is a set), since it only decides which item is sent first.
`settled`, `endangered` and `apart` are history variables of the properties:
`endangered` collects the items that a save overtaking `initialize`, a save after a
refused read, or a write told of and never committed may lose, `apart` says that
`initialize` left signal and disk apart and nothing was saved since.

## 3. What the runs show

| run | instance | result |
|---|---|---|
| `operations` | 2 of 4 calls (a failover, its retry, their key for another tenant, an onboarding), 2 tenants, failing statements, crashes, locks that run out, fair | types, exclusion per tenant, one chain, truthful journal and refinement of the ledger, each where a lock kept the calls apart; every call ends, every lock is freed |
| `operations_forked` | a failover and an onboarding, neither lock lost | **violated**: two journal rows are chained on one |
| `failover` | 2 calls with keys of their own, one a drill, 1 migration, a legal hold, refused flushes, failing recovery, lock that runs out | copies agree, refinement of the fence, route switched under the fence, generations advance, freeze lifted |
| `failover_retried` | a call and its retry, archive and purge, failing work, flush and journal, crashes, lock that runs out, fair | a key switches once, refinement of the ledger, calls end |
| `lifecycle` | 2 administrators, 1 writer, all modes and actions, failures | `ChecksStillHold` holds |
| `lifecycle_deleted` | 2 administrators, purge against reopen | **violated**: an ACTIVE tenant loses its rows |
| `migration` | 2 of 4 calls (a retry, another tenant, another tenant with the same key), refused flushes, errors, crashes, locks that run out | an operation takes back one migration, nothing undone off the record, refinement of the ledger |
| `provisioning` | 3 requests for a tenant, refused statements, lock that may run out, crashes, fair | provisioned once, seeded on the record, refinement of the ledger, outcome recorded, lock freed by the saga itself |
| `jobs` | 2 jobs of any kind, 2 workers, 2 attempts, 1 stall, 2 additions, 2 faults, fair | types, inbox agrees with the row, a handler runs again for a fault only, decisions final, completed only when recorded, every job settles |
| `offline_sync` | 2 requests, 2 runs, 2 faults (lost answers, refused reads and saves, aborted commits, restarts), fair | types, queued is kept, the disk follows the signal, repeated only by a fault, runs end |
| `account_outbox` | 3 requests (2 for one code, 1 poisoned event; none, 1 or 2 of them set up the chart), 1 process, pool 2, batch 2, with and without the subscriber, failures, crashes, fair | accounts of creations announced, marked is published, codes unique, requests end, published unless a full batch is in the way |
| `account_outbox_blocked` | the subscriber registered, nothing fails, batch 1 | **violated**: an event is never published |

The type invariants of `Failover`, `Migration`, `TenantLifecycle`, `Provisioning`
and `AccountOutbox` are proved (section 4) and not run.

A violated run checks one statement the repository makes about itself (a test's
title, a comment, an error message, a report); `findings` in `PROJECT.json`
quotes it and says what the trace shows.

**Bounds.** Two calls are what every race in this code needs: the one that
reads and the one that writes in between. `operations` and `migration` choose any
two of four calls (`MaxCalls`), so that every pair of them meets: a call and its
retry, two tenants, two tenants with one key, an onboarding and a failover. Failover
has two instances, which share out what goes wrong: in `failover` refused flushes, an administrator and a migration meet two failovers, in
`failover_retried` crashes and every refusal meet a retry; every combination of
these is in the theorems. `MaxVersion` stops administrators from
bumping the version for ever; in each run it leaves room for every decision the
property is about. `Requests` in the operations runs is cut to two states:
PREPARING, which the table allows a new operation, and FINALIZED, which it
refuses it but allows the retry of one that was rolled back. The states left out
are more steps of the same kind, the refinement looks at each step alone, and the
theorems are for all of them. Crashes and failing statements are unlimited, except in
`jobs` and `offline_sync`, where `MaxFaults` bounds them together with the stalls of
living workers (two of them are a fault during the handling of another), `MaxAdds`
the additions to the queue (one may follow the first). Pool and batch are 2
against 3 requests, so that both are exhausted. `account_outbox` has one process:
what two relays do to one row is covered by the proofs. A chart has the two codes
in use. Symmetry is used only in the lifecycle runs, which have no liveness.
Deadlock is checked wherever all calls end (`Finished`, `Rest`); in the lifecycle
runs the administrators stop at `MaxVersion`, in `jobs` the additions and in
`account_outbox` a process that stays down may be the end, so it is not.

**Fairness.** A call is an async function on a running process: its next
statement is sent eventually unless the process dies (`WF` of its steps). In
`TenantOperations` a key nobody works under any more is expired by Redis in the end
(`WF` of `ExpireLock` while nobody holds it): without a finally block or a TTL,
`LockFreed` would fail. In `Provisioning` nothing at all is assumed of Redis, so
that `LockFreed` is the work of the saga: it excepts the requests that end with
their lock set ("failed": `createOperation` or DEL was refused) or die. Nothing is
assumed of administrators, of new calls, or of a call that waits for a lock.

In the queues: the worker polls and looks for stalled jobs (`WF` of `Run` and
`StallOrphan`), the event loop of the mobile client goes on and IndexedDB answers
(`WF` of `RunStep`, `Written` and `Committed`; the browser ends a request that is
not answered), the relay's timer fires and the pool's timeout expires (`WF` of
`Tick`, `RunStep`, `RequestStep`). `SF` is assumed only of `Send` of an event the
broker can take: a broker that is tried again and again some time accepts it.
Nothing is assumed of the network's return, of crashes or restarts.

## 4. What is proved

No theorem assumes anything of a lock but what its module's actions do: keys run
out under working calls. What a theorem excepts is in the property it states.

`TenantOperationsProofs`: for any callers, tenants and keys, `TypeCorrect`,
`MutualExclusion`, `LedgerImplemented`, `ChainLinear`, `JournalFaithful`. The
argument has three layers. `Guarded`: the calls at work on a tenant that is not
exposed are one, and its lock is set. `Copies`: the copy of a call on such a tenant
is its row's state, or, before the catch block's transition, a state the row was
refused and may still leave for ROLLBACK. With it a transition of the copy is a
transition of the row (the ledger), and `TipIsLast`, that the tip such a call read
is still the last row when it inserts, gives the chain. `JournalInv`: a call on an
exposed tenant has contested its key, and what another is about to journal is
ahead of all that is journaled of its operation. That a key keeps its tenant
needs nothing of locks: it is the unique index. The exceptions cannot be dropped:
TLC shows two calls on an exposed tenant move one row past the table, and
`operations_forked` forks the chain with every lock in place.

`FailoverProofs`: `FailoverTypeCorrect`, `OptimisticLockDetects` (a clean copy with
the row's version is the row) and `FenceImplemented` except nothing. The argument
is that only the version column is relied upon: a dirty copy that goes through
was current, so the step it makes of the row is the step the call made of its
copy. `SwitchUnderFence`: a call's snapshot is pending only together with the fence
of its generation in its dirty copy, and that copy is frozen.

Three theorems say what the lock adds. `Protected` is what is left of it: outside
a spell one worker at most is between its lock and its release, and whoever works
in a spell is in `overlapped`.

* `GenerationsGrow`: every flush that changes the route raises its generation,
  whether a failover publishes it, the ROLLBACK flush of a failed one, or a
  migration, and even when failovers overlap: what a worker has assigned is the
  successor of the generation in the database, as long as the version would let
  a call write it (`NextGen`). A migration writes no control record, so a migration
  in a spell is the exception.
* `SwitchedOnce`: `TokenInv` says that the token in a live call's copy, if the
  version still lets it be written, is the one in the row, or one it has put there
  itself and not saved, while its operation says SWITCHING. The last case covers
  the catch block: the flush that records ROLLBACK also saves a fence that
  publication left dirty, and at that moment the row still says SWITCHING. A retry
  finds SWITCHING, SWITCHED or ROLLBACK in the row, none of which the table lets it
  take to PREPARING. The exception is a call beside another one with its key
  (`Shared`).
* `OperationsImplemented`: the rows implement the ledger, `Shared` calls making
  their key contended. `LedgerInv` adds that the copy of the state a call checks its
  transitions against is the row, or, in the catch block after a refused flush,
  that the row may still be rolled back or the copy forbids it (`Knows`).

`FreezeIsLifted`: `FreezeInv` says that writes are open, or stranded, or some call is
bound to resume them (`Bound`): its copy says frozen, or it comes to its catch block
with unsaved changes. Refused flushes and journal rows, failing work, lost locks,
other failovers and administrators are all there. If failovers overlap, the last
one that wrote the record is the one bound: the others' flushes conflict and
change nothing. What is excepted is what leaves writes frozen in the code: a
process that died, a catch block that failed before it had resumed writes (a
version conflict with an administrator ends there), an administrator's own freeze.

`TenantLifecycleProofs`: `LifecycleTypeCorrect` and `ChecksHold`, for any number
of administrators and writers, from an invariant that says that a loaded copy
passed its check, that copies with the row's version are the row, and that a
control record is created once.

`MigrationProofs`: `TypeCorrect`, `RevertsOnce`, `UndoneRecorded` and
`OperationsImplemented`, for any calls, tenants and keys. Two live calls of one
tenant leave it exposed (`Guarded`), and two with one key contest it (`Parted`), so
outside `contested` a running call is alone with its operation. Its copy is then the
row, except in the catch block before its transition, where it may be a state the
row was refused and may still leave for ROLLBACK (`Current`); the try block goes on
only with a copy that is not ROLLBACK, the catch block past its first statement
only with one that is (`Recorded`), and then with a row that is. Since the table
refuses ROLLBACK after ROLLBACK, no second call comes to `down()` for a row that
says so, and that row stays: `TakenBack` says of every operation that took a
migration back that its row says ROLLBACK and no call is about to revert for it. A
call that lost its ROLLBACK to a refused flush never reaches `down()`.
`OperationsImplemented`: a transition such a copy allows is one the ledger allows.
`RevertsOnce` counts reverts of an operation, not what they revert: the first one
may take back an older migration (section 5).

`ProvisioningProofs`: for any requests, with locks that run out, refusals and
crashes, `ProvisioningTypeCorrect`, `OneProvisioning`, `SeededInOrder`,
`LedgerImplemented`, and `NeverActivated`: no tenant is ever activated and no
onboarding finalized (section 5).

`JobsProofs`: `JobsTypeCorrect`, `InboxAgrees`, `DecisionFinal`,
`CompletedRecorded`, for any jobs, workers and limits. The invariant says what a
worker may hold of a job that is not in the inbox yet: before `Start` the row as
it was created, after it a copy in its first attempt, before `Commit` a decision
(`Copies`). It needs nothing of row locks: a worker that reads a job another one
decides meanwhile holds a copy of a job in the inbox, and is refused there.
`HandledByFault` is an argument of account (`Budget`): what was sent for a job, the
workers that may still send for it (they have not asked the inbox, or it did not
know the job then: `MaySend`), and one more if the queue may give the entry out
without a fault (`ToCome`), is at most one more than the faults so far. A fault
pays for the worker it adds.

`OfflineSyncProofs`: `SyncTypeCorrect`, `QueuedKept`, `DiskFollows`, from an
invariant about every save under way, not only the last (`StoreInv`): a queued item
that is neither settled nor endangered is on disk or in the write that succeeded,
in the signal or in what is still to be read, and in all the saves (`Kept`). An
aborted or forgotten write endangers only what the disk does not have, a save
before or after a failed initialisation only what it leaves out (`Overlap`,
`Fresh`). `RepeatedByFault` is an argument of account
too: what was carried out, and one more if anything may send the operation (the
user's request, the queue, what `initialize` is about to load, the snapshot of a
run: `MaySend`), is at most one more than the faults. It needs that only one run
is under way (`OneRun`, from `isProcessing`), that a run waits for one save only
(`RunWaits`), and that an item about to be loaded is not at hand already (`Apart`),
or the item could be sent from two places.

`AccountOutboxProofs`: `TypeCorrect`, `AccountsAnnounced`, `CodesUnique`,
`PublishedBeforeMarked`, for any number of processes, requests, setups, connections
and batch sizes. `AccountsAnnounced` is about the accounts of creations: those of a
setup have no event (section 5). `CodesUnique` is about both.

Every safety property that a passing run checks is stated by a theorem. Only model-checked: liveness
(`CallsEnd` and `LockFreed` of both modules that have them, `OutcomeRecorded`, `JobsSettle`, `RunsEnd`,
`RequestsEnd`, `PublishedUnlessBlocked`). It needs fairness, whose meaning rests on
ENABLED, which the provers cannot reason about.

## 5. What the models contain and no property denies

A property that the code does not have is no use as a guard, so the following
behaviours, which TLC reaches in the models, are stated here and not as runs:

* two calls that a lock does not keep apart, because its key ran out under one of
  them, work on one tenant at a time; with one idempotency key they move its row
  back and forth past the table, chain two journal rows on one, switch the route
  twice, and take back two migrations (`exposed`, `contested`, `Shared`). The late
  one then deletes the lock of the next (`ReleaseLock`). A migration beside a
  failover publishes its generation again (`overlapped`);
* an onboarding and a failover or migration of its tenant hold different locks and
  fork the journal with both in place: this is the run `operations_forked`;
* a transition whose journal row is refused stays and is never journaled
  (`AppendToJournal`); the journal that is there stays truthful;
* when the flush of a new route fails, the assigned snapshot stays dirty and the
  flush of the ROLLBACK transition publishes it (`NotFlushed`, then the stages of
  the catch block);
* a failover in which nothing fails is rolled back whenever the generation of
  the snapshot is not the one expected, and what is expected (the fence
  generation or the record's version) does not count publications
  (`AssignSnapshot`); the test title is "SHOULD promote secondary region during
  failover" (`tests/failover-validation.spec.ts:103`);
* a second failover is rejected because the tenant is DEGRADED, and its rollback
  makes the tenant ACTIVE while its route leads to the secondary region
  (`LoadControl`, `Reactivate`);
* a suspension during a failover moves the record's version, the rollback's
  flush conflicts, is logged, and writes stay frozen (`Reopen`, `stranded`); so does
  a rollback whose own transition or flush is refused, and a process that dies;
* the second check of a write sees the record the first one loaded (`Recheck`),
  although its comment speaks of "the latest truth"
  (`subscribers/tenant-model.subscriber.ts:72`);
* a rollback of a migration calls `down()` although `up()` never ran and so takes
  back an older migration (`Catch`): every `down()` of this code does, since no call
  reaches `up()` (next item);
* a migration asks for VALIDATING twice, which the table refuses: none reaches
  its dry run, all end in the rollback (`Try`), which takes the route's version
  back although the operation had not raised it (`Catch`);
* a write admitted before a freeze commits after it (`Recheck`, `Commit`);
* purging a SCHEMA tenant drops a schema no request writes to (`DropStore`), and
  purging a SHARED tenant deletes its control record with the rest
  (`DeleteControl`), so that PURGED is never recorded;
* a PURGED tenant may be terminated and then reopened (`Permitted`);
* a creation that dies between its two flushes leaves a tenant without control
  record, which no retry repairs (`InsertTenant`, `InsertControl`, `Abort`);
* the onboarding asks for MONITORING while SWITCHING allows SWITCHED and ROLLBACK
  only: every one is rolled back (theorem `NeverActivated`), although a test with
  a mocked operation service says "SHOULD complete end-to-end onboarding"
  (`provisioning-validation.spec.ts:63`). The rollback undoes neither schema nor
  seed rows. A request that fails after its lock leaves it for 300 s and the
  tenant PROVISIONING: a retry is answered 409. The status query reads a row of
  its own that nobody moves, so it says STARTING for ever (`AskStatus`);
* a worker whose queue lock expired and that read the inbox before the other one
  committed runs the handler of a processed message again (`Route`); if it reads
  the job after that commit, its notification has the key of another attempt. A
  handler that throws is recorded as RETRY_SCHEDULED and its message as
  processed, so the retry never comes. The state machine refuses nothing,
  although its test expects an error;
* the account and its event are two transactions, where
  `docs/adr/0001-outbox-pattern.md:11` says "dentro de la misma transacción": an
  event whose account is rolled back is published (`SaveEvent`, `Refuse`);
* the accounts of a chart's setup are committed without any event
  (`setup-chart-of-accounts.use-case.ts:29`), where ADR 0001 (line 11) wants every
  account's event stored with it (`setups`, `Commit`);
* an item added while the offline queue is being read may be lost, and its save
  erases the older ones (`Save`, `Load`); so does the first save after a read that
  was refused (`LoadRefused`); and an item the user was told is queued is lost when
  its write is never committed (`Written`, `Aborted`, `Restart`); a save that fails rejects the user's request although the item is sent later; a
  4xx other than a conflict drops the item silently; nothing sends the queue
  until the network returns once more.

## 6. What is not modelled, and why

* `updateTenant` and the configuration cache: its only caller (admin's
  `tenant-support.service.ts`) changes `updatedAt`, which the cache does not hold.
  Residency rules and the fence-token header are lookups without state.
* Endpoint resolution, capacity and health probes: they only read, and are steps
  that may throw.
* Signatures and hashes: a signature is taken to verify what it signed; a hash
  stands for the row it was computed for.
* The interplay of `MIGRATE` and `FAILOVER` on one operation row beyond the
  shared lock: keys of different types are taken to differ.
* The worker's application: it imports `TenantModule` without a MikroORM root and
  without a provider of `InboxService`, so it does not start as wired; nothing
  calls `JobOrchestrator.enqueue`, which fills `jobs:<prefix>` while the worker
  listens to `jobs:default`. `Jobs` is about the classes, whoever wires them. The
  Redis lock and rate limiter of the scheduler have no caller.
* The kernel's outbox processor asks for a pessimistic lock outside a
  transaction, which MikroORM refuses, so it publishes nothing; the saga
  orchestrator has no caller.
* Closing fiscal periods: its repositories have no provider. The sale of CRM posts
  to `/inventory/reserve-batch`, the controller serves
  `inventory/reservations/batch`: every sale is cancelled. The plugin host
  imports a path that does not exist. The subscription service has no provider
  of `EventEmitter2`. A model of what these would do, were they wired, would be a
  model of another program.
* The idempotency interceptor (used by the accounting controller only): a
  look-up before and a store after the handler, in Redis, without a lock.
* The order of the offline queue and its backoff; the `failed` status, which
  nobody reads.
* Identity (sessions and token rotation), notifications, and the other business
  domains: one repository each, left for later.
* UIs, gateways, deployment, provider adapters: no state to interleave.

## 7. What could follow

* Identity: rotation of refresh tokens by concurrent clients and its reuse
  detection, as a module of its own.
* The notification orchestrator behind the job handlers, composed with `Jobs`:
  what its idempotency keys make of a handler that runs again.
* `AccountOutbox` with consumers: the repository has none for its topic yet.
* Failover and Migration composed on one schema of rows: what a migration's own
  transitions do to a failover of the same tenant once the lock ran out.
