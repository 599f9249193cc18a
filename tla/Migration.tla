------------------------------ MODULE Migration ------------------------------
(***************************************************************************)
(* MigrationOrchestratorService.migrateTenantWithOperation                 *)
(* (libs/kernel/tenant).  Every call runs one program: the statements of   *)
(* its try block, and those of its catch block as soon as one of them      *)
(* throws.  The programs are data here (Try, Catch), so that statements no *)
(* call ever reaches are written down all the same.                        *)
(*                                                                         *)
(* Calls of different tenants hold different locks and share the database  *)
(* schema, whose level is the number of migrations applied to it.  A lock  *)
(* runs out after its TTL, whoever works under it.  Each call has an       *)
(* identity map of its own, with its copy of the operation (`view`) and of *)
(* the routing snapshot (`held`); a flush writes all of it that is dirty.  *)
(***************************************************************************)
EXTENDS OperationStates, Naturals, Sequences, FiniteSets

CONSTANTS
    Calls,         \* calls of migrateTenantWithOperation, each made once
    Tenants, TenantOf, \* tenants; call -> the tenant it migrates
    Keys, KeyOf,   \* idempotency keys; call -> its key (a retry reuses it)
    None,          \* absence of a row or of a value
    StartLevel,    \* migrations applied before
    Pending,       \* migrations that wait to be applied
    StartRoute,    \* the routing snapshot of every tenant
    ControlVersion, \* version of every tenant's control record
    Failing,       \* may statements throw?
    Crashes,       \* may the process of a call die?
    MaxCalls       \* bound: how many of the calls are made

\* A row of tenant_operations: the tenant it was created for, and its state.
Operation == [tenant : Tenants, state : OperationState]

\* A row of tenant_routing_snapshots: generation (0: no row) and the version
\* inside its targets.
Route == [gen : Nat, version : Nat \ {0}]

ASSUME CallsAssumption == TenantOf \in [Calls -> Tenants] /\ KeyOf \in [Calls -> Keys]
ASSUME StartAssumption ==
    /\ StartLevel \in Nat /\ Pending \in Nat
    /\ StartRoute \in Route /\ ControlVersion \in Nat \ {0}
ASSUME FlagsAssumption == {Failing, Crashes} \subseteq BOOLEAN
ASSUME BoundAssumption == MaxCalls \in Nat
ASSUME NoneAssumption == None \notin OperationState \cup Nat \cup Route \cup Operation

\* The statements: transitions of the operation, and work.
To(s) == [do |-> "transition", state |-> s]
Do(w) == [do |-> w, state |-> None]

\* The try block, dryRun, executeMigration, executeSwitch and reconcile inlined;
\* resolveRoute is "find", for the snapshot, and "evaluate", for a new one.
Try == <<To("PREPARING"), Do("guard"), Do("findTenant"), To("VALIDATING"), Do("stats"),
         To("VALIDATING"),
         To("DRY_RUN"), Do("impact"), To("DRY_RUN"),
         To("SWITCHING"), Do("up"), To("SWITCHED"),
         Do("find"), Do("evaluate"), Do("publish"),
         To("RECONCILING"), Do("diff"), To("RECONCILING"), Do("evidence"), To("MONITORING"),
         Do("shadow"),
         To("FINALIZED")>>

\* The catch block, executeRollback inlined.
Catch == <<To("ROLLBACK"), Do("down"), Do("diff"), Do("evidence"), Do("find"), Do("evaluate"),
           Do("unpublish"), To("ROLLBACK")>>

VARIABLES
    level,  \* migrations applied to the schema
    route,  \* tenant -> its routing snapshot
    ops,    \* key -> the operation it names, or None
    lock,   \* tenant -> is its lock set?
    pc,     \* call -> [block, at]: the statement it is about to run
    view,   \* call -> its copy of the state of its operation
    held,   \* call -> its copy of the routing snapshot, or None
    unsaved, \* call -> has it assigned that copy and not saved it?
    stats   \* call -> level at which it took the table statistics, or None

\* History, read by the properties only.
VARIABLES
    exposed,   \* tenants no lock has protected all along from the calls at work on them
    contested, \* keys that two calls no lock kept apart ever worked with at a time
    reverted   \* keys whose operation has taken a migration back

sys == <<level, route, ops, lock, pc, view, held, unsaved, stats>>
vars == <<level, route, ops, lock, pc, view, held, unsaved, stats, exposed, contested, reverted>>

Place == [block : {"idle", "create", "try", "catch", "release", "done"}, at : 0..Len(Try)]

TypeOK ==
    /\ level \in Nat
    /\ route \in [Tenants -> Route]
    /\ ops \in [Keys -> Operation \cup {None}]
    /\ lock \in [Tenants -> BOOLEAN]
    /\ pc \in [Calls -> Place]
    /\ view \in [Calls -> OperationState \cup {None}]
    /\ held \in [Calls -> Route \cup {None}]
    /\ unsaved \in [Calls -> BOOLEAN]
    /\ stats \in [Calls -> Nat \cup {None}]
    /\ exposed \subseteq Tenants
    /\ contested \subseteq Keys
    /\ reverted \subseteq Keys

At(block) == [block |-> block, at |-> 0]
First(block) == [block |-> block, at |-> 1]

Init ==
    /\ level = StartLevel
    /\ route = [t \in Tenants |-> StartRoute]
    /\ ops = [k \in Keys |-> None]
    /\ lock = [t \in Tenants |-> FALSE]
    /\ pc = [c \in Calls |-> At("idle")]
    /\ view = [c \in Calls |-> None]
    /\ held = [c \in Calls |-> None]
    /\ unsaved = [c \in Calls |-> FALSE]
    /\ stats = [c \in Calls |-> None]
    /\ exposed = {} /\ contested = {} /\ reverted = {}

Live(c) == pc[c].block \notin {"idle", "done"}

Goto(c, p) == pc' = [pc EXCEPT ![c] = p]

Block(c) == IF pc[c].block = "try" THEN Try ELSE Catch
Running(c) == pc[c].block \in {"try", "catch"}
Statement(c) == Block(c)[pc[c].at]

\* The call is over and its memory gone.
End(c) ==
    /\ Goto(c, At("done"))
    /\ view' = [view EXCEPT ![c] = None]
    /\ held' = [held EXCEPT ![c] = None]
    /\ unsaved' = [unsaved EXCEPT ![c] = FALSE]
    /\ stats' = [stats EXCEPT ![c] = None]

\* The next statement of the block; after the last one the lock is released.
Advance(c) ==
    Goto(c, IF pc[c].at = Len(Block(c)) THEN At("release") ELSE [pc[c] EXCEPT !.at = @ + 1])

\* Mutant: the catch block goes on when the rollback could not be recorded.
ThrowSwallowed(c) ==
    Goto(c, CASE pc[c].block = "try" -> First("catch")
              [] pc[c].block = "catch" /\ pc[c].at = 1 -> [pc[c] EXCEPT !.at = 2]
              [] OTHER -> At("release"))

\* An error in the catch block, swallowed or not, ends it.
Throw(c) == Goto(c, IF pc[c].block = "try" THEN First("catch") ELSE At("release"))

-----------------------------------------------------------------------------
\* em.flush() of call c while its routing snapshot is r, changed if d: it is
\* written by primary key, a new one is INSERTed and must not exist.
InsertRefused(c, r, d) == d /\ r.gen = 1 /\ route[TenantOf[c]].gen # 0

Flushed(c, r, d) ==
    /\ ~InsertRefused(c, r, d)
    /\ route' = IF d THEN [route EXCEPT ![TenantOf[c]] = r] ELSE route
    /\ held' = [held EXCEPT ![c] = r]
    /\ unsaved' = [unsaved EXCEPT ![c] = FALSE]

\* After a failed flush a snapshot found in the database stays changed, one
\* that was to be inserted is forgotten.
NotFlushed(c, r, d) ==
    LET forgotten == d /\ r.gen = 1 IN
    /\ Failing \/ InsertRefused(c, r, d)
    /\ held' = [held EXCEPT ![c] = IF forgotten THEN None ELSE r]
    /\ unsaved' = [unsaved EXCEPT ![c] = d /\ ~forgotten]
    /\ UNCHANGED route

-----------------------------------------------------------------------------
\* Mutant: SET without NX.
AcquireLockAnyway(c) ==
    /\ pc[c].block = "idle"
    /\ lock' = [lock EXCEPT ![TenantOf[c]] = TRUE]
    /\ Goto(c, At("create"))
    /\ UNCHANGED <<level, route, ops, view, held, unsaved, stats>>

Made == {c \in Calls : pc[c].block # "idle"}

AcquireLock(c) ==
    /\ pc[c].block = "idle"
    /\ Cardinality(Made) < MaxCalls
    /\ ~lock[TenantOf[c]]
    /\ lock' = [lock EXCEPT ![TenantOf[c]] = TRUE]
    /\ Goto(c, At("create"))
    /\ UNCHANGED <<level, route, ops, view, held, unsaved, stats>>

\* createOperation: the row found by its key, whatever its tenant, or a new one;
\* a FINALIZED operation ends the call, an error too.
CreateOperation(c) ==
    LET k == KeyOf[c] IN
    /\ pc[c].block = "create"
    /\ \/ /\ ops[k] = None
          /\ ops' = [ops EXCEPT ![k] = [tenant |-> TenantOf[c], state |-> "REQUESTED"]]
          /\ view' = [view EXCEPT ![c] = "REQUESTED"]
          /\ Goto(c, First("try"))
       \/ /\ ops[k] # None
          /\ view' = [view EXCEPT ![c] = ops[k].state]
          /\ Goto(c, IF ops[k].state = "FINALIZED" THEN At("release") ELSE First("try"))
          /\ UNCHANGED ops
       \/ Failing /\ Goto(c, At("release")) /\ UNCHANGED <<ops, view>>
    /\ UNCHANGED <<level, route, lock, held, unsaved, stats>>

\* Mutant: transitionState without isInvalidTransition.
TransitionUnchecked(c) ==
    LET s == Statement(c).state IN
    /\ Running(c)
    /\ s # None
    /\ view' = [view EXCEPT ![c] = s]
    /\ Flushed(c, held[c], unsaved[c])
    /\ ops' = [ops EXCEPT ![KeyOf[c]].state = s]
    /\ Advance(c)
    /\ UNCHANGED <<level, lock, stats>>

\* transitionState: validated against the call's copy, which keeps the new state
\* where the flush is refused; the append to the journal after it may fail.
Transition(c) ==
    LET s == Statement(c).state
        legal == ~IsInvalidTransition(view[c], s) IN
    /\ Running(c)
    /\ s # None
    /\ \/ /\ legal
          /\ view' = [view EXCEPT ![c] = s]
          /\ \/ /\ Flushed(c, held[c], unsaved[c])
                /\ ops' = [ops EXCEPT ![KeyOf[c]].state = s]
                /\ Advance(c) \/ (Failing /\ Throw(c))
             \/ /\ NotFlushed(c, held[c], unsaved[c])
                /\ Throw(c)
                /\ UNCHANGED ops
       \/ /\ ~legal
          /\ Throw(c)
          /\ UNCHANGED <<route, ops, view, held, unsaved>>
    /\ UNCHANGED <<level, lock, stats>>

-----------------------------------------------------------------------------
\* migrator.up() applies what is pending, migrator.down() reverts the migration
\* applied last, whoever applied it.
LevelAfter(w) ==
    CASE w = "up"   -> StartLevel + Pending
      [] w = "down" -> IF level = 0 THEN 0 ELSE level - 1
      [] OTHER      -> level

\* The statistics include a hash of the structure of every table: they differ
\* once a migration ran.  The rollback compares with those it finds in the
\* operation's result, where the second VALIDATING would have put them.
Differs(c) == Statement(c).do = "diff" /\ pc[c].block = "try" /\ stats[c] # level

\* Work that is neither a transition nor a matter of the route.
Work(c) ==
    LET w == Statement(c).do IN
    /\ Running(c)
    /\ w \notin {"transition", "find", "evaluate", "publish", "unpublish"}
    /\ \/ /\ ~Differs(c)
          /\ level' = LevelAfter(w)
          /\ stats' = [stats EXCEPT ![c] = IF w = "stats" THEN level ELSE @]
          /\ Advance(c)
       \/ /\ Failing \/ Differs(c)
          /\ Throw(c)
          /\ UNCHANGED <<level, stats>>
    /\ UNCHANGED <<route, ops, lock, view, held, unsaved>>

\* findOne of the snapshot: the managed one, or the row.
Found(c) == IF held[c] # None THEN held[c] ELSE route[TenantOf[c]]

\* createSnapshot with targets of version v.
CreateSnapshot(c, v) ==
    LET r == [gen |-> Found(c).gen + 1, version |-> v] IN
    \/ Flushed(c, r, TRUE) /\ Advance(c)
    \/ NotFlushed(c, r, TRUE) /\ Throw(c)

\* resolveRoute: a snapshot that is not valid is refused, one that is missing or
\* expired is published anew, with the version of the control record.
ResolveRoute(c) ==
    /\ Running(c)
    /\ \/ /\ Statement(c).do = "find"
          /\ held' = [held EXCEPT ![c] =
                IF held[c] = None /\ route[TenantOf[c]].gen = 0 THEN None ELSE Found(c)]
          /\ Advance(c)
          /\ UNCHANGED <<route, unsaved>>
       \/ /\ Statement(c).do = "evaluate"
          /\ held[c] # None
          /\ Advance(c)
          /\ UNCHANGED <<route, held, unsaved>>
       \/ Statement(c).do = "evaluate" /\ CreateSnapshot(c, ControlVersion)
       \/ /\ Statement(c).do \in {"find", "evaluate"}
          /\ Failing /\ Throw(c)
          /\ UNCHANGED <<route, held, unsaved>>
    /\ UNCHANGED <<level, ops, lock, view, stats>>

\* The route is published with its version moved up, or taken back with its
\* version moved down if it is more than 1.
PublishRoute(c) ==
    LET w == Statement(c).do
        v == Found(c).version IN
    /\ Running(c)
    /\ w \in {"publish", "unpublish"}
    /\ \/ /\ w = "unpublish" => v > 1
          /\ CreateSnapshot(c, IF w = "publish" THEN v + 1 ELSE v - 1)
       \/ /\ w = "unpublish" /\ v = 1
          /\ Advance(c)
          /\ UNCHANGED <<route, held, unsaved>>
    /\ UNCHANGED <<level, ops, lock, view, stats>>

-----------------------------------------------------------------------------
ReleaseLock(c) ==
    /\ pc[c].block = "release"
    /\ lock' = [lock EXCEPT ![TenantOf[c]] = FALSE]
    /\ End(c)
    /\ UNCHANGED <<level, route, ops>>

Crash(c) ==
    /\ Crashes
    /\ Live(c)
    /\ End(c)
    /\ UNCHANGED <<level, route, ops, lock>>

\* The TTL of a lock elapses, whoever works under it: no call renews its key.
ExpireLock(t) ==
    /\ lock[t]
    /\ lock' = [lock EXCEPT ![t] = FALSE]
    /\ UNCHANGED <<level, route, ops, pc, view, held, unsaved, stats>>

\* Nothing runs.
Rest == (\A c \in Calls : ~Live(c)) /\ UNCHANGED sys

Step(c) ==
    \/ AcquireLock(c) \/ CreateOperation(c) \/ Transition(c) \/ Work(c)
    \/ ResolveRoute(c) \/ PublishRoute(c) \/ ReleaseLock(c) \/ Crash(c)

Act ==
    \/ \E c \in Calls : Step(c)
    \/ \E t \in Tenants : ExpireLock(t)
    \/ Rest

Busy(t) == {c \in Calls : Live(c) /\ TenantOf[c] = t}

\* Two calls at work with key k that no lock keeps apart: that of their tenant
\* is gone, or was, or they were made for different tenants.
Together(k) ==
    \E c, d \in Calls :
        /\ c # d /\ Live(c) /\ Live(d) /\ KeyOf[c] = k /\ KeyOf[d] = k
        /\ TenantOf[c] # TenantOf[d] \/ TenantOf[c] \in exposed

\* A tenant stays exposed until the last of the calls at work on it has ended.
Observe ==
    /\ exposed' = {t \in Tenants : Busy(t)' # {} /\ (t \in exposed \/ ~lock'[t])}
    /\ contested' = contested \cup {k \in Keys : Together(k)'}
    /\ reverted' = IF level' < level
                   THEN reverted \cup {KeyOf[c] : c \in {d \in Calls : pc'[d] # pc[d]}}
                   ELSE reverted

Next == Act /\ Observe

Spec == Init /\ [][Next]_vars

-----------------------------------------------------------------------------
\* However often a migration is retried with its key, and wherever calls fail,
\* die or lose their lock, an operation never takes back a second migration,
\* unless two calls no lock kept apart worked with its key at a time.
RevertsOncePerOperation ==
    [][\A c \in Calls :
          level' < level /\ pc'[c] # pc[c] => KeyOf[c] \notin reverted \ contested]_vars

\* Whatever failed, died or lost its lock before, and whoever retries: a call
\* reverts the schema and takes the route back only once the row of its operation
\* says ROLLBACK, even where that state was refused by the database; beside
\* another call with its key it may not.
UndoneOnlyWhenRolledBack ==
    [][\A c \in Calls :
          pc[c].block = "catch" /\ pc'[c] # pc[c] /\ (level' # level \/ route' # route) =>
              ops'[KeyOf[c]].state = "ROLLBACK" \/ KeyOf[c] \in contested]_vars

\* However migrations fail and are retried, and although a call checks its own
\* copy of the state and not the row, which may have been refused that state: a
\* key names one operation, that only moves along the table, except where two
\* calls no lock keeps apart worked with it.
Ledger == INSTANCE OperationLedger WITH ledger <- ops, contended <- contested
ImplementsLedger == Ledger!LedgerSpec

=============================================================================
