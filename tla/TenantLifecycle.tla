--------------------------- MODULE TenantLifecycle ---------------------------
(***************************************************************************)
(* The life of one tenant (TenantService, libs/kernel/tenant) and the      *)
(* writes made for it meanwhile: administrators create, activate, suspend, *)
(* terminate, hold, purge and reopen it; writers send it HTTP requests,    *)
(* admitted by TenantRlsInterceptor and checked again, when their rows are *)
(* flushed, by TenantModelSubscriber.                                      *)
(*                                                                         *)
(* One step is one statement sent to the database, or one transaction.     *)
(* Every call and every request has its own identity map, so a control     *)
(* record it has loaded is not loaded again: that copy is what it checks   *)
(* and changes.  The record has a version column, which UPDATE compares.   *)
(***************************************************************************)
EXTENDS Naturals

CONSTANTS
    Admins,      \* concurrent administrator calls
    Writers,     \* write requests; each leaves one row
    Actions,     \* what administrators do
    Modes,       \* where the tenant may be kept
    None,        \* absence of a row
    MaxVersion,  \* bound: administrators start calls below this version
    Failures     \* may a call die, or the database refuse a statement?

Status == {"PROVISIONING", "ACTIVE", "DEGRADED", "SUSPENDED", "ARCHIVED", "LEGAL_HOLD", "PURGED"}
Action == {"create", "activate", "suspend", "terminate", "legalHold", "purge", "reopen"}

\* A row of tenant_control_records, as far as the lifecycle uses it.
Control == [status : Status, frozen : BOOLEAN, version : Nat \ {0}]

ASSUME ModesAssumption == Modes \subseteq {"SHARED", "SCHEMA", "DATABASE"}
ASSUME ActionsAssumption == Actions \subseteq Action
ASSUME ActorsAssumption == Admins \cap Writers = {}
ASSUME BoundsAssumption == MaxVersion \in Nat /\ Failures \in BOOLEAN
ASSUME NoneAssumption == None \notin Control

VARIABLES
    tenant,   \* does the tenant's row exist?
    mode,     \* its mode
    control,  \* the control record, or None
    rows,     \* the writers whose rows are stored, in the schema all tenants share
    store,    \* does the tenant's own schema or database exist?
    pc,       \* admin or writer -> the statement it is about to run
    act,      \* admin -> the action of its call
    copy      \* admin or writer -> its managed control record, or None

vars == <<tenant, mode, control, rows, store, pc, act, copy>>

Stage == {"idle", "find", "insertTenant", "insertControl", "load", "delete", "deleteRows",
          "deleteControl", "flush", "handle", "commit"}

TypeOK ==
    /\ tenant \in BOOLEAN /\ store \in BOOLEAN /\ mode \in Modes
    /\ control \in Control \cup {None}
    /\ rows \subseteq Writers
    /\ pc \in [Admins \cup Writers -> Stage]
    /\ act \in [Admins -> Action]
    /\ copy \in [Admins \cup Writers -> Control \cup {None}]

Init ==
    /\ tenant = FALSE
    /\ mode \in Modes
    /\ control = None
    /\ rows = {}
    /\ store = TRUE
    /\ pc = [p \in Admins \cup Writers |-> "idle"]
    /\ act \in [Admins -> {"create"}]
    /\ copy = [p \in Admins \cup Writers |-> None]

Goto(p, s) == pc' = [pc EXCEPT ![p] = s]

\* A call ends, or dies, or throws: its identity map is gone.
End(p) == Goto(p, "idle") /\ copy' = [copy EXCEPT ![p] = None]

-----------------------------------------------------------------------------
\* An administrator calls one of the lifecycle operations.
Begin(a) ==
    /\ pc[a] = "idle"
    /\ control # None => control.version < MaxVersion
    /\ \E x \in Actions :
          /\ act' = [act EXCEPT ![a] = x]
          /\ Goto(a, IF x = "create" THEN "find" ELSE "load")
    /\ UNCHANGED <<tenant, mode, control, rows, store, copy>>

\* createTenant: the tenant must be unknown; then its row is inserted by one
\* flush and its control record by another.
FindTenant(a) ==
    /\ pc[a] = "find"
    /\ IF tenant THEN End(a) ELSE Goto(a, "insertTenant") /\ UNCHANGED copy
    /\ UNCHANGED <<tenant, mode, control, rows, store, act>>

InsertTenant(a) ==
    /\ pc[a] = "insertTenant"
    /\ IF tenant THEN End(a) ELSE Goto(a, "insertControl") /\ UNCHANGED copy
    /\ tenant' = TRUE
    /\ UNCHANGED <<mode, control, rows, store, act>>

InsertControl(a) ==
    /\ pc[a] = "insertControl"
    /\ control' = IF control = None
                  THEN [status |-> "PROVISIONING", frozen |-> FALSE, version |-> 1]
                  ELSE control
    /\ End(a)
    /\ UNCHANGED <<tenant, mode, rows, store, act>>

-----------------------------------------------------------------------------
\* What the actions want of the record they load.
Permitted(x, r) ==
    /\ x = "purge" => r.status = "ARCHIVED"
    /\ x = "reopen" => r.status # "PURGED"

\* findOneOrFail(TenantControlRecord).  Purge deletes first.
LoadControl(a) ==
    /\ pc[a] = "load"
    /\ IF control # None /\ Permitted(act[a], control)
       THEN /\ copy' = [copy EXCEPT ![a] = control]
            /\ Goto(a, IF act[a] = "purge" THEN "delete" ELSE "flush")
       ELSE End(a)
    /\ UNCHANGED <<tenant, mode, control, rows, store, act>>

\* purgeTenant, SHARED: deletes the tenant's rows from every table that has a
\* tenant_id, in any order; tenant_control_records is one of these tables.  The
\* statements go to the connection and not to the transaction they are written
\* in, so each commits on its own.
DeleteRows(a) ==
    /\ pc[a] \in {"delete", "deleteRows"}
    /\ mode = "SHARED"
    /\ rows' = {}
    /\ Goto(a, IF pc[a] = "delete" THEN "deleteControl" ELSE "flush")
    /\ UNCHANGED <<tenant, mode, control, store, act, copy>>

DeleteControl(a) ==
    /\ pc[a] \in {"delete", "deleteControl"}
    /\ mode = "SHARED"
    /\ control' = None
    /\ Goto(a, IF pc[a] = "delete" THEN "deleteRows" ELSE "flush")
    /\ UNCHANGED <<tenant, mode, rows, store, act, copy>>

\* purgeTenant, SCHEMA and DATABASE: what is deleted and dropped is the tenant's
\* schema or database; requests never write there, since nothing selects the
\* schema and fork() takes no connectionString.
DropStore(a) ==
    /\ pc[a] = "delete"
    /\ mode # "SHARED"
    /\ store' = FALSE
    /\ Goto(a, "flush")
    /\ UNCHANGED <<tenant, mode, control, rows, act, copy>>

\* The record with the status of action x; termination and legal hold freeze
\* writes, nothing here unfreezes them.
Changed(x, r) ==
    LET status == [activate |-> "ACTIVE", suspend |-> "SUSPENDED", terminate |-> "ARCHIVED",
                   legalHold |-> "LEGAL_HOLD", purge |-> "PURGED", reopen |-> "ACTIVE"] IN
    [status  |-> status[x],
     frozen  |-> r.frozen \/ x \in {"terminate", "legalHold"},
     version |-> r.version + 1]

\* Mutant: no version column.
FlushStatusUnversioned(a) ==
    /\ pc[a] = "flush"
    /\ control' = IF control # None THEN Changed(act[a], copy[a]) ELSE control
    /\ End(a)
    /\ UNCHANGED <<tenant, mode, rows, store, act>>

\* updateTenantStatus: UPDATE ... WHERE version = the version that was loaded;
\* an OptimisticLockError ends the call.
FlushStatus(a) ==
    /\ pc[a] = "flush"
    /\ control' = IF control # None /\ control.version = copy[a].version
                  THEN Changed(act[a], copy[a])
                  ELSE control
    /\ End(a)
    /\ UNCHANGED <<tenant, mode, rows, store, act>>

\* The call dies, or a statement of it fails, between two steps.
Abort(p) ==
    /\ Failures
    /\ pc[p] # "idle"
    /\ End(p)
    /\ UNCHANGED <<tenant, mode, control, rows, store, act>>

-----------------------------------------------------------------------------
AllowsWrites(r) == r.status \in {"ACTIVE", "DEGRADED"} /\ ~r.frozen

\* TenantRlsInterceptor: a tenant without a control record is let through.
Admit(w) ==
    /\ pc[w] = "idle"
    /\ w \notin rows
    /\ tenant
    /\ control # None => AllowsWrites(control)
    /\ Goto(w, "handle")
    /\ copy' = [copy EXCEPT ![w] = control]
    /\ UNCHANGED <<tenant, mode, control, rows, store, act>>

\* TenantModelSubscriber, before the row is written: the copy of the request if
\* it has one, but in DATABASE mode the request runs in a clean fork; here a
\* tenant without a control record is refused.
Recheck(w) ==
    LET r == IF mode = "DATABASE" \/ copy[w] = None THEN control ELSE copy[w] IN
    /\ pc[w] = "handle"
    /\ IF r # None /\ AllowsWrites(r) THEN Goto(w, "commit") /\ UNCHANGED copy ELSE End(w)
    /\ UNCHANGED <<tenant, mode, control, rows, store, act>>

\* The transaction commits.
Commit(w) ==
    /\ pc[w] = "commit"
    /\ rows' = rows \cup {w}
    /\ End(w)
    /\ UNCHANGED <<tenant, mode, control, store, act>>

Next ==
    \/ \E a \in Admins : \/ Begin(a)
                         \/ FindTenant(a) \/ InsertTenant(a) \/ InsertControl(a)
                         \/ LoadControl(a) \/ DeleteRows(a) \/ DeleteControl(a) \/ DropStore(a)
                         \/ FlushStatus(a)
    \/ \E w \in Writers : Admit(w) \/ Recheck(w) \/ Commit(w)
    \/ \E p \in Admins \cup Writers : Abort(p)

Spec == Init /\ [][Next]_vars

-----------------------------------------------------------------------------
\* What a call checked when it loaded the control record still holds when its
\* UPDATE goes through, whatever other calls did in between: a reopening never
\* brings back a tenant that was purged meanwhile, and a purge never marks one
\* that was reopened or put on legal hold meanwhile.
ChecksStillHold ==
    [][\A a \in Admins :
          pc[a] = "flush" /\ pc'[a] # pc[a] /\ control' # control =>
              Permitted(act[a], control)]_vars

\* Data of a tenant is never destroyed while its control record says it is open
\* or on hold: "must be ARCHIVED before purging".
OnlyArchivedIsDeleted ==
    [][(rows \ rows' # {} \/ store' # store) /\ control # None => control.status = "ARCHIVED"]_vars

=============================================================================
