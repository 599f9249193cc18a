-------------------------- MODULE ProvisioningProofs --------------------------
(***************************************************************************)
(* Theorems about Provisioning, for any requests and tenants, with or      *)
(* without failures, crashes and outlived locks.                           *)
(***************************************************************************)
EXTENDS Provisioning, TLAPS

-----------------------------------------------------------------------------
\* The program of the saga and the table of legal moves.

\* The states an operation is in when the saga is about to run a statement:
\* nothing after the ninth is ever reached.
Reached == <<"REQUESTED", "PREPARING", "PREPARING", "PREPARING", "VALIDATING", "VALIDATING",
             "SWITCHING", "SWITCHING", "SWITCHING">>

Underway == {"REQUESTED", "PREPARING", "VALIDATING", "SWITCHING"}

LEMMA Program ==
  /\ Len(Try) = 12
  /\ Try[1] = To("PREPARING") /\ Try[2] = Do("config") /\ Try[3] = Do("schema")
  /\ Try[4] = To("VALIDATING") /\ Try[5] = Do("migrate") /\ Try[6] = To("SWITCHING")
  /\ Try[7] = Do("system_settings") /\ Try[8] = Do("tax_profiles")
  /\ Try[9] = To("MONITORING")
  BY DEF Try

LEMMA Moves ==
  /\ ~IsInvalidTransition("REQUESTED", "PREPARING")
  /\ ~IsInvalidTransition("PREPARING", "VALIDATING")
  /\ ~IsInvalidTransition("VALIDATING", "SWITCHING")
  /\ IsInvalidTransition("SWITCHING", "MONITORING")
  /\ \A s \in Underway : ~IsInvalidTransition(s, "ROLLBACK")
  BY DEF IsInvalidTransition, AllowedMoves, Underway

\* What the saga does at statement n: a legal move to the state it has reached
\* before the next one, work in the state it is in, or, at the ninth, a move
\* that is refused.
LEMMA AtStatement ==
  ASSUME NEW n \in 1..9
  PROVE  /\ Reached[n] \in Underway
         /\ Try[n].do = "transition" =>
               IF n = 9 THEN IsInvalidTransition(Reached[n], Try[n].state)
               ELSE /\ ~IsInvalidTransition(Reached[n], Try[n].state)
                    /\ Try[n].state = Reached[n + 1] /\ n < 7
         /\ Try[n].do # "transition" =>
               /\ n < 9 /\ Reached[n + 1] = Reached[n]
               /\ Try[n].do # "activate"
               /\ Try[n].do \in Seeds => Reached[n] = "SWITCHING"
  <1>1. Reached[n] \in Underway  BY DEF Reached, Underway
  <1>2. CASE n \in {1, 4, 6}  BY <1>1, <1>2, Program, Moves DEF Reached, To, Do
  <1>3. CASE n \in {2, 3, 5}  BY <1>1, <1>3, Program DEF Reached, To, Do, Seeds
  <1>4. CASE n \in {7, 8}  BY <1>1, <1>4, Program DEF Reached, To, Do, Seeds
  <1>5. CASE n = 9  BY <1>1, <1>5, Program, Moves DEF Reached, To, Do
  <1> QED  BY <1>2, <1>3, <1>4, <1>5

-----------------------------------------------------------------------------
\* The inductive invariant.

\* The request has inserted the tenant's row.
Inserted(p) == pc[p] \in {"insertControl", "lock", "operation"} \/ prov[p] # None

Owned ==
    /\ \A p \in Posts : Inserted(p) => tenant[TenantOf[p]]
    /\ \A p, q \in Posts : Inserted(p) /\ Inserted(q) /\ TenantOf[p] = TenantOf[q] => p = q

\* There is an operation exactly from the moment its saga starts.
Started == \A p \in Posts :
    /\ Saga(p) => prov[p] # None
    /\ prov[p] # None => pc[p] \in {"try", "catch", "unlock", "rejected", "done", "failed", "dead"}

\* In the try block row and copy are what the program has reached; the catch
\* block finds both where they may still be rolled back.
Following == \A p \in Posts :
    /\ pc[p] \in {"new", "insertTenant", "insertControl", "lock", "operation"} =>
          at[p] = 1 /\ view[p] = "REQUESTED"
    /\ pc[p] = "try" => at[p] \in 1..9 /\ prov[p] = Reached[at[p]] /\ view[p] = Reached[at[p]]
    /\ pc[p] = "catch" => prov[p] \in Underway /\ view[p] \in Underway

Seeded == \A r \in seeds : prov[r[1]] \in {"SWITCHING", "ROLLBACK"}

\* Nobody moves the operation of a status query, and nobody activates a tenant.
Queries == \A t \in Tenants : query[t] \in {"REQUESTED", None}

NeverActive == \A t \in Tenants : control[t] # "ACTIVE"

IInv == TypeOK /\ Owned /\ Started /\ Following /\ Seeded /\ Queries /\ NeverActive

LEMMA InitIInv == Init => IInv
  <1> SUFFICES ASSUME Init PROVE IInv  OBVIOUS
  <1> USE DEF Init
  <1>1. TypeOK  BY PostsAssumption, Program DEF TypeOK, Stage, OperationState
  <1>2. Owned /\ Started /\ Following  BY DEF Owned, Inserted, Started, Saga, Following
  <1>3. Seeded /\ Queries /\ NeverActive  BY DEF Seeded, Queries, NeverActive
  <1> QED  BY <1>1, <1>2, <1>3 DEF IInv

-----------------------------------------------------------------------------
\* The statements of the request.

LEMMA RequestStep ==
  ASSUME IInv, NEW p \in Posts,
         \/ FindTenant(p) \/ InsertTenant(p) \/ InsertControl(p) \/ TakeLock(p)
         \/ CreateOperation(p) \/ Refuse(p)
  PROVE  IInv'
  <1> USE PostsAssumption DEF IInv, Goto
  <1> TenantOf[p] \in Tenants  OBVIOUS
  <1> pc[p] \in Stage  BY DEF TypeOK
  <1>1. TypeOK'
    BY DEF TypeOK, Stage, OperationState,
           FindTenant, InsertTenant, InsertControl, TakeLock, CreateOperation, Refuse
  <1>2. Owned'
    <2>1. CASE InsertTenant(p) /\ ~tenant[TenantOf[p]]
      BY <2>1, NoneAssumption DEF InsertTenant, Owned, Inserted, TypeOK
    <2>2. CASE CreateOperation(p)
      BY <2>2 DEF CreateOperation, Owned, Inserted, TypeOK
    <2>3. CASE FindTenant(p) \/ (InsertTenant(p) /\ tenant[TenantOf[p]])
      <3>0. tenant[TenantOf[p]] => [tenant EXCEPT ![TenantOf[p]] = TRUE] = tenant
        BY DEF TypeOK
      <3>1. /\ tenant' = tenant /\ prov' = prov
            /\ \E s \in {"insertTenant", "done"} : pc' = [pc EXCEPT ![p] = s]
        BY <2>3, <3>0 DEF FindTenant, InsertTenant
      <3> QED  BY <3>1 DEF Owned, Inserted, TypeOK
    <2>4. CASE InsertControl(p) \/ TakeLock(p) \/ Refuse(p)
      <3>1. tenant' = tenant /\ prov' = prov
        BY <2>4 DEF InsertControl, TakeLock, Refuse
      <3>2. \/ pc[p] \in {"insertControl", "lock"}
               /\ \E s \in {"lock", "operation", "done"} : pc' = [pc EXCEPT ![p] = s]
            \/ \E s \in {"done", "failed"} : pc' = [pc EXCEPT ![p] = s]
        BY <2>4 DEF InsertControl, TakeLock, Refuse
      <3>3. \A q \in Posts : Inserted(q)' => Inserted(q)
        BY <3>1, <3>2 DEF Inserted, TypeOK
      <3> QED  BY <3>1, <3>3 DEF Owned
    <2> QED  BY <2>1, <2>2, <2>3, <2>4
  <1>3. Started' /\ Following'
    <2>1. CASE CreateOperation(p)
      <3>1. /\ pc' = [pc EXCEPT ![p] = "try"] /\ prov' = [prov EXCEPT ![p] = "REQUESTED"]
            /\ at' = at /\ view' = view /\ pc[p] = "operation"
        BY <2>1 DEF CreateOperation
      <3>2. at[p] = 1 /\ view[p] = "REQUESTED" /\ Reached[1] = "REQUESTED"
        BY <3>1 DEF Following, Reached
      <3>3. Started'
        BY <3>1, NoneAssumption DEF Started, Saga, TypeOK, OperationState
      <3>4. Following'
        BY <3>1, <3>2 DEF Following, TypeOK
      <3> QED  BY <3>3, <3>4
    <2>2. CASE ~CreateOperation(p)
      <3>1. /\ prov' = prov /\ at' = at /\ view' = view
            /\ pc[p] \in {"new", "insertTenant", "insertControl", "lock", "operation"}
            /\ \E s \in {"insertTenant", "insertControl", "lock", "operation", "done", "failed"} :
                  pc' = [pc EXCEPT ![p] = s]
        BY <2>2 DEF FindTenant, InsertTenant, InsertControl, TakeLock, Refuse
      <3> QED  BY <3>1 DEF Started, Following, Saga, TypeOK
    <2> QED  BY <2>1, <2>2
  <1>4. Seeded'
    <2>1. \A r \in seeds : r[1] # p /\ r[1] \in Posts
      <3> SUFFICES ASSUME NEW r \in seeds PROVE r[1] # p /\ r[1] \in Posts  OBVIOUS
      <3>1. r[1] \in Posts /\ prov[r[1]] \in {"SWITCHING", "ROLLBACK"}
        BY DEF TypeOK, Seeded
      <3>2. prov[p] = None
        BY DEF Started, FindTenant, InsertTenant, InsertControl, TakeLock, CreateOperation, Refuse
      <3> QED  BY <3>1, <3>2, NoneAssumption DEF OperationState
    <2>2. seeds' = seeds /\ \A q \in Posts : q # p => prov'[q] = prov[q]
      BY DEF FindTenant, InsertTenant, InsertControl, TakeLock, CreateOperation, Refuse, TypeOK
    <2> QED  BY <2>1, <2>2 DEF Seeded
  <1>5. Queries' /\ NeverActive'
    BY DEF Queries, NeverActive, TypeOK,
           FindTenant, InsertTenant, InsertControl, TakeLock, CreateOperation, Refuse
  <1> QED  BY <1>1, <1>2, <1>3, <1>4, <1>5

-----------------------------------------------------------------------------
\* The statements of the saga.

LEMMA TransitionStep ==
  ASSUME IInv, NEW p \in Posts, Transition(p)
  PROVE  IInv'
  <1> USE DEF IInv
  <1> DEFINE n == at[p]
             s == Try[n].state
  <1>1. pc[p] = "try" /\ Try[n].do = "transition" /\ n \in 1..9
        /\ prov[p] = Reached[n] /\ view[p] = Reached[n]
    BY DEF Transition, Following
  <1>2. UNCHANGED <<tenant, control, lock, query, seeds>>  BY DEF Transition
  <1>3. CASE n = 9
    <2>1. IsInvalidTransition(view[p], s) /\ view[p] \in Underway
      BY <1>1, <1>3, AtStatement
    <2>2. pc' = [pc EXCEPT ![p] = "catch"] /\ UNCHANGED <<prov, at, view>>
      BY <2>1 DEF Transition, Goto
    <2> QED
      BY <1>1, <1>2, <2>1, <2>2 DEF TypeOK, Stage, Owned, Inserted, Started, Saga, Following, Seeded,
                               Queries, NeverActive
  <1>4. CASE n # 9
    <2>1. /\ ~IsInvalidTransition(view[p], s) /\ s = Reached[n + 1] /\ n < 7
          /\ view[p] \in Underway /\ s \in Underway
      <3>1. ~IsInvalidTransition(view[p], s) /\ s = Reached[n + 1] /\ n < 7 /\ view[p] \in Underway
        BY <1>1, <1>4, AtStatement
      <3>2. n + 1 \in 1..9  BY <1>1, <3>1
      <3> QED  BY <3>1, <3>2, AtStatement
    <2>2. prov[p] # "SWITCHING" /\ prov[p] # "ROLLBACK"
      BY <1>1, <2>1 DEF Reached
    <2>3. \A r \in seeds : r[1] # p  BY <2>2 DEF Seeded
    <2>4. CASE /\ prov' = [prov EXCEPT ![p] = s] /\ view' = [view EXCEPT ![p] = s]
               /\ pc' = pc /\ at' = [at EXCEPT ![p] = n + 1]
      <3>1. s \in OperationState /\ s # None
        BY <2>1, NoneAssumption DEF Underway, OperationState
      <3>2. n + 1 \in 1..Len(Try)  BY <1>1, <2>1, Program
      <3>3. TypeOK'  BY <1>2, <2>4, <3>1, <3>2 DEF TypeOK
      <3>4. Owned' /\ Started'
        BY <1>1, <1>2, <2>4, <3>1, NoneAssumption DEF Owned, Inserted, Started, Saga, TypeOK
      <3>5. Following'  BY <1>1, <2>1, <2>4 DEF Following, TypeOK
      <3>6. Seeded'  BY <1>2, <2>3, <2>4 DEF Seeded, TypeOK
      <3>7. Queries' /\ NeverActive'  BY <1>2 DEF Queries, NeverActive
      <3> QED  BY <3>3, <3>4, <3>5, <3>6, <3>7
    <2>5. CASE /\ view' = [view EXCEPT ![p] = s] /\ pc' = [pc EXCEPT ![p] = "catch"]
               /\ UNCHANGED <<prov, at>>
      <3>1. s \in OperationState  BY <2>1 DEF Underway, OperationState
      <3>2. prov[p] \in Underway  BY <1>1, <2>1
      <3>3. TypeOK'  BY <1>2, <2>5, <3>1 DEF TypeOK, Stage
      <3>4. Owned' /\ Started'  BY <1>1, <1>2, <2>5 DEF Owned, Inserted, Started, Saga, TypeOK
      <3>5. Following'  BY <2>1, <2>5, <3>2 DEF Following, TypeOK
      <3>6. Seeded' /\ Queries' /\ NeverActive'  BY <1>2, <2>5 DEF Seeded, Queries, NeverActive
      <3> QED  BY <3>3, <3>4, <3>5, <3>6
    <2>6. n # Len(Try)  BY <2>1, Program, <1>1
    <2> QED  BY <2>1, <2>4, <2>5, <2>6 DEF Transition, Advance, Goto, TypeOK
  <1> QED  BY <1>3, <1>4

LEMMA WorkStep ==
  ASSUME IInv, NEW p \in Posts, Work(p)
  PROVE  IInv'
  <1> USE DEF IInv
  <1> DEFINE n == at[p]
             w == Try[n].do
  <1>1. /\ pc[p] = "try" /\ w # "transition" /\ n \in 1..9
        /\ prov[p] = Reached[n] /\ view[p] = Reached[n]
    BY DEF Work, Following
  <1>2. n < 9 /\ Reached[n + 1] = Reached[n] /\ w # "activate" /\ (w \in Seeds => prov[p] = "SWITCHING")
    BY <1>1, AtStatement
  <1>3. /\ UNCHANGED <<tenant, control, lock, prov, query, view, pc>>
        /\ at' = [at EXCEPT ![p] = n + 1]
        /\ seeds' = IF w \in Seeds THEN seeds \cup {<<p, w>>} ELSE seeds
    <2>1. n # Len(Try)  BY <1>1, <1>2, Program
    <2> QED  BY <1>2, <2>1 DEF Work, Advance, TypeOK
  <1>4. n + 1 \in 1..9 /\ n + 1 \in 1..Len(Try)  BY <1>1, <1>2, Program
  <1>5. TypeOK'  BY <1>3, <1>4 DEF TypeOK
  <1>6. Owned' /\ Started' /\ Queries' /\ NeverActive'
    BY <1>3 DEF Owned, Inserted, Started, Saga, Queries, NeverActive
  <1>7. Following'  BY <1>1, <1>2, <1>3, <1>4 DEF Following, TypeOK
  <1>8. Seeded'  BY <1>2, <1>3 DEF Seeded
  <1> QED  BY <1>5, <1>6, <1>7, <1>8

LEMMA CatchStep ==
  ASSUME IInv, NEW p \in Posts, RollBack(p)
  PROVE  IInv'
  <1> USE DEF IInv
  <1>1. view[p] \in Underway /\ pc[p] = "catch"  BY DEF RollBack, Following
  <1>2. /\ prov' = [prov EXCEPT ![p] = "ROLLBACK"] /\ pc' = [pc EXCEPT ![p] = "unlock"]
        /\ UNCHANGED <<tenant, control, lock, query, seeds, at, view>>
    BY <1>1, Moves DEF RollBack, Goto
  <1>3. "ROLLBACK" \in OperationState /\ "ROLLBACK" # None
    BY NoneAssumption DEF OperationState
  <1>4. TypeOK'  BY <1>2, <1>3 DEF TypeOK, Stage
  <1>5. Owned' /\ Started'
    BY <1>1, <1>2, <1>3 DEF Owned, Inserted, Started, Saga, TypeOK
  <1>6. Following'  BY <1>2 DEF Following, TypeOK
  <1>7. Seeded' /\ Queries' /\ NeverActive'  BY <1>2 DEF Seeded, Queries, NeverActive, TypeOK
  <1> QED  BY <1>4, <1>5, <1>6, <1>7

\* Statements that throw, the last one, and the death of the process.
LEMMA EndStep ==
  ASSUME IInv, NEW p \in Posts,
         \/ WorkThrows(p) \/ RollBackRefused(p) \/ Unlock(p) \/ UnlockRefused(p) \/ Crash(p)
  PROVE  IInv'
  <1> USE PostsAssumption DEF IInv, Goto
  <1>1. /\ UNCHANGED <<tenant, control, prov, query, seeds, at, view>>
        /\ lock' \in [Tenants -> BOOLEAN]
    BY DEF WorkThrows, RollBackRefused, Unlock, UnlockRefused, Crash, TypeOK
  <1>2. \/ pc[p] = "try" /\ pc' = [pc EXCEPT ![p] = "catch"]
        \/ pc[p] \in {"catch", "unlock", "rejected"} /\ \E s \in {"rejected", "done", "failed"} : pc' = [pc EXCEPT ![p] = s]
        \/ pc' = [pc EXCEPT ![p] = "dead"]
    BY DEF WorkThrows, RollBackRefused, Unlock, UnlockRefused, Crash
  <1>3. pc[p] = "try" => prov[p] \in Underway /\ view[p] \in Underway
    BY AtStatement DEF Following
  <1>4. TypeOK'  BY <1>1, <1>2 DEF TypeOK, Stage
  <1>5. Owned' /\ Started'
    <2>1. \A q \in Posts : Inserted(q)' => Inserted(q)
      BY <1>1, <1>2 DEF Inserted, TypeOK
    <2>2. Owned'  BY <1>1, <2>1 DEF Owned
    <2>3. PICK s \in {"catch", "rejected", "done", "failed", "dead"} :
             /\ pc' = [pc EXCEPT ![p] = s]
             /\ s # "dead" => Saga(p)
      BY <1>2 DEF Saga
    <2>4. pc'[p] = s /\ \A q \in Posts : q # p => pc'[q] = pc[q]
      BY <2>3 DEF TypeOK
    <2>5. (Saga(p)' => prov'[p] # None)
      BY <1>1, <2>3, <2>4 DEF Started, Saga
    <2>6. \A q \in Posts : q # p => (Saga(q)' <=> Saga(q))  BY <2>4 DEF Saga
    <2>7. Started'
      BY <1>1, <2>3, <2>4, <2>5, <2>6 DEF Started
    <2> QED  BY <2>2, <2>7
  <1>6. Following'  BY <1>1, <1>2, <1>3 DEF Following, TypeOK
  <1>7. Seeded' /\ Queries' /\ NeverActive'  BY <1>1 DEF Seeded, Queries, NeverActive
  <1> QED  BY <1>4, <1>5, <1>6, <1>7

\* Redis, and those who ask for the status.
LEMMA OtherStep ==
  ASSUME IInv, NEW t \in Tenants, ExpireLock(t) \/ AskStatus(t)
  PROVE  IInv'
  <1> USE DEF IInv
  <1>1. /\ UNCHANGED <<tenant, control, prov, seeds, pc, at, view>>
        /\ lock' \in [Tenants -> BOOLEAN]
    BY DEF ExpireLock, AskStatus, TypeOK
  <1>2. query' \in [Tenants -> {"REQUESTED", None}]
    BY DEF ExpireLock, AskStatus, Queries, TypeOK
  <1>4. TypeOK'  BY <1>1, <1>2 DEF TypeOK, OperationState
  <1>5. Owned' /\ Started' /\ Following' /\ Seeded' /\ NeverActive'
    BY <1>1 DEF Owned, Inserted, Started, Saga, Following, Seeded, NeverActive
  <1>6. Queries'  BY <1>2 DEF Queries
  <1> QED  BY <1>4, <1>5, <1>6

LEMMA StepIInv == IInv /\ [Next]_vars => IInv'
  <1> SUFFICES ASSUME IInv, [Next]_vars PROVE IInv'  OBVIOUS
  <1>1. CASE UNCHANGED vars
    BY <1>1 DEF vars, IInv, TypeOK, Owned, Inserted, Started, Saga, Following, Seeded, Queries,
                NeverActive
  <1>2. CASE Next
    BY <1>2, RequestStep, TransitionStep, WorkStep, CatchStep, EndStep, OtherStep
       DEF Next, Step, Fault
  <1> QED  BY <1>1, <1>2

-----------------------------------------------------------------------------
\* The rows follow the ledger.

LEMMA RowsOfPost ==
  ASSUME TypeOK, NEW p \in Posts, NEW s \in OperationState,
         prov' = [prov EXCEPT ![p] = s], query' = query
  PROVE  Rows' = [Rows EXCEPT ![p] = [tenant |-> TenantOf[p], state |-> s]]
  BY NoneAssumption DEF Rows, RowOf, TypeOK

LEMMA MoveOfPost ==
  ASSUME TypeOK, NEW p \in Posts, NEW s \in OperationState, prov[p] # None,
         ~IsInvalidTransition(prov[p], s), prov' = [prov EXCEPT ![p] = s], query' = query
  PROVE  Ledger!LedgerNext
  <1> DEFINE row == [tenant |-> TenantOf[p], state |-> prov[p]]
  <1>1. Rows[p] = row  BY DEF Rows, RowOf
  <1>2. Rows' = [Rows EXCEPT ![p] = [tenant |-> TenantOf[p], state |-> s]]  BY RowsOfPost
  <1>3. row # None
    <2>1. prov[p] \in OperationState  BY DEF TypeOK
    <2>2. TenantOf[p] \in Tenants  BY PostsAssumption
    <2>3. row \in [tenant : Tenants, state : OperationState]  BY <2>1, <2>2
    <2> QED  BY <2>3, NoneAssumption
  <1>4. [row EXCEPT !.state = s] = [tenant |-> TenantOf[p], state |-> s]  OBVIOUS
  <1>5. Rows' = [Rows EXCEPT ![p].state = s]
    <2> HIDE DEF row
    <2>1. [Rows EXCEPT ![p].state = s] = [Rows EXCEPT ![p] = [Rows[p] EXCEPT !.state = s]]
      OBVIOUS
    <2> QED  BY <1>1, <1>2, <1>4, <2>1
  <1>6. ~Ledger!IsInvalidTransition(Rows[p].state, s)
    BY <1>1 DEF Ledger!IsInvalidTransition, Ledger!AllowedMoves, IsInvalidTransition, AllowedMoves
  <1>7. Ledger!Advance(p)
    BY <1>1, <1>3, <1>5, <1>6 DEF Ledger!Advance, Ledger!OperationState, OperationState
  <1> QED  BY <1>7 DEF Ledger!LedgerNext

LEMMA LedgerStep == IInv /\ [Next]_vars => [Ledger!LedgerNext]_Rows
  <1> SUFFICES ASSUME IInv, [Next]_vars PROVE Ledger!LedgerNext \/ Rows' = Rows
    OBVIOUS
  <1> DEFINE Goal == Ledger!LedgerNext \/ Rows' = Rows
  <1>1. ASSUME prov' = prov, query' = query PROVE Goal
    BY <1>1 DEF Rows, RowOf
  <1>2. ASSUME NEW p \in Posts, CreateOperation(p) PROVE Goal
    <2>1. prov[p] = None /\ prov' = [prov EXCEPT ![p] = "REQUESTED"] /\ query' = query
      BY <1>2 DEF CreateOperation, IInv, Started
    <2>2. Rows[p] = None  BY <2>1 DEF Rows, RowOf
    <2>3. Rows' = [Rows EXCEPT ![p] = [tenant |-> TenantOf[p], state |-> "REQUESTED"]]
      BY <2>1, RowsOfPost DEF IInv, OperationState
    <2>4. Ledger!Open(p)
      BY <2>2, <2>3, PostsAssumption DEF Ledger!Open
    <2> QED  BY <2>4 DEF Ledger!LedgerNext
  <1>3. ASSUME NEW p \in Posts, Transition(p) PROVE Goal
    <2>1. CASE UNCHANGED <<prov, query>>  BY <1>1, <2>1
    <2>2. CASE ~UNCHANGED <<prov, query>>
      <3> DEFINE s == Try[at[p]].state
      <3>1. /\ pc[p] = "try" /\ Try[at[p]].do = "transition" /\ ~IsInvalidTransition(view[p], s)
            /\ prov' = [prov EXCEPT ![p] = s] /\ query' = query
        BY <1>3, <2>2 DEF Transition
      <3>2. at[p] \in 1..9 /\ prov[p] = Reached[at[p]] /\ view[p] = prov[p]
        BY <3>1 DEF IInv, Following
      <3>3. prov[p] \in Underway  BY <3>2, AtStatement
      <3>4. prov[p] # None  BY <3>3, NoneAssumption DEF Underway, OperationState
      <3> HIDE DEF s
      <3>5. s \in OperationState
        BY <3>1 DEF IsInvalidTransition, AllowedMoves, OperationState
      <3> QED  BY <3>1, <3>2, <3>4, <3>5, MoveOfPost DEF IInv
    <2> QED  BY <2>1, <2>2
  <1>4. ASSUME NEW p \in Posts, RollBack(p) PROVE Goal
    <2>1. prov[p] \in Underway /\ view[p] \in Underway
      BY <1>4 DEF RollBack, IInv, Following
    <2>2. prov' = [prov EXCEPT ![p] = "ROLLBACK"] /\ query' = query
      BY <1>4, <2>1, Moves DEF RollBack
    <2>3. prov[p] # None /\ "ROLLBACK" \in OperationState
      BY <2>1, NoneAssumption DEF Underway, OperationState
    <2> QED  BY <2>1, <2>2, <2>3, Moves, MoveOfPost DEF IInv
  <1>5. ASSUME NEW t \in Tenants, AskStatus(t) PROVE Goal
    <2>1. prov' = prov /\ query' = [query EXCEPT ![t] = "REQUESTED"]
      BY <1>5 DEF AskStatus, IInv, Queries
    <2>2. t \notin Posts  BY KeysAssumption
    <2>3. CASE query[t] = None
      <3>1. Rows[t] = None  BY <2>2, <2>3 DEF Rows, RowOf
      <3>2. Rows' = [Rows EXCEPT ![t] = [tenant |-> t, state |-> "REQUESTED"]]
        BY <2>1, <2>2, NoneAssumption DEF Rows, RowOf, IInv, TypeOK, OperationState
      <3>3. Ledger!Open(t)  BY <3>1, <3>2 DEF Ledger!Open
      <3> QED  BY <3>3 DEF Ledger!LedgerNext
    <2>4. CASE query[t] # None
      <3>1. query' = query  BY <2>1, <2>4 DEF IInv, Queries, TypeOK
      <3> QED  BY <1>1, <2>1, <3>1
    <2> QED  BY <2>3, <2>4
  <1>6. CASE Next
    <2>1. \/ UNCHANGED <<prov, query>>
          \/ \E p \in Posts : CreateOperation(p) \/ Transition(p) \/ RollBack(p)
          \/ \E t \in Tenants : AskStatus(t)
      BY <1>6 DEF Next, Step, Fault, FindTenant, InsertTenant, InsertControl, TakeLock, Refuse,
                  Work, WorkThrows, RollBackRefused, Unlock, UnlockRefused, Crash, ExpireLock
    <2> QED  BY <1>1, <1>2, <1>3, <1>4, <1>5, <2>1
  <1>7. CASE UNCHANGED vars  BY <1>1, <1>7 DEF vars
  <1> QED  BY <1>6, <1>7

-----------------------------------------------------------------------------
\* The theorems.

\* The variables keep their types: everything createTenant, startProvisioning,
\* its saga and getStatus store, whatever fails.
THEOREM ProvisioningTypeCorrect == Spec => []TypeOK
  <1>1. IInv => TypeOK  BY DEF IInv
  <1> QED  BY <1>1, InitIInv, StepIInv, PTL DEF Spec

\* The primary key of tenants lets one request of createTenant through, and
\* only that one comes to startProvisioning: a tenant has one operation.
THEOREM OneProvisioning == Spec => []ProvisionedOnce
  <1>1. IInv => ProvisionedOnce  BY DEF IInv, Owned, Inserted, ProvisionedOnce
  <1> QED  BY <1>1, InitIInv, StepIInv, PTL DEF Spec

\* seedTenantData's rows are stored only under an operation whose row says
\* SWITCHING, and stay when it is rolled back.
THEOREM SeededInOrder == Spec => []SeededAfterSwitching
  <1>1. IInv => SeededAfterSwitching  BY DEF IInv, Seeded, SeededAfterSwitching
  <1> QED  BY <1>1, InitIInv, StepIInv, PTL DEF Spec

\* The operations of createTenant's requests and of getStatus implement the
\* ledger: one operation to a key, which only moves along the table.
THEOREM LedgerImplemented == Spec => ImplementsLedger
  <1>1. Init => Ledger!LedgerInit
    BY DEF Init, Rows, RowOf, Ledger!LedgerInit
  <1> QED  BY <1>1, InitIInv, StepIInv, LedgerStep, PTL DEF Spec, ImplementsLedger, Ledger!LedgerSpec

\* The saga never gets past its transition to MONITORING, which the table
\* does not allow after SWITCHING: no tenant is ever activated by it.
THEOREM NeverActivated == Spec => []NeverActive
  <1>1. IInv => NeverActive  BY DEF IInv
  <1> QED  BY <1>1, InitIInv, StepIInv, PTL DEF Spec

=============================================================================
