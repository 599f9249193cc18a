------------------------ MODULE TenantLifecycleProofs ------------------------
(***************************************************************************)
(* Machine-checked proofs about TenantLifecycle, for any number of         *)
(* administrators and writers and with calls dying anywhere: what the      *)
(* version column of the control record guarantees although each call      *)
(* checks a copy of it.                                                    *)
(***************************************************************************)
EXTENDS TenantLifecycle, TLAPS

\* What a lifecycle action makes of a control record is a control record.
LEMMA ChangedIsControl ==
    ASSUME NEW x \in Action \ {"create"}, NEW r \in Control
    PROVE  Changed(x, r) \in Control /\ Changed(x, r).version = r.version + 1
<1>1. CASE x = "activate"
  BY <1>1 DEF Changed, Control, Status, Action
<1>2. CASE x = "suspend"
  BY <1>2 DEF Changed, Control, Status, Action
<1>3. CASE x = "terminate"
  BY <1>3 DEF Changed, Control, Status, Action
<1>4. CASE x = "legalHold"
  BY <1>4 DEF Changed, Control, Status, Action
<1>5. CASE x = "purge"
  BY <1>5 DEF Changed, Control, Status, Action
<1>6. CASE x = "reopen"
  BY <1>6 DEF Changed, Control, Status, Action
<1>. QED
  BY <1>1, <1>2, <1>3, <1>4, <1>5, <1>6 DEF Action

-----------------------------------------------------------------------------
\* Statements of a call that has loaded the control record.
Holding == {"delete", "deleteRows", "deleteControl", "flush"}

\* A call that holds a copy has checked it.
Checked ==
    \A a \in Admins :
        /\ pc[a] \in Holding => /\ copy[a] # None
                                /\ act[a] # "create"
                                /\ Permitted(act[a], copy[a])
        /\ pc[a] = "load" => act[a] # "create"

\* A copy is older than the record, or it is the record.
Agrees(r, x) == r.version <= x.version /\ (r.version = x.version => r = x)

CopiesAgree ==
    \A a \in Admins : copy[a] # None /\ control # None => Agrees(copy[a], control)

\* The control record is inserted once, by one call, before anyone holds a copy.
CreatedOnce ==
    /\ \A a \in Admins : pc[a] = "insertControl" =>
          /\ tenant /\ control = None
          /\ \A b \in Admins : copy[b] = None /\ (pc[b] = "insertControl" => a = b)
    /\ ~tenant => /\ control = None
                  /\ \A a \in Admins : copy[a] = None /\ pc[a] # "insertControl"

Inv == TypeOK /\ Checked /\ CopiesAgree /\ CreatedOnce

LEMMA InitInv == Init => Inv
  BY DEF Init, Inv, TypeOK, Checked, CopiesAgree, CreatedOnce, Holding, Stage, Action

-----------------------------------------------------------------------------
\* Statements of the writers change nothing the administrators rely on.
LEMMA WriterStep ==
    ASSUME Inv, NEW w \in Writers, Admit(w) \/ Recheck(w) \/ Commit(w)
    PROVE  Inv'
<1>1. TypeOK'
  BY DEF Inv, TypeOK, Admit, Recheck, Commit, End, Goto, Stage
<1>2. /\ \A a \in Admins : pc'[a] = pc[a] /\ copy'[a] = copy[a] /\ act'[a] = act[a]
      /\ UNCHANGED <<tenant, control>>
  BY ActorsAssumption DEF Inv, TypeOK, Admit, Recheck, Commit, End, Goto
<1>3. Checked'
  BY <1>2 DEF Inv, Checked
<1>4. CopiesAgree'
  BY <1>2 DEF Inv, CopiesAgree
<1>5. CreatedOnce'
  BY <1>2 DEF Inv, CreatedOnce
<1>. QED
  BY <1>1, <1>3, <1>4, <1>5 DEF Inv

\* Calls that end, or die.
LEMMA AbortStep ==
    ASSUME Inv, NEW p \in Admins \cup Writers, Abort(p)
    PROVE  Inv'
<1>1. TypeOK'
  BY DEF Inv, TypeOK, Abort, End, Goto, Stage
<1>2. /\ \A a \in Admins : \/ pc'[a] = pc[a] /\ copy'[a] = copy[a]
                           \/ pc'[a] = "idle" /\ copy'[a] = None
      /\ UNCHANGED <<tenant, control, act>>
  BY DEF Inv, TypeOK, Abort, End, Goto
<1>3. Checked'
  BY <1>2 DEF Inv, Checked, Holding
<1>4. CopiesAgree'
  BY <1>2 DEF Inv, CopiesAgree
<1>5. CreatedOnce'
  BY <1>2 DEF Inv, CreatedOnce
<1>. QED
  BY <1>1, <1>3, <1>4, <1>5 DEF Inv

\* The statements of an administrator's call, one at a time.
LEMMA BeginStep ==
    ASSUME Inv, NEW a \in Admins, Begin(a)
    PROVE  Inv'
<1>1. PICK x \in Actions : /\ act' = [act EXCEPT ![a] = x]
                           /\ Goto(a, IF x = "create" THEN "find" ELSE "load")
  BY DEF Begin
<1>2. UNCHANGED <<tenant, mode, control, rows, store, copy>>
  BY DEF Begin
<1>3. TypeOK'
  BY <1>1, <1>2, ActionsAssumption DEF Inv, TypeOK, Goto, Stage
<1>4. Checked'
  BY <1>1, <1>2 DEF Inv, TypeOK, Checked, Goto, Holding
<1>5. CopiesAgree'
  BY <1>2 DEF Inv, CopiesAgree
<1>6. CreatedOnce'
  BY <1>1, <1>2 DEF Inv, TypeOK, CreatedOnce, Goto
<1>. QED
  BY <1>3, <1>4, <1>5, <1>6 DEF Inv

LEMMA CreateStep ==
    ASSUME Inv, NEW a \in Admins, FindTenant(a) \/ InsertTenant(a) \/ InsertControl(a)
    PROVE  Inv'
<1>1. CASE FindTenant(a)
  <2>1. TypeOK'
    BY <1>1 DEF Inv, TypeOK, FindTenant, End, Goto, Stage
  <2>2. Checked'
    BY <1>1 DEF Inv, TypeOK, Checked, FindTenant, End, Goto, Holding
  <2>3. CopiesAgree'
    BY <1>1 DEF Inv, TypeOK, CopiesAgree, FindTenant, End, Goto
  <2>4. CreatedOnce'
    BY <1>1 DEF Inv, TypeOK, CreatedOnce, FindTenant, End, Goto
  <2>. QED
    BY <2>1, <2>2, <2>3, <2>4 DEF Inv
<1>2. CASE InsertTenant(a)
  <2>1. TypeOK'
    BY <1>2 DEF Inv, TypeOK, InsertTenant, End, Goto, Stage
  <2>2. Checked'
    BY <1>2 DEF Inv, TypeOK, Checked, InsertTenant, End, Goto, Holding
  <2>3. CopiesAgree'
    BY <1>2 DEF Inv, TypeOK, CopiesAgree, InsertTenant, End, Goto
  <2>4. CreatedOnce'
    BY <1>2 DEF Inv, TypeOK, CreatedOnce, InsertTenant, End, Goto
  <2>. QED
    BY <2>1, <2>2, <2>3, <2>4 DEF Inv
<1>3. CASE InsertControl(a)
  <2>1. TypeOK'
    BY <1>3 DEF Inv, TypeOK, InsertControl, End, Goto, Stage, Control, Status
  <2>2. Checked'
    BY <1>3 DEF Inv, TypeOK, Checked, InsertControl, End, Goto, Holding
  <2>3. \A b \in Admins : copy'[b] = None
    BY <1>3 DEF Inv, TypeOK, CreatedOnce, InsertControl, End
  <2>4. CopiesAgree'
    BY <2>3 DEF CopiesAgree
  <2>5. tenant' /\ \A b \in Admins : pc'[b] # "insertControl"
    BY <1>3 DEF Inv, TypeOK, CreatedOnce, InsertControl, End, Goto
  <2>6. CreatedOnce'
    BY <2>5 DEF CreatedOnce
  <2>. QED
    BY <2>1, <2>2, <2>4, <2>6 DEF Inv
<1>. QED
  BY <1>1, <1>2, <1>3

LEMMA LoadStep ==
    ASSUME Inv, NEW a \in Admins, LoadControl(a)
    PROVE  Inv'
<1>1. CASE control # None /\ Permitted(act[a], control)
  <2>1. /\ copy' = [copy EXCEPT ![a] = control]
        /\ Goto(a, IF act[a] = "purge" THEN "delete" ELSE "flush")
        /\ pc[a] = "load"
        /\ UNCHANGED <<tenant, mode, control, rows, store, act>>
    BY <1>1 DEF LoadControl
  <2>2. TypeOK'
    BY <2>1 DEF Inv, TypeOK, Goto, Stage
  <2>3. Checked'
    BY <1>1, <2>1 DEF Inv, TypeOK, Checked, Goto, Holding
  <2>4. CopiesAgree'
    BY <2>1 DEF Inv, TypeOK, CopiesAgree, Agrees, Control
  <2>5. CreatedOnce'
    BY <1>1, <2>1 DEF Inv, TypeOK, CreatedOnce, Goto
  <2>. QED
    BY <2>2, <2>3, <2>4, <2>5 DEF Inv
<1>2. CASE ~(control # None /\ Permitted(act[a], control))
  <2>1. End(a) /\ UNCHANGED <<tenant, mode, control, rows, store, act>>
    BY <1>2 DEF LoadControl
  <2>2. TypeOK'
    BY <2>1 DEF Inv, TypeOK, End, Goto, Stage
  <2>3. Checked'
    BY <2>1 DEF Inv, TypeOK, Checked, End, Goto, Holding
  <2>4. CopiesAgree'
    BY <2>1 DEF Inv, TypeOK, CopiesAgree, End
  <2>5. CreatedOnce'
    BY <2>1 DEF Inv, TypeOK, CreatedOnce, End, Goto
  <2>. QED
    BY <2>2, <2>3, <2>4, <2>5 DEF Inv
<1>. QED
  BY <1>1, <1>2

LEMMA DeleteStep ==
    ASSUME Inv, NEW a \in Admins, DeleteRows(a) \/ DeleteControl(a) \/ DropStore(a)
    PROVE  Inv'
<1>1. /\ \A b \in Admins : pc'[b] = pc[b] \/ (b = a /\ pc[b] \in Holding /\ pc'[b] \in Holding)
      /\ control' = control \/ control' = None
      /\ UNCHANGED <<tenant, act, copy>>
  BY DEF Inv, TypeOK, DeleteRows, DeleteControl, DropStore, Goto, Holding
<1>2. TypeOK'
  BY DEF Inv, TypeOK, DeleteRows, DeleteControl, DropStore, Goto, Stage
<1>3. Checked'
  BY <1>1 DEF Inv, Checked, Holding
<1>4. CopiesAgree'
  BY <1>1 DEF Inv, CopiesAgree
<1>5. CreatedOnce'
  BY <1>1 DEF Inv, CreatedOnce, Holding
<1>. QED
  BY <1>2, <1>3, <1>4, <1>5 DEF Inv

LEMMA FlushStep ==
    ASSUME Inv, NEW a \in Admins, FlushStatus(a)
    PROVE  Inv'
<1>1. /\ copy[a] # None /\ act[a] # "create" /\ copy[a] \in Control /\ act[a] \in Action
      /\ copy'[a] = None /\ pc'[a] = "idle"
      /\ \A b \in Admins : b # a => copy'[b] = copy[b] /\ pc'[b] = pc[b]
      /\ UNCHANGED <<tenant, mode, rows, store, act>>
  BY DEF Inv, TypeOK, Checked, FlushStatus, End, Goto, Holding
<1>2. \/ control' = control
      \/ /\ control \in Control /\ control' \in Control
         /\ control'.version = control.version + 1
  BY <1>1, ChangedIsControl DEF Inv, TypeOK, FlushStatus
<1>3. TypeOK'
  BY <1>2 DEF Inv, TypeOK, FlushStatus, End, Goto, Stage
<1>4. Checked'
  BY <1>1 DEF Inv, Checked, Holding
<1>5. ASSUME NEW b \in Admins, copy'[b] # None, control' # None
      PROVE  Agrees(copy'[b], control')
  <2>1. b # a /\ copy'[b] = copy[b] /\ copy[b] \in Control
    BY <1>1, <1>5 DEF Inv, TypeOK
  <2>2. control # None => Agrees(copy[b], control)
    BY <1>5, <2>1 DEF Inv, CopiesAgree
  <2>3. QED
    BY <1>2, <1>5, <2>1, <2>2, NoneAssumption DEF Agrees, Control
<1>6. CopiesAgree'
  BY <1>5 DEF CopiesAgree
<1>7. CreatedOnce'
  BY <1>1, <1>2, NoneAssumption DEF Inv, CreatedOnce
<1>. QED
  BY <1>3, <1>4, <1>6, <1>7 DEF Inv

LEMMA NextInv ==
    ASSUME Inv, [Next]_vars
    PROVE  Inv'
<1>1. ASSUME NEW a \in Admins,
             \/ Begin(a) \/ FindTenant(a) \/ InsertTenant(a) \/ InsertControl(a)
             \/ LoadControl(a) \/ DeleteRows(a) \/ DeleteControl(a) \/ DropStore(a)
             \/ FlushStatus(a)
      PROVE  Inv'
  BY <1>1, BeginStep, CreateStep, LoadStep, DeleteStep, FlushStep
<1>2. ASSUME NEW w \in Writers, Admit(w) \/ Recheck(w) \/ Commit(w)
      PROVE  Inv'
  BY <1>2, WriterStep
<1>3. ASSUME NEW p \in Admins \cup Writers, Abort(p)
      PROVE  Inv'
  BY <1>3, AbortStep
<1>4. CASE UNCHANGED vars
  BY <1>4 DEF vars, Inv, TypeOK, Checked, CopiesAgree, CreatedOnce
<1>. QED
  BY <1>1, <1>2, <1>3, <1>4 DEF Next

-----------------------------------------------------------------------------
\* Types of the control record, the copies and the program counters, in every
\* reachable state.
THEOREM LifecycleTypeCorrect == Spec => []TypeOK
<1>1. Inv /\ [Next]_vars => Inv'
  BY NextInv
<1>2. Inv => TypeOK
  BY DEF Inv
<1>. QED
  BY InitInv, <1>1, <1>2, PTL DEF Spec

\* What purgeTenant and reopenTenant checked when they loaded the control
\* record still holds when their UPDATE changes it.
THEOREM ChecksHold == Spec => ChecksStillHold
<1> DEFINE Holds == \A a \in Admins :
                       pc[a] = "flush" /\ pc'[a] # pc[a] /\ control' # control =>
                           Permitted(act[a], control)
<1>1. ASSUME Inv, Next PROVE Holds
  <2> SUFFICES ASSUME NEW a \in Admins,
                      pc[a] = "flush", pc'[a] # pc[a], control' # control
               PROVE  Permitted(act[a], control)
    OBVIOUS
  <2> DEFINE Goal == Permitted(act[a], control)
  <2>1. ASSUME NEW b \in Admins,
               Begin(b) \/ FindTenant(b) \/ InsertTenant(b) \/ LoadControl(b)
                 \/ DeleteRows(b) \/ DropStore(b)
        PROVE  Goal
    BY <2>1 DEF Begin, FindTenant, InsertTenant, LoadControl, DeleteRows, DropStore
  <2>2. ASSUME NEW b \in Admins, InsertControl(b) \/ DeleteControl(b)
        PROVE  Goal
    BY <1>1, <2>2 DEF Inv, TypeOK, InsertControl, DeleteControl, End, Goto
  <2>3. ASSUME NEW b \in Admins, FlushStatus(b)
        PROVE  Goal
    <3>1. b = a
      BY <1>1, <2>3 DEF Inv, TypeOK, FlushStatus, End, Goto
    <3>2. control # None /\ control.version = copy[a].version
      BY <2>3, <3>1 DEF FlushStatus
    <3>3. copy[a] # None /\ Permitted(act[a], copy[a])
      BY <1>1 DEF Inv, Checked, Holding
    <3>4. copy[a] = control
      BY <1>1, <3>2, <3>3 DEF Inv, CopiesAgree, Agrees
    <3>. QED
      BY <3>3, <3>4
  <2>4. ASSUME NEW w \in Writers, Admit(w) \/ Recheck(w) \/ Commit(w)
        PROVE  Goal
    BY <2>4 DEF Admit, Recheck, Commit
  <2>5. ASSUME NEW p \in Admins \cup Writers, Abort(p)
        PROVE  Goal
    BY <2>5 DEF Abort
  <2> HIDE DEF Goal
  <2>6. Goal
    BY <1>1, <2>1, <2>2, <2>3, <2>4, <2>5 DEF Next
  <2>. QED
    BY <2>6 DEF Goal
<1>2. Inv /\ [Next]_vars => [Holds]_vars
  BY <1>1
<1>3. Inv /\ [Next]_vars => Inv'
  BY NextInv
<1>. QED
  BY InitInv, <1>2, <1>3, PTL DEF Spec, ChecksStillHold

=============================================================================
