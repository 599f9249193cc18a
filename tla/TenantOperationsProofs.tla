----------------------- MODULE TenantOperationsProofs -----------------------
(***************************************************************************)
(* Machine-checked proofs about TenantOperations, for any sets of calls,   *)
(* tenants and keys, with or without Redis, wherever locks run out and     *)
(* processes die.                                                          *)
(***************************************************************************)
EXTENDS TenantOperations, TLAPS

-----------------------------------------------------------------------------
\* Facts about the table of legal moves.

\* A copy one legal move ahead of the row may be rolled back only if the row may.
LEMMA RollbackOfCopy ==
    ASSUME NEW s, NEW v, ~IsInvalidTransition(s, v), ~IsInvalidTransition(v, "ROLLBACK")
    PROVE  ~IsInvalidTransition(s, "ROLLBACK")
  BY DEF IsInvalidTransition, AllowedMoves

\* Legal moves go forward in StateOrder, which is a strict order.
LEMMA MoveGoesForward ==
    ASSUME NEW s, NEW n, ~IsInvalidTransition(s, n)
    PROVE  Before(s, n)
  BY SMTT(30) DEF IsInvalidTransition, AllowedMoves, Before, StateOrder

LEMMA BeforeTransitive ==
    ASSUME NEW s, NEW n, NEW m, Before(s, n), Before(n, m)
    PROVE  Before(s, m)
  BY SMTT(30) DEF Before, StateOrder

-----------------------------------------------------------------------------
\* Stages in which the call has an operation in hand.
Working == {"run", "readHash", "append", "rollback"}

\* A working call has a row and a copy of its state, and knows whose it is.
WellFormed(r, rows, k) ==
    r.stage \in Working =>
        /\ r.owner \in Tenants
        /\ r.view \in OperationState
        /\ rows[k] # None
        /\ rows[k].tenant = r.owner

SysInv ==
    /\ lock \subseteq LockName
    /\ ops \in [Keys -> Operation \cup {None}]
    /\ journal \in [Tenants -> Seq(Entry)]
    /\ call \in [Calls -> Call]
    /\ \A c \in Calls : WellFormed(call[c], ops, KeyOf[c])

\* A row stays a row of its tenant.
RowsKept == \A k \in Keys : ops[k] # None => ops'[k] # None /\ ops'[k].tenant = ops[k].tenant

\* What a step of one call has to respect.
LEMMA SysInvStep ==
    ASSUME SysInv, NEW c \in Calls, NEW r \in Call,
           call' = [call EXCEPT ![c] = r],
           lock' \subseteq LockName,
           ops' \in [Keys -> Operation \cup {None}],
           journal' \in [Tenants -> Seq(Entry)],
           RowsKept,
           WellFormed(r, ops', KeyOf[c])
    PROVE  SysInv'
<1>1. call' \in [Calls -> Call]
  BY DEF SysInv
<1>2. ASSUME NEW d \in Calls PROVE WellFormed(call'[d], ops', KeyOf[d])
  <2>1. CASE d = c
    BY <2>1 DEF SysInv
  <2>2. CASE d # c
    <3>1. call'[d] = call[d] /\ KeyOf[d] \in Keys
      BY <2>2, CallsAssumption DEF SysInv
    <3>2. QED
      BY <3>1 DEF SysInv, WellFormed, RowsKept
  <2>3. QED
    BY <2>1, <2>2
<1>3. QED
  BY <1>1, <1>2 DEF SysInv

\* The rest of the statements change nothing but the record of their call.
LEMMA SysInvCall ==
    ASSUME SysInv, NEW c \in Calls, NEW r \in Call, call' = [call EXCEPT ![c] = r],
           UNCHANGED <<ops, journal>>, lock' \subseteq LockName,
           \/ r.stage \notin Working
           \/ /\ call[c].stage \in Working
              /\ r.owner = call[c].owner /\ r.view \in OperationState
    PROVE  SysInv'
<1>1. WellFormed(call[c], ops, KeyOf[c])
  BY DEF SysInv
<1>2. WellFormed(r, ops', KeyOf[c])
  BY <1>1 DEF WellFormed
<1>3. RowsKept
  BY DEF RowsKept
<1>4. QED
  BY <1>2, <1>3, SysInvStep DEF SysInv

\* The record of a call after each of the ways it may go on.
Thrown(r, s) == [r EXCEPT !.stage = IF r.failing THEN "release" ELSE "rollback",
                          !.failing = TRUE, !.view = s]
Done(r) == [r EXCEPT !.stage = IF r.failing THEN "release" ELSE "run", !.tip = 0]
At(r, s) == [r EXCEPT !.stage = s]
Over == [NoCall EXCEPT !.stage = "done"]

LEMMA Records ==
    ASSUME NEW r \in Call, NEW s \in OperationState, NEW n \in Nat
    PROVE  /\ Thrown(r, s) \in Call /\ Thrown(r, s).owner = r.owner /\ Thrown(r, s).view = s
           /\ Thrown(r, s).failing = TRUE
           /\ Thrown(r, s).stage = IF r.failing THEN "release" ELSE "rollback"
           /\ Done(r) \in Call /\ Done(r).owner = r.owner /\ Done(r).view = r.view
           /\ Done(r).stage = IF r.failing THEN "release" ELSE "run"
           /\ \A x \in Stage : /\ At(r, x) \in Call /\ At(r, x).stage = x
                               /\ At(r, x).owner = r.owner /\ At(r, x).view = r.view
           /\ Over \in Call /\ Over.stage = "done" /\ Over.owner = None
           /\ LET m == [r EXCEPT !.stage = "readHash", !.view = s] IN
                 m \in Call /\ m.stage = "readHash" /\ m.view = s /\ m.owner = r.owner
           /\ LET m == [r EXCEPT !.stage = "append", !.tip = n] IN
                 m \in Call /\ m.stage = "append" /\ m.view = r.view /\ m.owner = r.owner
                 /\ m.tip = n
  BY DEF Call, Stage, Thrown, Done, At, Over, NoCall

\* The statements, told by the record they leave their call with.
LEMMA StepForms ==
    ASSUME SysInv, NEW c \in Calls, Step(c) \/ Crash(c) \/ AcquireLock(c)
    PROVE  \/ /\ call' = [call EXCEPT ![c] = Over]
              /\ UNCHANGED <<ops, journal>>
              /\ lock' \in {lock, lock \ {LockOf(c)}}
              /\ Live(c)
           \/ /\ call' = [call EXCEPT ![c] = At(@, "lookup")]
              /\ AcquireLock(c)
           \/ /\ \E s \in {"insert", "release"} : call' = [call EXCEPT ![c] = At(@, s)]
              /\ UNCHANGED <<lock, ops, journal>>
              /\ Live(c)
           \/ /\ call[c].stage = "lookup" /\ ops[KeyOf[c]] # None
              /\ call' = [call EXCEPT ![c] =
                    [@ EXCEPT !.stage = IF ops[KeyOf[c]].state = "FINALIZED"
                                        THEN "release" ELSE "run",
                              !.view = ops[KeyOf[c]].state, !.owner = ops[KeyOf[c]].tenant]]
              /\ UNCHANGED <<lock, ops, journal>>
           \/ /\ call[c].stage = "insert" /\ ops[KeyOf[c]] = None
              /\ ops' = [ops EXCEPT ![KeyOf[c]] = [tenant |-> TenantOf[c], state |-> "REQUESTED"]]
              /\ call' = [call EXCEPT ![c] = [@ EXCEPT !.stage = "run", !.view = "REQUESTED",
                                                       !.owner = TenantOf[c]]]
              /\ UNCHANGED <<lock, journal>>
           \/ /\ call[c].stage \in Working
              /\ \E s \in OperationState :
                    /\ call' = [call EXCEPT ![c] = Thrown(@, s)]
                    /\ \/ s = call[c].view
                       \/ /\ ~IsInvalidTransition(call[c].view, s)
                          /\ call[c].stage = "rollback" => s = "ROLLBACK"
                          /\ call[c].stage \in {"run", "rollback"}
              /\ UNCHANGED <<lock, ops, journal>>
           \/ /\ call[c].stage \in {"run", "rollback"}
              /\ \E s \in OperationState :
                    /\ ~IsInvalidTransition(call[c].view, s)
                    /\ call[c].stage = "rollback" => s = "ROLLBACK"
                    /\ ops' = [ops EXCEPT ![KeyOf[c]].state = s]
                    /\ call' = [call EXCEPT ![c] = [@ EXCEPT !.stage = "readHash", !.view = s]]
              /\ UNCHANGED <<lock, journal>>
           \/ /\ call[c].stage = "readHash"
              /\ call' = [call EXCEPT ![c] =
                    [@ EXCEPT !.stage = "append", !.tip = Len(journal[call[c].owner])]]
              /\ UNCHANGED <<lock, ops, journal>>
           \/ /\ call[c].stage \in {"readHash", "append"}
              /\ call' = [call EXCEPT ![c] = Done(@)]
              /\ UNCHANGED <<lock, ops, journal>>
           \/ /\ call[c].stage = "append"
              /\ call' = [call EXCEPT ![c] = Done(@)]
              /\ journal' = [journal EXCEPT ![call[c].owner] =
                    Append(@, [key |-> KeyOf[c], state |-> call[c].view, prev |-> call[c].tip])]
              /\ UNCHANGED <<lock, ops>>
<1> USE DEF At, Over, Thrown, Done
<1>0. call[c].stage \in Working => call[c].view \in OperationState
  BY DEF SysInv, WellFormed
<1>1. CASE AcquireLock(c)
  BY <1>1 DEF AcquireLock
<1>2. CASE Crash(c) \/ ReleaseLock(c)
  BY <1>2 DEF Crash, ReleaseLock, End, Live
<1>3. CASE FindOperation(c)
  BY <1>3 DEF FindOperation, Abandon, End, Live
<1>4. CASE InsertOperation(c)
  BY <1>4 DEF InsertOperation, Abandon, End, Live
<1>5. ASSUME NEW s \in OperationState, TransitionTo(c, s), call[c].stage \in {"run", "rollback"},
             call[c].stage = "rollback" => s = "ROLLBACK", UNCHANGED <<lock, journal>>
      PROVE  \/ /\ call[c].stage \in Working
                /\ \E v \in OperationState :
                      /\ call' = [call EXCEPT ![c] = Thrown(@, v)]
                      /\ \/ v = call[c].view
                         \/ /\ ~IsInvalidTransition(call[c].view, v)
                            /\ call[c].stage = "rollback" => v = "ROLLBACK"
                            /\ call[c].stage \in {"run", "rollback"}
                /\ UNCHANGED <<lock, ops, journal>>
             \/ /\ call[c].stage \in {"run", "rollback"}
                /\ ~IsInvalidTransition(call[c].view, s)
                /\ call[c].stage = "rollback" => s = "ROLLBACK"
                /\ ops' = [ops EXCEPT ![KeyOf[c]].state = s]
                /\ call' = [call EXCEPT ![c] = [@ EXCEPT !.stage = "readHash", !.view = s]]
                /\ UNCHANGED <<lock, journal>>
  <2>1. call[c].stage \in Working /\ call[c].view \in OperationState
    BY <1>0, <1>5 DEF Working
  <2>2. CASE Throw(c, call[c].view) /\ UNCHANGED ops
    BY <1>5, <2>1, <2>2 DEF Throw
  <2>3. CASE ~IsInvalidTransition(call[c].view, s) /\ Throw(c, s) /\ UNCHANGED ops
    BY <1>5, <2>1, <2>3 DEF Throw
  <2>4. QED
    BY <1>5, <2>1, <2>2, <2>3 DEF TransitionTo
<1>6. CASE \E s \in Requests : Transition(c, s)
  BY <1>5, <1>6, RequestsAssumption DEF Transition
<1>7. CASE RollBack(c)
  BY <1>5, <1>7 DEF RollBack, OperationState
<1>8. CASE WorkFails(c)
  BY <1>0, <1>8 DEF WorkFails, Throw, Working
<1>9. CASE Finish(c)
  BY <1>9 DEF Finish, Live
<1>10. CASE ReadLastHash(c) \/ AppendToJournal(c)
  <2>1. call[c].stage \in Working /\ call[c].stage \in {"readHash", "append"}
        /\ call[c].view \in OperationState
    BY <1>0, <1>10 DEF ReadLastHash, AppendToJournal, Working
  <2>2. CASE NotJournaled(c) /\ UNCHANGED <<lock, ops, journal>>
    BY <2>1, <2>2 DEF NotJournaled, Journaled, Throw
  <2>3. QED
    BY <1>10, <2>1, <2>2 DEF ReadLastHash, AppendToJournal, Journaled
<1>11. QED
  BY <1>1, <1>2, <1>3, <1>4, <1>6, <1>7, <1>8, <1>9, <1>10 DEF Step

\* A step of Act is a statement of one call, the end of a lock, or nothing.
LEMMA ActCases ==
    ASSUME [Act]_sys
    PROVE  \/ \E c \in Calls : Step(c) \/ Crash(c) \/ AcquireLock(c)
           \/ \E n \in LockName : ExpireLock(n)
           \/ UNCHANGED sys
  BY DEF Act, Rest

\* No statement takes a row away or gives it to another tenant.
LEMMA RowsStay ==
    ASSUME SysInv, [Act]_sys
    PROVE  RowsKept
<1>1. \A k \in Keys : ops[k] # None =>
          ops[k] \in Operation /\ \A s : [ops[k] EXCEPT !.state = s].tenant = ops[k].tenant
  BY DEF SysInv, Operation
<1>2. ASSUME NEW c \in Calls, Step(c) \/ Crash(c) \/ AcquireLock(c)
      PROVE  \/ UNCHANGED ops
             \/ /\ ops[KeyOf[c]] = None
                /\ ops' = [ops EXCEPT ![KeyOf[c]] = [tenant |-> TenantOf[c], state |-> "REQUESTED"]]
             \/ \E s \in OperationState : ops' = [ops EXCEPT ![KeyOf[c]].state = s]
  BY <1>2, StepForms DEF AcquireLock
<1>3. ASSUME NEW c \in Calls, NEW s \in OperationState, ops' = [ops EXCEPT ![KeyOf[c]].state = s],
             NEW k \in Keys, ops[k] # None
      PROVE  ops'[k] # None /\ ops'[k].tenant = ops[k].tenant
  <2>1. ops[k] \in [tenant : Tenants, state : OperationState]
    BY <1>3 DEF SysInv, Operation
  <2>2. CASE k = KeyOf[c]
    <3>1. ops'[k] = [ops[k] EXCEPT !.state = s]
      BY <1>3, <2>2 DEF SysInv
    <3>2. ops'[k] \in Operation /\ ops'[k].tenant = ops[k].tenant
      BY <2>1, <3>1 DEF Operation
    <3>3. QED
      BY <3>2, NoneAssumption
  <2>3. CASE k # KeyOf[c]
    BY <1>3, <2>3 DEF SysInv
  <2>4. QED
    BY <2>2, <2>3
<1>4. ASSUME NEW c \in Calls, ops[KeyOf[c]] = None,
             ops' = [ops EXCEPT ![KeyOf[c]] = [tenant |-> TenantOf[c], state |-> "REQUESTED"]]
      PROVE  RowsKept
  BY <1>4 DEF RowsKept, SysInv
<1>5. QED
  BY <1>2, <1>3, <1>4, ActCases DEF RowsKept, ExpireLock, sys

\* Every statement of a call keeps SysInv.
LEMMA SysInvCallStep ==
    ASSUME SysInv, NEW c \in Calls, Step(c) \/ Crash(c) \/ AcquireLock(c), RowsKept
    PROVE  SysInv'
<1> DEFINE r == call[c]  k == KeyOf[c]
<1>0. /\ r \in Call /\ k \in Keys /\ TenantOf[c] \in Tenants
      /\ WellFormed(r, ops, k)
      /\ lock \subseteq LockName
      /\ LockOf(c) \in LockName
  <2>1. LockOf(c) \in LockName
    BY CallsAssumption DEF LockOf, LockName
  <2>2. QED
    BY <2>1, CallsAssumption DEF SysInv
<1>1. ASSUME NEW s \in OperationState, r.stage \in Working
      PROVE  Thrown(r, s) \in Call /\ Thrown(r, s).owner = r.owner /\ Thrown(r, s).view = s
  BY <1>0, Records, 0 \in Nat
<1>2. CASE /\ call' = [call EXCEPT ![c] = Over]
           /\ UNCHANGED <<ops, journal>>
           /\ lock' \in {lock, lock \ {LockOf(c)}}
  <2>1. Over \in Call /\ Over.stage \notin Working
    BY DEF Over, NoCall, Call, Stage, Working
  <2> HIDE DEF r, k
  <2>2. lock' \subseteq LockName
    BY <1>0, <1>2
  <2>3. QED
    BY <1>2, <2>1, <2>2, SysInvCall
<1>3. CASE call' = [call EXCEPT ![c] = At(@, "lookup")] /\ AcquireLock(c)
  <2>1. At(r, "lookup") \in Call /\ At(r, "lookup").stage \notin Working
    BY <1>0 DEF At, Call, Stage, Working
  <2>2. lock' \subseteq LockName /\ UNCHANGED <<ops, journal>>
    BY <1>0, <1>3 DEF AcquireLock
  <2>3. call' = [call EXCEPT ![c] = At(r, "lookup")]
    BY <1>3
  <2>4. QED
    BY <2>1, <2>2, <2>3, SysInvCall
<1>4. CASE /\ \E s \in {"insert", "release"} : call' = [call EXCEPT ![c] = At(@, s)]
           /\ UNCHANGED <<lock, ops, journal>>
  <2>1. PICK s \in {"insert", "release"} : call' = [call EXCEPT ![c] = At(r, s)]
    BY <1>4
  <2>2. At(r, s) \in Call /\ At(r, s).stage \notin Working
    BY <1>0 DEF At, Call, Stage, Working
  <2>3. QED
    BY <1>0, <1>4, <2>1, <2>2, SysInvCall
<1>5. CASE /\ call[c].stage = "lookup" /\ ops[KeyOf[c]] # None
           /\ call' = [call EXCEPT ![c] =
                 [@ EXCEPT !.stage = IF ops[KeyOf[c]].state = "FINALIZED"
                                     THEN "release" ELSE "run",
                           !.view = ops[KeyOf[c]].state, !.owner = ops[KeyOf[c]].tenant]]
           /\ UNCHANGED <<lock, ops, journal>>
  <2> DEFINE n == [r EXCEPT !.stage = IF ops[k].state = "FINALIZED" THEN "release" ELSE "run",
                            !.view = ops[k].state, !.owner = ops[k].tenant]
  <2>1. ops[k] \in [tenant : Tenants, state : OperationState]
    BY <1>0, <1>5 DEF SysInv, Operation
  <2>2. n \in Call /\ n.owner \in Tenants /\ n.view \in OperationState /\ n.owner = ops[k].tenant
    BY <1>0, <2>1 DEF Call, Stage
  <2>3. call' = [call EXCEPT ![c] = n] /\ UNCHANGED ops /\ UNCHANGED journal /\ UNCHANGED lock
    BY <1>5
  <2>4. WellFormed(n, ops', k)
    BY <2>2, <2>3, <1>5 DEF WellFormed
  <2>5. lock' \subseteq LockName /\ ops' \in [Keys -> Operation \cup {None}]
        /\ journal' \in [Tenants -> Seq(Entry)]
    BY <1>0, <2>3 DEF SysInv
  <2> HIDE DEF n, r
  <2>6. QED
    BY <2>2, <2>3, <2>4, <2>5, SysInvStep
<1>6. CASE /\ call[c].stage = "insert" /\ ops[KeyOf[c]] = None
           /\ ops' = [ops EXCEPT ![KeyOf[c]] = [tenant |-> TenantOf[c], state |-> "REQUESTED"]]
           /\ call' = [call EXCEPT ![c] = [@ EXCEPT !.stage = "run", !.view = "REQUESTED",
                                                    !.owner = TenantOf[c]]]
           /\ UNCHANGED <<lock, journal>>
  <2> DEFINE n == [r EXCEPT !.stage = "run", !.view = "REQUESTED", !.owner = TenantOf[c]]
             w == [tenant |-> TenantOf[c], state |-> "REQUESTED"]
  <2>1. w \in Operation /\ w # None /\ w.tenant = TenantOf[c]
    BY <1>0, NoneAssumption DEF Operation, OperationState
  <2>2. n \in Call /\ n.owner = TenantOf[c] /\ n.view = "REQUESTED"
    BY <1>0 DEF Call, Stage, OperationState
  <2>3. call' = [call EXCEPT ![c] = n] /\ ops' = [ops EXCEPT ![k] = w]
    BY <1>6
  <2>4. ops' \in [Keys -> Operation \cup {None}] /\ ops'[k] = w
    BY <1>0, <2>1, <2>3 DEF SysInv
  <2>5. WellFormed(n, ops', k)
    BY <1>0, <2>1, <2>2, <2>4 DEF WellFormed, OperationState
  <2>6. lock' \subseteq LockName /\ journal' \in [Tenants -> Seq(Entry)]
    BY <1>0, <1>6 DEF SysInv
  <2> HIDE DEF n, r, w
  <2>7. QED
    BY <2>2, <2>3, <2>4, <2>5, <2>6, SysInvStep
<1>7. CASE /\ call[c].stage \in Working
           /\ \E s \in OperationState :
                 /\ call' = [call EXCEPT ![c] = Thrown(@, s)]
                 /\ \/ s = call[c].view
                    \/ /\ ~IsInvalidTransition(call[c].view, s)
                       /\ call[c].stage = "rollback" => s = "ROLLBACK"
                       /\ call[c].stage \in {"run", "rollback"}
           /\ UNCHANGED <<lock, ops, journal>>
  <2>1. PICK s \in OperationState : call' = [call EXCEPT ![c] = Thrown(r, s)]
    BY <1>7
  <2> DEFINE n == Thrown(r, s)
  <2>2. n \in Call /\ n.owner = r.owner /\ n.view \in OperationState
    BY <1>1, <1>7
  <2>3. call' = [call EXCEPT ![c] = n]
    BY <2>1
  <2> HIDE DEF n
  <2>4. QED
    BY <1>0, <1>7, <2>2, <2>3, SysInvCall
<1>8. CASE /\ call[c].stage \in {"run", "rollback"}
           /\ \E s \in OperationState :
                 /\ ~IsInvalidTransition(call[c].view, s)
                 /\ call[c].stage = "rollback" => s = "ROLLBACK"
                 /\ ops' = [ops EXCEPT ![KeyOf[c]].state = s]
                 /\ call' = [call EXCEPT ![c] = [@ EXCEPT !.stage = "readHash", !.view = s]]
           /\ UNCHANGED <<lock, journal>>
  <2>1. PICK s \in OperationState :
            /\ ops' = [ops EXCEPT ![k].state = s]
            /\ call' = [call EXCEPT ![c] = [r EXCEPT !.stage = "readHash", !.view = s]]
    BY <1>8
  <2> DEFINE n == [r EXCEPT !.stage = "readHash", !.view = s]
  <2>2. n \in Call /\ n.owner = r.owner /\ n.view = s
    BY <1>0 DEF Call, Stage
  <2>3. ops[k] # None /\ ops[k].tenant = r.owner /\ r.owner \in Tenants
    BY <1>0, <1>8 DEF WellFormed, Working
  <2>4. ops' \in [Keys -> Operation \cup {None}] /\ ops'[k] # None /\ ops'[k].tenant = r.owner
    <3>1. ops[k] \in [tenant : Tenants, state : OperationState]
      BY <1>0, <2>3 DEF SysInv, Operation
    <3>2. [ops[k] EXCEPT !.state = s] \in Operation
      BY <3>1 DEF Operation
    <3>3. ops' \in [Keys -> Operation \cup {None}]
      BY <1>0, <2>1, <3>2 DEF SysInv
    <3>4. QED
      BY <1>0, <2>3, <3>3 DEF RowsKept
  <2>5. WellFormed(n, ops', k)
    BY <2>2, <2>3, <2>4 DEF WellFormed
  <2>6. lock' \subseteq LockName /\ journal' \in [Tenants -> Seq(Entry)] /\ call' = [call EXCEPT ![c] = n]
    BY <1>0, <1>8, <2>1 DEF SysInv
  <2> HIDE DEF n, r
  <2>7. QED
    BY <2>2, <2>4, <2>5, <2>6, SysInvStep
<1>9. CASE /\ call[c].stage = "readHash"
           /\ call' = [call EXCEPT ![c] =
                 [@ EXCEPT !.stage = "append", !.tip = Len(journal[call[c].owner])]]
           /\ UNCHANGED <<lock, ops, journal>>
  <2>1. r.owner \in Tenants /\ r.view \in OperationState /\ r.stage \in Working
    BY <1>0, <1>9 DEF WellFormed, Working
  <2> DEFINE m == Len(journal[r.owner])
  <2>2. m \in Nat
    BY <2>1 DEF SysInv
  <2> HIDE DEF m
  <2> DEFINE n == [r EXCEPT !.stage = "append", !.tip = m]
  <2>3. n \in Call /\ n.owner = r.owner /\ n.view = r.view
    BY <1>0, <2>1, <2>2 DEF Call, Stage
  <2>4. call' = [call EXCEPT ![c] = n]
    BY <1>9 DEF m
  <2> HIDE DEF n
  <2>5. QED
    BY <1>0, <1>9, <2>1, <2>3, <2>4, SysInvCall
<1>10. CASE /\ call[c].stage \in {"readHash", "append"}
            /\ call' = [call EXCEPT ![c] = Done(@)]
            /\ UNCHANGED <<lock, ops, journal>>
  <2> DEFINE n == Done(r)
  <2>1. r.stage \in Working /\ r.view \in OperationState
    BY <1>0, <1>10 DEF WellFormed, Working
  <2>2. n \in Call /\ n.owner = r.owner /\ n.view = r.view
    BY <1>0, <2>1 DEF Done, Call, Stage
  <2>3. call' = [call EXCEPT ![c] = n]
    BY <1>10
  <2> HIDE DEF n
  <2>4. QED
    BY <1>0, <1>10, <2>1, <2>2, <2>3, SysInvCall
<1>11. CASE /\ call[c].stage = "append"
            /\ call' = [call EXCEPT ![c] = Done(@)]
            /\ journal' = [journal EXCEPT ![call[c].owner] =
                  Append(@, [key |-> KeyOf[c], state |-> call[c].view, prev |-> call[c].tip])]
            /\ UNCHANGED <<lock, ops>>
  <2> DEFINE n == Done(r)  e == [key |-> k, state |-> r.view, prev |-> r.tip]
  <2>1. r.view \in OperationState /\ r.owner \in Tenants /\ r.tip \in Nat
        /\ ops[k] # None /\ ops[k].tenant = r.owner
    BY <1>0, <1>11 DEF WellFormed, Working, Call
  <2>2. n \in Call /\ n.owner = r.owner /\ n.view = r.view
    BY <1>0, <2>1 DEF Done, Call, Stage
  <2>3. call' = [call EXCEPT ![c] = n] /\ journal' = [journal EXCEPT ![r.owner] = Append(@, e)]
    BY <1>11
  <2>4. e \in Entry
    BY <1>0, <2>1 DEF Entry
  <2> HIDE DEF n, e, r
  <2>5. journal' \in [Tenants -> Seq(Entry)]
    BY <2>1, <2>3, <2>4 DEF SysInv
  <2>6. lock' \subseteq LockName /\ ops' = ops /\ ops' \in [Keys -> Operation \cup {None}]
    BY <1>0, <1>11 DEF SysInv
  <2>7. WellFormed(n, ops', k)
    BY <2>1, <2>2, <2>6 DEF WellFormed
  <2>8. QED
    BY <2>2, <2>3, <2>5, <2>6, <2>7, SysInvStep
<1>12. QED
  BY <1>2, <1>3, <1>4, <1>5, <1>6, <1>7, <1>8, <1>9, <1>10, <1>11, StepForms

LEMMA SysInvKept ==
    ASSUME SysInv, [Act]_sys
    PROVE  SysInv'
<1>1. RowsKept
  BY RowsStay
<1>2. ASSUME NEW n \in LockName, ExpireLock(n) PROVE SysInv'
  BY <1>2 DEF SysInv, ExpireLock
<1>3. CASE UNCHANGED sys
  BY <1>3 DEF SysInv, sys
<1>4. QED
  BY <1>1, <1>2, <1>3, ActCases, SysInvCallStep

\* A step of Next is one of Act.
LEMMA NextActs ==
    ASSUME [Next]_vars
    PROVE  [Act]_sys
  BY DEF Next, vars, sys

LEMMA SysInvInit == Init => SysInv
<1>1. NoCall \in Call /\ NoCall.stage = "idle"
  BY DEF NoCall, Call, Stage
<1>2. QED
  BY <1>1 DEF Init, SysInv, WellFormed, Working

LEMMA SysInvHolds == Spec => []SysInv
<1>1. SysInv /\ [Next]_vars => SysInv'
  BY NextActs, SysInvKept
<1>2. QED
  BY SysInvInit, <1>1, PTL DEF Spec

\* The type invariant: locks, rows, journal rows and the copies calls work on
\* are well-formed whatever interleaving of statements, failures, crashes and
\* lapses of locks led there.
THEOREM TypeCorrect == Spec => []TypeOK
<1> DEFINE Inv == SysInv /\ exposed \subseteq Tenants /\ contested \subseteq Keys
<1>1. Init => Inv
  BY SysInvInit DEF Init
<1>2. Inv /\ [Next]_vars => Inv'
  <2> SUFFICES ASSUME Inv, [Next]_vars PROVE Inv'
    OBVIOUS
  <2>1. SysInv'
    BY NextActs, SysInvKept
  <2>2. CASE Next
    BY <2>1, <2>2, CallsAssumption DEF Next, Observe
  <2>3. CASE UNCHANGED vars
    BY <2>1, <2>3 DEF vars
  <2>4. QED
    BY <2>2, <2>3
<1>3. Inv => TypeOK
  BY DEF SysInv, TypeOK
<1>4. QED
  BY <1>1, <1>2, <1>3, PTL DEF Spec

-----------------------------------------------------------------------------
\* Locks.

\* A statement touches its own call only, which runs already or begins now.
LEMMA OneCallMoves ==
    ASSUME SysInv, NEW c \in Calls, Step(c) \/ Crash(c) \/ AcquireLock(c)
    PROVE  /\ \A d \in Calls : d # c => call'[d] = call[d]
           /\ AcquireLock(c) \/ Live(c)
<1>1. \E r : call' = [call EXCEPT ![c] = r]
  BY StepForms
<1>2. AcquireLock(c) \/ Live(c)
  BY StepForms DEF Live, Working
<1>3. QED
  BY <1>1, <1>2 DEF SysInv

\* A call that runs ran before, unless it has just been granted its lock.
LEMMA LiveBefore ==
    ASSUME SysInv, [Act]_sys, NEW c \in Calls, Live(c)'
    PROVE  Live(c) \/ (AcquireLock(c) /\ \A d \in Calls : d # c => call'[d] = call[d])
<1>1. CASE UNCHANGED sys \/ \E n \in LockName : ExpireLock(n)
  BY <1>1 DEF Live, sys, ExpireLock
<1>2. ASSUME NEW d \in Calls, Step(d) \/ Crash(d) \/ AcquireLock(d)
      PROVE  Live(c) \/ (AcquireLock(c) /\ \A e \in Calls : e # c => call'[e] = call[e])
  BY <1>2, OneCallMoves DEF Live
<1>3. QED
  BY <1>1, <1>2, ActCases

\* A key set in Redis was set by a call that uses Redis.
LocksReal == \A c \in Calls : LockOf(c) \in lock => Locked(c)

\* Calls at work on a tenant that is not exposed: one, under its lock.
Guarded ==
    \A c \in Calls : \A t \in Tenants \ exposed : WorksOn(c, t) =>
        LockOf(c) \in lock /\ \A d \in Calls : WorksOn(d, t) => d = c

Base == SysInv /\ LocksReal /\ Guarded

LEMMA LocksRealKept ==
    ASSUME SysInv, LocksReal, [Act]_sys
    PROVE  LocksReal'
<1>1. ASSUME NEW c \in Calls, NEW d \in Calls, LockOf(c) = LockOf(d), Locked(d)
      PROVE  Locked(c)
  BY <1>1 DEF LockOf, Locked
<1>2. ASSUME NEW d \in Calls, Step(d) \/ Crash(d) \/ AcquireLock(d)
      PROVE  LocksReal'
  <2>1. lock' \subseteq lock \/ (Locked(d) /\ lock' = lock \cup {LockOf(d)})
    BY <1>2, StepForms DEF AcquireLock
  <2>2. QED
    BY <1>1, <2>1 DEF LocksReal, Locked
<1>3. CASE UNCHANGED sys \/ \E n \in LockName : ExpireLock(n)
  BY <1>3 DEF LocksReal, Locked, sys, ExpireLock
<1>4. QED
  BY <1>2, <1>3, ActCases

\* Who works on a tenant that is not exposed after a step.
LEMMA Exposure ==
    ASSUME Next, NEW t \in Tenants, t \notin exposed', NEW c \in Calls, WorksOn(c, t)'
    PROVE  /\ LockOf(c) \in lock'
           /\ t \notin exposed /\ TenantOf[c] \notin exposed
           /\ \A d \in Calls : WorksOn(d, t)' => LockOf(d) = LockOf(c)
  BY DEF Next, Observe, Unlocked, LockOf

LEMMA GuardedKept ==
    ASSUME Base, [Next]_vars
    PROVE  Guarded'
<1>1. CASE UNCHANGED vars
  BY <1>1 DEF Base, Guarded, vars, WorksOn, Live
<1>2. CASE Next
  <2>1. ASSUME NEW t \in Tenants, t \notin exposed', NEW c \in Calls, NEW d \in Calls,
               WorksOn(c, t)', WorksOn(d, t)', ~Live(c)
        PROVE  c = d
    <3> SUFFICES ASSUME c # d PROVE FALSE
      OBVIOUS
    <3>1. LockOf(c) \in lock' /\ LockOf(d) \in lock' /\ LockOf(c) = LockOf(d)
          /\ TenantOf[d] \notin exposed /\ TenantOf[d] \in Tenants
      BY <1>2, <2>1, Exposure, CallsAssumption
    <3>2. AcquireLock(c) /\ call'[d] = call[d]
      BY <2>1, LiveBefore, NextActs DEF WorksOn, Base
    <3>3. WorksOn(d, TenantOf[d])
      BY <2>1, <3>2 DEF WorksOn, Live
    <3>4. LockOf(d) \in lock
      BY <3>1, <3>3 DEF Base, Guarded
    <3>5. CASE Locked(c)
      BY <3>1, <3>2, <3>4, <3>5 DEF AcquireLock, LockGranted
    <3>6. CASE ~Locked(c)
      BY <3>1, <3>4, <3>6 DEF Base, LocksReal
    <3>7. QED
      BY <3>5, <3>6
  <2>2. ASSUME NEW t \in Tenants, t \notin exposed', NEW c \in Calls, NEW d \in Calls,
               WorksOn(c, t)', WorksOn(d, t)', Live(c), Live(d)
        PROVE  c = d
    <3>1. LockOf(c) = LockOf(d) /\ TenantOf[c] \notin exposed
      BY <1>2, <2>2, Exposure
    <3>2. TenantOf[c] = TenantOf[d] /\ TenantOf[c] \in Tenants
      BY <3>1, CallsAssumption DEF LockOf
    <3>3. QED
      BY <2>2, <3>1, <3>2 DEF Base, Guarded, WorksOn
  <2>3. QED
    BY <1>2, <2>1, <2>2, Exposure DEF Guarded, WorksOn
<1>3. QED
  BY <1>1, <1>2

LEMMA BaseInit == Init => Base
<1> SUFFICES ASSUME Init PROVE Base
  OBVIOUS
<1>1. \A c \in Calls : ~Live(c) /\ LockOf(c) \notin lock
  BY DEF Init, Live, NoCall
<1>2. QED
  BY <1>1, SysInvInit DEF Base, LocksReal, Guarded, WorksOn

LEMMA BaseNext == Base /\ [Next]_vars => Base'
  BY SysInvKept, LocksRealKept, GuardedKept, NextActs DEF Base

\* Calls work on the same tenant at a time only where a lock ran out under its
\* call, was never needed (no Redis), or an onboarding took another one: SET NX
\* and DEL keep all others apart, for as many calls as there may be.
THEOREM MutualExclusion == Spec => []OneOperationAtATime
<1>1. Base => OneOperationAtATime
  BY DEF Base, Guarded, OneOperationAtATime
<1>2. QED
  BY <1>1, BaseInit, BaseNext, PTL DEF Spec

-----------------------------------------------------------------------------
\* Copies and rows.

\* The copy of a call whose tenant is not exposed is the row, except that a call
\* about to roll back may have assigned the state a refused flush did not write.
CopyOf(r, rows, k) ==
    /\ r.stage \in {"run", "readHash", "append"} => rows[k].state = r.view
    /\ r.stage = "rollback" =>
          rows[k].state = r.view \/ ~IsInvalidTransition(rows[k].state, r.view)

Copies == \A c \in Calls : call[c].owner \notin exposed => CopyOf(call[c], ops, KeyOf[c])

\* A working call works on the tenant of its operation, and so does every other
\* working call with the same key.
LEMMA SameRowSameTenant ==
    ASSUME SysInv, NEW c \in Calls, call[c].stage \in Working
    PROVE  /\ WorksOn(c, call[c].owner) /\ call[c].owner \in Tenants
           /\ ops[KeyOf[c]] # None /\ ops[KeyOf[c]].tenant = call[c].owner
           /\ \A d \in Calls : call[d].stage \in Working /\ KeyOf[d] = KeyOf[c]
                 => WorksOn(d, call[c].owner)
  BY DEF SysInv, WellFormed, WorksOn, Live, Working

\* The rows a statement of c leaves, where no lock failed to protect it.
LEMMA RowMoves ==
    ASSUME SysInv, Copies, NEW c \in Calls, Step(c) \/ Crash(c) \/ AcquireLock(c)
    PROVE  \/ UNCHANGED ops
           \/ /\ ops[KeyOf[c]] = None
              /\ ops' = [ops EXCEPT ![KeyOf[c]] = [tenant |-> TenantOf[c], state |-> "REQUESTED"]]
           \/ /\ call[c].stage \in Working
              /\ \E s \in OperationState :
                    /\ ops' = [ops EXCEPT ![KeyOf[c]].state = s]
                    /\ call'[c].view = s
                    /\ \/ call[c].owner \in exposed
                       \/ ~IsInvalidTransition(ops[KeyOf[c]].state, s)
<1>1. CASE /\ call[c].stage \in {"run", "rollback"}
           /\ \E s \in OperationState :
                 /\ ~IsInvalidTransition(call[c].view, s)
                 /\ call[c].stage = "rollback" => s = "ROLLBACK"
                 /\ ops' = [ops EXCEPT ![KeyOf[c]].state = s]
                 /\ call' = [call EXCEPT ![c] = [@ EXCEPT !.stage = "readHash", !.view = s]]
  <2>1. PICK s \in OperationState :
            /\ ~IsInvalidTransition(call[c].view, s)
            /\ call[c].stage = "rollback" => s = "ROLLBACK"
            /\ ops' = [ops EXCEPT ![KeyOf[c]].state = s]
            /\ call' = [call EXCEPT ![c] = [@ EXCEPT !.stage = "readHash", !.view = s]]
    BY <1>1
  <2>2. call'[c].view = s
    BY <2>1 DEF SysInv, Call
  <2>3. ASSUME call[c].owner \notin exposed PROVE ~IsInvalidTransition(ops[KeyOf[c]].state, s)
    BY <1>1, <2>1, <2>3, RollbackOfCopy DEF Copies, CopyOf
  <2>4. QED
    BY <1>1, <2>1, <2>2, <2>3 DEF Working
<1>2. QED
  BY <1>1, StepForms DEF AcquireLock

\* The copy of the call whose statement ran.
LEMMA OwnCopyKept ==
    ASSUME SysInv, NEW c \in Calls, Step(c) \/ Crash(c) \/ AcquireLock(c),
           call[c].stage \in Working => CopyOf(call[c], ops, KeyOf[c])
    PROVE  CopyOf(call'[c], ops', KeyOf[c])
<1> DEFINE r == call[c]  n == call'[c]  k == KeyOf[c]
<1>0. r \in Call /\ k \in Keys /\ WellFormed(r, ops, k) /\ ops \in [Keys -> Operation \cup {None}]
      /\ \A x : call' = [call EXCEPT ![c] = x] => n = x
  BY CallsAssumption DEF SysInv
<1>1. CASE call' = [call EXCEPT ![c] = Over] \/ call' = [call EXCEPT ![c] = At(@, "lookup")]
           \/ \E s \in {"insert", "release"} : call' = [call EXCEPT ![c] = At(@, s)]
  <2>1. n.stage \in {"done", "lookup", "insert", "release"}
    BY <1>0, <1>1 DEF Over, NoCall, At, Call
  <2>2. QED
    BY <2>1 DEF CopyOf, n
<1>2. CASE /\ r.stage = "lookup" /\ ops[k] # None
           /\ call' = [call EXCEPT ![c] =
                 [@ EXCEPT !.stage = IF ops[k].state = "FINALIZED" THEN "release" ELSE "run",
                           !.view = ops[k].state, !.owner = ops[k].tenant]]
           /\ UNCHANGED <<lock, ops, journal>>
  <2>0. n = [r EXCEPT !.stage = IF ops[k].state = "FINALIZED" THEN "release" ELSE "run",
                      !.view = ops[k].state, !.owner = ops[k].tenant]
    BY <1>0, <1>2
  <2> HIDE DEF n
  <2>1. n.stage \in {"release", "run"} /\ n.view = ops'[k].state
    BY <1>0, <1>2, <2>0 DEF Call
  <2>2. QED
    BY <2>1 DEF CopyOf, n
<1>3. CASE /\ r.stage = "insert" /\ ops[k] = None
           /\ ops' = [ops EXCEPT ![k] = [tenant |-> TenantOf[c], state |-> "REQUESTED"]]
           /\ call' = [call EXCEPT ![c] = [@ EXCEPT !.stage = "run", !.view = "REQUESTED",
                                                    !.owner = TenantOf[c]]]
  <2>0. n = [r EXCEPT !.stage = "run", !.view = "REQUESTED", !.owner = TenantOf[c]]
    BY <1>0, <1>3
  <2> HIDE DEF n
  <2>1. n.stage = "run" /\ n.view = "REQUESTED"
    BY <1>0, <2>0 DEF Call
  <2>2. ops'[k].state = "REQUESTED"
    BY <1>0, <1>3
  <2>3. QED
    BY <2>1, <2>2 DEF CopyOf, n
<1>4. CASE /\ r.stage \in Working
           /\ \E s \in OperationState :
                 /\ call' = [call EXCEPT ![c] = Thrown(@, s)]
                 /\ \/ s = r.view
                    \/ /\ ~IsInvalidTransition(r.view, s)
                       /\ r.stage = "rollback" => s = "ROLLBACK"
                       /\ r.stage \in {"run", "rollback"}
           /\ UNCHANGED <<lock, ops, journal>>
  <2>1. PICK s \in OperationState :
            /\ n = Thrown(r, s)
            /\ \/ s = r.view
               \/ /\ ~IsInvalidTransition(r.view, s)
                  /\ r.stage = "rollback" => s = "ROLLBACK"
                  /\ r.stage \in {"run", "rollback"}
    BY <1>0, <1>4
  <2>2. n.view = s /\ n.stage \in {"rollback", "release"}
    BY <1>0, <2>1 DEF Thrown, Call
  <2>3. ops[k].state = s \/ ~IsInvalidTransition(ops[k].state, s)
    BY <1>4, <2>1, RollbackOfCopy DEF CopyOf, Working, n
  <2>4. QED
    BY <1>4, <2>2, <2>3 DEF CopyOf, n
<1>5. CASE /\ r.stage \in {"run", "rollback"}
           /\ \E s \in OperationState :
                 /\ ops' = [ops EXCEPT ![k].state = s]
                 /\ call' = [call EXCEPT ![c] = [@ EXCEPT !.stage = "readHash", !.view = s]]
  <2>1. PICK s \in OperationState :
            /\ ops' = [ops EXCEPT ![k].state = s]
            /\ call' = [call EXCEPT ![c] = [@ EXCEPT !.stage = "readHash", !.view = s]]
    BY <1>5
  <2>2. n.stage = "readHash" /\ n.view = s
    BY <1>0, <2>1 DEF Call
  <2>3. ops[k] \in [tenant : Tenants, state : OperationState]
    BY <1>0, <1>5 DEF WellFormed, Working, Operation
  <2>4. ops'[k].state = s
    BY <1>0, <2>1, <2>3
  <2>5. QED
    BY <2>2, <2>4 DEF CopyOf, n
<1>6. CASE /\ r.stage = "readHash"
           /\ call' = [call EXCEPT ![c] =
                 [@ EXCEPT !.stage = "append", !.tip = Len(journal[call[c].owner])]]
           /\ UNCHANGED <<lock, ops, journal>>
  <2>0. n = [r EXCEPT !.stage = "append", !.tip = Len(journal[call[c].owner])]
    BY <1>0, <1>6
  <2> HIDE DEF n
  <2>1. n.stage = "append" /\ n.view = r.view
    BY <1>0, <2>0 DEF Call
  <2>2. QED
    BY <1>6, <2>1 DEF CopyOf, Working, n
<1>7. CASE /\ r.stage \in {"readHash", "append"}
           /\ call' = [call EXCEPT ![c] = Done(@)]
           /\ UNCHANGED ops
  <2>0. n = Done(r)
    BY <1>0, <1>7
  <2> HIDE DEF n
  <2>1. n.stage \in {"run", "release"} /\ n.view = r.view
    BY <1>0, <2>0 DEF Call, Done
  <2>2. QED
    BY <1>7, <2>1 DEF CopyOf, Working, n
<1>8. QED
  BY <1>1, <1>2, <1>3, <1>4, <1>5, <1>6, <1>7, StepForms

\* A working call keeps its operation, and came by it in a lookup or an insert.
LEMMA OwnerKept ==
    ASSUME SysInv, NEW c \in Calls, Step(c) \/ Crash(c) \/ AcquireLock(c), call[c].stage \in Working,
           call'[c].stage # "done"
    PROVE  call'[c].owner = call[c].owner
<1> DEFINE r == call[c]
<1>1. /\ r \in Call
      /\ \A x : call' = [call EXCEPT ![c] = x] => call'[c] = x
      /\ ~AcquireLock(c)
  BY DEF SysInv, AcquireLock, Working
<1>2. /\ \A s, x : [r EXCEPT !.stage = x, !.view = s].owner = r.owner
                  /\ [r EXCEPT !.stage = x, !.tip = s].owner = r.owner
      /\ \A s : Thrown(r, s).owner = r.owner /\ At(r, s).owner = r.owner
      /\ Done(r).owner = r.owner /\ Over.stage = "done"
  BY <1>1 DEF Call, Thrown, At, Done, Over, NoCall
<1>3. CASE \E s : call' = [call EXCEPT ![c] = At(@, s)]
  BY <1>1, <1>2, <1>3
<1>4. CASE \E s : call' = [call EXCEPT ![c] = Thrown(@, s)]
  BY <1>1, <1>2, <1>4
<1>5. CASE \E s : call' = [call EXCEPT ![c] = [@ EXCEPT !.stage = "readHash", !.view = s]]
  BY <1>1, <1>2, <1>5
<1>6. CASE \E s : call' = [call EXCEPT ![c] = [@ EXCEPT !.stage = "append", !.tip = s]]
  BY <1>1, <1>2, <1>6
<1>7. CASE call' = [call EXCEPT ![c] = Done(@)] \/ call' = [call EXCEPT ![c] = Over]
  BY <1>1, <1>2, <1>7
<1> HIDE DEF r
<1>8. QED
  BY <1>1, <1>3, <1>4, <1>5, <1>6, <1>7, StepForms DEF Working

LEMMA CopiesKept ==
    ASSUME Base, Copies, [Next]_vars
    PROVE  Copies'
<1>1. CASE UNCHANGED vars
  BY <1>1 DEF Copies, CopyOf, vars
<1>2. CASE Next
  <2>0. SysInv /\ SysInv' /\ [Act]_sys
    BY <1>2, NextActs, SysInvKept DEF Base
  <2>1. ASSUME NEW d \in Calls, call'[d].stage \in Working, call'[d].owner \notin exposed'
        PROVE  call'[d].owner \in Tenants /\ call'[d].owner \notin exposed
    <3>1. call'[d].owner \in Tenants
      BY <2>0, <2>1 DEF SysInv, WellFormed
    <3>2. PICK t \in Tenants : t = call'[d].owner
      BY <3>1
    <3>3. WorksOn(d, t)'
      BY <2>1, <3>2 DEF WorksOn, Live, Working
    <3>4. QED
      BY <1>2, <2>1, <3>2, <3>3, Exposure
  <2>2. ASSUME NEW c \in Calls, Step(c) \/ Crash(c) \/ AcquireLock(c),
               NEW d \in Calls, call'[d].owner \notin exposed'
        PROVE  CopyOf(call'[d], ops', KeyOf[d])
    <3>1. CASE call'[d].stage \notin Working
      BY <3>1 DEF CopyOf, Working
    <3>2. CASE d = c /\ call'[d].stage \in Working
      <4>1. call[c].stage \in Working => call[c].owner \notin exposed
        BY <2>0, <2>1, <2>2, <3>2, OwnerKept DEF Working
      <4>2. QED
        BY <2>0, <2>2, <3>2, <4>1, OwnCopyKept DEF Copies
    <3>3. CASE d # c /\ call'[d].stage \in Working
      <4>1. call'[d] = call[d]
        BY <2>0, <2>2, <3>3, OneCallMoves
      <4>2. call[d].owner \notin exposed /\ call[d].stage \in Working
        BY <2>1, <2>2, <3>3, <4>1
      <4>3. WorksOn(d, call[d].owner) /\ call[d].owner \in Tenants /\ ops[KeyOf[d]] # None
        BY <2>0, <4>2, SameRowSameTenant
      <4>4. ~(call[c].stage \in Working /\ KeyOf[c] = KeyOf[d])
        <5>1. SUFFICES ASSUME call[c].stage \in Working, KeyOf[c] = KeyOf[d] PROVE FALSE
          OBVIOUS
        <5>2. WorksOn(c, call[d].owner)
          BY <2>0, <4>2, <5>1, SameRowSameTenant
        <5>3. QED
          BY <3>3, <4>2, <4>3, <5>2 DEF Base, Guarded
      <4>5. KeyOf[d] \in Keys /\ ops \in [Keys -> Operation \cup {None}] /\ KeyOf[c] \in Keys
        BY <2>0, CallsAssumption DEF SysInv
      <4>6. ops'[KeyOf[d]] = ops[KeyOf[d]]
        BY <2>0, <2>2, <4>3, <4>4, <4>5, RowMoves
      <4>7. QED
        BY <4>1, <4>2, <4>6 DEF Copies, CopyOf
    <3>4. QED
      BY <3>1, <3>2, <3>3
  <2>3. ASSUME UNCHANGED sys \/ \E n \in LockName : ExpireLock(n),
               NEW d \in Calls, call'[d].owner \notin exposed'
        PROVE  CopyOf(call'[d], ops', KeyOf[d])
    <3>1. call'[d] = call[d] /\ ops' = ops
      BY <2>3 DEF sys, ExpireLock
    <3>2. CASE call'[d].stage \in Working
      BY <2>1, <2>3, <3>1, <3>2 DEF Copies
    <3>3. CASE call'[d].stage \notin Working
      BY <3>3 DEF CopyOf, Working
    <3>4. QED
      BY <3>2, <3>3
  <2>4. QED
    BY <2>0, <2>2, <2>3, ActCases DEF Copies
<1>3. QED
  BY <1>1, <1>2

LEMMA CopiesInit == Init => Copies
<1> SUFFICES ASSUME Init PROVE Copies
  OBVIOUS
<1>1. \A c \in Calls : call[c].stage = "idle"
  BY DEF Init, NoCall
<1>2. QED
  BY <1>1 DEF Copies, CopyOf

\* Every step opens an operation, moves one along the table, or is a write
\* by a call on an exposed tenant.
LEMMA LedgerStep ==
    ASSUME SysInv, Copies, [Next]_vars
    PROVE  [Ledger!LedgerNext]_ops
<1>1. ASSUME NEW c \in Calls, Step(c) \/ Crash(c) \/ AcquireLock(c)
      PROVE  [Ledger!LedgerNext]_ops
  <2>0. KeyOf[c] \in Keys /\ TenantOf[c] \in Tenants
    BY CallsAssumption
  <2>1. CASE /\ ops[KeyOf[c]] = None
             /\ ops' = [ops EXCEPT ![KeyOf[c]] = [tenant |-> TenantOf[c], state |-> "REQUESTED"]]
    <3>1. Ledger!Open(KeyOf[c])
      BY <2>0, <2>1 DEF Ledger!Open
    <3>2. QED
      BY <2>0, <3>1 DEF Ledger!LedgerNext
  <2>2. ASSUME call[c].stage \in Working,
               NEW s \in OperationState, ops' = [ops EXCEPT ![KeyOf[c]].state = s],
               call[c].owner \in exposed \/ ~IsInvalidTransition(ops[KeyOf[c]].state, s)
        PROVE  [Ledger!LedgerNext]_ops
    <3>1. /\ ops[KeyOf[c]] # None /\ WorksOn(c, call[c].owner)
      BY <2>2, SameRowSameTenant
    <3>2. CASE call[c].owner \in exposed
      <4>1. KeyOf[c] \in {KeyOf[d] : d \in {e \in Calls : \E t \in exposed : WorksOn(e, t)}}
        BY <3>1, <3>2
      <4>2. Ledger!Overwrite(KeyOf[c])
        BY <2>2, <3>1, <4>1 DEF Ledger!Overwrite, Ledger!OperationState, OperationState
      <4>3. QED
        BY <2>0, <4>2 DEF Ledger!LedgerNext
    <3>3. CASE ~IsInvalidTransition(ops[KeyOf[c]].state, s)
      <4>1. Ledger!Advance(KeyOf[c])
        BY <2>2, <3>1, <3>3
        DEF Ledger!Advance, Ledger!IsInvalidTransition, Ledger!AllowedMoves, Ledger!OperationState,
            IsInvalidTransition, AllowedMoves, OperationState
      <4>2. QED
        BY <2>0, <4>1 DEF Ledger!LedgerNext
    <3>4. QED
      BY <2>2, <3>2, <3>3
  <2>3. QED
    BY <1>1, <2>1, <2>2, RowMoves
<1>2. CASE UNCHANGED sys \/ \E n \in LockName : ExpireLock(n)
  BY <1>2 DEF sys, ExpireLock
<1>3. QED
  BY <1>1, <1>2, ActCases, NextActs

\* The rows refine the ledger for any calls, keys and tenants: a copy is never
\* older than its row while a lock protects the call, whatever fails, and an
\* operation keeps its key and its tenant even where no lock does.
THEOREM LedgerImplemented == Spec => ImplementsLedger
<1>1. Init => Ledger!LedgerInit
  BY DEF Init, Ledger!LedgerInit
<1>2. Base /\ Copies /\ [Next]_vars => [Ledger!LedgerNext]_ops
  BY LedgerStep DEF Base
<1>3. Base /\ Copies /\ [Next]_vars => Base' /\ Copies'
  BY BaseNext, CopiesKept
<1>4. QED
  BY <1>1, <1>2, <1>3, BaseInit, CopiesInit, PTL DEF Spec, ImplementsLedger, Ledger!LedgerSpec

-----------------------------------------------------------------------------
\* The journal as a chain.

\* The row a call is about to append is chained on the last one.
TipIsLast ==
    \A c \in Calls : call[c].stage = "append" /\ call[c].owner \notin exposed
        => call[c].tip = Len(journal[call[c].owner])

\* Only AppendToJournal writes the journal, one row of the call's operation.
LEMMA JournalStep ==
    ASSUME SysInv, [Act]_sys
    PROVE  \/ UNCHANGED journal
           \/ \E c \in Calls :
                 /\ call[c].stage = "append"
                 /\ call' = [call EXCEPT ![c] = Done(@)]
                 /\ journal' = [journal EXCEPT ![call[c].owner] =
                       Append(@, [key |-> KeyOf[c], state |-> call[c].view, prev |-> call[c].tip])]
                 /\ UNCHANGED ops
<1>1. ASSUME NEW c \in Calls, Step(c) \/ Crash(c) \/ AcquireLock(c)
      PROVE  \/ UNCHANGED journal
             \/ /\ call[c].stage = "append"
                /\ call' = [call EXCEPT ![c] = Done(@)]
                /\ journal' = [journal EXCEPT ![call[c].owner] =
                      Append(@, [key |-> KeyOf[c], state |-> call[c].view, prev |-> call[c].tip])]
                /\ UNCHANGED ops
  BY <1>1, StepForms DEF AcquireLock
<1>2. CASE UNCHANGED sys \/ \E n \in LockName : ExpireLock(n)
  BY <1>2 DEF sys, ExpireLock
<1>3. QED
  BY <1>1, <1>2, ActCases

\* What appending row e to the journal of tenant o does to it.
LEMMA AppendedJournal ==
    ASSUME SysInv, NEW o \in Tenants, NEW e \in Entry,
           journal' = [journal EXCEPT ![o] = Append(@, e)]
    PROVE  /\ Len(journal'[o]) = Len(journal[o]) + 1
           /\ journal'[o][Len(journal[o]) + 1] = e
           /\ \A i \in 1..Len(journal[o]) : journal'[o][i] = journal[o][i]
           /\ \A t \in Tenants : t # o => journal'[t] = journal[t]
           /\ Len(journal[o]) \in Nat
  BY DEF SysInv

\* How a call comes to one of the journal's statements.
LEMMA HashStages ==
    ASSUME SysInv, Copies, [Act]_sys, NEW c \in Calls, call'[c].stage \in {"readHash", "append"}
    PROVE  /\ call[c].stage \in Working
           /\ call'[c].owner = call[c].owner
           /\ \/ call'[c] = call[c]
              \/ /\ call[c].stage = "readHash" /\ call'[c].stage = "append"
                 /\ call'[c].view = call[c].view
                 /\ call'[c].tip = Len(journal[call[c].owner])
                 /\ UNCHANGED journal
              \/ /\ call'[c].stage = "readHash"
                 /\ call[c].owner \in exposed
                       \/ ~IsInvalidTransition(ops[KeyOf[c]].state, call'[c].view)
                 /\ UNCHANGED journal
<1> DEFINE r == call[c]
<1>0. r \in Call
  BY DEF SysInv
<1>1. CASE call'[c] = call[c]
  BY <1>1 DEF Working
<1>2. ASSUME Step(c) \/ Crash(c) \/ AcquireLock(c)
      PROVE  \/ /\ r.stage = "readHash"
                /\ call' = [call EXCEPT ![c] =
                      [@ EXCEPT !.stage = "append", !.tip = Len(journal[call[c].owner])]]
                /\ UNCHANGED journal
             \/ /\ r.stage \in {"run", "rollback"}
                /\ \E s \in OperationState :
                      /\ ~IsInvalidTransition(call[c].view, s)
                      /\ call[c].stage = "rollback" => s = "ROLLBACK"
                      /\ call' = [call EXCEPT ![c] = [@ EXCEPT !.stage = "readHash", !.view = s]]
                /\ UNCHANGED journal
  <2>1. \A x : call' = [call EXCEPT ![c] = x] => x.stage \in {"readHash", "append"}
    BY DEF SysInv
  <2>2. /\ Over.stage = "done"
        /\ \A x : At(r, x).stage = x
        /\ \A x : Thrown(r, x).stage \in {"release", "rollback"}
        /\ Done(r).stage \in {"release", "run"}
        /\ \A x, y, z : [r EXCEPT !.stage = x, !.view = y, !.owner = z].stage = x
    BY <1>0 DEF Over, NoCall, At, Thrown, Done, Call
  <2>3. ~(call' = [call EXCEPT ![c] = Over])
    BY <2>1, <2>2
  <2>4. \A x : call' = [call EXCEPT ![c] = At(r, x)] => x \in {"readHash", "append"}
    <3>1. TAKE x
    <3>2. HAVE call' = [call EXCEPT ![c] = At(r, x)]
    <3>3. At(r, x).stage \in {"readHash", "append"}
      BY <2>1, <3>2
    <3>4. QED
      BY <2>2, <3>3
  <2>5. \A x : ~(call' = [call EXCEPT ![c] = Thrown(r, x)])
    BY <2>1, <2>2
  <2>6. ~(call' = [call EXCEPT ![c] = Done(r)])
    BY <2>1, <2>2
  <2>7. \A x, y, z : call' = [call EXCEPT ![c] = [r EXCEPT !.stage = x, !.view = y, !.owner = z]]
                        => x \in {"readHash", "append"}
    <3>1. TAKE x, y, z
    <3> DEFINE n == [r EXCEPT !.stage = x, !.view = y, !.owner = z]
    <3>2. HAVE call' = [call EXCEPT ![c] = n]
    <3>3. n.stage = x
      BY <2>2
    <3> HIDE DEF n
    <3>4. n.stage \in {"readHash", "append"}
      BY <2>1, <3>2
    <3>5. QED
      BY <3>3, <3>4
  <2>8. /\ ~(call' = [call EXCEPT ![c] = At(@, "lookup")])
        /\ ~(\E s \in {"insert", "release"} : call' = [call EXCEPT ![c] = At(@, s)])
    BY <2>4
  <2>9. ~(call' = [call EXCEPT ![c] =
            [@ EXCEPT !.stage = IF ops[KeyOf[c]].state = "FINALIZED" THEN "release" ELSE "run",
                      !.view = ops[KeyOf[c]].state, !.owner = ops[KeyOf[c]].tenant]])
    <3> DEFINE x == IF ops[KeyOf[c]].state = "FINALIZED" THEN "release" ELSE "run"
    <3>1. x \notin {"readHash", "append"}
      OBVIOUS
    <3> HIDE DEF x
    <3>2. ~(call' = [call EXCEPT ![c] =
              [r EXCEPT !.stage = x, !.view = ops[KeyOf[c]].state, !.owner = ops[KeyOf[c]].tenant]])
      BY <2>7, <3>1
    <3>3. QED
      BY <3>2 DEF x
  <2>10. ~(call' = [call EXCEPT ![c] = [@ EXCEPT !.stage = "run", !.view = "REQUESTED",
                                                 !.owner = TenantOf[c]]])
    <3>1. ~(call' = [call EXCEPT ![c] =
              [r EXCEPT !.stage = "run", !.view = "REQUESTED", !.owner = TenantOf[c]]])
      BY <2>7, "run" \notin {"readHash", "append"}
    <3>2. QED
      BY <3>1
  <2> HIDE DEF r
  <2>11. QED
    BY <1>2, <2>3, <2>5, <2>6, <2>8, <2>9, <2>10, StepForms DEF r
<1>3. ASSUME Step(c) \/ Crash(c) \/ AcquireLock(c)
      PROVE  /\ call[c].stage \in Working
             /\ call'[c].owner = call[c].owner
             /\ \/ /\ call[c].stage = "readHash" /\ call'[c].stage = "append"
                   /\ call'[c].view = call[c].view
                   /\ call'[c].tip = Len(journal[call[c].owner])
                   /\ UNCHANGED journal
                \/ /\ call'[c].stage = "readHash"
                   /\ call[c].owner \in exposed
                         \/ ~IsInvalidTransition(ops[KeyOf[c]].state, call'[c].view)
                   /\ UNCHANGED journal
  <2> DEFINE m == Len(journal[call[c].owner])
  <2>0. \A x : call' = [call EXCEPT ![c] = x] => call'[c] = x
    BY DEF SysInv
  <2>1. CASE /\ r.stage = "readHash"
             /\ call' = [call EXCEPT ![c] = [@ EXCEPT !.stage = "append", !.tip = m]]
             /\ UNCHANGED journal
    <3>1. call'[c] = [r EXCEPT !.stage = "append", !.tip = m]
      BY <2>0, <2>1
    <3> HIDE DEF m
    <3>2. call'[c].stage = "append" /\ call'[c].tip = m /\ call'[c].view = r.view
          /\ call'[c].owner = r.owner
      BY <1>0, <3>1 DEF Call
    <3>3. QED
      BY <2>1, <3>2 DEF Working, m
  <2>2. CASE /\ r.stage \in {"run", "rollback"}
             /\ \E s \in OperationState :
                   /\ ~IsInvalidTransition(call[c].view, s)
                   /\ call[c].stage = "rollback" => s = "ROLLBACK"
                   /\ call' = [call EXCEPT ![c] = [@ EXCEPT !.stage = "readHash", !.view = s]]
             /\ UNCHANGED journal
    <3>1. PICK s \in OperationState :
              /\ ~IsInvalidTransition(call[c].view, s)
              /\ call[c].stage = "rollback" => s = "ROLLBACK"
              /\ call'[c] = [r EXCEPT !.stage = "readHash", !.view = s]
      BY <2>0, <2>2
    <3>2. call'[c].stage = "readHash" /\ call'[c].view = s /\ call'[c].owner = r.owner
      BY <1>0, <3>1 DEF Call
    <3>3. call[c].owner \in exposed \/ ~IsInvalidTransition(ops[KeyOf[c]].state, s)
      BY <2>2, <3>1, RollbackOfCopy DEF Copies, CopyOf
    <3>4. QED
      BY <2>2, <3>2, <3>3 DEF Working
  <2>3. QED
    BY <1>2, <1>3, <2>1, <2>2
<1>4. CASE UNCHANGED sys \/ \E n \in LockName : ExpireLock(n)
  BY <1>1, <1>4 DEF sys, ExpireLock
<1>5. ASSUME NEW d \in Calls, Step(d) \/ Crash(d) \/ AcquireLock(d), d # c
      PROVE  call'[c] = call[c]
  BY <1>5, OneCallMoves
<1>6. QED
  BY <1>1, <1>3, <1>4, <1>5, ActCases

\* A working call on a tenant that is not exposed is the only one on it.
LEMMA WorksAlone ==
    ASSUME Base, [Next]_vars, NEW c \in Calls, NEW d \in Calls,
           call[c].stage \in Working, call[d].stage \in Working,
           call[c].owner = call[d].owner \/ KeyOf[c] = KeyOf[d], call[c].owner \notin exposed
    PROVE  c = d
<1>1. WorksOn(c, call[c].owner) /\ WorksOn(d, call[c].owner) /\ call[c].owner \in Tenants
  BY SameRowSameTenant DEF Base
<1>2. QED
  BY <1>1 DEF Base, Guarded

\* A call that came to append, and whose tenant is not exposed, was not before.
LEMMA NotExposedBefore ==
    ASSUME Base, Copies, [Next]_vars, NEW c \in Calls, call'[c].stage \in {"readHash", "append"},
           call'[c].owner \notin exposed'
    PROVE  call[c].owner \notin exposed
<1>1. CASE UNCHANGED vars
  BY <1>1 DEF vars
<1>2. CASE Next
  <2>1. call[c].stage \in Working /\ call'[c].owner = call[c].owner
    BY <1>2, HashStages, NextActs DEF Base
  <2>2. call[c].owner \in Tenants
    BY <2>1, SameRowSameTenant DEF Base
  <2>3. PICK t \in Tenants : t = call[c].owner
    BY <2>2
  <2>4. WorksOn(c, t)'
    BY <2>1, <2>3 DEF WorksOn, Live
  <2>5. QED
    BY <1>2, <2>1, <2>3, <2>4, Exposure
<1>3. QED
  BY <1>1, <1>2

\* The record and the journal an append leaves.
LEMMA Appended ==
    ASSUME SysInv, NEW c \in Calls, call[c].stage = "append",
           call' = [call EXCEPT ![c] = Done(@)],
           journal' = [journal EXCEPT ![call[c].owner] =
              Append(@, [key |-> KeyOf[c], state |-> call[c].view, prev |-> call[c].tip])]
    PROVE  LET o == call[c].owner
               e == [key |-> KeyOf[c], state |-> call[c].view, prev |-> call[c].tip]
           IN  /\ o \in Tenants /\ e \in Entry /\ ops[KeyOf[c]] # None
               /\ call'[c].stage \in {"release", "run"}
               /\ \A d \in Calls : d # c => call'[d] = call[d]
               /\ Len(journal'[o]) = Len(journal[o]) + 1
               /\ journal'[o][Len(journal[o]) + 1] = e
               /\ \A i \in 1..Len(journal[o]) : journal'[o][i] = journal[o][i]
               /\ \A t \in Tenants : t # o => journal'[t] = journal[t]
               /\ Len(journal[o]) \in Nat
<1> DEFINE o == call[c].owner
           e == [key |-> KeyOf[c], state |-> call[c].view, prev |-> call[c].tip]
<1>1. o \in Tenants /\ call[c].view \in OperationState /\ KeyOf[c] \in Keys /\ call[c].tip \in Nat
      /\ ops[KeyOf[c]] # None
  BY CallsAssumption DEF SysInv, WellFormed, Working, Call
<1>2. e \in Entry
  BY <1>1 DEF Entry
<1>3. journal' = [journal EXCEPT ![o] = Append(@, e)]
  OBVIOUS
<1>4. call'[c] = Done(call[c]) /\ call[c] \in Call /\ \A d \in Calls : d # c => call'[d] = call[d]
  BY DEF SysInv
<1>5. call'[c].stage \in {"release", "run"}
  <2>1. \A r \in Call : Done(r).stage \in {"release", "run"}
    BY DEF Done, Call
  <2>2. QED
    BY <1>4, <2>1
<1> HIDE DEF o, e
<1>6. /\ Len(journal'[o]) = Len(journal[o]) + 1
      /\ journal'[o][Len(journal[o]) + 1] = e
      /\ \A i \in 1..Len(journal[o]) : journal'[o][i] = journal[o][i]
      /\ \A t \in Tenants : t # o => journal'[t] = journal[t]
      /\ Len(journal[o]) \in Nat
  BY <1>1, <1>2, <1>3, AppendedJournal
<1>7. QED
  BY <1>1, <1>2, <1>4, <1>5, <1>6 DEF o, e

LEMMA TipKept ==
    ASSUME Base, Copies, TipIsLast, [Next]_vars
    PROVE  TipIsLast'
<1>1. ASSUME NEW d \in Calls, call'[d].stage = "append", call'[d].owner \notin exposed',
             UNCHANGED journal
      PROVE  call'[d].tip = Len(journal'[call'[d].owner])
  BY <1>1, NotExposedBefore, HashStages, NextActs DEF TipIsLast, Base
<1>2. ASSUME NEW d \in Calls, call'[d].stage = "append", call'[d].owner \notin exposed',
             NEW c \in Calls, call[c].stage = "append",
             call' = [call EXCEPT ![c] = Done(@)],
             journal' = [journal EXCEPT ![call[c].owner] =
                Append(@, [key |-> KeyOf[c], state |-> call[c].view, prev |-> call[c].tip])]
      PROVE  call'[d].tip = Len(journal'[call'[d].owner])
  <2>1. call[d].owner \notin exposed /\ call[d].stage \in Working /\ call'[d].owner = call[d].owner
    BY <1>2, NotExposedBefore, HashStages, NextActs DEF Base
  <2>2. d # c /\ call'[d] = call[d] /\ \A t \in Tenants : t # call[c].owner => journal'[t] = journal[t]
    BY <1>2, Appended DEF Base
  <2>3. call[d].owner # call[c].owner
    BY <1>2, <2>1, <2>2, WorksAlone DEF Working
  <2>4. call[d].owner \in Tenants
    BY <2>1, SameRowSameTenant DEF Base
  <2>5. QED
    BY <1>2, <2>1, <2>2, <2>3, <2>4 DEF TipIsLast
<1>3. QED
  BY <1>1, <1>2, JournalStep, NextActs DEF TipIsLast, Base

LEMMA ChainStep ==
    ASSUME Base, TipIsLast, [Next]_vars, NEW t \in Tenants, t \notin exposed,
           journal'[t] # journal[t]
    PROVE  journal'[t][Len(journal'[t])].prev = Len(journal[t])
<1>1. PICK c \in Calls :
          /\ call[c].stage = "append"
          /\ call' = [call EXCEPT ![c] = Done(@)]
          /\ journal' = [journal EXCEPT ![call[c].owner] =
                Append(@, [key |-> KeyOf[c], state |-> call[c].view, prev |-> call[c].tip])]
  BY JournalStep, NextActs DEF Base
<1> DEFINE o == call[c].owner
           e == [key |-> KeyOf[c], state |-> call[c].view, prev |-> call[c].tip]
<1>2. e.prev = call[c].tip
  OBVIOUS
<1> HIDE DEF e
<1>3. /\ Len(journal'[o]) = Len(journal[o]) + 1
      /\ journal'[o][Len(journal[o]) + 1] = e
      /\ t # o => journal'[t] = journal[t]
  BY <1>1, Appended DEF Base, e
<1>4. t = o
  BY <1>3
<1>5. QED
  BY <1>1, <1>2, <1>3, <1>4 DEF TipIsLast

LEMMA TipInit == Init => TipIsLast
<1> SUFFICES ASSUME Init PROVE TipIsLast
  OBVIOUS
<1>1. \A c \in Calls : call[c].stage = "idle"
  BY DEF Init, NoCall
<1>2. QED
  BY <1>1 DEF TipIsLast

\* The journal of a tenant is one hash chain as far as a lock protected the
\* calls on it: the last hash a call has read is the last when it appends.
THEOREM ChainLinear == Spec => ChainExtended
<1>1. Base /\ Copies /\ TipIsLast /\ [Next]_vars => Base' /\ Copies' /\ TipIsLast'
  BY BaseNext, CopiesKept, TipKept
<1>2. Base /\ TipIsLast /\ [Next]_vars
         => [\A t \in Tenants \ exposed :
                journal'[t] # journal[t]
                    => journal'[t][Len(journal'[t])].prev = Len(journal[t])]_vars
  BY ChainStep
<1>3. QED
  BY <1>1, <1>2, BaseInit, CopiesInit, TipInit, PTL DEF Spec, ChainExtended

-----------------------------------------------------------------------------
\* The journal and the rows.

\* Keys worked with on an exposed tenant are contested.
Contests == \A c \in Calls : \A t \in exposed : WorksOn(c, t) => KeyOf[c] \in contested

\* The state about to be journaled is ahead of all that is journaled of its operation.
AheadOfJournal ==
    \A c \in Calls : call[c].stage \in {"readHash", "append"} /\ KeyOf[c] \notin contested =>
        \A j \in 1..Len(journal[call[c].owner]) :
            journal[call[c].owner][j].key = KeyOf[c]
                => Before(journal[call[c].owner][j].state, call[c].view)

JournalInv == Contests /\ JournalFollowsOperation /\ AheadOfJournal

LEMMA ContestsKept ==
    ASSUME Contests, [Next]_vars
    PROVE  Contests' /\ contested \subseteq contested'
<1>1. CASE UNCHANGED vars
  BY <1>1 DEF Contests, vars, WorksOn, Live
<1>2. CASE Next
  BY <1>2 DEF Next, Observe, Contests
<1>3. QED
  BY <1>1, <1>2

\* A call working with a key that is not contested has its tenant to itself.
LEMMA OwnerProtected ==
    ASSUME SysInv, Contests, NEW c \in Calls, call[c].stage \in Working, KeyOf[c] \notin contested
    PROVE  call[c].owner \notin exposed
  BY SameRowSameTenant DEF Contests

\* Rows of such keys never disappear and never move back.
LEMMA RowsGoForward ==
    ASSUME SysInv, Copies, Contests, [Act]_sys, NEW k \in Keys, ops[k] # None, k \notin contested
    PROVE  /\ ops'[k] # None
           /\ ops'[k].state = ops[k].state \/ Before(ops[k].state, ops'[k].state)
<1>1. ops'[k] # None /\ ops[k] \in [tenant : Tenants, state : OperationState]
  BY RowsStay DEF RowsKept, SysInv, Operation
<1>2. ASSUME NEW c \in Calls, Step(c) \/ Crash(c) \/ AcquireLock(c)
      PROVE  ops'[k].state = ops[k].state \/ Before(ops[k].state, ops'[k].state)
  <2>0. KeyOf[c] \in Keys /\ ops \in [Keys -> Operation \cup {None}]
    BY CallsAssumption DEF SysInv
  <2>1. ASSUME k = KeyOf[c], call[c].stage \in Working,
               NEW s \in OperationState, ops' = [ops EXCEPT ![KeyOf[c]].state = s],
               call[c].owner \in exposed \/ ~IsInvalidTransition(ops[KeyOf[c]].state, s)
        PROVE  Before(ops[k].state, ops'[k].state)
    <3>1. ~IsInvalidTransition(ops[k].state, s)
      BY <2>1, OwnerProtected
    <3>2. ops'[k].state = s
      BY <1>1, <2>0, <2>1
    <3>3. QED
      BY <3>1, <3>2, MoveGoesForward
  <2>2. CASE k # KeyOf[c] \/ UNCHANGED ops
    BY <1>2, <2>0, <2>2, RowMoves
  <2>3. CASE k = KeyOf[c]
    BY <1>2, <2>1, <2>3, RowMoves
  <2>4. QED
    BY <2>2, <2>3
<1>3. CASE UNCHANGED sys \/ \E n \in LockName : ExpireLock(n)
  BY <1>3 DEF sys, ExpireLock
<1>4. QED
  BY <1>1, <1>2, <1>3, ActCases

LEMMA JournalNext ==
    ASSUME Base, Copies, JournalInv, [Next]_vars
    PROVE  JournalInv'
<1>0. SysInv /\ Contests /\ Contests' /\ contested \subseteq contested' /\ [Act]_sys
  BY NextActs, ContestsKept DEF Base, JournalInv
<1>1. ASSUME NEW t \in Tenants, NEW j \in 1..Len(journal[t]), journal[t][j].key \notin contested
      PROVE  /\ journal[t][j].key \in Keys /\ ops'[journal[t][j].key] # None
             /\ \/ journal[t][j].state = ops'[journal[t][j].key].state
                \/ Before(journal[t][j].state, ops'[journal[t][j].key].state)
  <2>1. journal[t][j] \in Entry
    BY <1>0 DEF SysInv
  <2>2. /\ journal[t][j].key \in Keys /\ ops[journal[t][j].key] # None
        /\ \/ journal[t][j].state = ops[journal[t][j].key].state
           \/ Before(journal[t][j].state, ops[journal[t][j].key].state)
    BY <1>1, <2>1 DEF JournalInv, JournalFollowsOperation, Entry
  <2>3. QED
    BY <1>0, <1>1, <2>2, RowsGoForward, BeforeTransitive
<1>2. CASE UNCHANGED journal
  <2>1. JournalFollowsOperation'
    BY <1>0, <1>1, <1>2 DEF JournalInv, JournalFollowsOperation
  <2>2. ASSUME NEW d \in Calls, call'[d].stage \in {"readHash", "append"}, KeyOf[d] \notin contested',
               NEW j \in 1..Len(journal[call[d].owner]),
               journal[call[d].owner][j].key = KeyOf[d]
        PROVE  Before(journal[call[d].owner][j].state, call'[d].view)
    <3>1. call[d].stage \in Working /\ KeyOf[d] \notin contested
      BY <1>0, <2>2, HashStages
    <3>2. call[d].owner \in Tenants /\ call[d].owner \notin exposed
      BY <1>0, <3>1, OwnerProtected DEF SysInv, WellFormed
    <3>3. CASE call[d].stage \in {"readHash", "append"} /\ call'[d].view = call[d].view
      BY <2>2, <3>1, <3>3 DEF JournalInv, AheadOfJournal
    <3>4. CASE ~IsInvalidTransition(ops[KeyOf[d]].state, call'[d].view)
      <4>1. Before(ops[KeyOf[d]].state, call'[d].view)
        BY <3>4, MoveGoesForward
      <4>2. \/ journal[call[d].owner][j].state = ops[KeyOf[d]].state
            \/ Before(journal[call[d].owner][j].state, ops[KeyOf[d]].state)
        BY <2>2, <3>1, <3>2 DEF JournalInv, JournalFollowsOperation
      <4>3. QED
        BY <4>1, <4>2, BeforeTransitive
    <3>5. QED
      BY <1>0, <2>2, <3>2, <3>3, <3>4, HashStages
  <2>3. ASSUME NEW d \in Calls, call'[d].stage \in {"readHash", "append"}
        PROVE  call'[d].owner = call[d].owner
    BY <1>0, <2>3, HashStages
  <2>4. AheadOfJournal'
    BY <1>2, <2>2, <2>3 DEF AheadOfJournal
  <2>5. QED
    BY <1>0, <2>1, <2>4 DEF JournalInv
<1>3. ASSUME NEW c \in Calls, call[c].stage = "append",
             call' = [call EXCEPT ![c] = Done(@)],
             journal' = [journal EXCEPT ![call[c].owner] =
                Append(@, [key |-> KeyOf[c], state |-> call[c].view, prev |-> call[c].tip])],
             UNCHANGED ops
      PROVE  JournalInv'
  <2> DEFINE o == call[c].owner
             e == [key |-> KeyOf[c], state |-> call[c].view, prev |-> call[c].tip]
  <2>1. e.key = KeyOf[c] /\ e.state = call[c].view /\ call[c].stage \in Working
    BY <1>3 DEF Working
  <2>2. ASSUME KeyOf[c] \notin contested PROVE o \notin exposed
    BY <1>0, <2>1, <2>2, OwnerProtected
  <2>3. KeyOf[c] \notin contested => e.state = ops[e.key].state
    BY <1>3, <2>1, <2>2 DEF Copies, CopyOf
  <2>4. KeyOf[c] \notin contested => \A j \in 1..Len(journal[o]) :
            journal[o][j].key = e.key => Before(journal[o][j].state, e.state)
    BY <1>3, <2>1 DEF JournalInv, AheadOfJournal
  <2>5. \A d \in Calls : d # c /\ call[d].stage \in Working /\ KeyOf[d] = KeyOf[c]
            => KeyOf[c] \in contested
    BY <2>1, <2>2, WorksAlone
  <2>6. \A d \in Calls : call[d].stage \in Working => call[d].owner \in Tenants
    BY <1>0 DEF SysInv, WellFormed
  <2>7. /\ o \in Tenants /\ ops[e.key] # None
        /\ call'[c].stage \in {"release", "run"}
        /\ \A d \in Calls : d # c => call'[d] = call[d]
        /\ Len(journal'[o]) = Len(journal[o]) + 1
        /\ journal'[o][Len(journal[o]) + 1] = e
        /\ \A i \in 1..Len(journal[o]) : journal'[o][i] = journal[o][i]
        /\ \A t \in Tenants : t # o => journal'[t] = journal[t]
        /\ Len(journal[o]) \in Nat
    BY <1>0, <1>3, <2>1, Appended
  <2> HIDE DEF o, e
  <2>8. AheadOfJournal'
    <3>1. ASSUME NEW d \in Calls, call'[d].stage \in {"readHash", "append"}, KeyOf[d] \notin contested',
                 NEW j \in 1..Len(journal'[call'[d].owner]),
                 journal'[call'[d].owner][j].key = KeyOf[d]
          PROVE  Before(journal'[call'[d].owner][j].state, call'[d].view)
      <4>1. d # c /\ call'[d] = call[d] /\ call[d].stage \in Working /\ KeyOf[d] \notin contested
        BY <1>0, <2>7, <3>1 DEF Working
      <4>2. KeyOf[d] # KeyOf[c]
        BY <2>5, <4>1
      <4>3. j \in 1..Len(journal[call[d].owner])
            /\ journal'[call[d].owner][j] = journal[call[d].owner][j]
        BY <2>1, <2>6, <2>7, <3>1, <4>1, <4>2
      <4>4. QED
        BY <3>1, <4>1, <4>3 DEF JournalInv, AheadOfJournal
    <3>2. QED
      BY <3>1 DEF AheadOfJournal
  <2>9. ASSUME NEW t \in Tenants, NEW j \in 1..Len(journal'[t]), journal'[t][j].key \notin contested'
        PROVE  /\ ops'[journal'[t][j].key] # None
               /\ \/ journal'[t][j].state = ops'[journal'[t][j].key].state
                  \/ Before(journal'[t][j].state, ops'[journal'[t][j].key].state)
               /\ \A i \in 1..(j - 1) : journal'[t][i].key = journal'[t][j].key
                     => Before(journal'[t][i].state, journal'[t][j].state)
    <3>0. journal'[t][j].key \notin contested
      BY <1>0, <2>9
    <3>1. CASE t # o
      BY <1>1, <2>7, <2>9, <3>0, <3>1 DEF JournalInv, JournalFollowsOperation
    <3>2. CASE t = o /\ j = Len(journal[o]) + 1
      <4>1. journal'[t][j] = e /\ ops' = ops
        BY <1>3, <2>7, <3>2
      <4>2. \A i \in 1..(j - 1) : i \in 1..Len(journal[o]) /\ journal'[t][i] = journal[o][i]
        BY <2>7, <3>2
      <4>3. ops'[e.key] # None /\ e.state = ops'[e.key].state /\ KeyOf[c] \notin contested
        BY <2>1, <2>3, <2>7, <3>0, <4>1
      <4>4. QED
        BY <2>4, <4>1, <4>2, <4>3
    <3>3. CASE t = o /\ j \in 1..Len(journal[o])
      <4>1. journal'[t][j] = journal[t][j] /\ \A i \in 1..(j - 1) : journal'[t][i] = journal[t][i]
        BY <2>7, <3>3
      <4>2. \A i \in 1..(j - 1) : journal[t][i].key = journal[t][j].key
                      => Before(journal[t][i].state, journal[t][j].state)
        BY <3>0, <3>3, <4>1 DEF JournalInv, JournalFollowsOperation
      <4>3. QED
        BY <1>1, <3>0, <3>3, <4>1, <4>2
    <3>4. QED
      BY <2>7, <2>9, <3>1, <3>2, <3>3
  <2>10. QED
    BY <1>0, <2>8, <2>9 DEF JournalInv, JournalFollowsOperation
<1>4. QED
  BY <1>0, <1>2, <1>3, JournalStep

LEMMA JournalInit == Init => JournalInv
<1> SUFFICES ASSUME Init PROVE JournalInv
  OBVIOUS
<1>1. (\A c \in Calls : call[c].stage = "idle") /\ \A t \in Tenants : journal[t] = <<>>
  BY DEF Init, NoCall
<1>2. exposed = {}
  BY DEF Init
<1>3. QED
  BY <1>1, <1>2 DEF JournalInv, JournalFollowsOperation, AheadOfJournal, Contests

\* The journal never tells a story the operation row did not live, as long as
\* no call worked on the operation without the protection of a lock.
THEOREM JournalFaithful == Spec => []JournalFollowsOperation
<1>1. Base /\ Copies /\ JournalInv /\ [Next]_vars => Base' /\ Copies' /\ JournalInv'
  BY BaseNext, CopiesKept, JournalNext
<1>2. QED
  BY <1>1, BaseInit, CopiesInit, JournalInit, PTL DEF Spec, JournalInv

=============================================================================
