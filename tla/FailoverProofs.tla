--------------------------- MODULE FailoverProofs ---------------------------
(***************************************************************************)
(* Machine-checked proofs about Failover, for any number of calls,         *)
(* migrations and keys, with crashes and outages, and with the lock of the *)
(* tenant lost at any time: what the version column of the control record  *)
(* guarantees by itself, what is left of a freeze, and what the lock adds  *)
(* and is missing in a spell in which it keeps nobody apart.               *)
(***************************************************************************)
EXTENDS Failover, TLAPS

-----------------------------------------------------------------------------
\* The types of everything but the history.
SysTypes ==
    /\ control \in Control
    /\ snapshot \in Snapshot
    /\ op \in [Keys -> OperationState \cup {None}]
    /\ lock \in BOOLEAN
    /\ pc \in [Workers -> Stage]
    /\ view \in [Calls -> OperationState \cup {None}]
    /\ copy \in [Calls -> Control \cup {None}]
    /\ dirty \in [Calls -> BOOLEAN]
    /\ pending \in [Workers -> Snapshot \cup {None}]

\* A step of Next is one of Act, which the history only watches.
LEMMA NextActs ==
    ASSUME [Next]_vars
    PROVE  [Act]_sys
  BY DEF Next, vars, sys

\* The next snapshot.
LEMMA SignedNext ==
    ASSUME NEW w \in Workers, NEW s \in Snapshot, NEW t \in {"primary", "secondary"}
    PROVE  Signed(w, s, t) \in Snapshot /\ Signed(w, s, t).gen = s.gen + 1
  BY DEF Signed, Snapshot

\* Flushes keep the types.
LEMMA FlushedTypes ==
    ASSUME SysTypes, NEW c \in Calls, NEW r \in Control \cup {None}, NEW d \in BOOLEAN,
           r = None => ~d, Flushed(c, r, d)
    PROVE  /\ control' \in Control /\ snapshot' \in Snapshot
           /\ copy' \in [Calls -> Control \cup {None}]
           /\ dirty' \in [Calls -> BOOLEAN]
           /\ pending' \in [Workers -> Snapshot \cup {None}]
<1> DEFINE saved == IF d THEN [r EXCEPT !.version = @ + 1] ELSE r
<1>1. saved \in Control \cup {None} /\ (d => saved \in Control)
  BY DEF Control
<1>2. /\ control' = IF d THEN saved ELSE control
      /\ copy' = [copy EXCEPT ![c] = saved]
  BY DEF Flushed
<1>3. control' \in Control /\ copy' \in [Calls -> Control \cup {None}]
  BY <1>1, <1>2 DEF SysTypes
<1>4. snapshot' \in Snapshot /\ dirty' \in [Calls -> BOOLEAN]
      /\ pending' \in [Workers -> Snapshot \cup {None}]
  BY DEF SysTypes, Flushed, SaveSnapshot, Workers
<1>5. QED
  BY <1>3, <1>4

LEMMA NotFlushedTypes ==
    ASSUME SysTypes, NEW c \in Calls, NEW r \in Control \cup {None}, NEW d \in BOOLEAN,
           NotFlushed(c, r, d)
    PROVE  /\ control' \in Control /\ snapshot' \in Snapshot
           /\ copy' \in [Calls -> Control \cup {None}]
           /\ dirty' \in [Calls -> BOOLEAN]
           /\ pending' \in [Workers -> Snapshot \cup {None}]
  BY DEF SysTypes, NotFlushed, KeepSnapshot, Workers

LEMMA GotoTypes ==
    ASSUME SysTypes, NEW w \in Workers, NEW s \in Stage, Goto(w, s)
    PROVE  pc' \in [Workers -> Stage]
  BY DEF SysTypes, Goto

LEMMA ThrowTypes ==
    ASSUME SysTypes, NEW c \in Calls, Throw(c)
    PROVE  pc' \in [Workers -> Stage]
  BY DEF SysTypes, Throw, Goto, Stage, Catch, Workers

-----------------------------------------------------------------------------
\* Statements that are run with a loaded control record, and statements that
\* are run without unsaved changes to it.
Loaded == {"validate", "check", "switching", "freeze", "assign", "publish", "degrade",
           "switched", "recover", "unfreeze", "finalize", "record", "reactivate"}
Clean == Stage \ {"publish", "rollback", "release", "done"}

\* The fence may go from record x to record y in one step of WriteFence.
MayFollow(x, y) ==
    \/ y.frozen = x.frozen /\ y.token = x.token /\ y.fence = x.fence
    \/ y.frozen = TRUE /\ y.token = x.token /\ y.fence = x.fence
    \/ x.frozen /\ y.frozen = x.frozen /\ y.token \in Calls /\ y.fence > x.fence
    \/ y.frozen = FALSE /\ y.token = None /\ y.fence = x.fence

\* A managed record r, changed if d, is older than the row x, or it is the row
\* with at most one step of WriteFence made to it.
Agrees(r, d, x) ==
    /\ r.version <= x.version
    /\ r.version = x.version => (d \/ r = x) /\ MayFollow(x, r)

CallInv(c) ==
    /\ copy[c] = None => ~dirty[c]
    /\ copy[c] # None => Agrees(copy[c], dirty[c], control)
    /\ pc[c] \in Loaded => copy[c] # None
    /\ pc[c] \in Clean => ~dirty[c]
    /\ pc[c] = "assign" => copy[c].frozen

Inv == SysTypes /\ \A c \in Calls : CallInv(c)

\* The row only moves by growing its version, so the other calls' copies keep
\* agreeing with it or become old.
LEMMA CallStep ==
    ASSUME Inv, SysTypes', NEW c \in Calls, CallInv(c)',
           \A d \in Calls : d # c => copy'[d] = copy[d] /\ dirty'[d] = dirty[d] /\ pc'[d] = pc[d],
           control' = control \/ control'.version = control.version + 1
    PROVE  Inv'
<1>1. ASSUME NEW d \in Calls, d # c PROVE CallInv(d)'
  <2>1. CallInv(d) /\ copy'[d] = copy[d] /\ dirty'[d] = dirty[d] /\ pc'[d] = pc[d]
    BY <1>1 DEF Inv
  <2>2. copy[d] # None => copy[d].version \in Nat
    BY DEF Inv, SysTypes, Control
  <2>3. control.version \in Nat
    BY DEF Inv, SysTypes, Control
  <2>4. copy[d] # None => Agrees(copy[d], dirty[d], control')
    BY <2>1, <2>2, <2>3 DEF CallInv, Agrees
  <2>5. QED
    BY <2>1, <2>4 DEF CallInv
<1>2. QED
  BY <1>1 DEF Inv

\* What a successful flush of call c does, with its record being r, changed if d.
LEMMA FlushedAgrees ==
    ASSUME Inv, NEW c \in Calls, NEW r \in Control \cup {None}, NEW d \in BOOLEAN,
           r = None => ~d, r # None => Agrees(r, d, control), Flushed(c, r, d)
    PROVE  /\ control' = control \/ control'.version = control.version + 1
           /\ MayFollow(control, control')
           /\ ~dirty'[c]
           /\ copy'[c] = None <=> r = None
           /\ copy'[c] # None => Agrees(copy'[c], FALSE, control') /\ copy'[c].frozen = r.frozen
           /\ \A e \in Calls : e # c => copy'[e] = copy[e] /\ dirty'[e] = dirty[e]
<1>1. control \in Control
  BY DEF Inv, SysTypes
<1>2. /\ \A e \in Calls : e # c => copy'[e] = copy[e] /\ dirty'[e] = dirty[e]
      /\ ~dirty'[c]
  BY DEF Flushed, Inv, SysTypes
<1>3. CASE d
  <2> DEFINE saved == [r EXCEPT !.version = @ + 1]
  <2>1. r \in Control /\ control.version = r.version
    BY <1>3 DEF Flushed
  <2>2. control' = saved /\ copy'[c] = saved
    <3>1. copy' = [copy EXCEPT ![c] = saved]
      BY <1>3 DEF Flushed
    <3>2. copy \in [Calls -> Control \cup {None}]
      BY DEF Inv, SysTypes
    <3>3. control' = saved
      BY <1>3 DEF Flushed
    <3> HIDE DEF saved
    <3>4. QED
      BY <3>1, <3>2, <3>3
  <2>3. /\ saved \in Control /\ saved.version = r.version + 1 /\ saved.frozen = r.frozen
        /\ saved.token = r.token /\ saved.fence = r.fence
    BY <2>1 DEF Control
  <2>4. MayFollow(control, r)
    BY <2>1, NoneAssumption DEF Agrees
  <2> HIDE DEF saved
  <2>5. MayFollow(control, saved)
    BY <2>3, <2>4 DEF MayFollow
  <2>6. saved # None
    BY <2>3, NoneAssumption
  <2>7. saved.version <= saved.version
    BY <2>3 DEF Control
  <2>8. Agrees(saved, FALSE, saved)
    BY <2>7 DEF Agrees, MayFollow
  <2>9. QED
    BY <1>2, <2>1, <2>2, <2>3, <2>5, <2>6, <2>8, NoneAssumption
<1>4. CASE ~d
  <2>1. control' = control /\ copy'[c] = r
    BY <1>4 DEF Flushed, Inv, SysTypes
  <2>2. MayFollow(control, control)
    BY DEF MayFollow
  <2>3. QED
    BY <1>2, <1>4, <2>1, <2>2
<1>5. QED
  BY <1>3, <1>4

\* What a flush that fails does.
LEMMA NotFlushedAgrees ==
    ASSUME Inv, NEW c \in Calls, NEW r \in Control \cup {None}, NEW d \in BOOLEAN,
           NotFlushed(c, r, d)
    PROVE  /\ control' = control /\ copy'[c] = r /\ dirty'[c] = d
           /\ \A e \in Calls : e # c => copy'[e] = copy[e] /\ dirty'[e] = dirty[e]
  BY DEF NotFlushed, Inv, SysTypes

\* Where a call is after a step.
LEMMA GotoStage ==
    ASSUME Inv, NEW c \in Calls, NEW s \in Stage, Goto(c, s)
    PROVE  /\ pc' \in [Workers -> Stage] /\ pc'[c] = s
           /\ \A e \in Calls : e # c => pc'[e] = pc[e]
  BY DEF Inv, SysTypes, Goto, Workers

LEMMA ThrowStage ==
    ASSUME Inv, NEW c \in Calls, Throw(c)
    PROVE  /\ pc' \in [Workers -> Stage] /\ pc'[c] \in {"rollback", "release"}
           /\ \A e \in Calls : e # c => pc'[e] = pc[e]
  BY DEF Inv, SysTypes, Throw, Goto, Workers, Stage, Catch

LEMMA MayStutter ==
    ASSUME NEW x PROVE MayFollow(x, x)
  BY DEF MayFollow

-----------------------------------------------------------------------------
\* A step that changes the managed record to r and flushes.
LEMMA SetAndFlushStep ==
    ASSUME Inv, NEW c \in Calls, NEW r \in Control, NEW touched \in BOOLEAN, NEW next \in Stage,
           NEW d \in BOOLEAN, d = (dirty[c] \/ touched \/ r # copy[c]),
           Agrees(r, d, control), next = "assign" => r.frozen,
           SetAndFlush(c, r, touched, next)
    PROVE  Inv' /\ MayFollow(control, control')
<1>1. UNCHANGED <<op, lock, view>> /\ SysTypes /\ r # None
  BY NoneAssumption DEF SetAndFlush, Inv
<1>2. CASE Flushed(c, r, d) /\ Goto(c, next)
  <2>1. /\ pc' \in [Workers -> Stage] /\ pc'[c] = next
        /\ \A e \in Calls : e # c => pc'[e] = pc[e]
    BY <1>2, GotoStage
  <2>2. SysTypes'
    BY <1>1, <1>2, <2>1, FlushedTypes DEF SysTypes
  <2>3. /\ control' = control \/ control'.version = control.version + 1
        /\ MayFollow(control, control')
        /\ ~dirty'[c] /\ copy'[c] # None
        /\ Agrees(copy'[c], FALSE, control') /\ copy'[c].frozen = r.frozen
        /\ \A e \in Calls : e # c => copy'[e] = copy[e] /\ dirty'[e] = dirty[e]
    BY <1>1, <1>2, FlushedAgrees
  <2>4. dirty'[c] = FALSE
    BY <2>2, <2>3 DEF SysTypes
  <2>5. CallInv(c)'
    BY <2>1, <2>3, <2>4 DEF CallInv
  <2>6. QED
    BY <2>1, <2>2, <2>3, <2>5, CallStep DEF Inv
<1>3. CASE NotFlushed(c, r, d) /\ Throw(c)
  <2>1. /\ pc' \in [Workers -> Stage] /\ pc'[c] \in {"rollback", "release"}
        /\ \A e \in Calls : e # c => pc'[e] = pc[e]
    BY <1>3, ThrowStage
  <2>2. SysTypes'
    BY <1>1, <1>3, <2>1, NotFlushedTypes DEF SysTypes
  <2>3. /\ control' = control /\ copy'[c] = r /\ dirty'[c] = d
        /\ \A e \in Calls : e # c => copy'[e] = copy[e] /\ dirty'[e] = dirty[e]
    BY <1>3, NotFlushedAgrees
  <2>4. CallInv(c)'
    BY <1>1, <2>1, <2>3 DEF CallInv, Loaded, Clean
  <2>5. QED
    BY <2>1, <2>2, <2>3, <2>4, CallStep, MayStutter DEF Inv
<1>4. QED
  BY <1>2, <1>3 DEF SetAndFlush

\* transitionState, from any statement to any other that loads no record.
LEMMA TransitionStep ==
    ASSUME Inv, NEW c \in Calls, NEW from \in Stage, NEW s \in OperationState,
           NEW next \in Stage \ {"assign"}, next \in Loaded => from \in Loaded,
           Transition(c, from, s, next)
    PROVE  Inv' /\ MayFollow(control, control')
<1>1. /\ CallInv(c) /\ SysTypes /\ UNCHANGED lock /\ pc[c] = from
      /\ copy[c] \in Control \cup {None} /\ dirty[c] \in BOOLEAN
  BY DEF Inv, SysTypes, Transition
<1>2. copy[c] = None => ~dirty[c]
  BY <1>1 DEF CallInv
<1>3. copy[c] # None => Agrees(copy[c], dirty[c], control)
  BY <1>1 DEF CallInv
<1>4. CASE Throw(c) /\ UNCHANGED <<control, snapshot, op, view, copy, dirty, pending>>
  <2>1. /\ pc' \in [Workers -> Stage] /\ pc'[c] \in {"rollback", "release"}
        /\ \A e \in Calls : e # c => pc'[e] = pc[e]
    BY <1>4, ThrowStage
  <2>2. SysTypes'
    BY <1>1, <1>4, <2>1 DEF SysTypes
  <2>3. CallInv(c)'
    BY <1>1, <1>4, <2>1 DEF CallInv, Loaded, Clean
  <2>4. QED
    BY <1>4, <2>1, <2>2, <2>3, CallStep, MayStutter
<1>5. ASSUME Flushed(c, copy[c], dirty[c]), op' = [op EXCEPT ![KeyOf[c]] = s],
             view' = [view EXCEPT ![c] = s], Goto(c, next) \/ Throw(c)
      PROVE  Inv' /\ MayFollow(control, control')
  <2>1. /\ pc' \in [Workers -> Stage] /\ pc'[c] \in {next, "rollback", "release"}
        /\ \A e \in Calls : e # c => pc'[e] = pc[e]
    BY <1>5, ThrowStage, GotoStage
  <2>2. op' \in [Keys -> OperationState \cup {None}]
        /\ view' \in [Calls -> OperationState \cup {None}]
    BY <1>1, <1>5, CallsAssumption DEF SysTypes
  <2>3. SysTypes'
    BY <1>1, <1>2, <1>5, <2>1, <2>2, FlushedTypes DEF SysTypes
  <2>4. /\ control' = control \/ control'.version = control.version + 1
        /\ MayFollow(control, control')
        /\ ~dirty'[c] /\ (copy'[c] = None <=> copy[c] = None)
        /\ copy'[c] # None => Agrees(copy'[c], FALSE, control')
        /\ \A e \in Calls : e # c => copy'[e] = copy[e] /\ dirty'[e] = dirty[e]
    BY <1>1, <1>2, <1>3, <1>5, FlushedAgrees
  <2>5. dirty'[c] = FALSE
    BY <2>3, <2>4 DEF SysTypes
  <2>6. pc'[c] \in Loaded => copy'[c] # None
    BY <1>1, <2>1, <2>4 DEF CallInv, Loaded
  <2>7. pc'[c] # "assign"
    BY <2>1
  <2>8. CallInv(c)'
    BY <2>4, <2>5, <2>6, <2>7 DEF CallInv
  <2>9. QED
    BY <2>1, <2>3, <2>4, <2>8, CallStep
<1>6. CASE NotFlushed(c, copy[c], dirty[c]) /\ view' = [view EXCEPT ![c] = s] /\ Throw(c)
           /\ UNCHANGED op
  <2>1. /\ pc' \in [Workers -> Stage] /\ pc'[c] \in {"rollback", "release"}
        /\ \A e \in Calls : e # c => pc'[e] = pc[e]
    BY <1>6, ThrowStage
  <2>2. view' \in [Calls -> OperationState \cup {None}]
    BY <1>1, <1>6 DEF SysTypes
  <2>3. SysTypes'
    BY <1>1, <1>6, <2>1, <2>2, NotFlushedTypes DEF SysTypes
  <2>4. /\ control' = control /\ copy'[c] = copy[c] /\ dirty'[c] = dirty[c]
        /\ \A e \in Calls : e # c => copy'[e] = copy[e] /\ dirty'[e] = dirty[e]
    BY <1>1, <1>6, NotFlushedAgrees
  <2>5. CallInv(c)'
    BY <1>1, <2>1, <2>4 DEF CallInv, Loaded, Clean
  <2>6. QED
    BY <2>1, <2>3, <2>4, <2>5, CallStep, MayStutter
<1>7. QED
  BY <1>4, <1>5, <1>6 DEF Transition

\* A step of a call that neither writes the row nor holds an unsaved record.
LEMMA QuietStep ==
    ASSUME Inv, NEW c \in Calls, NEW s \in Stage \ {"assign"}, s \in Loaded => pc[c] \in Loaded,
           s \in Clean => pc[c] \in Clean, Goto(c, s) \/ Throw(c),
           op' \in [Keys -> OperationState \cup {None}],
           view' \in [Calls -> OperationState \cup {None}],
           UNCHANGED <<control, snapshot, lock, copy, dirty, pending>>
    PROVE  Inv' /\ MayFollow(control, control')
<1>1. /\ pc' \in [Workers -> Stage] /\ pc'[c] \in {s, "rollback", "release"}
      /\ \A e \in Calls : e # c => pc'[e] = pc[e]
  BY ThrowStage, GotoStage
<1>2. SysTypes'
  BY <1>1 DEF Inv, SysTypes
<1>3. CallInv(c)'
  BY <1>1 DEF Inv, CallInv, Loaded, Clean
<1>4. QED
  BY <1>1, <1>2, <1>3, CallStep, MayStutter

\* A call at a statement that works on a loaded record without unsaved changes.
LEMMA LoadedClean ==
    ASSUME Inv, NEW c \in Calls, pc[c] \in Loaded
    PROVE  /\ copy[c] \in Control /\ Agrees(copy[c], dirty[c], control)
           /\ dirty[c] \in BOOLEAN /\ control \in Control
           /\ pc[c] # "publish" => ~dirty[c]
  BY NoneAssumption DEF Inv, SysTypes, CallInv, Loaded, Clean, Stage, Try, Catch

LEMMA FreezeStep ==
    ASSUME Inv, NEW c \in Calls, FreezeTenantWrites(c)
    PROVE  Inv' /\ MayFollow(control, control')
<1> DEFINE r == [copy[c] EXCEPT !.frozen = TRUE]
           d == dirty[c] \/ FALSE \/ r # copy[c]
<1>1. pc[c] = "freeze" /\ SetAndFlush(c, r, FALSE, "assign")
  BY DEF FreezeTenantWrites
<1>2. /\ copy[c] \in Control /\ Agrees(copy[c], dirty[c], control) /\ ~dirty[c]
      /\ control \in Control
  BY <1>1, LoadedClean DEF Loaded
<1>3. /\ r \in Control /\ r.version = copy[c].version /\ r.frozen = TRUE
      /\ r.token = copy[c].token /\ r.fence = copy[c].fence
  BY <1>2 DEF Control, Unfrozen
<1> HIDE DEF r
<1>4. Agrees(r, d, control)
  BY <1>2, <1>3 DEF Agrees, MayFollow
<1>5. "assign" \in Stage /\ d \in BOOLEAN
  BY DEF Stage, Try
<1>6. QED
  BY <1>1, <1>3, <1>4, <1>5, SetAndFlushStep

LEMMA PublishStep ==
    ASSUME Inv, NEW c \in Calls, PublishSnapshot(c)
    PROVE  Inv' /\ MayFollow(control, control')
<1> DEFINE d == dirty[c] \/ FALSE \/ copy[c] # copy[c]
<1>1. pc[c] = "publish" /\ SetAndFlush(c, copy[c], FALSE, "degrade")
  BY DEF PublishSnapshot
<1>2. copy[c] \in Control /\ Agrees(copy[c], dirty[c], control) /\ dirty[c] \in BOOLEAN
  BY <1>1, LoadedClean DEF Loaded
<1>3. "degrade" \in Stage /\ d \in BOOLEAN /\ d = dirty[c]
  BY <1>2 DEF Stage, Try
<1>4. QED
  BY <1>1, <1>2, <1>3, SetAndFlushStep

LEMMA StatusStep ==
    ASSUME Inv, NEW c \in Calls, Degrade(c) \/ Reactivate(c)
    PROVE  Inv' /\ MayFollow(control, control')
<1>1. ASSUME NEW t \in Status, NEW touched \in BOOLEAN, NEW next \in Stage \ {"assign"},
             pc[c] \in Loaded, pc[c] # "publish",
             SetAndFlush(c, [copy[c] EXCEPT !.status = t], touched, next)
      PROVE  Inv' /\ MayFollow(control, control')
  <2> DEFINE r == [copy[c] EXCEPT !.status = t]
             d == dirty[c] \/ touched \/ r # copy[c]
  <2>1. SetAndFlush(c, r, touched, next)
    BY <1>1
  <2>2. /\ copy[c] \in Control /\ Agrees(copy[c], dirty[c], control) /\ ~dirty[c]
        /\ control \in Control
    BY <1>1, LoadedClean
  <2>3. /\ r \in Control /\ r.version = copy[c].version /\ r.frozen = copy[c].frozen
        /\ r.token = copy[c].token /\ r.fence = copy[c].fence
    BY <1>1, <2>2 DEF Control
  <2> HIDE DEF r
  <2>4. Agrees(r, d, control)
    BY <2>2, <2>3 DEF Agrees, MayFollow
  <2>5. d \in BOOLEAN
    OBVIOUS
  <2>6. QED
    BY <1>1, <2>1, <2>3, <2>4, <2>5, SetAndFlushStep
<1>2. CASE Degrade(c)
  <2>1. "DEGRADED" \in Status /\ "switched" \in Stage \ {"assign"} /\ "degrade" \in Loaded
    BY DEF Status, Stage, Try, Loaded
  <2>2. QED
    BY <1>1, <1>2, <2>1 DEF Degrade
<1>3. CASE Reactivate(c)
  <2>1. "ACTIVE" \in Status /\ "release" \in Stage \ {"assign"} /\ "reactivate" \in Loaded
    BY DEF Status, Stage, Try, Loaded
  <2>2. QED
    BY <1>1, <1>3, <2>1 DEF Reactivate
<1>4. QED
  BY <1>2, <1>3

LEMMA UnfreezeStep ==
    ASSUME Inv, NEW c \in Calls, UnfreezeTenantWrites(c)
    PROVE  Inv' /\ MayFollow(control, control')
<1> DEFINE r == Unfrozen(copy[c])
           d == dirty[c] \/ FALSE \/ r # copy[c]
<1>1. pc[c] = "unfreeze" /\ SetAndFlush(c, r, FALSE, "finalize")
  BY DEF UnfreezeTenantWrites
<1>2. /\ copy[c] \in Control /\ Agrees(copy[c], dirty[c], control) /\ ~dirty[c]
      /\ control \in Control
  BY <1>1, LoadedClean DEF Loaded
<1>3. /\ r \in Control /\ r.version = copy[c].version /\ r.frozen = FALSE
      /\ r.token = None /\ r.fence = copy[c].fence
  BY <1>2 DEF Control, Unfrozen
<1> HIDE DEF r
<1>4. Agrees(r, d, control)
  BY <1>2, <1>3 DEF Agrees, MayFollow
<1>5. "finalize" \in Stage /\ d \in BOOLEAN
  BY DEF Stage, Try
<1>6. QED
  BY <1>1, <1>3, <1>4, <1>5, SetAndFlushStep

LEMMA ReopenStep ==
    ASSUME Inv, NEW c \in Calls, Reopen(c)
    PROVE  Inv' /\ MayFollow(control, control')
<1> DEFINE m == Managed(c)
           r == Unfrozen(m)
           d == dirty[c] \/ r # m
<1>1. /\ pc[c] = "reopen" /\ SysTypes /\ CallInv(c) /\ control \in Control
      /\ UNCHANGED <<op, lock, view>>
      /\ dirty[c] \in BOOLEAN
  BY DEF Reopen, Inv, SysTypes
<1>2. m \in Control /\ ~dirty[c] /\ Agrees(m, dirty[c], control)
  <2>1. ~dirty[c]
    BY <1>1 DEF CallInv, Clean, Stage, Catch
  <2>2. CASE copy[c] = None
    BY <1>1, <2>1, <2>2 DEF Managed, Agrees, MayFollow, Control
  <2>3. CASE copy[c] # None
    BY <1>1, <2>1, <2>3 DEF Managed, CallInv, SysTypes
  <2>4. QED
    BY <2>2, <2>3
<1>3. /\ r \in Control /\ r.version = m.version /\ r.frozen = FALSE
      /\ r.token = None /\ r.fence = m.fence
  BY <1>2 DEF Control, Unfrozen
<1>4. d \in BOOLEAN /\ r # None
  BY <1>3, NoneAssumption
<1>5. \/ Flushed(c, r, d) /\ Goto(c, "reactivate")
      \/ NotFlushed(c, r, d) /\ Throw(c)
  BY DEF Reopen
<1> HIDE DEF m, r
<1>6. Agrees(r, d, control)
  BY <1>2, <1>3 DEF Agrees, MayFollow
<1> HIDE DEF d
<1>7. CASE Flushed(c, r, d) /\ Goto(c, "reactivate")
  <2>1. /\ pc' \in [Workers -> Stage] /\ pc'[c] = "reactivate"
        /\ \A e \in Calls : e # c => pc'[e] = pc[e]
    BY <1>7, GotoStage DEF Stage, Catch
  <2>2. SysTypes'
    BY <1>1, <1>3, <1>4, <1>7, <2>1, FlushedTypes DEF SysTypes
  <2>3. /\ control' = control \/ control'.version = control.version + 1
        /\ MayFollow(control, control')
        /\ ~dirty'[c] /\ copy'[c] # None
        /\ Agrees(copy'[c], FALSE, control')
        /\ \A e \in Calls : e # c => copy'[e] = copy[e] /\ dirty'[e] = dirty[e]
    BY <1>3, <1>4, <1>6, <1>7, FlushedAgrees
  <2>4. dirty'[c] = FALSE
    BY <2>2, <2>3 DEF SysTypes
  <2>5. CallInv(c)'
    BY <2>1, <2>3, <2>4 DEF CallInv
  <2>6. QED
    BY <2>1, <2>2, <2>3, <2>5, CallStep
<1>8. CASE NotFlushed(c, r, d) /\ Throw(c)
  <2>1. /\ pc' \in [Workers -> Stage] /\ pc'[c] \in {"rollback", "release"}
        /\ \A e \in Calls : e # c => pc'[e] = pc[e]
    BY <1>8, ThrowStage
  <2>2. SysTypes'
    BY <1>1, <1>3, <1>4, <1>8, <2>1, NotFlushedTypes DEF SysTypes
  <2>3. /\ control' = control /\ copy'[c] = r /\ dirty'[c] = d
        /\ \A e \in Calls : e # c => copy'[e] = copy[e] /\ dirty'[e] = dirty[e]
    BY <1>3, <1>4, <1>8, NotFlushedAgrees
  <2>4. CallInv(c)'
    BY <1>4, <1>6, <2>1, <2>3 DEF CallInv, Loaded, Clean
  <2>5. QED
    BY <2>1, <2>2, <2>3, <2>4, CallStep, MayStutter
<1>9. QED
  BY <1>5, <1>7, <1>8

LEMMA LoadStep ==
    ASSUME Inv, NEW c \in Calls, LoadControl(c)
    PROVE  Inv' /\ MayFollow(control, control')
<1>1. /\ pc[c] = "load" /\ SysTypes /\ CallInv(c) /\ control \in Control
      /\ copy' = [copy EXCEPT ![c] = control]
      /\ Throw(c) \/ Goto(c, "validate")
      /\ UNCHANGED <<control, snapshot, op, lock, view, dirty, pending>>
  BY DEF LoadControl, Inv, SysTypes
<1>2. /\ pc' \in [Workers -> Stage] /\ pc'[c] \in {"validate", "rollback", "release"}
      /\ \A e \in Calls : e # c => pc'[e] = pc[e]
  BY <1>1, ThrowStage, GotoStage DEF Stage, Try
<1>3. SysTypes'
  BY <1>1, <1>2 DEF SysTypes
<1>4. ~dirty[c] /\ copy'[c] = control /\ \A e \in Calls : e # c => copy'[e] = copy[e]
  BY <1>1 DEF CallInv, Clean, Stage, Try, SysTypes
<1>5. Agrees(control, FALSE, control) /\ Agrees(control, dirty[c], control)
  BY <1>1 DEF Agrees, MayFollow, Control
<1>6. CallInv(c)'
  BY <1>1, <1>2, <1>4, <1>5, NoneAssumption DEF CallInv
<1>7. QED
  BY <1>1, <1>2, <1>3, <1>4, <1>6, CallStep, MayStutter

LEMMA AssignStep ==
    ASSUME Inv, NEW c \in Calls, AssignSnapshot(c)
    PROVE  Inv' /\ MayFollow(control, control')
<1> DEFINE x == ExpectedGeneration(copy[c])
           r == [copy[c] EXCEPT !.token = c, !.fence = x + 1]
<1>1. /\ pc[c] = "assign" /\ SysTypes
      /\ copy' = [copy EXCEPT ![c] = r]
      /\ dirty' = [dirty EXCEPT ![c] = TRUE]
      /\ \/ Goto(c, "publish") /\ pending' = [pending EXCEPT ![c] = Signed(c, snapshot, "secondary")]
         \/ Throw(c) /\ UNCHANGED pending
      /\ UNCHANGED <<control, snapshot, op, lock, view>>
  BY DEF AssignSnapshot, Inv
<1>2. /\ copy[c] \in Control /\ Agrees(copy[c], dirty[c], control) /\ ~dirty[c]
      /\ control \in Control
  BY <1>1, LoadedClean DEF Loaded
<1>3. copy[c].frozen
  BY <1>1, <1>2, NoneAssumption DEF Inv, CallInv
<1>4. x \in Nat /\ x >= copy[c].fence
  BY <1>2 DEF ExpectedGeneration, Control
<1> HIDE DEF x
<1>5. /\ r \in Control /\ r.version = copy[c].version /\ r.frozen = copy[c].frozen
      /\ r.token = c /\ r.fence = x + 1
  <2>1. x + 1 \in Nat /\ copy[c] \in Control
    BY <1>2, <1>4
  <2>2. QED
    BY <2>1 DEF Control
<1> HIDE DEF r
<1>6. r.fence > copy[c].fence
  BY <1>2, <1>4, <1>5 DEF Control
<1>7. Agrees(r, TRUE, control)
  BY <1>2, <1>3, <1>5, <1>6 DEF Agrees, MayFollow
<1>8. /\ pc' \in [Workers -> Stage] /\ pc'[c] \in {"publish", "rollback", "release"}
      /\ \A e \in Calls : e # c => pc'[e] = pc[e]
  BY <1>1, ThrowStage, GotoStage DEF Stage, Try
<1>9. pending' \in [Workers -> Snapshot \cup {None}]
  BY <1>1, SignedNext DEF SysTypes, Workers
<1>10. SysTypes'
  BY <1>1, <1>5, <1>8, <1>9 DEF SysTypes
<1>11. /\ copy'[c] = r /\ dirty'[c] = TRUE
       /\ \A e \in Calls : e # c => copy'[e] = copy[e] /\ dirty'[e] = dirty[e]
  BY <1>1 DEF SysTypes
<1>12. CallInv(c)'
  BY <1>1, <1>5, <1>7, <1>8, <1>11, NoneAssumption DEF CallInv, Loaded, Clean
<1>13. QED
  BY <1>1, <1>8, <1>10, <1>11, <1>12, CallStep, MayStutter

LEMMA CreateStep ==
    ASSUME Inv, NEW c \in Calls, CreateOperation(c)
    PROVE  Inv' /\ MayFollow(control, control')
<1>1. /\ pc[c] = "create" /\ SysTypes /\ KeyOf[c] \in Keys
      /\ UNCHANGED <<control, snapshot, lock, copy, dirty, pending>>
  BY CallsAssumption DEF CreateOperation, Inv
<1>2. op' \in [Keys -> OperationState \cup {None}]
  BY <1>1 DEF CreateOperation, SysTypes, OperationState
<1>3. view' \in [Calls -> OperationState \cup {None}]
  BY <1>1 DEF CreateOperation, SysTypes, OperationState
<1>4. PICK s \in {"prepare", "release"} : Goto(c, s)
  BY DEF CreateOperation
<1>5. /\ s \in Stage \ {"assign"} /\ s \notin Loaded /\ "create" \in Clean
  BY DEF Stage, Try, Loaded, Clean
<1>6. QED
  BY <1>1, <1>2, <1>3, <1>4, <1>5, QuietStep

LEMMA WorkStep ==
    ASSUME Inv, NEW c \in Calls, NEW from \in Loaded \ {"publish"}, NEW next \in Stage \ {"assign"},
           Work(c, from, next)
    PROVE  Inv' /\ MayFollow(control, control')
<1>1. /\ pc[c] \in Loaded /\ pc[c] \in Clean
      /\ Goto(c, next) \/ Throw(c)
      /\ UNCHANGED <<control, snapshot, op, lock, view, copy, dirty, pending>>
  BY DEF Work, Loaded, Clean, Stage, Try, Catch
<1>2. /\ op' \in [Keys -> OperationState \cup {None}]
      /\ view' \in [Calls -> OperationState \cup {None}]
  BY <1>1 DEF Inv, SysTypes
<1>3. QED
  BY <1>1, <1>2, QuietStep

\* Every step of a call.
LEMMA CallsKeepInv ==
    ASSUME Inv, NEW c \in Calls, Step(c)
    PROVE  Inv' /\ MayFollow(control, control')
<1> USE DEF Stage, Try, Catch, Loaded, OperationState
<1>1. CASE CreateOperation(c)
  BY <1>1, CreateStep
<1>2. CASE Transition(c, "prepare", "PREPARING", "load")
  BY <1>2, TransitionStep
<1>3. CASE LoadControl(c)
  BY <1>3, LoadStep
<1>4. CASE Transition(c, "validate", "VALIDATING", "check")
  BY <1>4, TransitionStep
<1>5. CASE Work(c, "check", "switching")
  BY <1>5, WorkStep
<1>6. CASE Transition(c, "switching", "SWITCHING", "freeze")
  BY <1>6, TransitionStep
<1>7. CASE FreezeTenantWrites(c)
  BY <1>7, FreezeStep
<1>8. CASE AssignSnapshot(c)
  BY <1>8, AssignStep
<1>9. CASE PublishSnapshot(c)
  BY <1>9, PublishStep
<1>10. CASE Degrade(c) \/ Reactivate(c)
  BY <1>10, StatusStep
<1>11. CASE Transition(c, "switched", "SWITCHED", "recover")
  BY <1>11, TransitionStep
<1>12. CASE Work(c, "recover", "unfreeze")
  BY <1>12, WorkStep
<1>13. CASE UnfreezeTenantWrites(c)
  BY <1>13, UnfreezeStep
<1>14. CASE Transition(c, "finalize", "FINALIZED", "record")
  BY <1>14, TransitionStep
<1>15. CASE Work(c, "record", "release")
  BY <1>15, WorkStep
<1>16. CASE Transition(c, "rollback", "ROLLBACK", "reopen")
  BY <1>16, TransitionStep
<1>17. CASE Reopen(c)
  BY <1>17, ReopenStep
<1>18. QED
  BY <1>1, <1>2, <1>3, <1>4, <1>5, <1>6, <1>7, <1>8, <1>9, <1>10, <1>11, <1>12, <1>13, <1>14,
     <1>15, <1>16, <1>17 DEF Step

-----------------------------------------------------------------------------
\* Steps that leave the calls' records as they are.
LEMMA OthersKeepInv ==
    ASSUME Inv, SysTypes', UNCHANGED <<copy, dirty>>,
           control' = control \/ control'.version = control.version + 1,
           \A c \in Calls : pc'[c] \in {pc[c], "done"}
                            \/ (pc[c] = "idle" /\ pc'[c] = "create")
                            \/ (pc[c] = "release" /\ pc'[c] = "done")
    PROVE  Inv'
<1>1. ASSUME NEW c \in Calls PROVE CallInv(c)'
  <2>1. /\ CallInv(c) /\ copy'[c] = copy[c] /\ dirty'[c] = dirty[c]
        /\ pc'[c] \in {pc[c], "done"} \/ (pc[c] = "idle" /\ pc'[c] = "create")
    BY DEF Inv
  <2>2. /\ copy[c] # None => copy[c].version \in Nat
        /\ control.version \in Nat
    BY DEF Inv, SysTypes, Control
  <2>3. copy[c] # None => Agrees(copy[c], dirty[c], control')
    BY <2>1, <2>2 DEF CallInv, Agrees
  <2>4. pc'[c] \in Loaded => pc[c] \in Loaded
    BY <2>1 DEF Loaded
  <2>5. pc'[c] \in Clean => pc[c] \in Clean
    BY <2>1 DEF Clean, Stage
  <2>6. pc'[c] = "assign" => pc[c] = "assign"
    BY <2>1
  <2>7. QED
    BY <2>1, <2>3, <2>4, <2>5, <2>6 DEF CallInv
<1>2. QED
  BY <1>1 DEF Inv

LEMMA WorkersKeepInv ==
    ASSUME Inv, NEW w \in Workers, AcquireLock(w) \/ ReleaseLock(w) \/ Crash(w)
    PROVE  Inv' /\ MayFollow(control, control')
<1>1. /\ SysTypes /\ lock' \in BOOLEAN
      /\ UNCHANGED <<control, snapshot, op, view, copy, dirty, pending>>
  BY DEF AcquireLock, ReleaseLock, Crash, Inv, SysTypes
<1>2. PICK s \in {"create", "resolve", "done"} :
          Goto(w, s) /\ (s # "done" => pc[w] = "idle" /\ (w \in Calls => s = "create"))
  BY DEF AcquireLock, ReleaseLock, Crash
<1>3. pc' = [pc EXCEPT ![w] = s] /\ s \in Stage
  BY <1>2 DEF Goto, Stage, Republish
<1>4. SysTypes'
  BY <1>1, <1>3 DEF SysTypes
<1>5. \A c \in Calls : \/ pc'[c] \in {pc[c], "done"}
                       \/ (pc[c] = "idle" /\ pc'[c] = "create")
  BY <1>1, <1>2, <1>3 DEF SysTypes, Workers
<1>6. QED
  BY <1>1, <1>4, <1>5, OthersKeepInv, MayStutter

LEMMA MigrationsKeepInv ==
    ASSUME Inv, NEW m \in Migrations, ResolveRoute(m) \/ RepublishRoute(m)
    PROVE  Inv' /\ MayFollow(control, control')
<1>1. /\ SysTypes /\ m \in Workers /\ m \notin Calls
      /\ control.status \in Status /\ snapshot.gen \in Nat
      /\ UNCHANGED <<control, op, lock, view, copy, dirty>>
  BY CallsAssumption DEF ResolveRoute, RepublishRoute, Inv, SysTypes, Control, Snapshot, Workers
<1>2. PICK s \in {"republish", "release", "reevaluate"} : Goto(m, s)
  BY DEF ResolveRoute, RepublishRoute
<1>3. /\ pc' \in [Workers -> Stage]
      /\ \A c \in Calls : pc'[c] = pc[c]
  BY <1>1, <1>2 DEF Goto, Stage, Republish, SysTypes, Workers
<1>4. snapshot' \in Snapshot
  BY <1>1 DEF SysTypes, ResolveRoute, RepublishRoute, SaveSnapshot, KeepSnapshot
<1>5. pending' \in [Workers -> Snapshot \cup {None}]
  <2>1. CASE ResolveRoute(m)
    <3>1. CASE pending' = [pending EXCEPT ![m] = Signed(m, snapshot, snapshot.target)]
      <4>1. Signed(m, snapshot, snapshot.target) \in Snapshot
        BY <1>1, SignedNext DEF SysTypes, Snapshot
      <4>2. QED
        BY <1>1, <3>1, <4>1 DEF SysTypes
    <3>2. CASE pending' = [pending EXCEPT ![m] =
                Signed(m, snapshot, IF control.status = "DEGRADED" THEN "secondary" ELSE "primary")]
      <4>1. Signed(m, snapshot, IF control.status = "DEGRADED" THEN "secondary" ELSE "primary") \in Snapshot
        BY <1>1, SignedNext DEF SysTypes
      <4>2. QED
        BY <1>1, <3>2, <4>1 DEF SysTypes
    <3>3. QED
      BY <1>1, <2>1, <3>1, <3>2 DEF ResolveRoute, SysTypes
  <2>2. CASE RepublishRoute(m)
    <3>1. Signed(m, snapshot', snapshot'.target) \in Snapshot
      BY <1>1, <1>4, SignedNext DEF Snapshot
    <3>2. QED
      BY <1>1, <2>2, <3>1 DEF RepublishRoute, KeepSnapshot, SysTypes
  <2>3. QED
    BY <2>1, <2>2
<1>6. SysTypes'
  BY <1>1, <1>3, <1>4, <1>5 DEF SysTypes
<1>7. QED
  BY <1>1, <1>3, <1>6, OthersKeepInv, MayStutter

LEMMA SetStatusKeepsInv ==
    ASSUME Inv, NEW s \in Lifecycle, SetStatus(s)
    PROVE  Inv' /\ MayFollow(control, control')
<1>1. /\ SysTypes /\ control \in Control /\ s \in Status
      /\ UNCHANGED <<snapshot, op, lock, pc, view, copy, dirty, pending>>
      /\ control' = [control EXCEPT !.status = s,
                                    !.frozen = control.frozen \/ s \in {"ARCHIVED", "LEGAL_HOLD"},
                                    !.version = control.version + 1]
  BY StartAssumption DEF SetStatus, Inv, SysTypes
<1> DEFINE f == control.frozen \/ s \in {"ARCHIVED", "LEGAL_HOLD"}
<1>2. f \in BOOLEAN /\ f \in {control.frozen, TRUE}
  BY <1>1 DEF Control
<1>3. control' = [control EXCEPT !.status = s, !.frozen = f, !.version = control.version + 1]
  BY <1>1
<1> HIDE DEF f
<1>4. /\ control' \in Control /\ control'.version = control.version + 1
      /\ control'.frozen = f /\ control'.token = control.token /\ control'.fence = control.fence
  <2> DEFINE n == control.version + 1
  <2>1. n \in Nat /\ f \in BOOLEAN /\ s \in Status /\ control \in Control
    BY <1>1, <1>2 DEF Control
  <2>2. control' = [control EXCEPT !.status = s, !.frozen = f, !.version = n]
    BY <1>3
  <2> HIDE DEF n
  <2>3. /\ control' \in Control /\ control'.version = n /\ control'.frozen = f
        /\ control'.token = control.token /\ control'.fence = control.fence
    BY <2>1, <2>2 DEF Control
  <2>4. QED
    BY <2>3 DEF n
<1>5. MayFollow(control, control')
  BY <1>2, <1>4 DEF MayFollow
<1>6. SysTypes'
  BY <1>1, <1>4 DEF SysTypes
<1>7. QED
  BY <1>1, <1>4, <1>5, <1>6, OthersKeepInv

LEMMA InvStep ==
    Inv /\ [Act]_sys => Inv' /\ MayFollow(control, control')
<1> SUFFICES ASSUME Inv, [Act]_sys PROVE Inv' /\ MayFollow(control, control')
  OBVIOUS
<1>1. ASSUME UNCHANGED sys PROVE Inv' /\ MayFollow(control, control')
  BY <1>1, MayStutter DEF sys, Inv, SysTypes, CallInv
<1>2. CASE ExpireLock
  <2>1. SysTypes' /\ UNCHANGED <<control, pc, copy, dirty>>
    BY <1>2 DEF ExpireLock, Inv, SysTypes
  <2>2. QED
    BY <2>1, OthersKeepInv, MayStutter
<1>3. ASSUME NEW w \in Workers, AcquireLock(w) \/ ReleaseLock(w) \/ Crash(w)
      PROVE  Inv' /\ MayFollow(control, control')
  BY <1>3, WorkersKeepInv
<1>4. ASSUME NEW c \in Calls, Step(c) PROVE Inv' /\ MayFollow(control, control')
  BY <1>4, CallsKeepInv
<1>5. ASSUME NEW m \in Migrations, ResolveRoute(m) \/ RepublishRoute(m)
      PROVE  Inv' /\ MayFollow(control, control')
  BY <1>5, MigrationsKeepInv
<1>6. ASSUME NEW s \in Lifecycle, SetStatus(s) PROVE Inv' /\ MayFollow(control, control')
  BY <1>6, SetStatusKeepsInv
<1>7. Act \/ UNCHANGED sys
  OBVIOUS
<1>8. ASSUME Finished PROVE UNCHANGED sys
  BY <1>8 DEF Finished
<1> DEFINE Goal == Inv' /\ MayFollow(control, control')
<1> HIDE DEF Goal
<1>9. CASE Act
  <2>1. CASE \E w \in Workers : AcquireLock(w) \/ ReleaseLock(w) \/ Crash(w)
    BY <2>1, <1>3 DEF Goal
  <2>2. CASE \E c \in Calls : Step(c)
    BY <2>2, <1>4 DEF Goal
  <2>3. CASE \E m \in Migrations : ResolveRoute(m) \/ RepublishRoute(m)
    BY <2>3, <1>5 DEF Goal
  <2>4. CASE \E s \in Lifecycle : SetStatus(s)
    BY <2>4, <1>6 DEF Goal
  <2>5. CASE ExpireLock
    BY <2>5, <1>2 DEF Goal
  <2>6. CASE Finished
    BY <2>6, <1>8, <1>1 DEF Goal
  <2>7. QED
    BY <1>9, <2>1, <2>2, <2>3, <2>4, <2>5, <2>6 DEF Act
<1>10. QED
  BY <1>1, <1>7, <1>9 DEF Goal

LEMMA InvInit == Init => Inv
<1> SUFFICES ASSUME Init PROVE Inv
  OBVIOUS
<1>1. SysTypes
  <2>1. control \in Control
    BY StartAssumption DEF Init, Control, Status
  <2>2. snapshot \in Snapshot
    BY StartAssumption DEF Init, Snapshot
  <2>3. QED
    BY <2>1, <2>2 DEF Init, SysTypes, Stage
<1>2. \A c \in Calls : CallInv(c)
  BY DEF Init, CallInv, Loaded, Clean, Workers
<1>3. QED
  BY <1>1, <1>2 DEF Inv

LEMMA Invariance == Spec => []Inv
<1>1. Init => Inv
  BY InvInit
<1>2. Inv /\ [Next]_vars => Inv'
  BY InvStep, NextActs
<1>3. QED
  BY <1>1, <1>2, PTL DEF Spec

-----------------------------------------------------------------------------
\* Every row, lock, statement and record of every call stays of its type.
THEOREM FailoverTypeCorrect == Spec => []TypeOK
<1>1. Inv => SysTypes
  BY DEF Inv
<1>2. Init => overlapped \subseteq Workers /\ stranded \in BOOLEAN
  BY DEF Init
<1>3. overlapped \subseteq Workers /\ stranded \in BOOLEAN /\ [Next]_vars =>
          (overlapped \subseteq Workers /\ stranded \in BOOLEAN)'
  BY DEF Next, Observe, vars, LiveWorkers
<1>4. SysTypes /\ overlapped \subseteq Workers /\ stranded \in BOOLEAN => TypeOK
  BY DEF SysTypes, TypeOK
<1>5. QED
  BY <1>1, <1>2, <1>3, <1>4, Invariance, PTL DEF Spec

\* The optimistic lock on `version` detects every change of the control record,
\* however many failovers, migrations and administrators run at the same time.
THEOREM OptimisticLockDetects == Spec => []CopiesAgree
<1>1. Inv => CopiesAgree
  <2> SUFFICES ASSUME Inv, NEW c \in Calls, copy[c] # None
               PROVE  /\ copy[c].version <= control.version
                      /\ copy[c].version = control.version /\ ~dirty[c] => copy[c] = control
    BY DEF CopiesAgree
  <2>1. QED
    BY DEF Inv, CallInv, Agrees
<1>2. QED
  BY <1>1, Invariance, PTL

\* Failovers implement the write fence: the generation never decreases, and it
\* is only raised, for a failover, while writes are frozen, even when the lock
\* of the tenant does not keep failovers apart.
THEOREM FenceImplemented == Spec => ImplementsFence
<1>1. Init => Fence!FenceInit
  BY DEF Init, Fence!FenceInit
<1>2. Inv /\ Inv' /\ MayFollow(control, control') => [Fence!FenceNext]_(Fence!fenceVars)
  <2> SUFFICES ASSUME Inv, Inv', MayFollow(control, control')
               PROVE  Fence!FenceNext \/ UNCHANGED Fence!fenceVars
    OBVIOUS
  <2>1. control.fence \in Nat /\ control'.fence \in Nat /\ control.frozen \in BOOLEAN
    BY DEF Inv, SysTypes, Control
  <2>2. CASE control'.frozen = control.frozen /\ control'.token = control.token
             /\ control'.fence = control.fence
    BY <2>2 DEF Fence!fenceVars
  <2>3. CASE control'.frozen = TRUE /\ control'.token = control.token
             /\ control'.fence = control.fence
    BY <2>3 DEF Fence!FenceNext, Fence!Freeze
  <2>4. CASE control.frozen /\ control'.frozen = control.frozen /\ control'.token \in Calls
             /\ control'.fence > control.fence
    BY <2>1, <2>4 DEF Fence!FenceNext, Fence!RaiseFence
  <2>5. CASE control'.frozen = FALSE /\ control'.token = None /\ control'.fence = control.fence
    BY <2>5 DEF Fence!FenceNext, Fence!Resume
  <2>6. QED
    BY <2>2, <2>3, <2>4, <2>5 DEF MayFollow
<1>3. QED
  BY <1>1, <1>2, InvStep, NextActs, Invariance, PTL DEF Spec, ImplementsFence, Fence!FenceSpec

-----------------------------------------------------------------------------
\* From here on: the route of a tenant is only switched to its secondary region
\* under the write fence of the failover that does it, even when a flush of the
\* rollback publishes it late and the lock does not keep failovers apart.

\* A snapshot that waits to be written: the managed record of its call holds
\* the fence that belongs to it, and writes are frozen as long as the optimistic
\* lock would let that record be written.
Waiting(c) ==
    pending[c] # None =>
        /\ pc[c] \in {"publish", "rollback", "release", "done"}
        /\ dirty[c]
        /\ copy[c] # None
        /\ copy[c].token = c
        /\ copy[c].fence = pending[c].gen
        /\ copy[c].version = control.version => control.frozen

SwitchInv == Inv /\ \A c \in Calls : Waiting(c)

\* What RouteSwitchedUnderFence asks of a step of call c.
Switched(c) ==
    snapshot' # snapshot =>
        control.frozen /\ control'.token = c /\ control'.fence = snapshot'.gen

\* What a step of call c leaves alone.
Framed(c) ==
    /\ \A e \in Calls : e # c => /\ copy'[e] = copy[e] /\ dirty'[e] = dirty[e]
                                 /\ pc'[e] = pc[e] /\ pending'[e] = pending[e]
    /\ control' = control \/ control'.version = control.version + 1

Kept(c) == Framed(c) /\ Waiting(c)' /\ Switched(c)

LEMMA WaitingKept ==
    ASSUME SwitchInv, Inv', NEW c \in Calls, Waiting(c),
           copy'[c] = copy[c] /\ dirty'[c] = dirty[c] /\ pending'[c] = pending[c],
           pc'[c] = pc[c] \/ pending[c] = None \/ pc'[c] = "done",
           control' = control \/ control'.version = control.version + 1
    PROVE  Waiting(c)'
<1>1. copy[c] # None => copy[c].version \in Nat /\ copy[c].version <= control.version
  BY NoneAssumption DEF SwitchInv, Inv, SysTypes, CallInv, Agrees, Control
<1>2. control.version \in Nat
  BY DEF SwitchInv, Inv, SysTypes, Control
<1>3. QED
  BY <1>1, <1>2 DEF Waiting

\* A flush of a call that has no snapshot to write.
LEMMA FlushWithoutSnapshot ==
    ASSUME SwitchInv, NEW c \in Calls, NEW r \in Control \cup {None}, NEW d \in BOOLEAN,
           r = None => ~d, r # None => Agrees(r, d, control), pending[c] = None,
           Flushed(c, r, d) \/ NotFlushed(c, r, d),
           \A e \in Calls : e # c => pc'[e] = pc[e]
    PROVE  Kept(c)
<1>1. Inv /\ pending \in [Workers -> Snapshot \cup {None}] /\ c \in Workers
  BY DEF SwitchInv, Inv, SysTypes, Workers
<1>2. /\ control' = control \/ control'.version = control.version + 1
      /\ \A e \in Calls : e # c => copy'[e] = copy[e] /\ dirty'[e] = dirty[e]
  BY <1>1, FlushedAgrees, NotFlushedAgrees
<1>3. snapshot' = snapshot /\ pending'[c] = None
      /\ \A e \in Calls : e # c => pending'[e] = pending[e]
  BY <1>1 DEF Flushed, NotFlushed, SaveSnapshot, KeepSnapshot, Workers
<1>4. Framed(c)
  BY <1>2, <1>3 DEF Framed
<1>5. QED
  BY <1>3, <1>4 DEF Kept, Waiting, Switched

\* A flush that writes whatever the call has assigned before.
LEMMA FlushAsItIs ==
    ASSUME SwitchInv, NEW c \in Calls, pc[c] \in {"publish", "rollback"}, pending[c] # None,
           Flushed(c, copy[c], dirty[c]) \/
              (NotFlushed(c, copy[c], dirty[c]) /\ pc'[c] \in {"rollback", "release"}),
           \A e \in Calls : e # c => pc'[e] = pc[e]
    PROVE  Kept(c)
<1>1. /\ Inv /\ pending \in [Workers -> Snapshot \cup {None}] /\ c \in Workers
      /\ copy[c] \in Control /\ dirty[c] = TRUE /\ Agrees(copy[c], dirty[c], control)
      /\ control \in Control /\ pending[c] \in Snapshot /\ copy \in [Calls -> Control \cup {None}]
  BY NoneAssumption DEF SwitchInv, Inv, SysTypes, Workers, Waiting, CallInv
<1>2. /\ copy[c].token = c /\ copy[c].fence = pending[c].gen
      /\ copy[c].version = control.version => control.frozen
  BY DEF SwitchInv, Waiting
<1>3. CASE Flushed(c, copy[c], dirty[c])
  <2> DEFINE saved == [copy[c] EXCEPT !.version = @ + 1]
  <2>1. /\ control.version = copy[c].version /\ control' = saved /\ snapshot' = pending[c]
        /\ pending' = [pending EXCEPT ![c] = None]
    BY <1>1, <1>3 DEF Flushed, SaveSnapshot
  <2>2. saved.token = copy[c].token /\ saved.fence = copy[c].fence
        /\ saved.version = copy[c].version + 1
    BY <1>1 DEF Control
  <2> HIDE DEF saved
  <2>3. \A e \in Calls : e # c => copy'[e] = copy[e] /\ dirty'[e] = dirty[e]
    BY <1>1, <1>3, NoneAssumption, FlushedAgrees
  <2>4. \A e \in Calls : e # c => pending'[e] = pending[e]
    BY <1>1, <2>1 DEF Workers
  <2>5. pending'[c] = None
    BY <1>1, <2>1
  <2>6. Framed(c)
    BY <2>1, <2>2, <2>3, <2>4 DEF Framed
  <2>7. QED
    BY <1>2, <2>1, <2>2, <2>5, <2>6 DEF Kept, Waiting, Switched
<1>4. CASE NotFlushed(c, copy[c], dirty[c]) /\ pc'[c] \in {"rollback", "release"}
  <2>1. /\ control' = control /\ copy'[c] = copy[c] /\ dirty'[c] = dirty[c]
        /\ \A e \in Calls : e # c => copy'[e] = copy[e] /\ dirty'[e] = dirty[e]
    BY <1>1, <1>4, NotFlushedAgrees
  <2>2. /\ snapshot' = snapshot /\ pending'[c] \in {pending[c], None}
        /\ \A e \in Calls : e # c => pending'[e] = pending[e]
    BY <1>1, <1>4 DEF NotFlushed, KeepSnapshot, Workers
  <2>3. Framed(c)
    BY <2>1, <2>2 DEF Framed
  <2>4. Waiting(c)'
    BY <1>1, <1>2, <1>4, <2>1, <2>2, NoneAssumption DEF Waiting
  <2>5. QED
    BY <2>2, <2>3, <2>4 DEF Kept, Switched
<1>5. QED
  BY <1>3, <1>4

\* A statement that sends nothing.
LEMMA NothingSent ==
    ASSUME SwitchInv, NEW c \in Calls, UNCHANGED <<control, snapshot, pending>>,
           pending[c] # None => /\ copy'[c] = copy[c] /\ dirty'[c] = dirty[c]
                                /\ pc'[c] \in {"rollback", "release", "done"},
           \A e \in Calls : e # c => copy'[e] = copy[e] /\ dirty'[e] = dirty[e] /\ pc'[e] = pc[e]
    PROVE  Kept(c)
<1>1. Framed(c)
  BY DEF Framed
<1>2. Waiting(c)
  BY DEF SwitchInv
<1>3. QED
  BY <1>1, <1>2 DEF Kept, Switched, Waiting

-----------------------------------------------------------------------------
\* A call that is elsewhere has assigned no snapshot.
LEMMA NothingWaits ==
    ASSUME SwitchInv, NEW c \in Calls, pc[c] \notin {"publish", "rollback", "release", "done"}
    PROVE  pending[c] = None
  BY DEF SwitchInv, Waiting

LEMMA TransitionKeeps ==
    ASSUME SwitchInv, NEW c \in Calls, NEW from \in Stage \ {"publish", "release", "done"},
           NEW s \in OperationState, NEW next \in Stage, Transition(c, from, s, next)
    PROVE  Kept(c)
<1>1. /\ Inv /\ pc[c] = from /\ copy[c] \in Control \cup {None} /\ dirty[c] \in BOOLEAN
      /\ CallInv(c)
  BY DEF SwitchInv, Inv, SysTypes, Transition
<1>2. from # "rollback" => pending[c] = None
  BY <1>1, NothingWaits
<1>3. Goto(c, next) \/ Throw(c)
  BY DEF Transition
<1>4. \A e \in Calls : e # c => pc'[e] = pc[e]
  BY <1>1, <1>3, GotoStage, ThrowStage
<1>5. Throw(c) => pc'[c] \in {"rollback", "release"}
  BY <1>1, ThrowStage
<1>6. CASE Throw(c) /\ UNCHANGED <<control, snapshot, op, view, copy, dirty, pending>>
  BY <1>4, <1>5, <1>6, NothingSent
<1>7. CASE \/ Flushed(c, copy[c], dirty[c])
           \/ NotFlushed(c, copy[c], dirty[c]) /\ Throw(c)
  <2>1. CASE pending[c] = None
    <3>1. /\ copy[c] = None => ~dirty[c]
          /\ copy[c] # None => Agrees(copy[c], dirty[c], control)
      BY <1>1 DEF CallInv
    <3>2. QED
      BY <1>1, <1>4, <1>7, <2>1, <3>1, FlushWithoutSnapshot
  <2>2. CASE pending[c] # None
    BY <1>1, <1>2, <1>4, <1>5, <1>7, <2>2, FlushAsItIs
  <2>3. QED
    BY <2>1, <2>2
<1>8. QED
  BY <1>6, <1>7 DEF Transition

\* A changed record, from a statement before or after the switch.
LEMMA SetAndFlushKeeps ==
    ASSUME SwitchInv, NEW c \in Calls, NEW r \in Control, NEW touched \in BOOLEAN, NEW next \in Stage,
           NEW d \in BOOLEAN, d = (dirty[c] \/ touched \/ r # copy[c]),
           Agrees(r, d, control), pending[c] = None,
           SetAndFlush(c, r, touched, next)
    PROVE  Kept(c)
<1>1. Goto(c, next) \/ Throw(c)
  BY DEF SetAndFlush
<1>2. \A e \in Calls : e # c => pc'[e] = pc[e]
  BY <1>1, GotoStage, ThrowStage DEF SwitchInv
<1>3. Flushed(c, r, d) \/ NotFlushed(c, r, d)
  BY DEF SetAndFlush
<1>4. QED
  BY <1>2, <1>3, NoneAssumption, FlushWithoutSnapshot

LEMMA RecordKeeps ==
    ASSUME SwitchInv, NEW c \in Calls,
           FreezeTenantWrites(c) \/ Degrade(c) \/ UnfreezeTenantWrites(c) \/ Reactivate(c)
    PROVE  Kept(c)
<1>1. /\ pc[c] \in Loaded /\ pc[c] \notin {"publish", "rollback", "release", "done", "assign"}
  BY DEF FreezeTenantWrites, Degrade, UnfreezeTenantWrites, Reactivate, Loaded
<1>2. /\ copy[c] \in Control /\ Agrees(copy[c], dirty[c], control) /\ ~dirty[c]
      /\ control \in Control /\ pending[c] = None
  BY <1>1, LoadedClean, NothingWaits DEF SwitchInv
<1> DEFINE cp == copy[c]
<1>3. ASSUME NEW r \in Control, r.version = cp.version, MayFollow(cp, r),
             NEW touched \in BOOLEAN, NEW next \in Stage, SetAndFlush(c, r, touched, next)
      PROVE  Kept(c)
  <2> DEFINE d == dirty[c] \/ touched \/ r # copy[c]
  <2>1. Agrees(r, d, control)
    BY <1>2, <1>3 DEF Agrees
  <2>2. d \in BOOLEAN
    OBVIOUS
  <2>3. QED
    BY <1>2, <1>3, <2>1, <2>2, SetAndFlushKeeps
<1>4. CASE FreezeTenantWrites(c)
  <2> DEFINE r == [cp EXCEPT !.frozen = TRUE]
  <2>1. r \in Control /\ r.version = cp.version /\ MayFollow(cp, r)
    BY <1>2 DEF Control, MayFollow
  <2>2. SetAndFlush(c, r, FALSE, "assign")
    BY <1>4 DEF FreezeTenantWrites
  <2>3. QED
    BY <1>3, <2>1, <2>2 DEF Stage, Try
<1>5. CASE Degrade(c)
  <2> DEFINE r == [cp EXCEPT !.status = "DEGRADED"]
  <2>1. r \in Control /\ r.version = cp.version /\ MayFollow(cp, r)
    BY <1>2 DEF Control, MayFollow, Status
  <2>2. SetAndFlush(c, r, TRUE, "switched")
    BY <1>5 DEF Degrade
  <2>3. QED
    BY <1>3, <2>1, <2>2 DEF Stage, Try
<1>6. CASE UnfreezeTenantWrites(c)
  <2> DEFINE r == Unfrozen(cp)
  <2>1. r \in Control /\ r.version = cp.version /\ MayFollow(cp, r)
    BY <1>2 DEF Control, MayFollow, Unfrozen
  <2>2. SetAndFlush(c, r, FALSE, "finalize")
    BY <1>6 DEF UnfreezeTenantWrites
  <2>3. QED
    BY <1>3, <2>1, <2>2 DEF Stage, Try
<1>7. CASE Reactivate(c)
  <2> DEFINE r == [cp EXCEPT !.status = "ACTIVE"]
  <2>1. r \in Control /\ r.version = cp.version /\ MayFollow(cp, r)
    BY <1>2 DEF Control, MayFollow, Status
  <2>2. SetAndFlush(c, r, FALSE, "release")
    BY <1>7 DEF Reactivate
  <2>3. QED
    BY <1>3, <2>1, <2>2 DEF Stage
<1>8. QED
  BY <1>4, <1>5, <1>6, <1>7

LEMMA PublishKeeps ==
    ASSUME SwitchInv, NEW c \in Calls, PublishSnapshot(c)
    PROVE  Kept(c)
<1>1. pc[c] = "publish" /\ SetAndFlush(c, copy[c], FALSE, "degrade") /\ Inv
  BY DEF PublishSnapshot, SwitchInv
<1>2. copy[c] \in Control /\ Agrees(copy[c], dirty[c], control) /\ dirty[c] \in BOOLEAN
  BY <1>1, LoadedClean DEF Loaded
<1>3. (dirty[c] \/ FALSE \/ copy[c] # copy[c]) = dirty[c]
  BY <1>2
<1>4. \/ Flushed(c, copy[c], dirty[c]) /\ Goto(c, "degrade")
      \/ NotFlushed(c, copy[c], dirty[c]) /\ Throw(c)
  BY <1>1, <1>3 DEF SetAndFlush
<1>5. /\ \A e \in Calls : e # c => pc'[e] = pc[e]
      /\ Throw(c) => pc'[c] \in {"rollback", "release"}
  BY <1>1, <1>4, GotoStage, ThrowStage DEF Stage, Try
<1>6. CASE pending[c] = None
  BY <1>2, <1>4, <1>5, <1>6, NoneAssumption, FlushWithoutSnapshot
<1>7. CASE pending[c] # None
  BY <1>1, <1>4, <1>5, <1>7, FlushAsItIs
<1>8. QED
  BY <1>6, <1>7

LEMMA ReopenKeeps ==
    ASSUME SwitchInv, NEW c \in Calls, Reopen(c)
    PROVE  Kept(c)
<1> DEFINE m == Managed(c)
           r == Unfrozen(m)
           d == dirty[c] \/ r # m
<1>1. /\ pc[c] = "reopen" /\ Inv /\ SysTypes /\ CallInv(c) /\ control \in Control
      /\ dirty[c] \in BOOLEAN
  BY DEF Reopen, Inv, SysTypes, SwitchInv
<1>2. m \in Control /\ ~dirty[c] /\ Agrees(m, dirty[c], control)
  <2>1. ~dirty[c]
    BY <1>1 DEF CallInv, Clean, Stage, Catch
  <2>2. CASE copy[c] = None
    BY <1>1, <2>1, <2>2 DEF Managed, Agrees, MayFollow, Control
  <2>3. CASE copy[c] # None
    BY <1>1, <2>1, <2>3 DEF Managed, CallInv, SysTypes
  <2>4. QED
    BY <2>2, <2>3
<1>3. /\ r \in Control /\ r.version = m.version /\ r.frozen = FALSE
      /\ r.token = None /\ r.fence = m.fence
  BY <1>2 DEF Control, Unfrozen
<1>4. d \in BOOLEAN /\ r # None
  BY <1>3, NoneAssumption
<1>5. (Flushed(c, r, d) \/ NotFlushed(c, r, d)) /\ (Goto(c, "reactivate") \/ Throw(c))
  BY DEF Reopen
<1> HIDE DEF m, r
<1>6. Agrees(r, d, control)
  BY <1>2, <1>3 DEF Agrees, MayFollow
<1> HIDE DEF d
<1>7. \A e \in Calls : e # c => pc'[e] = pc[e]
  BY <1>1, <1>5, GotoStage, ThrowStage DEF Stage, Catch
<1>8. pending[c] = None
  BY <1>1, NothingWaits
<1>9. QED
  BY <1>3, <1>4, <1>5, <1>6, <1>7, <1>8, FlushWithoutSnapshot

LEMMA AssignKeeps ==
    ASSUME SwitchInv, NEW c \in Calls, AssignSnapshot(c)
    PROVE  Kept(c)
<1> DEFINE x == ExpectedGeneration(copy[c])
           r == [copy[c] EXCEPT !.token = c, !.fence = x + 1]
           s == Signed(c, snapshot, "secondary")
<1>1. /\ pc[c] = "assign" /\ Inv /\ SysTypes
      /\ copy' = [copy EXCEPT ![c] = r]
      /\ dirty' = [dirty EXCEPT ![c] = TRUE]
      /\ \/ snapshot.gen = x /\ Goto(c, "publish") /\ pending' = [pending EXCEPT ![c] = s]
         \/ Throw(c) /\ UNCHANGED pending
      /\ UNCHANGED <<control, snapshot>>
  BY DEF AssignSnapshot, SwitchInv, Inv
<1>2. /\ copy[c] \in Control /\ Agrees(copy[c], dirty[c], control) /\ ~dirty[c]
      /\ control \in Control /\ pending[c] = None /\ copy[c].frozen
  BY <1>1, LoadedClean, NothingWaits, NoneAssumption DEF Loaded, Inv, CallInv
<1>3. x \in Nat
  BY <1>2 DEF ExpectedGeneration, Control
<1> HIDE DEF x
<1>4. /\ r \in Control /\ r.version = copy[c].version /\ r.token = c /\ r.fence = x + 1
  <2>1. x + 1 \in Nat /\ copy[c] \in Control
    BY <1>2, <1>3
  <2>2. QED
    BY <2>1 DEF Control
<1>5. s.gen = snapshot.gen + 1
  BY DEF Signed
<1> HIDE DEF r, s
<1>6. /\ copy'[c] = r /\ dirty'[c] = TRUE
      /\ \A e \in Calls : e # c => copy'[e] = copy[e] /\ dirty'[e] = dirty[e]
  BY <1>1 DEF SysTypes
<1>7. /\ \A e \in Calls : e # c => pc'[e] = pc[e] /\ pending'[e] = pending[e]
      /\ \/ snapshot.gen = x /\ pc'[c] = "publish" /\ pending'[c] = s
         \/ pending'[c] = None
  BY <1>1, <1>2, GotoStage, ThrowStage DEF Stage, Try, SysTypes, Workers
<1>8. r.version = control.version => control.frozen
  BY <1>2, <1>4 DEF Agrees
<1>9. Waiting(c)'
  BY <1>1, <1>4, <1>5, <1>6, <1>7, <1>8, NoneAssumption DEF Waiting
<1>10. Framed(c)
  BY <1>1, <1>6, <1>7 DEF Framed
<1>11. QED
  BY <1>1, <1>9, <1>10 DEF Kept, Switched

LEMMA OtherStatementsKeep ==
    ASSUME SwitchInv, NEW c \in Calls,
           \/ CreateOperation(c) \/ LoadControl(c)
           \/ Work(c, "check", "switching") \/ Work(c, "recover", "unfreeze")
           \/ Work(c, "record", "release")
    PROVE  Kept(c)
<1>1. /\ pc[c] \notin {"publish", "rollback", "release", "done"} /\ Inv /\ SysTypes
      /\ UNCHANGED <<control, snapshot, pending, dirty>>
      /\ copy' = copy \/ copy' = [copy EXCEPT ![c] = control]
  BY DEF CreateOperation, LoadControl, Work, SwitchInv, Inv
<1>2. (\E s \in Stage : Goto(c, s)) \/ Throw(c)
  BY DEF CreateOperation, LoadControl, Work, Stage, Try
<1>3. \A e \in Calls : e # c => pc'[e] = pc[e]
  BY <1>1, <1>2, GotoStage, ThrowStage
<1>4. \A e \in Calls : e # c => copy'[e] = copy[e] /\ dirty'[e] = dirty[e]
  BY <1>1 DEF SysTypes
<1>5. QED
  BY <1>1, <1>3, <1>4, NothingWaits, NothingSent

LEMMA StepKeeps ==
    ASSUME SwitchInv, NEW c \in Calls, Step(c)
    PROVE  Kept(c)
<1> USE DEF Stage, Try, Catch, OperationState
<1>1. CASE Transition(c, "prepare", "PREPARING", "load")
  BY <1>1, TransitionKeeps
<1>2. CASE Transition(c, "validate", "VALIDATING", "check")
  BY <1>2, TransitionKeeps
<1>3. CASE Transition(c, "switching", "SWITCHING", "freeze")
  BY <1>3, TransitionKeeps
<1>4. CASE Transition(c, "switched", "SWITCHED", "recover")
  BY <1>4, TransitionKeeps
<1>5. CASE Transition(c, "finalize", "FINALIZED", "record")
  BY <1>5, TransitionKeeps
<1>6. CASE Transition(c, "rollback", "ROLLBACK", "reopen")
  BY <1>6, TransitionKeeps
<1>7. QED
  BY <1>1, <1>2, <1>3, <1>4, <1>5, <1>6, RecordKeeps, PublishKeeps, ReopenKeeps, AssignKeeps,
     OtherStatementsKeep DEF Step

-----------------------------------------------------------------------------
LEMMA SwitchStep ==
    ASSUME SwitchInv, [Act]_sys
    PROVE  /\ SwitchInv'
           /\ \A c \in Calls : pc'[c] # pc[c] => Switched(c)
<1>1. Inv' /\ Inv
  BY InvStep DEF SwitchInv
<1>2. ASSUME NEW c \in Calls, Step(c)
      PROVE  SwitchInv' /\ \A e \in Calls : pc'[e] # pc[e] => Switched(e)
  <2>1. Kept(c)
    BY <1>2, StepKeeps
  <2>2. ASSUME NEW e \in Calls, e # c PROVE Waiting(e)' /\ pc'[e] = pc[e]
    BY <1>1, <2>1, <2>2, WaitingKept DEF Kept, Framed, SwitchInv
  <2>3. QED
    BY <1>1, <2>1, <2>2 DEF SwitchInv, Kept
<1>3. ASSUME UNCHANGED <<copy, dirty>>,
             control' = control \/ control'.version = control.version + 1,
             \A c \in Calls : /\ pending'[c] = pending[c]
                              /\ pc'[c] = pc[c] \/ pending[c] = None \/ pc'[c] = "done",
             snapshot' = snapshot \/ \A c \in Calls : pc'[c] = pc[c]
      PROVE  SwitchInv' /\ \A e \in Calls : pc'[e] # pc[e] => Switched(e)
  <2>1. ASSUME NEW c \in Calls PROVE Waiting(c)'
    BY <1>1, <1>3, <2>1, WaitingKept DEF SwitchInv
  <2>2. QED
    BY <1>1, <1>3, <2>1 DEF SwitchInv, Switched
<1>4. ASSUME NEW w \in Workers, AcquireLock(w) \/ ReleaseLock(w) \/ Crash(w)
      PROVE  SwitchInv' /\ \A e \in Calls : pc'[e] # pc[e] => Switched(e)
  <2>1. UNCHANGED <<control, snapshot, copy, dirty, pending>>
    BY <1>4 DEF AcquireLock, ReleaseLock, Crash
  <2>2. \A c \in Calls : pc'[c] = pc[c] \/ pc[c] = "idle" \/ pc'[c] = "done"
    BY <1>1, <1>4 DEF AcquireLock, ReleaseLock, Crash, Goto, Inv, SysTypes, Workers
  <2>3. \A c \in Calls : pc[c] = "idle" => pending[c] = None
    BY NothingWaits
  <2>4. QED
    BY <1>3, <2>1, <2>2, <2>3
<1>5. ASSUME NEW m \in Migrations, ResolveRoute(m) \/ RepublishRoute(m)
      PROVE  SwitchInv' /\ \A e \in Calls : pc'[e] # pc[e] => Switched(e)
  <2>1. UNCHANGED <<control, copy, dirty>> /\ m \notin Calls
    BY <1>5, CallsAssumption DEF ResolveRoute, RepublishRoute
  <2>2. \A c \in Calls : pc'[c] = pc[c]
    BY <1>1, <1>5, <2>1 DEF ResolveRoute, RepublishRoute, Goto, Inv, SysTypes, Workers
  <2>3. \A c \in Calls : pending'[c] = pending[c]
    BY <1>1, <1>5, <2>1 DEF ResolveRoute, RepublishRoute, KeepSnapshot, Inv, SysTypes, Workers
  <2>4. QED
    BY <1>3, <2>1, <2>2, <2>3
<1>6. ASSUME NEW s \in Lifecycle, SetStatus(s)
      PROVE  SwitchInv' /\ \A e \in Calls : pc'[e] # pc[e] => Switched(e)
  <2>1. UNCHANGED <<snapshot, pc, copy, dirty, pending>>
    BY <1>6 DEF SetStatus
  <2>2. control'.version = control.version + 1
    BY <1>1, <1>6 DEF SetStatus, Inv, SysTypes, Control
  <2>3. QED
    BY <1>3, <2>1, <2>2
<1>7. ASSUME ExpireLock \/ UNCHANGED sys
      PROVE  SwitchInv' /\ \A e \in Calls : pc'[e] # pc[e] => Switched(e)
  BY <1>3, <1>7 DEF ExpireLock, sys
<1> DEFINE Goal == SwitchInv' /\ \A e \in Calls : pc'[e] # pc[e] => Switched(e)
<1> HIDE DEF Goal
<1>8. CASE UNCHANGED sys
  BY <1>7, <1>8 DEF Goal
<1>9. CASE Act
  <2>1. CASE \E w \in Workers : AcquireLock(w) \/ ReleaseLock(w) \/ Crash(w)
    BY <2>1, <1>4 DEF Goal
  <2>2. CASE \E c \in Calls : Step(c)
    BY <2>2, <1>2 DEF Goal
  <2>3. CASE \E m \in Migrations : ResolveRoute(m) \/ RepublishRoute(m)
    BY <2>3, <1>5 DEF Goal
  <2>4. CASE \E s \in Lifecycle : SetStatus(s)
    BY <2>4, <1>6 DEF Goal
  <2>5. CASE ExpireLock
    BY <2>5, <1>7 DEF Goal
  <2>6. CASE Finished
    BY <2>6, <1>8 DEF Finished
  <2>7. QED
    BY <1>9, <2>1, <2>2, <2>3, <2>4, <2>5, <2>6 DEF Act
<1>10. QED
  BY <1>8, <1>9 DEF Goal

LEMMA SwitchInit == Init => SwitchInv
<1> SUFFICES ASSUME Init PROVE SwitchInv
  OBVIOUS
<1>1. Inv
  BY InvInit
<1>2. QED
  BY <1>1 DEF Init, SwitchInv, Waiting, Workers

LEMMA SwitchInvariance == Spec => []SwitchInv
<1>1. SwitchInv /\ [Next]_vars => SwitchInv'
  BY SwitchStep, NextActs
<1>2. QED
  BY <1>1, SwitchInit, PTL DEF Spec

\* However failovers, migrations and administrators are interleaved, and
\* whichever flush writes it, a failover's new route reaches the database only
\* while writes are frozen and together with that failover's own write fence.
THEOREM SwitchUnderFence == Spec => RouteSwitchedUnderFence
<1>1. SwitchInv /\ [Next]_vars =>
          [\A c \in Calls : snapshot' # snapshot /\ pc'[c] # pc[c] =>
              control.frozen /\ control'.token = c /\ control'.fence = snapshot'.gen]_vars
  BY SwitchStep, NextActs DEF Switched
<1>2. QED
  BY <1>1, SwitchInvariance, PTL DEF Spec, RouteSwitchedUnderFence

-----------------------------------------------------------------------------
\* From here on: what the lock adds, and what is left of it in a spell in which
\* it keeps nobody apart.

\* What a step may do to the route: nothing, assign the next generation, or
\* write what was assigned and perhaps assign the one after it.
RouteMoves(w) ==
    \/ /\ snapshot' = snapshot
       /\ pending'[w] \in {pending[w], None} \/ pending'[w].gen = snapshot.gen + 1
    \/ /\ pending[w] # None /\ snapshot' = pending[w]
       /\ pending'[w] = None \/ pending'[w].gen = snapshot'.gen + 1

\* A step of live worker w that leaves the lock and the other workers alone.
MovesAlone(w) ==
    /\ Live(w) /\ pc'[w] # "idle" /\ lock' = lock
    /\ \A v \in Workers : v # w => pc'[v] = pc[v] /\ pending'[v] = pending[v]

\* Where a step of a call leaves its statement.
LEMMA StepMoves ==
    ASSUME Inv, NEW c \in Calls, Step(c)
    PROVE  /\ Live(c) /\ pc'[c] \in Stage \ {"idle", "done"} /\ lock' = lock
           /\ \A v \in Workers : v # c => pc'[v] = pc[v]
<1>1. Live(c) /\ lock' = lock
  <2> USE DEF Live
  <2>1. \A from, s, next : Transition(c, from, s, next) => pc[c] = from /\ lock' = lock
    BY DEF Transition
  <2>2. \A from, next : Work(c, from, next) => pc[c] = from /\ lock' = lock
    BY DEF Work
  <2>3. CASE FreezeTenantWrites(c) \/ PublishSnapshot(c) \/ Degrade(c) \/ UnfreezeTenantWrites(c)
             \/ Reactivate(c)
    BY <2>3 DEF FreezeTenantWrites, PublishSnapshot, Degrade, UnfreezeTenantWrites, Reactivate,
       SetAndFlush
  <2>4. CASE CreateOperation(c) \/ LoadControl(c) \/ AssignSnapshot(c) \/ Reopen(c)
    BY <2>4 DEF CreateOperation, LoadControl, AssignSnapshot, Reopen
  <2>5. QED
    BY <2>1, <2>2, <2>3, <2>4 DEF Step
<1>2. (\E s \in Stage \ {"idle", "done"} : Goto(c, s)) \/ Throw(c)
  <2> USE DEF Stage, Try, Catch
  <2>1. \A from, s : \A next \in Stage \ {"idle", "done"} : Transition(c, from, s, next) =>
            (\E t \in Stage \ {"idle", "done"} : Goto(c, t)) \/ Throw(c)
    BY DEF Transition
  <2>2. \A from : \A next \in Stage \ {"idle", "done"} : Work(c, from, next) =>
            (\E t \in Stage \ {"idle", "done"} : Goto(c, t)) \/ Throw(c)
    BY DEF Work
  <2>3. \A r, touched : \A next \in Stage \ {"idle", "done"} : SetAndFlush(c, r, touched, next) =>
            (\E t \in Stage \ {"idle", "done"} : Goto(c, t)) \/ Throw(c)
    BY DEF SetAndFlush
  <2>4. CASE FreezeTenantWrites(c) \/ PublishSnapshot(c) \/ Degrade(c) \/ UnfreezeTenantWrites(c)
             \/ Reactivate(c)
    BY <2>3, <2>4 DEF FreezeTenantWrites, PublishSnapshot, Degrade, UnfreezeTenantWrites,
       Reactivate
  <2>5. CASE CreateOperation(c) \/ LoadControl(c) \/ AssignSnapshot(c) \/ Reopen(c)
    BY <2>5 DEF CreateOperation, LoadControl, AssignSnapshot, Reopen
  <2>6. QED
    BY <2>1, <2>2, <2>4, <2>5 DEF Step
<1>3. \E s \in Stage \ {"idle", "done"} : Goto(c, s)
  BY <1>2 DEF Throw, Stage, Catch
<1>4. QED
  BY <1>1, <1>3 DEF Goto, Inv, SysTypes, Workers

\* What a step of a call does to the route.
LEMMA FlushMoves ==
    ASSUME Inv, NEW c \in Calls, NEW r, NEW d, Flushed(c, r, d) \/ NotFlushed(c, r, d)
    PROVE  /\ RouteMoves(c)
           /\ \A v \in Workers : v # c => pending'[v] = pending[v]
<1>1. pending \in [Workers -> Snapshot \cup {None}] /\ c \in Workers
  BY DEF Inv, SysTypes, Workers
<1>2. CASE Flushed(c, r, d)
  BY <1>1, <1>2 DEF Flushed, SaveSnapshot, RouteMoves
<1>3. CASE NotFlushed(c, r, d)
  BY <1>1, <1>3 DEF NotFlushed, KeepSnapshot, RouteMoves
<1>4. QED
  BY <1>2, <1>3

LEMMA StepMovesRoute ==
    ASSUME Inv, NEW c \in Calls, Step(c)
    PROVE  /\ RouteMoves(c)
           /\ \A v \in Workers : v # c => pending'[v] = pending[v]
<1> DEFINE Still == UNCHANGED <<snapshot, pending>>
           Flush == \E r, d : Flushed(c, r, d) \/ NotFlushed(c, r, d)
<1>1. CASE Still
  BY <1>1 DEF RouteMoves
<1>2. CASE Flush
  BY <1>2, FlushMoves
<1>3. CASE AssignSnapshot(c)
  <2>1. pending \in [Workers -> Snapshot \cup {None}] /\ c \in Workers
    BY DEF Inv, SysTypes, Workers
  <2>2. CASE pending' = [pending EXCEPT ![c] = Signed(c, snapshot, "secondary")]
    BY <1>3, <2>1, <2>2 DEF AssignSnapshot, RouteMoves, Signed
  <2>3. CASE UNCHANGED pending
    BY <1>3, <2>3 DEF AssignSnapshot, RouteMoves
  <2>4. QED
    BY <1>3, <2>2, <2>3 DEF AssignSnapshot
<1>4. \A from, s, next : Transition(c, from, s, next) => Still \/ Flush
  BY DEF Transition
<1>5. \A from, next : Work(c, from, next) => Still
  BY DEF Work
<1>6. \A r, touched, next : SetAndFlush(c, r, touched, next) => Flush
  BY DEF SetAndFlush
<1>7. CreateOperation(c) \/ LoadControl(c) => Still
  BY DEF CreateOperation, LoadControl
<1>8. Reopen(c) => Flush
  BY DEF Reopen
<1>9. FreezeTenantWrites(c) \/ PublishSnapshot(c) \/ Degrade(c) \/ UnfreezeTenantWrites(c)
          \/ Reactivate(c) => Flush
  BY <1>6 DEF FreezeTenantWrites, PublishSnapshot, Degrade, UnfreezeTenantWrites, Reactivate
<1> HIDE DEF Still, Flush
<1>10. Still \/ Flush \/ AssignSnapshot(c)
  BY <1>4, <1>5, <1>7, <1>8, <1>9 DEF Step
<1>11. QED
  BY <1>1, <1>2, <1>3, <1>10

LEMMA MigrationMoves ==
    ASSUME Inv, NEW m \in Migrations, ResolveRoute(m) \/ RepublishRoute(m)
    PROVE  MovesAlone(m) /\ RouteMoves(m)
<1>1. /\ m \in Workers /\ pending \in [Workers -> Snapshot \cup {None}]
      /\ pc \in [Workers -> Stage] /\ snapshot \in Snapshot
  BY DEF Inv, SysTypes, Workers
<1>2. PICK s \in {"republish", "release", "reevaluate"} : Goto(m, s)
  BY DEF ResolveRoute, RepublishRoute
<1>3. /\ Live(m) /\ pc'[m] # "idle" /\ lock' = lock
      /\ \A v \in Workers : v # m => pc'[v] = pc[v]
  BY <1>1, <1>2 DEF Goto, Live, ResolveRoute, RepublishRoute
<1>4. ASSUME NEW e, pending' = [pending EXCEPT ![m] = e]
      PROVE  pending'[m] = e /\ \A v \in Workers : v # m => pending'[v] = pending[v]
  BY <1>1, <1>4
<1>5. CASE ResolveRoute(m)
  <2>1. snapshot' = snapshot
    BY <1>5 DEF ResolveRoute
  <2>2. CASE pending' = [pending EXCEPT ![m] = Signed(m, snapshot, snapshot.target)]
    <3> DEFINE e == Signed(m, snapshot, snapshot.target)
    <3>1. e.gen = snapshot.gen + 1
      BY DEF Signed
    <3> HIDE DEF e
    <3>2. pending' = [pending EXCEPT ![m] = e]
      BY <2>2 DEF e
    <3>3. QED
      BY <1>3, <1>4, <2>1, <3>1, <3>2 DEF MovesAlone, RouteMoves
  <2>3. CASE pending' = [pending EXCEPT ![m] =
                Signed(m, snapshot, IF control.status = "DEGRADED" THEN "secondary" ELSE "primary")]
    <3> DEFINE e == Signed(m, snapshot, IF control.status = "DEGRADED" THEN "secondary" ELSE "primary")
    <3>1. e.gen = snapshot.gen + 1
      BY DEF Signed
    <3> HIDE DEF e
    <3>2. pending' = [pending EXCEPT ![m] = e]
      BY <2>3 DEF e
    <3>3. QED
      BY <1>3, <1>4, <2>1, <3>1, <3>2 DEF MovesAlone, RouteMoves
  <2>4. CASE UNCHANGED pending
    BY <1>3, <2>1, <2>4 DEF MovesAlone, RouteMoves
  <2>5. QED
    BY <1>5, <2>2, <2>3, <2>4 DEF ResolveRoute
<1>6. CASE RepublishRoute(m)
  <2>1. CASE SaveSnapshot(m) /\ pending' = [pending EXCEPT ![m] = Signed(m, snapshot', snapshot'.target)]
    <3>1. snapshot' = snapshot \/ (pending[m] # None /\ snapshot' = pending[m])
      BY <2>1 DEF SaveSnapshot
    <3>2. snapshot' \in Snapshot
      BY <1>1, <3>1
    <3> DEFINE e == Signed(m, snapshot', snapshot'.target)
    <3>3. e.gen = snapshot'.gen + 1
      BY DEF Signed
    <3> HIDE DEF e
    <3>4. pending' = [pending EXCEPT ![m] = e]
      BY <2>1 DEF e
    <3>5. pending'[m] = e /\ \A v \in Workers : v # m => pending'[v] = pending[v]
      BY <1>1, <3>4
    <3>6. QED
      BY <1>3, <3>1, <3>3, <3>5 DEF MovesAlone, RouteMoves
  <2>2. CASE SaveSnapshot(m) /\ pending' = [pending EXCEPT ![m] = None]
    <3>1. snapshot' = snapshot \/ (pending[m] # None /\ snapshot' = pending[m])
      BY <2>2 DEF SaveSnapshot
    <3>2. QED
      BY <1>3, <1>4, <2>2, <3>1 DEF MovesAlone, RouteMoves
  <2>3. CASE KeepSnapshot(m)
    BY <1>1, <1>3, <2>3 DEF KeepSnapshot, MovesAlone, RouteMoves
  <2>4. QED
    BY <1>6, <2>1, <2>2, <2>3 DEF RepublishRoute
<1>7. QED
  BY <1>5, <1>6

-----------------------------------------------------------------------------
\* Outside a spell at most one worker is between its lock and its release, in a
\* spell all who work belong to it.
Protected ==
    /\ overlapped = {} => /\ \A w \in Workers : Live(w) => lock
                          /\ \A v, w \in Workers : Live(v) /\ Live(w) => v = w
    /\ overlapped # {} => LiveWorkers \subseteq overlapped

\* A worker works because it did or because it takes the lock now.
LEMMA LiveBefore ==
    ASSUME Inv, [Act]_sys, NEW w \in Workers, Live(w)'
    PROVE  Live(w) \/ AcquireLock(w)
<1> DEFINE Goal == Live(w) \/ AcquireLock(w)
<1>1. pc \in [Workers -> Stage] /\ Calls \subseteq Workers /\ Migrations \subseteq Workers
  BY DEF Inv, SysTypes, Workers
<1>2. ASSUME NEW v \in Workers, AcquireLock(v) \/ ReleaseLock(v) \/ Crash(v) PROVE Goal
  <2>1. PICK s : pc' = [pc EXCEPT ![v] = s] /\ (AcquireLock(v) \/ Live(v))
    BY <1>2 DEF AcquireLock, ReleaseLock, Crash, Goto, Live
  <2>2. v # w => pc'[w] = pc[w]
    BY <1>1, <2>1
  <2>3. QED
    BY <2>1, <2>2 DEF Live
<1>3. ASSUME NEW c \in Calls, Step(c) PROVE Goal
  BY <1>3, StepMoves DEF Live
<1>4. ASSUME NEW m \in Migrations, ResolveRoute(m) \/ RepublishRoute(m) PROVE Goal
  BY <1>4, MigrationMoves DEF Live, MovesAlone
<1>5. ASSUME NEW s \in Lifecycle, SetStatus(s) PROVE Goal
  BY <1>5 DEF SetStatus, Live
<1>6. ASSUME ExpireLock \/ UNCHANGED sys PROVE Goal
  BY <1>6 DEF ExpireLock, sys, Live
<1> HIDE DEF Goal
<1>7. QED
  BY <1>2, <1>3, <1>4, <1>5, <1>6 DEF Act, Finished, Goal

\* In a step of the system, or none, the history is kept.
LEMMA Spells ==
    ASSUME [Next]_vars, LiveWorkers' # {}
    PROVE  /\ overlapped # {} => overlapped \subseteq overlapped' /\ overlapped' # {}
           /\ overlapped' = {} => lock' \/ UNCHANGED vars
  BY DEF Next, Observe, vars, LiveWorkers

LEMMA ProtectedStep ==
    ASSUME Inv, Protected, [Next]_vars
    PROVE  Protected'
<1>1. CASE UNCHANGED vars
  BY <1>1 DEF vars, Protected, Live, LiveWorkers
<1>2. CASE Next
  <2>1. overlapped' # {} => LiveWorkers' \subseteq overlapped'
    BY <1>2 DEF Next, Observe
  <2>2. ASSUME overlapped' = {}, LiveWorkers' # {}
        PROVE  overlapped = {} /\ lock'
    BY <1>2, <2>2 DEF Next, Observe
  <2>3. ASSUME overlapped' = {}, NEW w \in Workers, Live(w)'
        PROVE  overlapped = {} /\ lock' /\ LiveWorkers' # {}
    BY <2>2, <2>3 DEF LiveWorkers, Live
  <2>4. ASSUME overlapped' = {}, NEW v \in Workers, NEW w \in Workers, Live(v)', Live(w)'
        PROVE  v = w
    <3>1. overlapped = {}
      BY <2>3, <2>4
    <3>2. Live(v) /\ Live(w) => v = w
      BY <3>1 DEF Protected
    <3>3. \A u \in Workers : AcquireLock(u) => \A x \in Workers : ~Live(x)
      BY <3>1 DEF Protected, AcquireLock
    <3>4. \A u \in Workers : AcquireLock(u) => \A x \in Workers : x # u => pc'[x] = pc[x]
      BY DEF AcquireLock, Goto, Inv, SysTypes
    <3>5. \A u, x \in Workers : AcquireLock(u) /\ x # u => ~Live(x)'
      BY <3>3, <3>4 DEF Live
    <3>6. QED
      BY <2>4, <3>2, <3>5, LiveBefore, NextActs
  <2>5. QED
    BY <2>1, <2>3, <2>4 DEF Protected
<1>3. QED
  BY <1>1, <1>2

\* Two who work at a time belong to a spell.
LEMMA TogetherInSpell ==
    ASSUME Protected, NEW v \in Workers, NEW w \in Workers, v # w, Live(v), Live(w)
    PROVE  v \in overlapped /\ w \in overlapped
  BY DEF Protected, LiveWorkers

-----------------------------------------------------------------------------
\* The snapshot a worker has assigned is the next generation of the one in the
\* database, as long as the version lets a call write it; of migrations that is
\* so as long as none of them works beside another worker.
NextGen(w) ==
    Live(w) /\ pending[w] # None /\ (w \in Calls => copy[w].version = control.version) =>
        pending[w].gen = snapshot.gen + 1

GenInv ==
    /\ SwitchInv
    /\ Protected
    /\ \A w \in Workers : pc[w] = "idle" => pending[w] = None
    /\ overlapped \cap Migrations = {} => \A w \in Workers : NextGen(w)

\* What a step of a call does to the route: it writes no snapshot and has none
\* to write or the next one; or keeps the one it could not write; or writes it,
\* together with the control record.
LEMMA CallRoute ==
    ASSUME SwitchInv, NEW c \in Calls, Step(c)
    PROVE  \/ /\ snapshot' = snapshot
              /\ pending'[c] = None \/ pending'[c].gen = snapshot.gen + 1
           \/ /\ UNCHANGED <<snapshot, control>>
              /\ pending'[c] = pending[c] /\ copy'[c] = copy[c]
           \/ /\ pending[c] # None /\ snapshot' = pending[c] /\ pending'[c] = None
              /\ copy[c].version = control.version
              /\ control'.version = control.version + 1
<1>1. Inv /\ Waiting(c) /\ c \in Workers /\ Live(c)
  BY StepMoves DEF SwitchInv, Workers
<1>2. CASE pending[c] = None
  BY <1>1, <1>2, StepMovesRoute DEF RouteMoves
<1>3. CASE pending[c] # None
  <2>1. /\ pc[c] \in {"publish", "rollback"} /\ dirty[c] /\ copy[c] \in Control
        /\ dirty[c] = TRUE
    BY <1>1, <1>3 DEF Waiting, Step, Transition, CreateOperation, LoadControl, Work,
       FreezeTenantWrites, AssignSnapshot, PublishSnapshot, Degrade, UnfreezeTenantWrites, Reopen,
       Reactivate, Inv, SysTypes
  <2>2. CASE Flushed(c, copy[c], dirty[c])
    <3>1. /\ control.version = copy[c].version
          /\ control' = [copy[c] EXCEPT !.version = @ + 1]
          /\ snapshot' = pending[c] /\ pending' = [pending EXCEPT ![c] = None]
      BY <1>3, <2>1, <2>2 DEF Flushed, SaveSnapshot
    <3>2. control'.version = control.version + 1
      BY <2>1, <3>1 DEF Control
    <3>3. pending'[c] = None
      BY <1>1, <3>1 DEF Inv, SysTypes
    <3>4. QED
      BY <1>3, <3>1, <3>2, <3>3
  <2>3. CASE NotFlushed(c, copy[c], dirty[c])
    <3>1. /\ UNCHANGED <<snapshot, control>> /\ copy' = [copy EXCEPT ![c] = copy[c]]
          /\ pending'[c] \in {pending[c], None}
      BY <1>1, <2>3 DEF NotFlushed, KeepSnapshot, Inv, SysTypes
    <3>2. copy'[c] = copy[c]
      BY <3>1 DEF Inv, SysTypes
    <3>3. QED
      BY <3>1, <3>2
  <2>4. CASE UNCHANGED <<control, snapshot, copy, pending>>
    BY <2>4
  <2>5. Flushed(c, copy[c], dirty[c]) \/ NotFlushed(c, copy[c], dirty[c])
            \/ UNCHANGED <<control, snapshot, copy, pending>>
    <3>1. CASE pc[c] = "publish"
      <4>1. PublishSnapshot(c)
        BY <3>1 DEF Step, Transition, CreateOperation, LoadControl, Work, FreezeTenantWrites,
           AssignSnapshot, Degrade, UnfreezeTenantWrites, Reopen, Reactivate
      <4>2. \A d : d = (dirty[c] \/ FALSE \/ copy[c] # copy[c]) => d = dirty[c]
        BY <2>1
      <4>3. QED
        BY <4>1, <4>2 DEF PublishSnapshot, SetAndFlush
    <3>2. CASE pc[c] = "rollback"
      <4>1. Transition(c, "rollback", "ROLLBACK", "reopen")
        BY <3>2 DEF Step, Transition, CreateOperation, LoadControl, Work, FreezeTenantWrites,
           AssignSnapshot, PublishSnapshot, Degrade, UnfreezeTenantWrites, Reopen, Reactivate
      <4>2. QED
        BY <4>1 DEF Transition
    <3>3. QED
      BY <2>1, <3>1, <3>2
  <2>6. QED
    BY <2>2, <2>3, <2>4, <2>5
<1>4. QED
  BY <1>2, <1>3
\* A worker who has waited keeps waiting while the route stays.
LEMMA WaitsOn ==
    ASSUME GenInv, NEW w \in Workers, NextGen(w), snapshot' = snapshot,
           pending'[w] = pending[w], Live(w)' => Live(w) \/ pending[w] = None,
           w \in Calls => copy'[w] = copy[w],
           control' = control \/ control'.version = control.version + 1
    PROVE  NextGen(w)'
<1>1. w \in Calls /\ pending[w] # None =>
          copy[w].version \in Nat /\ copy[w].version <= control.version
  BY NoneAssumption DEF GenInv, SwitchInv, Waiting, Inv, SysTypes, CallInv, Agrees, Control
<1>2. control.version \in Nat
  BY DEF GenInv, SwitchInv, Inv, SysTypes, Control
<1>3. QED
  BY <1>1, <1>2 DEF NextGen

\* What a step does to the route and to the numbers of those who wait, outside
\* a spell of migrations.
Advances == snapshot' # snapshot => snapshot'.gen > snapshot.gen

LEMMA CallNumbers ==
    ASSUME GenInv, NEW c \in Calls, Step(c), overlapped \cap Migrations = {}
    PROVE  Advances /\ \A w \in Workers : NextGen(w)'
<1>1. /\ SwitchInv /\ Inv /\ Protected /\ c \in Workers /\ Live(c) /\ Kept(c)
      /\ \A w \in Workers : NextGen(w)
      /\ \A w \in Workers : w # c => pc'[w] = pc[w] /\ pending'[w] = pending[w]
      /\ control' = control \/ control'.version = control.version + 1
      /\ snapshot.gen \in Nat
  BY StepMoves, StepMovesRoute, StepKeeps
     DEF GenInv, SwitchInv, Workers, Kept, Framed, Inv, SysTypes, Snapshot
<1>2. ASSUME NEW w \in Workers, w # c, snapshot' = snapshot PROVE NextGen(w)'
  BY <1>1, <1>2, WaitsOn DEF Live, Kept, Framed
<1>3. CASE snapshot' = snapshot /\ (pending'[c] = None \/ pending'[c].gen = snapshot.gen + 1)
  BY <1>2, <1>3 DEF NextGen, Advances
<1>4. CASE UNCHANGED <<snapshot, control>> /\ pending'[c] = pending[c] /\ copy'[c] = copy[c]
  BY <1>1, <1>2, <1>4 DEF NextGen, Advances
<1>5. CASE /\ pending[c] # None /\ snapshot' = pending[c] /\ pending'[c] = None
           /\ copy[c].version = control.version
           /\ control'.version = control.version + 1
  <2>1. snapshot'.gen = snapshot.gen + 1
    BY <1>1, <1>5 DEF NextGen
  <2>2. NextGen(c)'
    BY <1>5 DEF NextGen
  <2>3. ASSUME NEW w \in Workers, w # c PROVE NextGen(w)'
    <3>1. CASE w \in Calls
      <4>1. pending[w] # None => copy[w].version \in Nat /\ copy[w].version <= control.version
        BY <1>1, <3>1, NoneAssumption
           DEF SwitchInv, Waiting, Inv, SysTypes, CallInv, Agrees, Control
      <4>2. copy'[w] = copy[w] /\ control.version \in Nat
        BY <1>1, <2>3, <3>1 DEF Kept, Framed, Inv, SysTypes, Control
      <4>3. QED
        BY <1>1, <1>5, <2>3, <3>1, <4>1, <4>2 DEF NextGen
    <3>2. CASE w \in Migrations
      <4>1. ~Live(w)
        BY <1>1, <2>3, <3>2, TogetherInSpell
      <4>2. QED
        BY <1>1, <2>3, <4>1 DEF NextGen, Live
    <3>3. QED
      BY <3>1, <3>2 DEF Workers
  <2>4. QED
    BY <1>1, <2>1, <2>2, <2>3 DEF Advances
<1>6. QED
  BY <1>1, <1>3, <1>4, <1>5, CallRoute

LEMMA MigrationNumbers ==
    ASSUME GenInv, NEW m \in Migrations, ResolveRoute(m) \/ RepublishRoute(m),
           overlapped \cap Migrations = {}
    PROVE  Advances /\ \A w \in Workers : NextGen(w)'
<1>1. /\ Inv /\ m \in Workers /\ m \notin Calls /\ MovesAlone(m) /\ RouteMoves(m)
      /\ NextGen(m) /\ Protected /\ snapshot.gen \in Nat
  BY MigrationMoves, CallsAssumption DEF GenInv, SwitchInv, Workers, Inv, SysTypes, Snapshot
<1>2. \A w \in Workers : w # m => ~Live(w)
  BY <1>1, TogetherInSpell DEF MovesAlone
<1>3. \A w \in Workers : w # m => NextGen(w)'
  BY <1>1, <1>2 DEF MovesAlone, NextGen, Live
<1>4. pending[m] # None => pending[m].gen = snapshot.gen + 1
  BY <1>1 DEF NextGen, MovesAlone
<1>5. pending'[m] # None => pending'[m].gen = snapshot'.gen + 1
  BY <1>1, <1>4 DEF RouteMoves
<1>6. Advances
  BY <1>1, <1>4 DEF RouteMoves, Advances
<1>7. QED
  BY <1>3, <1>5, <1>6 DEF NextGen

LEMMA GenStep ==
    ASSUME GenInv, [Next]_vars
    PROVE  GenInv' /\ (overlapped \cap Migrations = {} => Advances)
<1>1. SwitchInv' /\ Protected' /\ Inv /\ [Act]_sys
  BY SwitchStep, ProtectedStep, NextActs DEF GenInv, SwitchInv
<1> DEFINE Idle == \A w \in Workers : pc[w] = "idle" => pending[w] = None
           Numbers == overlapped \cap Migrations = {} =>
                          Advances /\ \A w \in Workers : NextGen(w)'
<1>2. ASSUME NEW c \in Calls, Step(c) PROVE Idle' /\ Numbers
  <2>1. Idle'
    BY <1>1, <1>2, StepMoves, StepMovesRoute DEF GenInv
  <2>2. QED
    BY <1>2, <2>1, CallNumbers
<1>3. ASSUME NEW m \in Migrations, ResolveRoute(m) \/ RepublishRoute(m) PROVE Idle' /\ Numbers
  <2>1. Idle'
    BY <1>1, <1>3, MigrationMoves DEF GenInv, MovesAlone
  <2>2. QED
    BY <1>3, <2>1, MigrationNumbers
<1>4. ASSUME UNCHANGED <<snapshot, copy, pending>>,
             control' = control \/ control'.version = control.version + 1,
             \A w \in Workers : /\ Live(w)' => Live(w) \/ pc[w] = "idle"
                                /\ pc'[w] = "idle" => pc[w] = "idle"
      PROVE  Idle' /\ Numbers
  <2>1. Idle'
    BY <1>4 DEF GenInv
  <2>2. ASSUME NEW w \in Workers, NextGen(w) PROVE NextGen(w)'
    <3>1. Live(w)' => Live(w) \/ pending[w] = None
      BY <1>4 DEF GenInv
    <3>2. QED
      BY <1>4, <2>2, <3>1, WaitsOn
  <2>3. Numbers
    BY <1>4, <2>2 DEF GenInv, Advances
  <2>4. QED
    BY <2>1, <2>3
<1>5. ASSUME NEW w \in Workers, AcquireLock(w) \/ ReleaseLock(w) \/ Crash(w)
      PROVE  Idle' /\ Numbers
  <2>1. /\ UNCHANGED <<control, snapshot, copy, pending>>
        /\ \E s \in Stage \ {"idle"} : pc' = [pc EXCEPT ![w] = s] /\ (pc[w] = "idle" \/ s = "done")
    BY <1>5 DEF AcquireLock, ReleaseLock, Crash, Goto, Stage, Republish
  <2>2. \A v \in Workers : /\ Live(v)' => Live(v) \/ pc[v] = "idle"
                           /\ pc'[v] = "idle" => pc[v] = "idle"
    BY <1>1, <2>1 DEF Live, Inv, SysTypes
  <2>3. QED
    BY <1>4, <2>1, <2>2
<1>6. ASSUME NEW s \in Lifecycle, SetStatus(s) PROVE Idle' /\ Numbers
  <2>1. control'.version = control.version + 1
    BY <1>1, <1>6 DEF SetStatus, Inv, SysTypes, Control
  <2>2. UNCHANGED <<snapshot, copy, pending, pc>>
    BY <1>6 DEF SetStatus
  <2>3. QED
    BY <1>4, <2>1, <2>2 DEF Live
<1>7. ASSUME ExpireLock \/ UNCHANGED sys PROVE Idle' /\ Numbers
  BY <1>4, <1>7 DEF ExpireLock, sys, Live
<1> HIDE DEF Idle, Numbers
<1>8. Idle' /\ Numbers
  BY <1>1, <1>2, <1>3, <1>4, <1>5, <1>6, <1>7 DEF Act, Finished
<1>9. overlapped' \cap Migrations = {} => overlapped \cap Migrations = {} \/ LiveWorkers' = {}
  BY Spells
<1>10. LiveWorkers' = {} => \A w \in Workers : NextGen(w)'
  BY DEF LiveWorkers, NextGen, Live
<1>11. overlapped' \cap Migrations = {} => \A w \in Workers : NextGen(w)'
  BY <1>8, <1>9, <1>10 DEF Numbers
<1>12. QED
  BY <1>1, <1>8, <1>11 DEF GenInv, Idle, Numbers

LEMMA ProtectedInit == Init => Protected
  BY DEF Init, Protected, Live, LiveWorkers

\* Every route that is published carries a higher generation than the one before
\* it, whatever fails, dies or lapses: failovers beside each other are kept apart
\* by the version, and only a migration beside another worker, in a spell in
\* which the lock was lost, may publish a generation again.
THEOREM GenerationsGrow == Spec => GenerationsAdvance
<1>1. Init => GenInv
  BY SwitchInit, ProtectedInit DEF Init, GenInv, NextGen, Live
<1>2. GenInv /\ [Next]_vars => GenInv'
  BY GenStep
<1>3. GenInv /\ [Next]_vars =>
          [snapshot' # snapshot =>
              snapshot'.gen > snapshot.gen \/ overlapped \cap Migrations # {}]_vars
  BY GenStep DEF Advances
<1>4. QED
  BY <1>1, <1>2, <1>3, PTL DEF Spec, GenerationsAdvance

-----------------------------------------------------------------------------
\* From here on: a fence is raised once per operation.

\* The row of c's operation says SWITCHING, or c shares it in a spell.
Switching(c) == op[KeyOf[c]] = "SWITCHING" \/ Shared(c)

\* Record r of call c, changed if d, carries the fence c has put on it and not
\* saved, while its operation's row says SWITCHING.
OwnFence(c, r, d) == r.token = c /\ d /\ Switching(c)

\* A live call's record that the version still lets it write carries no fence
\* but the row's or its own.
CallTokens(c) ==
    /\ pc[c] = "idle" => copy[c] = None
    /\ pc[c] \in {"freeze", "assign", "publish"} => Switching(c)
    /\ Live(c) /\ copy[c] # None /\ copy[c].version = control.version =>
          \/ copy[c].token \in {None, control.token}
          \/ OwnFence(c, copy[c], dirty[c]) /\ pc[c] \in {"publish", "rollback", "release"}

TokenInv == Inv /\ Protected /\ \A c \in Calls : CallTokens(c)

\* What SwitchesOncePerKey asks of a step of call c.
TokenMove(c) ==
    \/ control'.token \in {None, control.token}
    \/ control'.token = c /\ Switching(c)

LEMMA FlushTokens ==
    ASSUME Inv, NEW c \in Calls, NEW r \in Control \cup {None}, NEW d \in BOOLEAN,
           r = None => ~d,
           r # None /\ r.version = control.version =>
               r.token \in {None, control.token} \/ OwnFence(c, r, d),
           Flushed(c, r, d)
    PROVE  /\ TokenMove(c)
           /\ copy'[c] # None /\ copy'[c].version = control'.version =>
                 copy'[c].token \in {None, control'.token}
<1>1. copy \in [Calls -> Control \cup {None}]
  BY DEF Inv, SysTypes
<1>2. CASE d
  <2> DEFINE saved == [r EXCEPT !.version = @ + 1]
  <2>1. r \in Control /\ r # None /\ r.version = control.version
    BY <1>2, NoneAssumption DEF Flushed
  <2>2. control' = saved /\ copy' = [copy EXCEPT ![c] = saved]
    BY <1>2 DEF Flushed
  <2>3. saved.token = r.token
    BY <2>1 DEF Control
  <2> HIDE DEF saved
  <2>4. copy'[c].token = r.token /\ control'.token = r.token
    BY <1>1, <2>2, <2>3
  <2>5. QED
    BY <2>1, <2>4 DEF TokenMove, OwnFence
<1>3. CASE ~d
  <2>1. control' = control /\ copy'[c] = r
    BY <1>1, <1>3 DEF Flushed
  <2>2. QED
    BY <1>3, <2>1 DEF TokenMove, OwnFence
<1>4. QED
  BY <1>2, <1>3

LEMMA SetAndFlushTokens ==
    ASSUME TokenInv, NEW c \in Calls, NEW r \in Control, NEW d \in BOOLEAN,
           r.version = control.version =>
               r.token \in {None, control.token} \/ (OwnFence(c, r, d) /\ pc[c] = "publish"),
           Shared(c) => Shared(c)',
           NEW next \in Stage \ {"idle"},
           next \in {"freeze", "assign", "publish"} => Switching(c),
           op' = op,
           \/ Flushed(c, r, d) /\ Goto(c, next)
           \/ NotFlushed(c, r, d) /\ Throw(c)
    PROVE  CallTokens(c)' /\ TokenMove(c)
<1>1. Inv /\ r # None
  BY NoneAssumption DEF TokenInv
<1>2. CASE Flushed(c, r, d) /\ Goto(c, next)
  <2>1. pc'[c] = next
    BY <1>1, <1>2, GotoStage
  <2>2. /\ TokenMove(c)
        /\ copy'[c] # None /\ copy'[c].version = control'.version =>
              copy'[c].token \in {None, control'.token}
    BY <1>1, <1>2, FlushTokens
  <2>3. QED
    BY <2>1, <2>2 DEF CallTokens, Switching
<1>3. CASE NotFlushed(c, r, d) /\ Throw(c)
  <2>1. pc'[c] \in {"rollback", "release"}
    BY <1>1, <1>3, ThrowStage
  <2>2. control' = control /\ copy'[c] = r /\ dirty'[c] = d
    BY <1>1, <1>3, NotFlushedAgrees
  <2>3. QED
    BY <2>1, <2>2 DEF CallTokens, OwnFence, TokenMove, Switching
<1>4. QED
  BY <1>2, <1>3

LEMMA TransitionTokens ==
    ASSUME TokenInv, NEW c \in Calls, NEW from \in Stage \ {"idle", "publish", "release", "done"},
           NEW s \in OperationState, NEW next \in Stage \ {"idle", "assign", "publish"},
           next = "freeze" => s = "SWITCHING", Shared(c) => Shared(c)',
           Transition(c, from, s, next)
    PROVE  CallTokens(c)' /\ TokenMove(c)
<1>1. /\ Inv /\ pc[c] = from /\ copy[c] \in Control \cup {None} /\ dirty[c] \in BOOLEAN
      /\ CallTokens(c) /\ CallInv(c) /\ Live(c) /\ KeyOf[c] \in Keys
      /\ op \in [Keys -> OperationState \cup {None}]
  BY CallsAssumption DEF TokenInv, Inv, SysTypes, Transition, Live
<1>2. Throw(c) => pc'[c] \in {"rollback", "release"}
  BY <1>1, ThrowStage
<1>3. copy[c] # None /\ copy[c].version = control.version =>
          \/ copy[c].token \in {None, control.token}
          \/ OwnFence(c, copy[c], dirty[c]) /\ pc[c] = "rollback"
  BY <1>1 DEF CallTokens
<1>4. CASE Throw(c) /\ UNCHANGED <<control, snapshot, op, view, copy, dirty, pending>>
  BY <1>2, <1>3, <1>4 DEF CallTokens, OwnFence, TokenMove, Switching
<1>5. ASSUME Flushed(c, copy[c], dirty[c]), op' = [op EXCEPT ![KeyOf[c]] = s],
             Goto(c, next) \/ Throw(c)
      PROVE  CallTokens(c)' /\ TokenMove(c)
  <2>1. pc'[c] \in {next, "rollback", "release"}
    BY <1>1, <1>2, <1>5, GotoStage
  <2>2. op'[KeyOf[c]] = s
    BY <1>1, <1>5
  <2>3. /\ TokenMove(c)
        /\ copy'[c] # None /\ copy'[c].version = control'.version =>
              copy'[c].token \in {None, control'.token}
    BY <1>1, <1>3, <1>5, FlushTokens DEF CallInv
  <2>4. QED
    BY <2>1, <2>2, <2>3 DEF CallTokens, Switching
<1>6. CASE NotFlushed(c, copy[c], dirty[c]) /\ Throw(c) /\ UNCHANGED op
  <2>1. control' = control /\ copy'[c] = copy[c] /\ dirty'[c] = dirty[c]
    BY <1>1, <1>6, NotFlushedAgrees
  <2>2. QED
    BY <1>2, <1>3, <1>6, <2>1 DEF CallTokens, OwnFence, TokenMove, Switching
<1>7. QED
  BY <1>4, <1>5, <1>6 DEF Transition

\* A statement that only goes somewhere.
LEMMA GoingTokens ==
    ASSUME TokenInv, NEW c \in Calls, Live(c), pc[c] \notin {"publish", "rollback", "release"},
           control' = control, copy'[c] = copy[c], pc'[c] # "idle",
           pc'[c] \notin {"freeze", "assign", "publish"}
    PROVE  CallTokens(c)' /\ TokenMove(c)
<1>1. copy[c] # None /\ copy[c].version = control.version => copy[c].token \in {None, control.token}
  BY DEF TokenInv, CallTokens
<1>2. QED
  BY <1>1 DEF CallTokens, TokenMove

LEMMA RecordTokens ==
    ASSUME TokenInv, NEW c \in Calls,
           Shared(c) => Shared(c)',
           \/ FreezeTenantWrites(c) \/ PublishSnapshot(c) \/ Degrade(c)
           \/ UnfreezeTenantWrites(c) \/ Reactivate(c)
    PROVE  CallTokens(c)' /\ TokenMove(c)
<1>1. Inv /\ CallTokens(c)
  BY DEF TokenInv
<1>2. /\ pc[c] \in Loaded /\ Live(c)
      /\ pc[c] = "publish" \/ (pc[c] \notin {"publish", "rollback", "release"} /\ ~PublishSnapshot(c))
  BY DEF FreezeTenantWrites, PublishSnapshot, Degrade, UnfreezeTenantWrites, Reactivate, Loaded, Live
<1> DEFINE cp == copy[c]
<1>3. cp \in Control /\ dirty[c] \in BOOLEAN /\ cp # None
  BY <1>1, <1>2, LoadedClean, NoneAssumption
<1>4. cp.version = control.version =>
          \/ cp.token \in {None, control.token}
          \/ OwnFence(c, cp, dirty[c]) /\ pc[c] = "publish"
  BY <1>1, <1>2, <1>3 DEF CallTokens
<1>5. ASSUME NEW r \in Control, NEW touched \in BOOLEAN, NEW next \in Stage \ {"idle"},
             r.token = None \/ r.token = cp.token, r.version = cp.version,
             next \in {"freeze", "assign", "publish"} => Switching(c),
             SetAndFlush(c, r, touched, next)
      PROVE  CallTokens(c)' /\ TokenMove(c)
  <2> DEFINE d == dirty[c] \/ touched \/ r # copy[c]
  <2>1. d \in BOOLEAN
    OBVIOUS
  <2>2. /\ op' = op
        /\ \/ Flushed(c, r, d) /\ Goto(c, next)
           \/ NotFlushed(c, r, d) /\ Throw(c)
    BY <1>5 DEF SetAndFlush
  <2>3. r.version = control.version =>
            r.token \in {None, control.token} \/ (OwnFence(c, r, d) /\ pc[c] = "publish")
    BY <1>4, <1>5 DEF OwnFence
  <2> HIDE DEF d
  <2>4. QED
    BY <1>5, <2>1, <2>2, <2>3, SetAndFlushTokens
<1>6. CASE FreezeTenantWrites(c)
  <2> DEFINE r == [cp EXCEPT !.frozen = TRUE]
  <2>1. r \in Control /\ r.token = cp.token /\ r.version = cp.version
    BY <1>3 DEF Control
  <2>2. pc[c] = "freeze" /\ SetAndFlush(c, r, FALSE, "assign")
    BY <1>6 DEF FreezeTenantWrites
  <2>3. Switching(c)
    BY <1>1, <2>2 DEF CallTokens
  <2>4. QED
    BY <1>5, <2>1, <2>2, <2>3 DEF Stage, Try
<1>7. CASE PublishSnapshot(c)
  <2>1. SetAndFlush(c, cp, FALSE, "degrade")
    BY <1>7 DEF PublishSnapshot
  <2>2. QED
    BY <1>3, <1>5, <2>1 DEF Stage, Try
<1>8. CASE Degrade(c)
  <2> DEFINE r == [cp EXCEPT !.status = "DEGRADED"]
  <2>1. r \in Control /\ r.token = cp.token /\ r.version = cp.version
    BY <1>3 DEF Control, Status
  <2>2. SetAndFlush(c, r, TRUE, "switched")
    BY <1>8 DEF Degrade
  <2>3. QED
    BY <1>5, <2>1, <2>2 DEF Stage, Try
<1>9. CASE UnfreezeTenantWrites(c)
  <2> DEFINE r == Unfrozen(cp)
  <2>1. r \in Control /\ r.token = None /\ r.version = cp.version
    BY <1>3 DEF Control, Unfrozen
  <2>2. SetAndFlush(c, r, FALSE, "finalize")
    BY <1>9 DEF UnfreezeTenantWrites
  <2>3. QED
    BY <1>5, <2>1, <2>2 DEF Stage, Try
<1>10. CASE Reactivate(c)
  <2> DEFINE r == [cp EXCEPT !.status = "ACTIVE"]
  <2>1. r \in Control /\ r.token = cp.token /\ r.version = cp.version
    BY <1>3 DEF Control, Status
  <2>2. SetAndFlush(c, r, FALSE, "release")
    BY <1>10 DEF Reactivate
  <2>3. QED
    BY <1>5, <2>1, <2>2 DEF Stage
<1>11. QED
  BY <1>6, <1>7, <1>8, <1>9, <1>10

LEMMA ReopenTokens ==
    ASSUME TokenInv, NEW c \in Calls, Reopen(c), Shared(c) => Shared(c)'
    PROVE  CallTokens(c)' /\ TokenMove(c)
<1> DEFINE m == Managed(c)
           r == Unfrozen(m)
           d == dirty[c] \/ r # m
<1>1. /\ m \in Control /\ dirty[c] \in BOOLEAN
  BY DEF TokenInv, Inv, SysTypes, Managed
<1>2. r \in Control /\ r.token = None
  BY <1>1 DEF Control, Unfrozen
<1>3. d \in BOOLEAN
  OBVIOUS
<1>4. /\ op' = op
      /\ \/ Flushed(c, r, d) /\ Goto(c, "reactivate")
         \/ NotFlushed(c, r, d) /\ Throw(c)
  BY DEF Reopen
<1> HIDE DEF m, r, d
<1>5. QED
  BY <1>2, <1>3, <1>4, SetAndFlushTokens DEF Stage, Catch

LEMMA AssignTokens ==
    ASSUME TokenInv, NEW c \in Calls, AssignSnapshot(c), Shared(c) => Shared(c)'
    PROVE  CallTokens(c)' /\ TokenMove(c)
<1> DEFINE x == ExpectedGeneration(copy[c])
           r == [copy[c] EXCEPT !.token = c, !.fence = x + 1]
<1>1. /\ pc[c] = "assign" /\ Inv /\ SysTypes /\ CallTokens(c)
      /\ copy' = [copy EXCEPT ![c] = r]
      /\ dirty' = [dirty EXCEPT ![c] = TRUE]
      /\ Goto(c, "publish") \/ Throw(c)
      /\ UNCHANGED <<control, op>>
  BY DEF AssignSnapshot, TokenInv, Inv
<1>2. copy[c] \in Control
  BY <1>1, LoadedClean DEF Loaded
<1>3. r.token = c
  BY <1>2 DEF Control
<1> HIDE DEF r
<1>4. copy'[c] = r /\ dirty'[c] = TRUE
  BY <1>1 DEF SysTypes
<1>5. pc'[c] = "publish" \/ pc'[c] = "rollback"
  BY <1>1 DEF Goto, Throw, Catch, SysTypes, Workers
<1>6. Switching(c)'
  BY <1>1 DEF CallTokens, Switching
<1>7. QED
  BY <1>1, <1>3, <1>4, <1>5, <1>6 DEF CallTokens, OwnFence, TokenMove

LEMMA OtherStatementsTokens ==
    ASSUME TokenInv, NEW c \in Calls,
           \/ CreateOperation(c) \/ LoadControl(c)
           \/ Work(c, "check", "switching") \/ Work(c, "recover", "unfreeze")
           \/ Work(c, "record", "release")
    PROVE  CallTokens(c)' /\ TokenMove(c)
<1>1. Inv /\ pc \in [Workers -> Stage] /\ c \in Workers /\ copy \in [Calls -> Control \cup {None}]
  BY DEF TokenInv, Inv, SysTypes, Workers
<1>2. pc'[c] \in {"prepare", "release", "validate", "switching", "unfreeze", "rollback"}
  BY <1>1 DEF CreateOperation, LoadControl, Work, Goto, Throw
<1>3. CASE LoadControl(c)
  <2>1. copy'[c] = control /\ control' = control
    BY <1>1, <1>3 DEF LoadControl
  <2>2. QED
    BY <1>2, <2>1 DEF CallTokens, TokenMove
<1>4. CASE ~LoadControl(c)
  <2>1. /\ Live(c) /\ pc[c] \notin {"publish", "rollback", "release"}
        /\ control' = control /\ copy' = copy
    BY <1>4 DEF CreateOperation, Work, Live
  <2>2. QED
    BY <1>2, <2>1, GoingTokens
<1>5. QED
  BY <1>3, <1>4

LEMMA StepTokens ==
    ASSUME TokenInv, NEW c \in Calls, Step(c), Shared(c) => Shared(c)'
    PROVE  CallTokens(c)' /\ TokenMove(c)
<1> USE DEF Stage, Try, Catch, OperationState
<1>1. CASE Transition(c, "prepare", "PREPARING", "load")
  BY <1>1, TransitionTokens
<1>2. CASE Transition(c, "validate", "VALIDATING", "check")
  BY <1>2, TransitionTokens
<1>3. CASE Transition(c, "switching", "SWITCHING", "freeze")
  BY <1>3, TransitionTokens
<1>4. CASE Transition(c, "switched", "SWITCHED", "recover")
  BY <1>4, TransitionTokens
<1>5. CASE Transition(c, "finalize", "FINALIZED", "record")
  BY <1>5, TransitionTokens
<1>6. CASE Transition(c, "rollback", "ROLLBACK", "reopen")
  BY <1>6, TransitionTokens
<1>7. QED
  BY <1>1, <1>2, <1>3, <1>4, <1>5, <1>6, RecordTokens, ReopenTokens, AssignTokens,
     OtherStatementsTokens DEF Step

\* A live worker that shares an operation in a spell does so until it ends.
LEMMA SharedOn ==
    ASSUME [Next]_vars, NEW c \in Calls, NEW w \in Workers, Live(w)', Shared(c)
    PROVE  Shared(c)'
<1>1. overlapped \subseteq overlapped'
  BY Spells DEF Shared, LiveWorkers, Live
<1>2. QED
  BY <1>1 DEF Shared

\* Two live calls with a key share its operation.
LEMMA SharersKnown ==
    ASSUME Protected, NEW c \in Calls, NEW e \in Calls, c # e, KeyOf[c] = KeyOf[e],
           Live(c), Live(e)
    PROVE  Shared(e)
  BY TogetherInSpell DEF Shared, Workers

\* The operations of the other keys stay as they are.
LEMMA OtherKeys ==
    ASSUME Inv, NEW c \in Calls, Step(c), NEW k \in Keys, k # KeyOf[c]
    PROVE  op'[k] = op[k]
<1>1. op \in [Keys -> OperationState \cup {None}]
  BY DEF Inv, SysTypes
<1>2. \A from, s, next : Transition(c, from, s, next) => op'[k] = op[k]
  BY <1>1 DEF Transition
<1>3. \A r, touched, next : SetAndFlush(c, r, touched, next) => op' = op
  BY DEF SetAndFlush
<1>4. \A from, next : Work(c, from, next) => op' = op
  BY DEF Work
<1>5. CreateOperation(c) \/ LoadControl(c) \/ AssignSnapshot(c) \/ Reopen(c) => op'[k] = op[k]
  BY <1>1 DEF CreateOperation, LoadControl, AssignSnapshot, Reopen
<1>6. FreezeTenantWrites(c) \/ PublishSnapshot(c) \/ Degrade(c) \/ UnfreezeTenantWrites(c)
          \/ Reactivate(c) => op' = op
  BY <1>3 DEF FreezeTenantWrites, PublishSnapshot, Degrade, UnfreezeTenantWrites, Reactivate
<1>7. QED
  BY <1>2, <1>4, <1>5, <1>6 DEF Step

\* What a step leaves of the tokens of a call that does not take it.
LEMMA TokensKept ==
    ASSUME SwitchInv, TokenInv, NEW e \in Calls, Live(e)' /\ Switching(e) => Switching(e)',
           copy'[e] = copy[e], dirty'[e] = dirty[e],
           pc'[e] = pc[e] \/ pc'[e] = "done" \/ (pc[e] = "idle" /\ pc'[e] = "create"),
           control' = control \/ control'.version = control.version + 1
    PROVE  CallTokens(e)'
<1>1. copy[e] # None => copy[e].version \in Nat /\ copy[e].version <= control.version
  BY NoneAssumption DEF TokenInv, Inv, SysTypes, CallInv, Agrees, Control
<1>2. control.version \in Nat
  BY DEF TokenInv, Inv, SysTypes, Control
<1>3. CallTokens(e)
  BY DEF TokenInv
<1>4. QED
  BY <1>1, <1>2, <1>3 DEF CallTokens, Live, OwnFence

LEMMA TokenStep ==
    ASSUME SwitchInv, TokenInv, [Next]_vars
    PROVE  /\ TokenInv'
           /\ \A c \in Calls : control'.token = c /\ control.token # c => Switching(c)
<1> DEFINE Once == \A c \in Calls : control'.token = c /\ control.token # c => Switching(c)
           Goal == (\A c \in Calls : CallTokens(c)') /\ Once
<1>1. Inv /\ Protected /\ Inv' /\ Protected' /\ [Act]_sys
  BY InvStep, ProtectedStep, NextActs DEF TokenInv
<1>2. ASSUME NEW c \in Calls, Step(c) PROVE Goal
  <2>1. /\ Live(c) /\ Live(c)' /\ c \in Workers
        /\ \A v \in Workers : v # c => pc'[v] = pc[v]
    BY <1>1, <1>2, StepMoves DEF Live, Workers
  <2>2. \A e \in Calls : Shared(e) => Shared(e)'
    BY <2>1, SharedOn
  <2>3. CallTokens(c)' /\ TokenMove(c)
    BY <1>2, <2>2, StepTokens
  <2>4. Framed(c)
    BY <1>2, StepKeeps DEF Kept
  <2>5. ASSUME NEW e \in Calls, e # c PROVE CallTokens(e)'
    <3>1. pc'[e] = pc[e] /\ KeyOf[e] \in Keys
      BY <2>1, <2>5, CallsAssumption DEF Workers
    <3>2. Live(e)' /\ Switching(e) => Switching(e)'
      <4>1. CASE KeyOf[e] = KeyOf[c]
        BY <1>1, <2>1, <2>2, <2>5, <3>1, <4>1, SharersKnown DEF Live, Switching
      <4>2. CASE KeyOf[e] # KeyOf[c]
        BY <1>1, <1>2, <2>2, <3>1, <4>2, OtherKeys DEF Switching
      <4>3. QED
        BY <4>1, <4>2
    <3>3. QED
      BY <2>4, <2>5, <3>1, <3>2, TokensKept DEF Framed
  <2>6. Once
    BY <2>3, NoneAssumption DEF TokenMove
  <2>7. QED
    BY <2>3, <2>5, <2>6
<1>3. ASSUME control'.token = control.token, UNCHANGED <<op, copy, dirty>>,
             control' = control \/ control'.version = control.version + 1,
             \A c \in Calls : \/ pc'[c] = pc[c] \/ pc'[c] = "done"
                              \/ (pc[c] = "idle" /\ pc'[c] = "create")
      PROVE  Goal
  <2>1. ASSUME NEW c \in Calls PROVE CallTokens(c)'
    <3>1. Live(c)' /\ Shared(c) => Shared(c)'
      BY SharedOn DEF Workers
    <3>2. QED
      BY <1>3, <3>1, TokensKept DEF Switching
  <2>2. QED
    BY <1>3, <2>1
<1>4. ASSUME NEW w \in Workers, AcquireLock(w) \/ ReleaseLock(w) \/ Crash(w) PROVE Goal
  BY <1>1, <1>3, <1>4 DEF AcquireLock, ReleaseLock, Crash, Goto, Inv, SysTypes, Workers
<1>5. ASSUME NEW m \in Migrations, ResolveRoute(m) \/ RepublishRoute(m) PROVE Goal
  <2>1. UNCHANGED <<control, op, copy, dirty>> /\ m \notin Calls
    BY <1>5, CallsAssumption DEF ResolveRoute, RepublishRoute
  <2>2. \A c \in Calls : pc'[c] = pc[c]
    BY <1>1, <1>5, <2>1 DEF ResolveRoute, RepublishRoute, Goto, Inv, SysTypes, Workers
  <2>3. QED
    BY <1>3, <2>1, <2>2
<1>6. ASSUME NEW s \in Lifecycle, SetStatus(s) PROVE Goal
  <2>1. control'.token = control.token /\ control'.version = control.version + 1
    BY <1>1, <1>6 DEF SetStatus, Inv, SysTypes, Control
  <2>2. QED
    BY <1>3, <1>6, <2>1 DEF SetStatus
<1>7. ASSUME ExpireLock \/ UNCHANGED sys PROVE Goal
  BY <1>3, <1>7 DEF ExpireLock, sys
<1> HIDE DEF Goal
<1>8. Goal
  BY <1>1, <1>2, <1>4, <1>5, <1>6, <1>7 DEF Act, Finished
<1>9. QED
  BY <1>1, <1>8 DEF Goal, TokenInv

LEMMA TokenInit == Init => TokenInv
<1> SUFFICES ASSUME Init PROVE TokenInv
  OBVIOUS
<1>1. QED
  BY InvInit, ProtectedInit DEF Init, TokenInv, CallTokens, Live, Workers

\* A failover raises its fence only while the row of its operation says
\* SWITCHING: a retry of a call that died, failed or was rolled back never
\* switches the route a second time, unless it works beside the call it retries.
THEOREM SwitchedOnce == Spec => SwitchesOncePerKey
<1>1. SwitchInv /\ TokenInv /\ [Next]_vars => TokenInv'
  BY TokenStep
<1>2. SwitchInv /\ TokenInv /\ [Next]_vars =>
          [\A c \in Calls : control'.token = c /\ control.token # c =>
              op[KeyOf[c]] = "SWITCHING" \/ Shared(c)]_vars
  BY TokenStep DEF Switching
<1>3. QED
  BY <1>1, <1>2, TokenInit, SwitchInvariance, PTL DEF Spec, SwitchesOncePerKey

-----------------------------------------------------------------------------
\* From here on: the operation rows.

\* The row of a call that works exists.
Known(c) == pc[c] \in Try \cup {"rollback"} => op[KeyOf[c]] # None

\* Outside a spell, a running call's copy of the state of its operation is what the row says; in
\* the catch block, where the last change may not have been saved, the row may
\* still be rolled back, or the call knows that it will not try.
Knows(c) ==
    /\ pc[c] \in Try => view[c] = op[KeyOf[c]] /\ view[c] # None
    /\ pc[c] = "rollback" => \/ view[c] \in {"ROLLBACK", "FINALIZED"}
                             \/ op[KeyOf[c]] \notin {None, "ROLLBACK", "FINALIZED"}

LedgerInv == Inv /\ Protected /\ \A c \in Calls : Known(c) /\ (~Shared(c) => Knows(c))

\* What the ledger allows a step of call c.
LedgerMove(c) ==
    \/ op' = op
    \/ op[KeyOf[c]] = None /\ op' = [op EXCEPT ![KeyOf[c]] = "REQUESTED"]
    \/ /\ op[KeyOf[c]] \in OperationState
       /\ \E s \in OperationState : /\ ~IsInvalidTransition(op[KeyOf[c]], s) \/ Shared(c)
                                    /\ op' = [op EXCEPT ![KeyOf[c]] = s]

\* The table: only a rolled back operation may not be rolled back, nor a closed
\* one, which nothing follows.
LEMMA RollbackAllowed ==
    ASSUME NEW s \in OperationState
    PROVE  s \notin {"ROLLBACK", "FINALIZED"} <=> ~IsInvalidTransition(s, "ROLLBACK")
<1>1. <<s, "ROLLBACK">> \in AllowedMoves <=>
          s \in {"REQUESTED", "PREPARING", "VALIDATING", "DRY_RUN", "SWITCHING",
                 "SWITCHED", "MONITORING", "RECONCILING"}
  BY DEF AllowedMoves
<1>2. QED
  BY <1>1 DEF IsInvalidTransition, OperationState

LEMMA ClosedIsLast ==
    ASSUME NEW s \in OperationState, NEW t, ~IsInvalidTransition(s, t)
    PROVE  t \in {"ROLLBACK", "FINALIZED"} \/ s \notin {"ROLLBACK", "FINALIZED"}
  BY DEF IsInvalidTransition, AllowedMoves

LEMMA TransitionKnows ==
    ASSUME Inv, NEW c \in Calls, Knows(c), NEW from \in Try \cup {"rollback"},
           NEW s \in OperationState, NEW next \in Stage,
           from = "rollback" => s = "ROLLBACK" /\ next = "reopen",
           Transition(c, from, s, next)
    PROVE  Knows(c)' /\ LedgerMove(c)
<1> DEFINE k == KeyOf[c]
           o == op[k]
           v == view[c]
<1>1. /\ Inv /\ pc[c] = from /\ Knows(c) /\ k \in Keys
      /\ op \in [Keys -> OperationState \cup {None}]
      /\ view \in [Calls -> OperationState \cup {None}]
  BY CallsAssumption DEF Inv, SysTypes, Transition
<1>2. "rollback" \notin Try /\ "reopen" \notin Try \cup {"rollback"} /\ "release" \notin Try
  BY DEF Try
<1>3. from \in Try => v = o /\ v \in OperationState
  BY <1>1 DEF Knows
<1>4. from = "rollback" => v \in {"ROLLBACK", "FINALIZED"} \/ o \notin {None, "ROLLBACK", "FINALIZED"}
  BY <1>1 DEF Knows
<1>5. Throw(c) => pc'[c] \in {"rollback", "release"}
  BY <1>1, ThrowStage
<1>6. CASE IsInvalidTransition(v, s)
  <2>1. Throw(c) /\ UNCHANGED <<op, view>>
    BY <1>6 DEF Transition
  <2>2. Knows(c)'
    BY <1>2, <1>3, <1>4, <1>5, <2>1, NoneAssumption DEF Knows
  <2>3. QED
    BY <2>1, <2>2 DEF LedgerMove
<1>7. CASE ~IsInvalidTransition(v, s)
  <2>1. /\ view' = [view EXCEPT ![c] = s]
        /\ \/ op' = [op EXCEPT ![k] = s]
           \/ op' = op /\ Throw(c)
        /\ Goto(c, next) \/ Throw(c)
    BY <1>7 DEF Transition
  <2>2. view'[c] = s /\ s # None
    BY <1>1, <2>1, NoneAssumption
  <2>3. o \in OperationState /\ ~IsInvalidTransition(o, s)
    <3>1. CASE from \in Try
      BY <1>3, <1>7, <3>1
    <3>2. CASE from = "rollback"
      <4>1. v \notin {"ROLLBACK", "FINALIZED"}
        BY <1>7, <3>2, RollbackAllowed DEF OperationState
      <4>2. o \in OperationState /\ o \notin {"ROLLBACK", "FINALIZED"}
        BY <1>1, <1>4, <3>2, <4>1
      <4>3. QED
        BY <3>2, <4>2, RollbackAllowed
    <3>3. QED
      BY <3>1, <3>2
  <2>4. LedgerMove(c)
    BY <2>1, <2>3 DEF LedgerMove
  <2>5. Knows(c)'
    <3>1. CASE op' = [op EXCEPT ![k] = s]
      <4>1. op'[k] = s
        BY <1>1, <3>1
      <4>2. QED
        BY <2>2, <4>1 DEF Knows
    <3>2. CASE op' = op /\ Throw(c)
      <4>1. s \in {"ROLLBACK", "FINALIZED"} \/ o \notin {None, "ROLLBACK", "FINALIZED"}
        BY <2>3, ClosedIsLast, NoneAssumption
      <4>2. QED
        BY <1>2, <1>5, <2>2, <3>2, <4>1 DEF Knows
    <3>3. QED
      BY <2>1, <3>1, <3>2
  <2>6. QED
    BY <2>4, <2>5
<1>8. QED
  BY <1>6, <1>7

LEMMA CreateKnows ==
    ASSUME Inv, NEW c \in Calls, Knows(c), CreateOperation(c)
    PROVE  Knows(c)' /\ LedgerMove(c)
<1> DEFINE k == KeyOf[c]
<1>1. /\ Inv /\ k \in Keys
      /\ op \in [Keys -> OperationState \cup {None}]
      /\ view \in [Calls -> OperationState \cup {None}]
      /\ pc \in [Workers -> Stage] /\ c \in Workers
  BY CallsAssumption DEF Inv, SysTypes, Workers
<1>2. CASE op[k] = None /\ op' = [op EXCEPT ![k] = "REQUESTED"]
           /\ view' = [view EXCEPT ![c] = "REQUESTED"] /\ Goto(c, "prepare")
  <2>1. pc'[c] = "prepare" /\ view'[c] = "REQUESTED" /\ op'[k] = "REQUESTED"
    BY <1>1, <1>2 DEF Goto
  <2>2. "REQUESTED" # None
    BY NoneAssumption DEF OperationState
  <2>3. QED
    BY <1>2, <2>1, <2>2 DEF Knows, LedgerMove
<1>3. CASE op[k] # None /\ view' = [view EXCEPT ![c] = op[k]] /\ op' = op
  <2>1. pc'[c] \in {"prepare", "release"} /\ view'[c] = op'[k] /\ view'[c] # None
    BY <1>1, <1>3 DEF CreateOperation, Goto
  <2>2. QED
    BY <1>3, <2>1 DEF Knows, LedgerMove
<1>4. CASE Goto(c, "release") /\ op' = op
  <2>1. pc'[c] = "release"
    BY <1>1, <1>4 DEF Goto
  <2>2. QED
    BY <1>4, <2>1 DEF Knows, LedgerMove, Try
<1>5. QED
  BY <1>2, <1>3, <1>4 DEF CreateOperation

\* The other statements do not touch the operation, and the try block is left by
\* its catch block or its end.
LEMMA Leaves ==
    ASSUME Inv, NEW c \in Calls,
           \/ LoadControl(c) \/ AssignSnapshot(c) \/ Reopen(c)
           \/ Work(c, "check", "switching") \/ Work(c, "recover", "unfreeze")
           \/ Work(c, "record", "release")
           \/ FreezeTenantWrites(c) \/ PublishSnapshot(c) \/ Degrade(c)
           \/ UnfreezeTenantWrites(c) \/ Reactivate(c)
    PROVE  pc[c] \in Try \/ (pc[c] \in Catch /\ pc'[c] \notin Try \cup {"rollback"})
<1>1. pc \in [Workers -> Stage] /\ c \in Workers
  BY DEF Inv, SysTypes, Workers
<1>2. /\ \A s : Goto(c, s) => pc'[c] = s
      /\ Throw(c) => pc'[c] = IF pc[c] \in Catch THEN "release" ELSE "rollback"
  BY <1>1 DEF Goto, Throw
<1> USE DEF Try, Catch
<1>3. CASE Reopen(c)
  BY <1>2, <1>3 DEF Reopen
<1>4. CASE Reactivate(c)
  BY <1>2, <1>4 DEF Reactivate, SetAndFlush
<1>5. CASE ~Reopen(c) /\ ~Reactivate(c)
  BY <1>5 DEF LoadControl, AssignSnapshot, Work, FreezeTenantWrites, PublishSnapshot, Degrade,
     UnfreezeTenantWrites
<1>6. QED
  BY <1>3, <1>4, <1>5

LEMMA OthersKnow ==
    ASSUME Inv, NEW c \in Calls, Knows(c),
           \/ LoadControl(c) \/ AssignSnapshot(c) \/ Reopen(c)
           \/ Work(c, "check", "switching") \/ Work(c, "recover", "unfreeze")
           \/ Work(c, "record", "release")
           \/ FreezeTenantWrites(c) \/ PublishSnapshot(c) \/ Degrade(c)
           \/ UnfreezeTenantWrites(c) \/ Reactivate(c)
    PROVE  Knows(c)' /\ LedgerMove(c)
<1>1. UNCHANGED <<op, view>>
  BY DEF LoadControl, AssignSnapshot, Reopen, Work, FreezeTenantWrites, PublishSnapshot, Degrade,
     UnfreezeTenantWrites, Reactivate, SetAndFlush
<1>2. pc[c] \in Try \/ (pc[c] \in Catch /\ pc'[c] \notin Try \cup {"rollback"})
  BY Leaves
<1>3. QED
  BY <1>1, <1>2 DEF Knows, LedgerMove

LEMMA StepKnows ==
    ASSUME Inv, NEW c \in Calls, Knows(c), Step(c)
    PROVE  Knows(c)' /\ LedgerMove(c)
<1> USE DEF Stage, Try, Catch, OperationState
<1>1. CASE Transition(c, "prepare", "PREPARING", "load")
  BY <1>1, TransitionKnows
<1>2. CASE Transition(c, "validate", "VALIDATING", "check")
  BY <1>2, TransitionKnows
<1>3. CASE Transition(c, "switching", "SWITCHING", "freeze")
  BY <1>3, TransitionKnows
<1>4. CASE Transition(c, "switched", "SWITCHED", "recover")
  BY <1>4, TransitionKnows
<1>5. CASE Transition(c, "finalize", "FINALIZED", "record")
  BY <1>5, TransitionKnows
<1>6. CASE Transition(c, "rollback", "ROLLBACK", "reopen")
  BY <1>6, TransitionKnows
<1>7. QED
  BY <1>1, <1>2, <1>3, <1>4, <1>5, <1>6, CreateKnows, OthersKnow DEF Step

\* Without knowing: a statement writes the row of an operation that exists.
LEMMA StepWrites ==
    ASSUME Inv, NEW c \in Calls, Known(c), Step(c)
    PROVE  /\ Known(c)'
           /\ \/ op' = op
              \/ op[KeyOf[c]] = None /\ op' = [op EXCEPT ![KeyOf[c]] = "REQUESTED"]
              \/ /\ op[KeyOf[c]] \in OperationState
                 /\ \E s \in OperationState : op' = [op EXCEPT ![KeyOf[c]] = s]
<1> DEFINE k == KeyOf[c]
           Writes == \/ op' = op
                     \/ op[k] = None /\ op' = [op EXCEPT ![k] = "REQUESTED"]
                     \/ /\ op[k] \in OperationState
                        /\ \E s \in OperationState : op' = [op EXCEPT ![k] = s]
<1>1. /\ k \in Keys /\ op \in [Keys -> OperationState \cup {None}]
      /\ pc \in [Workers -> Stage] /\ c \in Workers
  BY CallsAssumption DEF Inv, SysTypes, Workers
<1>2. ASSUME NEW from \in Try \cup {"rollback"}, NEW s \in OperationState, NEW next,
             Transition(c, from, s, next)
      PROVE  op[k] # None /\ Writes
  BY <1>1, <1>2 DEF Transition, Known
<1>3. CASE CreateOperation(c)
  <2>1. Writes
    BY <1>3 DEF CreateOperation
  <2>2. pc'[c] \in {"prepare", "release"}
    BY <1>1, <1>3 DEF CreateOperation, Goto
  <2>3. "REQUESTED" # None
    BY NoneAssumption DEF OperationState
  <2>4. pc'[c] = "prepare" => op'[k] # None
    BY <1>1, <1>3, <2>3 DEF CreateOperation, Goto
  <2>5. QED
    BY <2>1, <2>2, <2>4 DEF Known, Try
<1>4. CASE \/ LoadControl(c) \/ AssignSnapshot(c) \/ Reopen(c)
           \/ Work(c, "check", "switching") \/ Work(c, "recover", "unfreeze")
           \/ Work(c, "record", "release")
           \/ FreezeTenantWrites(c) \/ PublishSnapshot(c) \/ Degrade(c)
           \/ UnfreezeTenantWrites(c) \/ Reactivate(c)
  <2>1. op' = op
    BY <1>4 DEF LoadControl, AssignSnapshot, Reopen, Work, FreezeTenantWrites, PublishSnapshot,
       Degrade, UnfreezeTenantWrites, Reactivate, SetAndFlush
  <2>2. pc[c] \in Try \/ (pc[c] \in Catch /\ pc'[c] \notin Try \cup {"rollback"})
    BY <1>1, <1>4, Leaves
  <2>3. QED
    BY <2>1, <2>2 DEF Known
<1>5. CASE \/ Transition(c, "prepare", "PREPARING", "load")
           \/ Transition(c, "validate", "VALIDATING", "check")
           \/ Transition(c, "switching", "SWITCHING", "freeze")
           \/ Transition(c, "switched", "SWITCHED", "recover")
           \/ Transition(c, "finalize", "FINALIZED", "record")
           \/ Transition(c, "rollback", "ROLLBACK", "reopen")
  <2>1. op[k] # None /\ Writes
    BY <1>2, <1>5 DEF Try, OperationState
  <2>2. \A s \in OperationState : s # None
    BY NoneAssumption
  <2>3. op'[k] # None
    BY <1>1, <2>1, <2>2
  <2>4. QED
    BY <2>1, <2>3 DEF Known
<1>6. QED
  BY <1>3, <1>4, <1>5 DEF Step

\* Nobody else changes what a call knows.
LEMMA OtherViews ==
    ASSUME Inv, NEW c \in Calls, Step(c), NEW e \in Calls, e # c
    PROVE  view'[e] = view[e]
<1>1. view \in [Calls -> OperationState \cup {None}]
  BY DEF Inv, SysTypes
<1>2. \A from, s, next : Transition(c, from, s, next) => view'[e] = view[e]
  BY <1>1 DEF Transition
<1>3. CreateOperation(c) => view'[e] = view[e]
  BY <1>1 DEF CreateOperation
<1>4. \A from, next : Work(c, from, next) => view' = view
  BY DEF Work
<1>5. LoadControl(c) \/ AssignSnapshot(c) \/ Reopen(c) => view' = view
  BY DEF LoadControl, AssignSnapshot, Reopen
<1>6. FreezeTenantWrites(c) \/ PublishSnapshot(c) \/ Degrade(c) \/ UnfreezeTenantWrites(c)
          \/ Reactivate(c) => view' = view
  BY DEF FreezeTenantWrites, PublishSnapshot, Degrade, UnfreezeTenantWrites, Reactivate, SetAndFlush
<1>7. QED
  BY <1>2, <1>3, <1>4, <1>5, <1>6 DEF Step

LEMMA LedgerStep ==
    ASSUME LedgerInv, [Next]_vars
    PROVE  LedgerInv' /\ (op' = op \/ \E c \in Calls : LedgerMove(c))
<1> DEFINE Mine(c) == Known(c) /\ (~Shared(c) => Knows(c))
           Goal == (\A c \in Calls : Mine(c)') /\ (op' = op \/ \E c \in Calls : LedgerMove(c))
<1>1. Inv /\ Protected /\ Inv' /\ Protected' /\ [Act]_sys
  BY InvStep, ProtectedStep, NextActs DEF LedgerInv
<1>2. ASSUME NEW c \in Calls, Step(c) PROVE Goal
  <2>1. /\ Live(c) /\ Live(c)' /\ c \in Workers
        /\ \A v \in Workers : v # c => pc'[v] = pc[v]
    BY <1>1, <1>2, StepMoves DEF Live, Workers
  <2>2. \A e \in Calls : Shared(e) => Shared(e)'
    BY <2>1, SharedOn
  <2>3. Mine(c)' /\ LedgerMove(c)
    <3>1. CASE Shared(c)
      BY <1>1, <1>2, <2>2, <3>1, StepWrites DEF LedgerInv, LedgerMove
    <3>2. CASE ~Shared(c)
      BY <1>1, <1>2, <3>2, StepWrites, StepKnows DEF LedgerInv
    <3>3. QED
      BY <3>1, <3>2
  <2>4. ASSUME NEW e \in Calls, e # c PROVE Mine(e)'
    <3>1. pc'[e] = pc[e] /\ view'[e] = view[e] /\ KeyOf[e] \in Keys /\ Mine(e)
      BY <1>1, <1>2, <2>1, <2>4, OtherViews, CallsAssumption DEF Workers, LedgerInv
    <3>2. CASE pc[e] \notin Try \cup {"rollback"}
      BY <3>1, <3>2 DEF Known, Knows
    <3>3. CASE KeyOf[e] # KeyOf[c]
      <4>1. op'[KeyOf[e]] = op[KeyOf[e]]
        BY <1>1, <1>2, <3>1, <3>3, OtherKeys
      <4>2. QED
        BY <2>2, <3>1, <4>1 DEF Known, Knows
    <3>4. CASE KeyOf[e] = KeyOf[c] /\ pc[e] \in Try \cup {"rollback"}
      <4>1. Live(e)
        BY <3>4 DEF Live, Try
      <4>2. Shared(e)'
        BY <1>1, <2>1, <2>2, <2>4, <3>4, <4>1, SharersKnown
      <4>3. op'[KeyOf[e]] # None
        <5>1. op[KeyOf[e]] # None
          BY <3>1, <3>4 DEF Known
        <5>2. \A s \in OperationState : s # None
          BY NoneAssumption
        <5>3. op \in [Keys -> OperationState \cup {None}] /\ Known(c)
          BY <1>1 DEF Inv, SysTypes, LedgerInv
        <5>4. QED
          BY <1>1, <1>2, <3>1, <3>4, <5>1, <5>2, <5>3, StepWrites
      <4>4. QED
        BY <4>2, <4>3 DEF Known
    <3>5. QED
      BY <3>2, <3>3, <3>4
  <2>5. QED
    BY <2>3, <2>4
<1>3. ASSUME UNCHANGED <<op, view>>,
             \A c \in Calls : pc'[c] = pc[c] \/ pc'[c] \in {"create", "done"}
      PROVE  Goal
  <2>1. ASSUME NEW c \in Calls PROVE Mine(c)'
    <3>1. CASE pc'[c] \in {"create", "done"}
      BY <3>1 DEF Known, Knows, Try
    <3>2. CASE pc'[c] = pc[c] /\ ~Live(c)
      BY <3>2 DEF Known, Knows, Live, Try
    <3>3. CASE pc'[c] = pc[c] /\ Live(c)
      <4>1. Shared(c) => Shared(c)'
        BY <3>3, SharedOn DEF Live, Workers
      <4>2. QED
        BY <1>3, <3>3, <4>1 DEF LedgerInv, Known, Knows
    <3>4. QED
      BY <1>3, <3>1, <3>2, <3>3
  <2>2. QED
    BY <1>3, <2>1
<1>4. ASSUME NEW w \in Workers, AcquireLock(w) \/ ReleaseLock(w) \/ Crash(w) PROVE Goal
  BY <1>1, <1>3, <1>4 DEF AcquireLock, ReleaseLock, Crash, Goto, Inv, SysTypes, Workers
<1>5. ASSUME NEW m \in Migrations, ResolveRoute(m) \/ RepublishRoute(m) PROVE Goal
  <2>1. UNCHANGED <<op, view>> /\ m \notin Calls
    BY <1>5, CallsAssumption DEF ResolveRoute, RepublishRoute
  <2>2. \A c \in Calls : pc'[c] = pc[c]
    BY <1>1, <1>5, <2>1 DEF ResolveRoute, RepublishRoute, Goto, Inv, SysTypes, Workers
  <2>3. QED
    BY <1>3, <2>1, <2>2
<1>6. ASSUME NEW s \in Lifecycle, SetStatus(s) PROVE Goal
  BY <1>3, <1>6 DEF SetStatus
<1>7. ASSUME ExpireLock \/ UNCHANGED sys PROVE Goal
  BY <1>3, <1>7 DEF ExpireLock, sys
<1> HIDE DEF Goal
<1>8. Goal
  BY <1>1, <1>2, <1>4, <1>5, <1>6, <1>7 DEF Act, Finished
<1>9. QED
  BY <1>1, <1>8 DEF Goal, LedgerInv

\* One row of the ledger changes when one operation does.
LEMMA MoveRow ==
    ASSUME op \in [Keys -> OperationState \cup {None}], NEW k \in Keys,
           NEW s \in OperationState, op' = [op EXCEPT ![k] = s]
    PROVE  Rows' = [Rows EXCEPT ![k] = [tenant |-> "tenant", state |-> s]]
<1>1. s # None
  BY NoneAssumption
<1>2. QED
  BY <1>1 DEF Rows

LEMMA MoveIsLedgers ==
    ASSUME Inv, NEW c \in Calls, LedgerMove(c)
    PROVE  Ledger!LedgerNext \/ Rows' = Rows
<1> DEFINE k == KeyOf[c]
<1>1. k \in Keys /\ op \in [Keys -> OperationState \cup {None}]
  BY CallsAssumption DEF Inv, SysTypes
<1>2. CASE op' = op
  BY <1>2 DEF Rows
<1>3. CASE op[k] = None /\ op' = [op EXCEPT ![k] = "REQUESTED"]
  <2>1. "REQUESTED" \in OperationState
    BY DEF OperationState
  <2>2. Rows[k] = None /\ Rows' = [Rows EXCEPT ![k] = [tenant |-> "tenant", state |-> "REQUESTED"]]
    BY <1>1, <1>3, <2>1, MoveRow DEF Rows
  <2>3. Ledger!Open(k)
    BY <2>2 DEF Ledger!Open
  <2>4. QED
    BY <1>1, <2>3 DEF Ledger!LedgerNext
<1>4. ASSUME op[k] \in OperationState, NEW s \in OperationState,
             ~IsInvalidTransition(op[k], s) \/ Shared(c), op' = [op EXCEPT ![k] = s]
      PROVE  Ledger!LedgerNext
  <2>1. op[k] # None
    BY <1>4, NoneAssumption
  <2> DEFINE row == [tenant |-> "tenant", state |-> op[k]]
  <2>2. Rows[k] = row
    BY <1>1, <2>1 DEF Rows
  <2>3. Rows' = [Rows EXCEPT ![k] = [tenant |-> "tenant", state |-> s]]
    BY <1>1, <1>4, MoveRow
  <2>4. Rows' = [Rows EXCEPT ![k].state = s]
    <3>1. [row EXCEPT !.state = s] = [tenant |-> "tenant", state |-> s]
      OBVIOUS
    <3> HIDE DEF row
    <3>2. [Rows EXCEPT ![k].state = s] = [Rows EXCEPT ![k] = [Rows[k] EXCEPT !.state = s]]
      OBVIOUS
    <3>3. QED
      BY <2>2, <2>3, <3>1, <3>2
  <2>5. Rows[k] # None
    <3>1. row \in [tenant : {"tenant"}, state : OperationState]
      BY <1>4
    <3>2. QED
      BY <2>2, <3>1, RowAssumption
  <2>6. CASE Shared(c)
    <3>1. k \in {KeyOf[e] : e \in {d \in Calls : Shared(d)}}
      BY <2>6
    <3>2. Ledger!Overwrite(k)
      BY <1>4, <2>4, <2>5, <3>1 DEF Ledger!Overwrite, Ledger!OperationState, OperationState
    <3>3. QED
      BY <1>1, <3>2 DEF Ledger!LedgerNext
  <2>7. CASE ~IsInvalidTransition(op[k], s)
    <3>1. ~Ledger!IsInvalidTransition(Rows[k].state, s)
      BY <2>7, <2>2 DEF Ledger!IsInvalidTransition, Ledger!AllowedMoves, IsInvalidTransition,
         AllowedMoves
    <3>2. Ledger!Advance(k)
      BY <1>4, <2>4, <2>5, <3>1 DEF Ledger!Advance, Ledger!OperationState, OperationState
    <3>3. QED
      BY <1>1, <3>2 DEF Ledger!LedgerNext
  <2>8. QED
    BY <1>4, <2>6, <2>7
<1>5. QED
  BY <1>2, <1>3, <1>4 DEF LedgerMove

\* Failovers implement the ledger: a key names one operation, and however calls
\* fail, die and are retried, its row only moves along the table, although every
\* call only looks at its own copy of it, except while calls share the operation
\* in a spell without a lock.
THEOREM OperationsImplemented == Spec => ImplementsLedger
<1>1. Init => LedgerInv /\ Ledger!LedgerInit
  <2> SUFFICES ASSUME Init PROVE LedgerInv /\ Ledger!LedgerInit
    OBVIOUS
  <2>1. \A c \in Calls : Known(c) /\ Knows(c)
    BY DEF Init, Known, Knows, Try, Workers
  <2>2. Ledger!LedgerInit
    BY DEF Init, Rows, Ledger!LedgerInit
  <2>3. QED
    BY <2>1, <2>2, InvInit, ProtectedInit DEF LedgerInv
<1>2. LedgerInv /\ [Next]_vars => LedgerInv' /\ [Ledger!LedgerNext]_Rows
  <2> SUFFICES ASSUME LedgerInv, [Next]_vars
               PROVE  LedgerInv' /\ (Ledger!LedgerNext \/ Rows' = Rows)
    OBVIOUS
  <2>1. LedgerInv' /\ (op' = op \/ \E c \in Calls : LedgerMove(c))
    BY LedgerStep
  <2>2. op' = op => Rows' = Rows
    BY DEF Rows
  <2>3. QED
    BY <2>1, <2>2, MoveIsLedgers DEF LedgerInv
<1>3. QED
  BY <1>1, <1>2, PTL DEF Spec, ImplementsLedger, Ledger!LedgerSpec

-----------------------------------------------------------------------------
\* From here on: writes that stay frozen.

\* Where the fence of a failover is up, writes are frozen, in the row and in
\* every copy of it; from freezing to resuming them a call's copy says frozen.
Froze == {"assign", "publish", "degrade", "switched", "recover", "unfreeze"}

RowFreeze == control.token # None => control.frozen

CallFreeze(c) ==
    /\ copy[c] # None /\ copy[c].token # None => copy[c].frozen
    /\ pc[c] \in Froze => copy[c] # None /\ copy[c].frozen
    /\ pc[c] = "reactivate" => copy[c] # None /\ ~copy[c].frozen /\ copy[c].token = None

\* Call c still has the freeze before it: it says frozen in its copy, or brings
\* unsaved changes into its catch block.
Bound(c) ==
    /\ pc[c] \in Froze \cup {"rollback", "reopen"}
    /\ copy[c] # None
    /\ copy[c].frozen \/ (pc[c] = "rollback" /\ dirty[c])

FreezeInv ==
    /\ Inv
    /\ RowFreeze
    /\ \A c \in Calls : CallFreeze(c)
    /\ ~Open /\ ~stranded => \E c \in Calls : Bound(c)

\* A step of call c resumes writes, or fails to, or is bound to do it later, or
\* has nothing to do with them.
Lifts(c) ==
    \/ Open'
    \/ pc[c] \in {"rollback", "reopen"} /\ pc'[c] = "release"
    \/ Bound(c)'
    \/ ~Bound(c) /\ control' = control

FreezeKept(c) == RowFreeze' /\ CallFreeze(c)' /\ Lifts(c)

LEMMA Thrown ==
    ASSUME Inv, NEW c \in Calls, Throw(c)
    PROVE  pc'[c] = IF pc[c] \in Catch THEN "release" ELSE "rollback"
  BY DEF Inv, SysTypes, Throw, Goto, Workers

\* What a flush does to the freeze.
LEMMA FlushFreezes ==
    ASSUME Inv, RowFreeze, NEW c \in Calls, NEW r \in Control \cup {None}, NEW d \in BOOLEAN,
           r = None => ~d, r # None /\ r.token # None => r.frozen, Flushed(c, r, d)
    PROVE  /\ RowFreeze'
           /\ copy'[c] = None <=> r = None
           /\ r # None => copy'[c].frozen = r.frozen /\ copy'[c].token = r.token
           /\ ~d => control' = control /\ copy'[c] = r
           /\ d => control'.frozen = r.frozen /\ control'.token = r.token
<1>1. copy \in [Calls -> Control \cup {None}]
  BY DEF Inv, SysTypes
<1>2. CASE d
  <2> DEFINE saved == [r EXCEPT !.version = @ + 1]
  <2>1. r \in Control
    BY <1>2
  <2>2. control' = saved /\ copy' = [copy EXCEPT ![c] = saved]
    BY <1>2 DEF Flushed
  <2>3. saved \in Control /\ saved.frozen = r.frozen /\ saved.token = r.token
    BY <2>1 DEF Control
  <2> HIDE DEF saved
  <2>4. copy'[c] = saved
    BY <1>1, <2>2
  <2>5. QED
    BY <1>2, <2>1, <2>2, <2>3, <2>4, NoneAssumption DEF RowFreeze
<1>3. CASE ~d
  BY <1>1, <1>3 DEF Flushed, RowFreeze
<1>4. QED
  BY <1>2, <1>3

\* Changes to a loaded record, except for the end of the freeze: all of them keep
\* the copy frozen if it was.
LEMMA SetFreezes ==
    ASSUME FreezeInv, NEW c \in Calls, pc[c] \in Loaded, NEW r \in Control,
           r.token = copy[c].token, r.frozen, NEW touched \in BOOLEAN, NEW next \in Froze,
           SetAndFlush(c, r, touched, next), pc[c] \in Try
    PROVE  FreezeKept(c)
<1> DEFINE d == dirty[c] \/ touched \/ r # copy[c]
<1>1. /\ Inv /\ RowFreeze /\ r # None /\ copy[c] \in Control /\ pc[c] \notin Catch
      /\ d \in BOOLEAN
  BY LoadedClean, NoneAssumption DEF FreezeInv, Try, Catch
<1>2. \/ Flushed(c, r, d) /\ Goto(c, next)
      \/ NotFlushed(c, r, d) /\ Throw(c)
  BY DEF SetAndFlush
<1> HIDE DEF d
<1>3. CASE Flushed(c, r, d) /\ Goto(c, next)
  <2>1. pc'[c] = next
    BY <1>1, <1>3, GotoStage DEF Froze, Stage, Try
  <2>2. RowFreeze' /\ copy'[c] # None /\ copy'[c].frozen
    BY <1>1, <1>3, FlushFreezes
  <2>3. QED
    BY <2>1, <2>2 DEF FreezeKept, CallFreeze, Lifts, Bound, Froze
<1>4. CASE NotFlushed(c, r, d) /\ Throw(c)
  <2>1. pc'[c] = "rollback"
    BY <1>1, <1>4, Thrown
  <2>2. control' = control /\ copy'[c] = r
    BY <1>1, <1>4, NotFlushedAgrees
  <2>3. QED
    BY <1>1, <2>1, <2>2 DEF FreezeKept, CallFreeze, Lifts, Bound, Froze, RowFreeze
<1>5. QED
  BY <1>2, <1>3, <1>4

LEMMA RecordFreezes ==
    ASSUME FreezeInv, NEW c \in Calls,
           FreezeTenantWrites(c) \/ PublishSnapshot(c) \/ Degrade(c)
    PROVE  FreezeKept(c)
<1> DEFINE cp == copy[c]
<1>1. /\ Inv /\ CallFreeze(c) /\ pc[c] \in Loaded \cap Try
  BY DEF FreezeInv, FreezeTenantWrites, PublishSnapshot, Degrade, Loaded, Try
<1>2. cp \in Control /\ cp # None
  BY <1>1, LoadedClean, NoneAssumption
<1>3. CASE FreezeTenantWrites(c)
  <2> DEFINE r == [cp EXCEPT !.frozen = TRUE]
  <2>1. r \in Control /\ r.token = cp.token /\ r.frozen = TRUE
    BY <1>2 DEF Control
  <2>2. SetAndFlush(c, r, FALSE, "assign")
    BY <1>3 DEF FreezeTenantWrites
  <2> HIDE DEF r
  <2>3. QED
    BY <1>1, <2>1, <2>2, SetFreezes DEF Froze
<1>4. CASE PublishSnapshot(c)
  <2>1. SetAndFlush(c, cp, FALSE, "degrade") /\ cp.frozen
    BY <1>1, <1>4 DEF PublishSnapshot, CallFreeze, Froze
  <2>2. QED
    BY <1>1, <1>2, <2>1, SetFreezes DEF Froze
<1>5. CASE Degrade(c)
  <2> DEFINE r == [cp EXCEPT !.status = "DEGRADED"]
  <2>1. cp.frozen
    BY <1>1, <1>5 DEF Degrade, CallFreeze, Froze
  <2>2. r \in Control /\ r.token = cp.token /\ r.frozen
    BY <1>2, <2>1 DEF Control, Status
  <2>3. SetAndFlush(c, r, TRUE, "switched")
    BY <1>5 DEF Degrade
  <2> HIDE DEF r
  <2>4. QED
    BY <1>1, <2>2, <2>3, SetFreezes DEF Froze
<1>6. QED
  BY <1>3, <1>4, <1>5

LEMMA UnfreezeLifts ==
    ASSUME FreezeInv, NEW c \in Calls, UnfreezeTenantWrites(c)
    PROVE  FreezeKept(c)
<1> DEFINE cp == copy[c]
           r == Unfrozen(cp)
           d == dirty[c] \/ FALSE \/ r # cp
<1>1. /\ Inv /\ RowFreeze /\ CallFreeze(c) /\ pc[c] = "unfreeze" /\ pc[c] \in Loaded
      /\ pc[c] \notin Catch
  BY DEF FreezeInv, UnfreezeTenantWrites, Loaded, Catch
<1>2. cp \in Control /\ cp.frozen
  BY <1>1, LoadedClean DEF CallFreeze, Froze
<1>3. r \in Control /\ r.token = None /\ r.frozen = FALSE
  BY <1>2 DEF Control, Unfrozen
<1>4. r # None /\ d = TRUE
  BY <1>2, <1>3, NoneAssumption
<1>5. \/ Flushed(c, r, d) /\ Goto(c, "finalize")
      \/ NotFlushed(c, r, d) /\ Throw(c)
  BY DEF UnfreezeTenantWrites, SetAndFlush
<1> HIDE DEF r, d
<1>6. CASE Flushed(c, r, d) /\ Goto(c, "finalize")
  <2>1. pc'[c] = "finalize"
    BY <1>1, <1>6, GotoStage DEF Stage, Try
  <2>2. RowFreeze' /\ ~control'.frozen /\ control'.token = None /\ copy'[c].token = None
    BY <1>1, <1>3, <1>4, <1>6, FlushFreezes
  <2>3. QED
    BY <2>1, <2>2 DEF FreezeKept, CallFreeze, Lifts, Open, Froze
<1>7. CASE NotFlushed(c, r, d) /\ Throw(c)
  <2>1. pc'[c] = "rollback"
    BY <1>1, <1>7, Thrown
  <2>2. control' = control /\ copy'[c] = r /\ dirty'[c] = d
    BY <1>1, <1>3, <1>4, <1>7, NotFlushedAgrees
  <2>3. QED
    BY <1>1, <1>3, <1>4, <2>1, <2>2 DEF FreezeKept, CallFreeze, Lifts, Bound, Froze, RowFreeze
<1>8. QED
  BY <1>5, <1>6, <1>7

LEMMA ReactivateLifts ==
    ASSUME FreezeInv, NEW c \in Calls, Reactivate(c)
    PROVE  FreezeKept(c)
<1> DEFINE cp == copy[c]
           r == [cp EXCEPT !.status = "ACTIVE"]
           d == dirty[c] \/ FALSE \/ r # cp
<1>1. /\ Inv /\ RowFreeze /\ CallFreeze(c) /\ pc[c] = "reactivate" /\ pc[c] \in Loaded \cap Catch
  BY DEF FreezeInv, Reactivate, Loaded, Catch
<1>2. cp \in Control /\ ~cp.frozen /\ cp.token = None
  BY <1>1, LoadedClean DEF CallFreeze
<1>3. r \in Control /\ r.token = None /\ ~r.frozen
  BY <1>2 DEF Control, Status
<1>4. r # None /\ d \in BOOLEAN
  BY <1>3, NoneAssumption
<1>5. \/ Flushed(c, r, d) /\ Goto(c, "release")
      \/ NotFlushed(c, r, d) /\ Throw(c)
  BY DEF Reactivate, SetAndFlush
<1> HIDE DEF r, d
<1>6. pc'[c] = "release"
  BY <1>1, <1>5, GotoStage, Thrown DEF Stage
<1>7. CASE Flushed(c, r, d)
  <2>1. /\ RowFreeze' /\ copy'[c].token = None
        /\ control' = control \/ (~control'.frozen /\ control'.token = None)
    BY <1>1, <1>3, <1>4, <1>7, FlushFreezes
  <2>2. QED
    BY <1>1, <1>6, <2>1 DEF FreezeKept, CallFreeze, Lifts, Open, Froze, Bound
<1>8. CASE NotFlushed(c, r, d)
  <2>1. control' = control /\ copy'[c] = r
    BY <1>1, <1>3, <1>4, <1>8, NotFlushedAgrees
  <2>2. QED
    BY <1>1, <1>3, <1>6, <2>1 DEF FreezeKept, CallFreeze, Lifts, Bound, Froze, RowFreeze
<1>9. QED
  BY <1>5, <1>7, <1>8

LEMMA ReopenLifts ==
    ASSUME FreezeInv, NEW c \in Calls, Reopen(c)
    PROVE  FreezeKept(c)
<1> DEFINE m == Managed(c)
           r == Unfrozen(m)
           d == dirty[c] \/ r # m
<1>1. /\ Inv /\ RowFreeze /\ CallFreeze(c) /\ pc[c] = "reopen" /\ pc[c] \in Catch
      /\ control \in Control /\ dirty[c] \in BOOLEAN
  BY DEF FreezeInv, Reopen, Catch, Inv, SysTypes
<1>2. m \in Control
  BY DEF FreezeInv, Inv, SysTypes, Managed
<1>3. r \in Control /\ r.token = None /\ r.frozen = FALSE
  BY <1>2 DEF Control, Unfrozen
<1>4. r # None /\ d \in BOOLEAN
  BY <1>1, <1>3, NoneAssumption
<1>5. \/ Flushed(c, r, d) /\ Goto(c, "reactivate")
      \/ NotFlushed(c, r, d) /\ Throw(c)
  BY DEF Reopen
<1>6. ~d => m.frozen = FALSE /\ m.token = None
  BY <1>3
<1>7. ~d => (copy[c] = None => Open) /\ ~Bound(c)
  BY <1>1, <1>6 DEF Managed, Open, Bound
<1> HIDE DEF r, d, m
<1>8. CASE Flushed(c, r, d) /\ Goto(c, "reactivate")
  <2>1. pc'[c] = "reactivate"
    BY <1>1, <1>8, GotoStage DEF Stage, Catch
  <2>2. /\ RowFreeze' /\ copy'[c] # None /\ copy'[c].token = None /\ ~copy'[c].frozen
        /\ d => ~control'.frozen /\ control'.token = None
        /\ ~d => control' = control
    BY <1>1, <1>3, <1>4, <1>8, FlushFreezes
  <2>3. QED
    BY <1>7, <2>1, <2>2 DEF FreezeKept, CallFreeze, Lifts, Open, Froze
<1>9. CASE NotFlushed(c, r, d) /\ Throw(c)
  <2>1. pc'[c] = "release"
    BY <1>1, <1>9, Thrown
  <2>2. control' = control /\ copy'[c] = r
    BY <1>1, <1>3, <1>4, <1>9, NotFlushedAgrees
  <2>3. QED
    BY <1>1, <1>3, <2>1, <2>2 DEF FreezeKept, CallFreeze, Lifts, Froze, RowFreeze
<1>10. QED
  BY <1>5, <1>8, <1>9

LEMMA AssignFreezes ==
    ASSUME FreezeInv, NEW c \in Calls, AssignSnapshot(c)
    PROVE  FreezeKept(c)
<1> DEFINE x == ExpectedGeneration(copy[c])
           r == [copy[c] EXCEPT !.token = c, !.fence = x + 1]
<1>1. /\ pc[c] = "assign" /\ Inv /\ CallFreeze(c) /\ RowFreeze
      /\ copy' = [copy EXCEPT ![c] = r]
      /\ Goto(c, "publish") \/ Throw(c)
      /\ UNCHANGED control
  BY DEF AssignSnapshot, FreezeInv
<1>2. copy[c] \in Control /\ copy[c].frozen
  BY <1>1, LoadedClean DEF Loaded, CallFreeze, Froze
<1>3. r.frozen /\ r # None
  <2>1. r.frozen = copy[c].frozen
    BY <1>2 DEF Control
  <2>2. c \in Calls /\ x \in Nat
    BY <1>2 DEF Control, ExpectedGeneration
  <2>3. x + 1 \in Nat
    BY <2>2
  <2> HIDE DEF x
  <2>4. r \in Control
    BY <1>2, <2>2, <2>3 DEF Control
  <2>5. QED
    BY <1>2, <2>1, <2>4, NoneAssumption
<1> HIDE DEF r
<1>4. copy'[c] = r
  BY <1>1 DEF Inv, SysTypes
<1>5. pc'[c] = "publish" \/ pc'[c] = "rollback"
  BY <1>1 DEF Goto, Throw, Catch, Inv, SysTypes, Workers
<1>6. QED
  BY <1>1, <1>3, <1>4, <1>5 DEF FreezeKept, CallFreeze, Lifts, Bound, Froze, RowFreeze

\* A change of state before the switch, or after writes resumed, sends no change
\* of the control record; one in between keeps the freeze.
LEMMA TransitionFreezes ==
    ASSUME FreezeInv, NEW c \in Calls,
           NEW from \in {"prepare", "validate", "switching", "switched", "finalize"},
           NEW s \in OperationState, NEW next \in {"load", "check", "freeze", "recover", "record"},
           from = "switched" <=> next = "recover",
           Transition(c, from, s, next)
    PROVE  FreezeKept(c)
<1>1. /\ Inv /\ RowFreeze /\ CallFreeze(c) /\ CallInv(c) /\ pc[c] = from /\ pc[c] \notin Catch
      /\ copy[c] \in Control \cup {None} /\ copy \in [Calls -> Control \cup {None}]
  BY DEF FreezeInv, Transition, Inv, SysTypes, Catch
<1>2. dirty[c] = FALSE /\ next \in Stage
  BY <1>1 DEF CallInv, Clean, Stage, Try, Inv, SysTypes
<1>3. \/ UNCHANGED <<control, copy>> /\ Throw(c)
      \/ Flushed(c, copy[c], dirty[c]) /\ (Goto(c, next) \/ Throw(c))
      \/ NotFlushed(c, copy[c], dirty[c]) /\ Throw(c)
  BY DEF Transition
<1>4. pc'[c] \in {next, "rollback"}
  BY <1>1, <1>2, <1>3, GotoStage, Thrown
<1>5. control' = control /\ copy'[c] = copy[c]
  <2>1. CASE Flushed(c, copy[c], dirty[c])
    BY <1>1, <1>2, <2>1 DEF Flushed
  <2>2. CASE NotFlushed(c, copy[c], dirty[c])
    BY <1>1, <1>2, <2>2, NotFlushedAgrees
  <2>3. QED
    BY <1>3, <2>1, <2>2
<1>6. CASE from = "switched"
  BY <1>1, <1>4, <1>5, <1>6 DEF FreezeKept, CallFreeze, Lifts, Bound, Froze, RowFreeze
<1>7. CASE from # "switched"
  BY <1>1, <1>4, <1>5, <1>7 DEF FreezeKept, CallFreeze, Lifts, Bound, Froze, RowFreeze
<1>8. QED
  BY <1>6, <1>7

LEMMA RollbackFreezes ==
    ASSUME FreezeInv, NEW c \in Calls, Transition(c, "rollback", "ROLLBACK", "reopen")
    PROVE  FreezeKept(c)
<1>1. /\ Inv /\ RowFreeze /\ CallFreeze(c) /\ CallInv(c) /\ pc[c] = "rollback" /\ pc[c] \in Catch
      /\ copy[c] \in Control \cup {None} /\ copy \in [Calls -> Control \cup {None}]
      /\ dirty[c] \in BOOLEAN
  BY DEF FreezeInv, Transition, Inv, SysTypes, Catch
<1>2. \/ UNCHANGED <<control, copy>> /\ Throw(c)
      \/ Flushed(c, copy[c], dirty[c]) /\ (Goto(c, "reopen") \/ Throw(c))
      \/ NotFlushed(c, copy[c], dirty[c]) /\ Throw(c)
  BY DEF Transition
<1>3. CASE UNCHANGED <<control, copy>> /\ Throw(c)
  <2>1. pc'[c] = "release"
    BY <1>1, <1>3, Thrown
  <2>2. QED
    BY <1>1, <1>3, <2>1 DEF FreezeKept, CallFreeze, Lifts, Froze, RowFreeze
<1>4. CASE NotFlushed(c, copy[c], dirty[c]) /\ Throw(c)
  <2>1. pc'[c] = "release"
    BY <1>1, <1>4, Thrown
  <2>2. control' = control /\ copy'[c] = copy[c]
    BY <1>1, <1>4, NotFlushedAgrees
  <2>3. QED
    BY <1>1, <2>1, <2>2 DEF FreezeKept, CallFreeze, Lifts, Froze, RowFreeze
<1>5. CASE Flushed(c, copy[c], dirty[c]) /\ (Goto(c, "reopen") \/ Throw(c))
  <2>1. pc'[c] \in {"reopen", "release"}
    BY <1>1, <1>5, GotoStage, Thrown DEF Stage, Catch
  <2>2. /\ RowFreeze'
        /\ copy'[c] = None <=> copy[c] = None
        /\ copy[c] # None => copy'[c].frozen = copy[c].frozen /\ copy'[c].token = copy[c].token
        /\ ~dirty[c] => control' = control /\ copy'[c] = copy[c]
        /\ dirty[c] => control'.frozen = copy[c].frozen /\ control'.token = copy[c].token
    BY <1>1, <1>5, FlushFreezes DEF CallInv, CallFreeze
  <2>3. CallFreeze(c)'
    BY <1>1, <2>1, <2>2 DEF CallFreeze, Froze
  <2>4. CASE dirty[c]
    <3>1. copy[c] # None
      BY <1>1, <2>4 DEF CallInv
    <3>2. Open' \/ copy[c].frozen
      BY <1>1, <2>2, <2>4, <3>1 DEF Open, CallFreeze
    <3>3. QED
      BY <1>1, <2>1, <2>2, <2>3, <3>1, <3>2 DEF FreezeKept, Lifts, Bound
  <2>5. CASE ~dirty[c]
    BY <1>1, <2>1, <2>2, <2>3, <2>5 DEF FreezeKept, Lifts, Bound
  <2>6. QED
    BY <2>4, <2>5
<1>6. QED
  BY <1>2, <1>3, <1>4, <1>5

LEMMA OthersFreeze ==
    ASSUME FreezeInv, NEW c \in Calls,
           \/ CreateOperation(c) \/ LoadControl(c)
           \/ Work(c, "check", "switching") \/ Work(c, "recover", "unfreeze")
           \/ Work(c, "record", "release")
    PROVE  FreezeKept(c)
<1>1. /\ Inv /\ RowFreeze /\ CallFreeze(c) /\ pc \in [Workers -> Stage] /\ c \in Workers
      /\ copy \in [Calls -> Control \cup {None}] /\ control' = control
  BY DEF FreezeInv, Inv, SysTypes, Workers, CreateOperation, LoadControl, Work
<1>2. CASE LoadControl(c)
  <2>1. copy'[c] = control
    BY <1>1, <1>2 DEF LoadControl
  <2>2. pc'[c] \in {"rollback", "validate"} /\ pc[c] = "load"
    BY <1>1, <1>2 DEF LoadControl, Goto, Throw, Catch
  <2>3. QED
    BY <1>1, <2>1, <2>2 DEF FreezeKept, CallFreeze, Lifts, Bound, Froze, RowFreeze
<1>3. CASE Work(c, "recover", "unfreeze")
  <2>1. copy' = copy /\ pc[c] = "recover" /\ pc'[c] \in {"rollback", "unfreeze"}
    BY <1>1, <1>3 DEF Work, Goto, Throw, Catch
  <2>2. QED
    BY <1>1, <2>1 DEF FreezeKept, CallFreeze, Lifts, Bound, Froze, RowFreeze
<1>4. CASE CreateOperation(c) \/ Work(c, "check", "switching") \/ Work(c, "record", "release")
  <2>1. /\ copy' = copy /\ pc[c] \in {"create", "check", "record"}
        /\ pc'[c] \in {"prepare", "release", "switching", "rollback"}
    BY <1>1, <1>4 DEF CreateOperation, Work, Goto, Throw, Catch
  <2>2. QED
    BY <1>1, <2>1 DEF FreezeKept, CallFreeze, Lifts, Bound, Froze, RowFreeze
<1>5. QED
  BY <1>2, <1>3, <1>4

LEMMA StepFreezes ==
    ASSUME FreezeInv, NEW c \in Calls, Step(c)
    PROVE  FreezeKept(c)
<1> USE DEF OperationState
<1>1. CASE Transition(c, "prepare", "PREPARING", "load")
  BY <1>1, TransitionFreezes
<1>2. CASE Transition(c, "validate", "VALIDATING", "check")
  BY <1>2, TransitionFreezes
<1>3. CASE Transition(c, "switching", "SWITCHING", "freeze")
  BY <1>3, TransitionFreezes
<1>4. CASE Transition(c, "switched", "SWITCHED", "recover")
  BY <1>4, TransitionFreezes
<1>5. CASE Transition(c, "finalize", "FINALIZED", "record")
  BY <1>5, TransitionFreezes
<1>6. QED
  BY <1>1, <1>2, <1>3, <1>4, <1>5, RollbackFreezes, RecordFreezes, UnfreezeLifts, ReactivateLifts,
     ReopenLifts, AssignFreezes, OthersFreeze DEF Step

-----------------------------------------------------------------------------
\* A step that leaves the calls' records alone, and takes the freeze from nobody.
LEMMA FreezeAside ==
    ASSUME FreezeInv, Inv', [Next]_vars, UNCHANGED <<copy, dirty>>, RowFreeze',
           Open => Open' \/ stranded',
           stranded' \/ Open' \/ \A c \in Calls : Bound(c) => pc'[c] = pc[c],
           \A c \in Calls : pc'[c] \in {pc[c], "create", "done"}
    PROVE  FreezeInv'
<1>1. \A c \in Calls : CallFreeze(c)'
  BY DEF FreezeInv, CallFreeze, Froze
<1>2. ~Open' /\ ~stranded' => ~Open /\ ~stranded
  BY DEF Next, Observe, vars, Open
<1>3. ASSUME ~Open', ~stranded' PROVE \E c \in Calls : Bound(c)'
  <2>1. PICK c \in Calls : Bound(c)
    BY <1>2, <1>3 DEF FreezeInv
  <2>2. Bound(c)'
    BY <1>3, <2>1 DEF Bound
  <2>3. QED
    BY <2>2
<1>4. QED
  BY <1>1, <1>3 DEF FreezeInv

LEMMA FreezeInvStep ==
    ASSUME SwitchInv, FreezeInv, [Next]_vars
    PROVE  FreezeInv'
<1>1. Inv' /\ Inv /\ [Act]_sys /\ RowFreeze
  BY InvStep, NextActs DEF FreezeInv
<1>2. ASSUME NEW c \in Calls, Step(c) PROVE FreezeInv'
  <2>1. FreezeKept(c) /\ Framed(c)
    BY <1>2, StepFreezes, StepKeeps DEF Kept
  <2>2. \A e \in Calls : CallFreeze(e)'
    <3>1. ASSUME NEW e \in Calls, e # c PROVE CallFreeze(e)'
      BY <2>1, <3>1 DEF Framed, FreezeInv, CallFreeze
    <3>2. QED
      BY <2>1, <3>1 DEF FreezeKept
  <2>3. ASSUME ~Open', ~stranded' PROVE \E e \in Calls : Bound(e)'
    <3>1. Next \/ UNCHANGED sys
      BY DEF sys, vars
    <3>2. CASE UNCHANGED vars
      BY <2>3, <3>2 DEF vars, FreezeInv, Open, Bound
    <3>3. CASE Next
      <4>1. ~stranded /\ ~Strands
        BY <2>3, <3>3 DEF Next, Observe
      <4>2. ~(pc[c] \in {"rollback", "reopen"} /\ pc'[c] = "release")
        BY <4>1 DEF Strands
      <4>3. CASE Bound(c)'
        BY <4>3
      <4>4. CASE ~Bound(c) /\ control' = control
        <5>1. ~Open
          BY <2>3, <4>4 DEF Open
        <5>2. PICK e \in Calls : Bound(e)
          BY <4>1, <5>1 DEF FreezeInv
        <5>3. e # c
          BY <4>4, <5>2
        <5>4. Bound(e)'
          BY <2>1, <5>2, <5>3 DEF Framed, Bound
        <5>5. QED
          BY <5>4
      <4>5. QED
        BY <2>1, <2>3, <4>2, <4>3, <4>4 DEF FreezeKept, Lifts
    <3>4. QED
      BY <3>2, <3>3
  <2>4. QED
    BY <1>1, <2>1, <2>2, <2>3 DEF FreezeInv, FreezeKept
<1>3. ASSUME NEW w \in Workers, AcquireLock(w) \/ ReleaseLock(w) \/ Crash(w) PROVE FreezeInv'
  <2>1. UNCHANGED <<control, copy, dirty>> /\ RowFreeze' /\ (Open => Open')
    BY <1>1, <1>3 DEF AcquireLock, ReleaseLock, Crash, RowFreeze, Open
  <2>2. PICK s \in {"create", "resolve", "done"} :
            /\ pc' = [pc EXCEPT ![w] = s]
            /\ w \in Calls => s # "resolve"
            /\ pc[w] \in {"idle", "release"} \/ (Crash(w) /\ s = "done")
    BY <1>3 DEF AcquireLock, ReleaseLock, Crash, Goto
  <2>3. pc \in [Workers -> Stage]
    BY <1>1 DEF Inv, SysTypes
  <2>4. \A c \in Calls : pc'[c] \in {pc[c], "create", "done"}
    BY <2>2, <2>3 DEF Workers
  <2>5. CASE pc[w] \in {"idle", "release"}
    <3>1. \A c \in Calls : Bound(c) => pc'[c] = pc[c]
      BY <2>2, <2>3, <2>5 DEF Bound, Froze, Workers
    <3>2. QED
      BY <1>1, <2>1, <2>4, <3>1, FreezeAside
  <2>6. CASE pc[w] # "release" /\ Crash(w) /\ s = "done"
    <3>1. Live(w) /\ pc'[w] = "done"
      BY <2>2, <2>3, <2>6 DEF Crash
    <3>2. Strands /\ pc' # pc
      BY <2>6, <3>1 DEF Strands, Live
    <3>3. Next
      BY <3>2 DEF vars
    <3>4. stranded' \/ Open'
      BY <3>2, <3>3 DEF Next, Observe
    <3>5. QED
      BY <1>1, <2>1, <2>4, <3>4, FreezeAside
  <2>7. QED
    BY <2>2, <2>5, <2>6
<1>4. ASSUME NEW m \in Migrations, ResolveRoute(m) \/ RepublishRoute(m) PROVE FreezeInv'
  <2>1. UNCHANGED <<control, copy, dirty>> /\ m \notin Calls
    BY <1>4, CallsAssumption DEF ResolveRoute, RepublishRoute
  <2>2. \A c \in Calls : pc'[c] = pc[c]
    BY <1>1, <1>4, <2>1 DEF ResolveRoute, RepublishRoute, Goto, Inv, SysTypes, Workers
  <2>3. RowFreeze' /\ (Open => Open')
    BY <1>1, <2>1 DEF RowFreeze, Open
  <2>4. QED
    BY <1>1, <2>1, <2>2, <2>3, FreezeAside
<1>5. ASSUME NEW s \in Lifecycle, SetStatus(s) PROVE FreezeInv'
  <2>1. UNCHANGED <<copy, dirty, pc>>
    BY <1>5 DEF SetStatus
  <2>2. /\ control'.token = control.token /\ (control.frozen => control'.frozen)
        /\ control'.version = control.version + 1 /\ control.version \in Nat
    <3> DEFINE f == control.frozen \/ s \in {"ARCHIVED", "LEGAL_HOLD"}
    <3>1. control' = [control EXCEPT !.status = s, !.frozen = f, !.version = control.version + 1]
      BY <1>5 DEF SetStatus
    <3>2. (control.frozen => f) /\ control \in Control
      BY <1>1 DEF Inv, SysTypes
    <3> HIDE DEF f
    <3>3. QED
      BY <3>1, <3>2 DEF Control
  <2>3. RowFreeze'
    BY <1>1, <2>2 DEF RowFreeze
  <2>4. Open => Open' \/ stranded'
    <3>1. control' # control
      BY <2>2
    <3>2. Next
      BY <3>1 DEF vars
    <3>3. QED
      BY <2>1, <2>2, <3>2 DEF Next, Observe, Strands, Open
  <2>5. QED
    BY <1>1, <2>1, <2>3, <2>4, FreezeAside
<1>6. ASSUME ExpireLock \/ UNCHANGED sys PROVE FreezeInv'
  <2>1. UNCHANGED <<control, copy, dirty, pc>>
    BY <1>6 DEF ExpireLock, sys
  <2>2. RowFreeze' /\ (Open => Open')
    BY <1>1, <2>1 DEF RowFreeze, Open
  <2>3. QED
    BY <1>1, <2>1, <2>2, FreezeAside
<1>7. QED
  BY <1>1, <1>2, <1>3, <1>4, <1>5, <1>6 DEF Act, Finished

LEMMA FreezeInit == Init => FreezeInv
<1> SUFFICES ASSUME Init PROVE FreezeInv
  OBVIOUS
<1>1. ~control.frozen /\ control.token = None /\ \A c \in Calls : copy[c] = None /\ pc[c] = "idle"
  BY DEF Init, Workers
<1>2. QED
  BY <1>1, InvInit DEF FreezeInv, RowFreeze, CallFreeze, Froze, Open

\* No failover leaves writes frozen, or its fence up, whichever of its statements
\* fail and although the lock may be lost to others: a freeze that nobody who
\* works will lift comes from a process that died, a catch block that failed
\* before it resumed writes, or an administrator.
THEOREM FreezeIsLifted == Spec => []FreezeLifted
<1>1. SwitchInv /\ FreezeInv /\ [Next]_vars => FreezeInv'
  BY FreezeInvStep
<1>2. FreezeInv => FreezeLifted
  <2> SUFFICES ASSUME FreezeInv, \A w \in Workers : ~Live(w), ~Open, ~stranded PROVE FALSE
    BY DEF FreezeLifted
  <2>1. PICK c \in Calls : Bound(c)
    BY DEF FreezeInv
  <2>2. Live(c)
    BY <2>1 DEF Bound, Froze, Live
  <2>3. QED
    BY <2>2 DEF Workers
<1>3. QED
  BY <1>1, <1>2, FreezeInit, SwitchInvariance, PTL DEF Spec

=============================================================================
