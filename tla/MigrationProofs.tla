--------------------------- MODULE MigrationProofs ---------------------------
(***************************************************************************)
(* Machine-checked proofs about Migration, for any calls, tenants and      *)
(* keys, with or without failures and crashes, and wherever a lock runs    *)
(* out: an operation takes back one migration, nothing is undone           *)
(* unrecorded, and the rows follow the ledger of operations.               *)
(***************************************************************************)
EXTENDS Migration, TLAPS

-----------------------------------------------------------------------------
\* The programs, statement by statement, as far as the proofs look at them.

LEMMA Lengths == Len(Try) = 22 /\ Len(Catch) = 8
  BY DEF Try, Catch, To, Do

\* The try block neither undoes anything nor rolls back.
LEMMA TryStatements ==
    ASSUME NEW i \in 1..22
    PROVE  /\ Try[i].do # "down"
           /\ Try[i].state # "ROLLBACK"
           /\ Try[i].state \in OperationState \cup {None}
           /\ Try[i].state # None <=> Try[i].do = "transition"
  BY NoneAssumption DEF Try, To, Do, OperationState

LEMMA TryBegins == Try[1].state = "PREPARING" /\ Try[1].do = "transition"
  BY DEF Try, To, Do

\* The catch block records the rollback, reverts one migration, and goes on.
LEMMA CatchBegins ==
    /\ Catch[1].state = "ROLLBACK" /\ Catch[1].do = "transition"
    /\ Catch[2].state = None /\ Catch[2].do = "down"
  BY DEF Catch, To, Do

LEMMA CatchStatements ==
    ASSUME NEW i \in 1..8
    PROVE  /\ Catch[i].state \in {"ROLLBACK", None}
           /\ Catch[i].do # "up"
           /\ i > 2 => Catch[i].do # "down"
           /\ Catch[i].state # None <=> Catch[i].do = "transition"
  BY NoneAssumption DEF Catch, To, Do, OperationState

\* A rolled back operation may only be closed, and a closed one not be moved.
LEMMA AfterRollback ==
    ASSUME NEW s, ~IsInvalidTransition("ROLLBACK", s)
    PROVE  s = "FINALIZED"
  BY DEF IsInvalidTransition, AllowedMoves

LEMMA NotRolledBackTwice ==
    /\ IsInvalidTransition("ROLLBACK", "ROLLBACK")
    /\ IsInvalidTransition("ROLLBACK", "PREPARING")
    /\ IsInvalidTransition("FINALIZED", "ROLLBACK")
  BY DEF IsInvalidTransition, AllowedMoves

\* From where one legal move leads to a state that may be rolled back, the
\* rollback is legal too.
LEMMA RollbackAhead ==
    ASSUME NEW r \in OperationState, NEW v \in OperationState,
           ~IsInvalidTransition(r, v), ~IsInvalidTransition(v, "ROLLBACK")
    PROVE  ~IsInvalidTransition(r, "ROLLBACK")
  BY DEF IsInvalidTransition, AllowedMoves, OperationState

-----------------------------------------------------------------------------
\* The system without its history.

SysTypes ==
    /\ level \in Nat
    /\ route \in [Tenants -> Route]
    /\ ops \in [Keys -> Operation \cup {None}]
    /\ lock \in [Tenants -> BOOLEAN]
    /\ pc \in [Calls -> Place]
    /\ view \in [Calls -> OperationState \cup {None}]
    /\ held \in [Calls -> Route \cup {None}]
    /\ unsaved \in [Calls -> BOOLEAN]
    /\ stats \in [Calls -> Nat \cup {None}]

\* A running call is at a statement of its block.
Located ==
    \A c \in Calls : /\ pc[c].block = "try" => pc[c].at \in 1..22
                     /\ pc[c].block = "catch" => pc[c].at \in 1..8

\* A snapshot that waits to be written is there, and a call in a block has found
\* its operation.
Loaded == \A c \in Calls : /\ unsaved[c] => held[c] # None
                           /\ Running(c) => ops[KeyOf[c]] # None /\ view[c] # None

SysInv == SysTypes /\ Located /\ Loaded

LEMMA NextActs == [Next]_vars => [Act]_sys
  BY DEF Next, vars, sys

LEMMA ActSteps ==
    ASSUME [Act]_sys
    PROVE  (\E c \in Calls : Step(c)) \/ (\E t \in Tenants : ExpireLock(t)) \/ UNCHANGED sys
  BY DEF Act, Rest

LEMMA CallTypes ==
    ASSUME NEW c \in Calls
    PROVE  TenantOf[c] \in Tenants /\ KeyOf[c] \in Keys
  BY CallsAssumption

LEMMA Places ==
    /\ \A b \in {"idle", "create", "release", "done"} : At(b) \in Place /\ At(b).block = b
    /\ \A b \in {"try", "catch"} :
          First(b) \in Place /\ First(b).block = b /\ First(b).at = 1
  BY Lengths DEF At, First, Place

-----------------------------------------------------------------------------
\* Where a call goes.

LEMMA Advances ==
    ASSUME SysTypes, Located, NEW c \in Calls, Running(c), Advance(c)
    PROVE  \E p \in Place :
              /\ pc' = [pc EXCEPT ![c] = p]
              /\ \/ p.block = "release"
                 \/ /\ p.block = pc[c].block /\ p.at = pc[c].at + 1
                    /\ p.at <= Len(Block(c))
<1> DEFINE n == pc[c].at
           next == [pc[c] EXCEPT !.at = @ + 1]
<1>0. Len(Block(c)) = IF pc[c].block = "try" THEN 22 ELSE 8
  BY Lengths DEF Block
<1>1. pc[c] \in Place /\ n \in 1..Len(Block(c)) /\ Len(Block(c)) \in {8, 22}
  <2>1. pc[c] \in Place
    BY DEF SysTypes
  <2>2. CASE pc[c].block = "try"
    BY <1>0, <2>1, <2>2 DEF Located
  <2>3. CASE pc[c].block = "catch"
    BY <1>0, <2>1, <2>3 DEF Located
  <2>4. QED
    BY <2>2, <2>3 DEF Running
<1>2. At("release") \in Place /\ At("release").block = "release"
  BY Lengths DEF At, Place
<1>3. next.block = pc[c].block /\ next.at = n + 1
  BY <1>1 DEF Place
<1>4. n # Len(Block(c)) => n + 1 <= Len(Block(c)) /\ n + 1 \in 0..22
  <2> HIDE DEF n
  <2>1. CASE Len(Block(c)) = 8
    BY <1>1, <2>1
  <2>2. CASE Len(Block(c)) = 22
    BY <1>1, <2>2
  <2>3. QED
    BY <1>1, <2>1, <2>2
<1>5. n # Len(Block(c)) => next \in Place
  BY <1>1, <1>4, Lengths DEF Place
<1>6. CASE n = Len(Block(c))
  BY <1>2, <1>6 DEF Advance, Goto
<1>7. CASE n # Len(Block(c))
  BY <1>3, <1>4, <1>5, <1>7 DEF Advance, Goto
<1>8. QED
  BY <1>6, <1>7

LEMMA Throws ==
    ASSUME NEW c \in Calls, Throw(c)
    PROVE  \E p \in Place :
              /\ pc' = [pc EXCEPT ![c] = p]
              /\ \/ p.block = "release"
                 \/ pc[c].block = "try" /\ p.block = "catch" /\ p.at = 1
<1>1. First("catch") \in Place /\ First("catch").block = "catch" /\ First("catch").at = 1
  BY Lengths DEF First, Place
<1>2. At("release") \in Place /\ At("release").block = "release"
  BY Lengths DEF At, Place
<1>3. QED
  BY <1>1, <1>2 DEF Throw, Goto

LEMMA Runs ==
    ASSUME NEW c \in Calls, Transition(c) \/ Work(c) \/ ResolveRoute(c) \/ PublishRoute(c)
    PROVE  Running(c) /\ (Advance(c) \/ Throw(c))
  BY DEF Transition, Work, ResolveRoute, PublishRoute, CreateSnapshot

\* Every step of a call leaves it at a place, and does not move the others.
LEMMA Moves ==
    ASSUME SysTypes, Located, NEW c \in Calls, Step(c)
    PROVE  \E p \in Place :
              /\ pc' = [pc EXCEPT ![c] = p]
              /\ p.block = "try" => p.at \in 1..22
              /\ p.block = "catch" => p.at \in 1..8
              /\ p.block = "catch" /\ p.at > 1 => pc[c].block = "catch" /\ p.at = pc[c].at + 1
              /\ p.block = "try" /\ p.at > 1 => pc[c].block = "try" /\ p.at = pc[c].at + 1
<1>1. /\ At("create") \in Place /\ At("create").block = "create"
      /\ At("release") \in Place /\ At("release").block = "release"
      /\ At("done") \in Place /\ At("done").block = "done"
      /\ First("try") \in Place /\ First("try").block = "try" /\ First("try").at = 1
  BY Places
<1>2. CASE AcquireLock(c) \/ CreateOperation(c) \/ ReleaseLock(c) \/ Crash(c)
  BY <1>1, <1>2 DEF AcquireLock, CreateOperation, ReleaseLock, Crash, End, Goto
<1>3. CASE Transition(c) \/ Work(c) \/ ResolveRoute(c) \/ PublishRoute(c)
  <2>1. Running(c) /\ (Advance(c) \/ Throw(c))
    BY <1>3, Runs
  <2>2. CASE Advance(c)
    <3>1. PICK p \in Place :
             /\ pc' = [pc EXCEPT ![c] = p]
             /\ \/ p.block = "release"
                \/ p.block = pc[c].block /\ p.at = pc[c].at + 1 /\ p.at <= Len(Block(c))
      BY <2>1, <2>2, Advances
    <3>2. pc[c].at \in 1..22
      BY <2>1 DEF Located, Running
    <3>3. Len(Block(c)) = IF pc[c].block = "try" THEN 22 ELSE 8
      BY Lengths DEF Block
    <3>4. CASE p.block = "release"
      BY <3>1, <3>4
    <3>5. CASE /\ p.block = pc[c].block /\ p.at = pc[c].at + 1
               /\ p.at <= Len(Block(c))
      <4>0. p.at = pc[c].at + 1
        BY <3>5
      <4>1. p.at \in Nat /\ p.at > 1
        <5> DEFINE n == pc[c].at
        <5>1. n \in 1..22 /\ p.at = n + 1
          BY <3>2, <4>0
        <5> HIDE DEF n
        <5>2. QED
          BY <5>1
      <4>2. pc[c].block = "try" => p.at \in 1..22
        BY <3>3, <3>5, <4>1
      <4>3. pc[c].block # "try" => p.at \in 1..8
        BY <3>3, <3>5, <4>1
      <4>4. /\ p.block = "try" => p.at \in 1..22
            /\ p.block = "catch" => p.at \in 1..8
            /\ p.block = "catch" => pc[c].block = "catch"
            /\ p.block = "try" => pc[c].block = "try"
        BY <3>5, <4>2, <4>3
      <4>6. pc' = [pc EXCEPT ![c] = p]
        BY <3>1
      <4>7. QED
        BY <4>0, <4>4, <4>6
    <3>6. QED
      BY <3>1, <3>4, <3>5
  <2>3. CASE Throw(c)
    BY <2>3, Throws
  <2>4. QED
    BY <2>1, <2>2, <2>3
<1>4. QED
  BY <1>2, <1>3 DEF Step

-----------------------------------------------------------------------------
\* Type correctness.

\* The statement a call is at, by the block it is in.
LEMMA Statements ==
    ASSUME Located, NEW c \in Calls, Running(c)
    PROVE  /\ pc[c].block = "try" => pc[c].at \in 1..22 /\ Statement(c) = Try[pc[c].at]
           /\ pc[c].block = "catch" => pc[c].at \in 1..8 /\ Statement(c) = Catch[pc[c].at]
           /\ Statement(c).state \in OperationState \cup {None}
           /\ Statement(c).state # None <=> Statement(c).do = "transition"
<1>1. CASE pc[c].block = "try"
  <2>1. pc[c].at \in 1..22 /\ Statement(c) = Try[pc[c].at]
    BY <1>1 DEF Located, Statement, Block
  <2>2. QED
    BY <1>1, <2>1, TryStatements
<1>2. CASE pc[c].block = "catch"
  <2>1. pc[c].at \in 1..8 /\ Statement(c) = Catch[pc[c].at]
    BY <1>2 DEF Located, Statement, Block
  <2>2. "ROLLBACK" \in OperationState
    BY DEF OperationState
  <2>3. QED
    BY <1>2, <2>1, <2>2, CatchStatements
<1>3. QED
  BY <1>1, <1>2 DEF Running

\* A snapshot found, and one signed on it.
LEMMA FoundTyped ==
    ASSUME SysTypes, NEW c \in Calls
    PROVE  Found(c) \in Route
  BY CallTypes DEF SysTypes, Found

LEMMA SignedTyped ==
    ASSUME NEW x \in Route, NEW v \in Nat \ {0}
    PROVE  [gen |-> x.gen + 1, version |-> v] \in Route
  BY DEF Route

\* A flush, refused or not, keeps the types, and a snapshot it leaves unsaved is
\* there.
LEMMA FlushTyped ==
    ASSUME SysTypes, NEW c \in Calls, NEW r \in Route \cup {None}, NEW d \in BOOLEAN,
           d => r # None, Flushed(c, r, d) \/ NotFlushed(c, r, d)
    PROVE  /\ route' \in [Tenants -> Route]
           /\ held' \in [Calls -> Route \cup {None}]
           /\ unsaved' \in [Calls -> BOOLEAN]
           /\ \A x \in Calls : x # c => held'[x] = held[x] /\ unsaved'[x] = unsaved[x]
           /\ unsaved'[c] => held'[c] # None
<1>1. TenantOf[c] \in Tenants
  BY CallTypes
<1>2. CASE Flushed(c, r, d)
  BY <1>1, <1>2 DEF Flushed, SysTypes
<1>3. CASE NotFlushed(c, r, d)
  <2> DEFINE gone == d /\ r.gen = 1
             h == IF gone THEN None ELSE r
             u == d /\ ~gone
  <2>1. /\ held' = [held EXCEPT ![c] = h]
        /\ unsaved' = [unsaved EXCEPT ![c] = u]
        /\ route' = route
    BY <1>3 DEF NotFlushed
  <2>2. h \in Route \cup {None} /\ u \in BOOLEAN /\ (u => h # None)
    OBVIOUS
  <2> HIDE DEF h, u
  <2>3. QED
    BY <2>1, <2>2 DEF SysTypes
<1>4. QED
  BY <1>2, <1>3

LEMMA CreateTyped ==
    ASSUME SysTypes, NEW c \in Calls, NEW v \in Nat \ {0}, CreateSnapshot(c, v)
    PROVE  /\ route' \in [Tenants -> Route]
           /\ held' \in [Calls -> Route \cup {None}]
           /\ unsaved' \in [Calls -> BOOLEAN]
           /\ \A x \in Calls : x # c => held'[x] = held[x] /\ unsaved'[x] = unsaved[x]
           /\ unsaved'[c] => held'[c] # None
<1> DEFINE r == [gen |-> Found(c).gen + 1, version |-> v]
<1>1. r \in Route
  BY FoundTyped, SignedTyped
<1>2. r # None
  BY <1>1, NoneAssumption
<1>3. Flushed(c, r, TRUE) \/ NotFlushed(c, r, TRUE)
  BY DEF CreateSnapshot
<1> HIDE DEF r
<1>4. QED
  BY <1>1, <1>2, <1>3, FlushTyped

\* The call moves, the others stay where they are.
LEMMA OthersStay ==
    ASSUME SysTypes, Located, NEW c \in Calls, Step(c)
    PROVE  /\ pc' \in [Calls -> Place]
           /\ \A d \in Calls : d # c => pc'[d] = pc[d]
           /\ pc'[c].block = "try" => pc'[c].at \in 1..22
           /\ pc'[c].block = "catch" => pc'[c].at \in 1..8
           /\ pc'[c].block = "catch" /\ pc'[c].at > 1 =>
                 pc[c].block = "catch" /\ pc'[c].at = pc[c].at + 1
           /\ pc'[c].block = "try" /\ pc'[c].at > 1 =>
                 pc[c].block = "try" /\ pc'[c].at = pc[c].at + 1
<1>1. PICK p \in Place :
         /\ pc' = [pc EXCEPT ![c] = p]
         /\ p.block = "try" => p.at \in 1..22
         /\ p.block = "catch" => p.at \in 1..8
         /\ p.block = "catch" /\ p.at > 1 => pc[c].block = "catch" /\ p.at = pc[c].at + 1
         /\ p.block = "try" /\ p.at > 1 => pc[c].block = "try" /\ p.at = pc[c].at + 1
  BY Moves
<1>2. pc'[c] = p /\ pc' \in [Calls -> Place] /\ \A d \in Calls : d # c => pc'[d] = pc[d]
  BY <1>1 DEF SysTypes
<1>3. QED
  BY <1>1, <1>2

\* What a step does to the snapshots.
LEMMA RouteStep ==
    ASSUME SysInv, NEW c \in Calls, Step(c)
    PROVE  /\ route' \in [Tenants -> Route]
           /\ held' \in [Calls -> Route \cup {None}]
           /\ unsaved' \in [Calls -> BOOLEAN]
           /\ \A x \in Calls : unsaved'[x] => held'[x] # None
<1> USE DEF SysInv
<1>0. SUFFICES /\ route' \in [Tenants -> Route]
               /\ held' \in [Calls -> Route \cup {None}]
               /\ unsaved' \in [Calls -> BOOLEAN]
               /\ \A x \in Calls : x # c => held'[x] = held[x] /\ unsaved'[x] = unsaved[x]
               /\ unsaved'[c] => held'[c] # None
  BY DEF Loaded
<1> DEFINE Goal == /\ route' \in [Tenants -> Route]
                   /\ held' \in [Calls -> Route \cup {None}]
                   /\ unsaved' \in [Calls -> BOOLEAN]
                   /\ \A x \in Calls : x # c => held'[x] = held[x] /\ unsaved'[x] = unsaved[x]
                   /\ unsaved'[c] => held'[c] # None
<1>1. ASSUME UNCHANGED <<route, held, unsaved>> PROVE Goal
  BY <1>1 DEF SysTypes, Loaded
<1>2. ASSUME ReleaseLock(c) \/ Crash(c) PROVE Goal
  <2>1. /\ route' = route
        /\ held' = [held EXCEPT ![c] = None]
        /\ unsaved' = [unsaved EXCEPT ![c] = FALSE]
    BY <1>2 DEF ReleaseLock, Crash, End
  <2>2. QED
    BY <2>1 DEF SysTypes
<1>3. ASSUME Transition(c) PROVE Goal
  <2>1. \/ UNCHANGED <<route, held, unsaved>>
        \/ Flushed(c, held[c], unsaved[c]) \/ NotFlushed(c, held[c], unsaved[c])
    BY <1>3 DEF Transition
  <2>2. /\ held[c] \in Route \cup {None} /\ unsaved[c] \in BOOLEAN
        /\ unsaved[c] => held[c] # None
    BY DEF SysTypes, Loaded
  <2> HIDE DEF Goal
  <2>3. CASE Flushed(c, held[c], unsaved[c]) \/ NotFlushed(c, held[c], unsaved[c])
    BY <2>2, <2>3, FlushTyped DEF Goal
  <2>4. QED
    BY <1>1, <2>1, <2>3
<1>4. ASSUME ResolveRoute(c) PROVE Goal
  <2>1. CASE CreateSnapshot(c, ControlVersion)
    BY <2>1, CreateTyped, StartAssumption
  <2> DEFINE h == IF held[c] = None /\ route[TenantOf[c]].gen = 0 THEN None ELSE Found(c)
  <2>2. CASE held' = [held EXCEPT ![c] = h] /\ UNCHANGED <<route, unsaved>>
    <3>1. h \in Route \cup {None} /\ (unsaved[c] => h # None)
      BY FoundTyped, NoneAssumption DEF Loaded
    <3> HIDE DEF h
    <3>2. QED
      BY <2>2, <3>1 DEF SysTypes
  <2>3. QED
    BY <1>1, <1>4, <2>1, <2>2 DEF ResolveRoute
<1>5. ASSUME PublishRoute(c) PROVE Goal
  <2>1. Found(c).version \in Nat \ {0}
    BY FoundTyped DEF Route
  <2>2. ASSUME NEW v \in Nat \ {0}, CreateSnapshot(c, v) PROVE Goal
    BY <2>2, CreateTyped
  <2>3. QED
    BY <1>1, <1>5, <2>1, <2>2 DEF PublishRoute
<1>6. ASSUME AcquireLock(c) \/ CreateOperation(c) \/ Work(c) PROVE Goal
  BY <1>1, <1>6 DEF AcquireLock, CreateOperation, Work
<1>7. QED
  BY <1>2, <1>3, <1>4, <1>5, <1>6 DEF Step

\* What a step does to the operations and to the copies of them.
RowStep(c) ==
    \/ UNCHANGED <<ops, view>>
    \/ ops' = ops /\ view' = [view EXCEPT ![c] = None] /\ pc'[c] = At("done")
    \/ CreateOperation(c)
    \/ Transition(c)

LEMMA RowSteps ==
    ASSUME SysTypes, NEW c \in Calls, Step(c)
    PROVE  RowStep(c)
<1>1. CASE AcquireLock(c) \/ Work(c) \/ ResolveRoute(c) \/ PublishRoute(c)
  BY <1>1 DEF AcquireLock, Work, ResolveRoute, PublishRoute, RowStep
<1>2. CASE ReleaseLock(c) \/ Crash(c)
  BY <1>2 DEF ReleaseLock, Crash, End, Goto, SysTypes, RowStep
<1>3. QED
  BY <1>1, <1>2 DEF Step, RowStep

LEMMA CreateRow ==
    ASSUME SysTypes, NEW c \in Calls, CreateOperation(c)
    PROVE  /\ ops' \in [Keys -> Operation \cup {None}]
           /\ \A k \in Keys : ops[k] # None => ops'[k] = ops[k]
           /\ \A k \in Keys : k # KeyOf[c] => ops'[k] = ops[k]
           /\ view' \in [Calls -> OperationState \cup {None}]
           /\ \A d \in Calls : d # c => view'[d] = view[d]
           /\ Running(c)' => /\ pc'[c].block = "try" /\ pc'[c].at = 1
                             /\ ops'[KeyOf[c]] # None
                             /\ view'[c] = ops'[KeyOf[c]].state /\ view'[c] \in OperationState
<1> DEFINE k == KeyOf[c]
           row == [tenant |-> TenantOf[c], state |-> "REQUESTED"]
<1>1. k \in Keys /\ TenantOf[c] \in Tenants /\ "REQUESTED" \in OperationState
  BY CallTypes DEF OperationState
<1>2. row \in Operation /\ row # None
  BY <1>1, NoneAssumption DEF Operation
<1>3. CASE /\ ops[k] = None
           /\ ops' = [ops EXCEPT ![k] = row]
           /\ view' = [view EXCEPT ![c] = "REQUESTED"]
           /\ pc' = [pc EXCEPT ![c] = First("try")]
  <2>1. pc'[c] = First("try")
    BY <1>3 DEF SysTypes
  <2>2. pc'[c].block = "try" /\ pc'[c].at = 1
    BY <2>1, Places
  <2>3. ops'[k] = row /\ view'[c] = "REQUESTED"
    BY <1>1, <1>3 DEF SysTypes
  <2>4. row.state = "REQUESTED"
    OBVIOUS
  <2> HIDE DEF row
  <2>5. QED
    BY <1>1, <1>2, <1>3, <2>2, <2>3, <2>4 DEF SysTypes
<1>4. CASE /\ ops[k] # None /\ ops' = ops
           /\ view' = [view EXCEPT ![c] = ops[k].state]
           /\ pc' = [pc EXCEPT ![c] = IF ops[k].state = "FINALIZED" THEN At("release")
                                                                    ELSE First("try")]
  <2>1. ops[k].state \in OperationState
    BY <1>1, <1>4 DEF SysTypes, Operation
  <2>2. pc'[c] \in {At("release"), First("try")}
    BY <1>4 DEF SysTypes
  <2>3. Running(c)' => pc'[c].block = "try" /\ pc'[c].at = 1
    BY <2>2, Places DEF Running
  <2>4. view'[c] = ops[k].state
    BY <1>4 DEF SysTypes
  <2>5. QED
    BY <1>4, <2>1, <2>3, <2>4 DEF SysTypes
<1>5. CASE UNCHANGED <<ops, view>> /\ pc' = [pc EXCEPT ![c] = At("release")]
  <2>1. pc'[c].block = "release"
    BY <1>5, Places DEF SysTypes
  <2>2. QED
    BY <1>5, <2>1 DEF SysTypes, Running
<1>6. QED
  BY <1>3, <1>4, <1>5 DEF CreateOperation, Goto

\* A transition writes the state it was asked for, or none; the copy keeps it
\* where the database refuses it, and then the block ends.
LEMMA TransitionRow ==
    ASSUME SysInv, NEW c \in Calls, Transition(c)
    PROVE  /\ Running(c) /\ Statement(c).state \in OperationState
           /\ view' \in [Calls -> OperationState \cup {None}]
           /\ \A d \in Calls : d # c => view'[d] = view[d]
           /\ \/ /\ ~IsInvalidTransition(view[c], Statement(c).state)
                 /\ view'[c] = Statement(c).state
                 /\ ops' = [ops EXCEPT ![KeyOf[c]].state = Statement(c).state]
              \/ /\ ~IsInvalidTransition(view[c], Statement(c).state)
                 /\ view'[c] = Statement(c).state
                 /\ ops' = ops /\ route' = route /\ Throw(c)
              \/ /\ IsInvalidTransition(view[c], Statement(c).state)
                 /\ UNCHANGED <<view, ops, route>> /\ Throw(c)
<1> DEFINE s == Statement(c).state
<1>1. Running(c) /\ s # None
  BY DEF Transition
<1>2. s \in OperationState
  BY <1>1, Statements DEF SysInv
<1>3. \/ /\ ~IsInvalidTransition(view[c], s)
         /\ view' = [view EXCEPT ![c] = s]
         /\ ops' = [ops EXCEPT ![KeyOf[c]].state = s]
      \/ /\ ~IsInvalidTransition(view[c], s)
         /\ view' = [view EXCEPT ![c] = s]
         /\ ops' = ops /\ route' = route /\ Throw(c)
      \/ /\ IsInvalidTransition(view[c], s)
         /\ UNCHANGED <<view, ops, route>> /\ Throw(c)
  BY DEF Transition, NotFlushed
<1> HIDE DEF s
<1>4. QED
  BY <1>1, <1>2, <1>3 DEF SysInv, SysTypes, s

\* Writing a state keeps the rows rows, of their tenants.
LEMMA WriteRow ==
    ASSUME SysTypes, NEW k \in Keys, ops[k] # None, NEW s \in OperationState,
           ops' = [ops EXCEPT ![k].state = s]
    PROVE  /\ ops' \in [Keys -> Operation \cup {None}]
           /\ ops'[k] # None /\ ops'[k].state = s
           /\ \A x \in Keys : x # k => ops'[x] = ops[x]
<1> DEFINE row == [ops[k] EXCEPT !.state = s]
<1>1. ops[k] \in Operation
  BY DEF SysTypes
<1>2. row \in Operation /\ row.state = s
  BY <1>1 DEF Operation
<1>3. row # None
  BY <1>2, NoneAssumption
<1>4. ops' = [ops EXCEPT ![k] = row]
  OBVIOUS
<1> HIDE DEF row
<1>5. QED
  BY <1>2, <1>3, <1>4 DEF SysTypes

LEMMA OpsStep ==
    ASSUME SysInv, NEW c \in Calls, Step(c)
    PROVE  /\ ops' \in [Keys -> Operation \cup {None}]
           /\ view' \in [Calls -> OperationState \cup {None}]
           /\ \A k \in Keys : ops[k] # None => ops'[k] # None
           /\ \A k \in Keys : k # KeyOf[c] => ops'[k] = ops[k]
           /\ \A d \in Calls : d # c => view'[d] = view[d]
           /\ Running(c)' => ops'[KeyOf[c]] # None /\ view'[c] # None
<1> DEFINE Goal == /\ ops' \in [Keys -> Operation \cup {None}]
                   /\ view' \in [Calls -> OperationState \cup {None}]
                   /\ \A k \in Keys : ops[k] # None => ops'[k] # None
                   /\ \A k \in Keys : k # KeyOf[c] => ops'[k] = ops[k]
                   /\ \A d \in Calls : d # c => view'[d] = view[d]
                   /\ Running(c)' => ops'[KeyOf[c]] # None /\ view'[c] # None
<1>0. KeyOf[c] \in Keys
  BY CallTypes
<1>1. ASSUME CreateOperation(c) PROVE Goal
  <2>1. SysTypes
    BY DEF SysInv
  <2>2. \A s \in OperationState : s # None
    BY NoneAssumption
  <2>3. /\ ops' \in [Keys -> Operation \cup {None}]
        /\ \A k \in Keys : ops[k] # None => ops'[k] = ops[k]
        /\ \A k \in Keys : k # KeyOf[c] => ops'[k] = ops[k]
        /\ view' \in [Calls -> OperationState \cup {None}]
        /\ \A d \in Calls : d # c => view'[d] = view[d]
        /\ Running(c)' => ops'[KeyOf[c]] # None /\ view'[c] \in OperationState
    BY <1>1, <2>1, CreateRow
  <2>4. QED
    BY <2>2, <2>3
<1>2. ASSUME Transition(c) PROVE Goal
  <2>1. Running(c) /\ Statement(c).state \in OperationState
    BY <1>2, TransitionRow
  <2>2. ops[KeyOf[c]] # None /\ view[c] # None
    BY <2>1 DEF SysInv, Loaded
  <2>3. Statement(c).state # None
    BY <2>1, NoneAssumption
  <2>4. CASE ops' = [ops EXCEPT ![KeyOf[c]].state = Statement(c).state]
             /\ view'[c] = Statement(c).state
    <3>1. /\ ops' \in [Keys -> Operation \cup {None}]
          /\ ops'[KeyOf[c]] # None
          /\ \A x \in Keys : x # KeyOf[c] => ops'[x] = ops[x]
      BY <1>0, <2>1, <2>2, <2>4, WriteRow DEF SysInv
    <3>2. QED
      BY <1>2, <2>3, <2>4, <3>1, TransitionRow
  <2>5. CASE ops' = ops /\ view'[c] \in {view[c], Statement(c).state}
    BY <1>2, <2>2, <2>3, <2>5, TransitionRow DEF SysInv, SysTypes
  <2>6. QED
    BY <1>2, <2>4, <2>5, TransitionRow
<1>3. ASSUME UNCHANGED <<ops, view>>, ~CreateOperation(c) PROVE Goal
  <2>1. Running(c)' => Running(c)
    <3>1. CASE AcquireLock(c) \/ ReleaseLock(c) \/ Crash(c)
      BY <3>1, Places DEF AcquireLock, ReleaseLock, Crash, End, Goto, Running, SysInv, SysTypes
    <3>2. CASE Transition(c) \/ Work(c) \/ ResolveRoute(c) \/ PublishRoute(c)
      BY <3>2, Runs
    <3>3. QED
      BY <1>3, <3>1, <3>2 DEF Step
  <2>2. QED
    BY <1>3, <2>1 DEF SysInv, SysTypes, Loaded
<1>4. ASSUME ops' = ops, view' = [view EXCEPT ![c] = None], pc'[c] = At("done") PROVE Goal
  <2>1. ~Running(c)'
    BY <1>4, Places DEF Running
  <2>2. QED
    BY <1>4, <2>1 DEF SysInv, SysTypes
<1>5. QED
  BY <1>1, <1>2, <1>3, <1>4, RowSteps DEF RowStep, SysInv

\* The schema never has more migrations than there are.
Bounded == level <= StartLevel + Pending

LEMMA LevelStep ==
    ASSUME SysInv, Bounded, NEW c \in Calls, Step(c)
    PROVE  /\ level' \in Nat /\ Bounded'
           /\ stats' \in [Calls -> Nat \cup {None}]
           /\ level' # level => Work(c) /\ level' = LevelAfter(Statement(c).do)
<1>0. level \in Nat /\ StartLevel \in Nat /\ Pending \in Nat /\ StartLevel + Pending \in Nat
  BY StartAssumption DEF SysInv, SysTypes
<1>1. CASE Work(c)
  <2>1. LevelAfter(Statement(c).do) \in Nat /\ LevelAfter(Statement(c).do) <= StartLevel + Pending
    BY <1>0 DEF LevelAfter, Bounded
  <2>2. \/ UNCHANGED <<level, stats>>
        \/ /\ level' = LevelAfter(Statement(c).do)
           /\ stats' = [stats EXCEPT ![c] = IF Statement(c).do = "stats" THEN level ELSE @]
    BY <1>1 DEF Work
  <2>3. stats' \in [Calls -> Nat \cup {None}]
    BY <1>0, <2>2 DEF SysInv, SysTypes
  <2>4. QED
    BY <1>0, <1>1, <2>1, <2>2, <2>3 DEF Bounded
<1>2. CASE level' = level /\ (stats' = stats \/ stats' = [stats EXCEPT ![c] = None])
  BY <1>2 DEF SysInv, SysTypes, Bounded
<1>3. QED
  BY <1>1, <1>2 DEF Step, AcquireLock, CreateOperation, Transition, ResolveRoute, PublishRoute,
     ReleaseLock, Crash, End

LEMMA LockStep ==
    ASSUME SysInv, NEW c \in Calls, Step(c)
    PROVE  /\ lock' \in [Tenants -> BOOLEAN]
           /\ ~Live(c) => ~lock[TenantOf[c]]
  BY CallTypes, Runs DEF Step, AcquireLock, CreateOperation, Transition, Work, ResolveRoute,
     PublishRoute, ReleaseLock, Crash, SysInv, SysTypes, Live, Running

LEMMA SysInvStep ==
    ASSUME SysInv, Bounded, [Act]_sys
    PROVE  SysInv' /\ Bounded'
<1>1. ASSUME NEW c \in Calls, Step(c) PROVE SysInv' /\ Bounded'
  <2> USE DEF SysInv
  <2>1. pc' \in [Calls -> Place] /\ Located'
    BY <1>1, OthersStay DEF Located
  <2>2. /\ route' \in [Tenants -> Route]
        /\ held' \in [Calls -> Route \cup {None}]
        /\ unsaved' \in [Calls -> BOOLEAN]
        /\ \A x \in Calls : unsaved'[x] => held'[x] # None
    BY <1>1, RouteStep
  <2>3. /\ ops' \in [Keys -> Operation \cup {None}]
        /\ view' \in [Calls -> OperationState \cup {None}]
    BY <1>1, OpsStep
  <2>4. level' \in Nat /\ Bounded' /\ stats' \in [Calls -> Nat \cup {None}]
    BY <1>1, LevelStep
  <2>5. lock' \in [Tenants -> BOOLEAN]
    BY <1>1, LockStep
  <2>6. ASSUME NEW d \in Calls, Running(d)'
        PROVE  ops'[KeyOf[d]] # None /\ view'[d] # None
    <3>1. CASE d = c
      BY <1>1, <2>6, <3>1, OpsStep
    <3>2. CASE d # c
      <4>1. Running(d) /\ view'[d] = view[d]
        BY <1>1, <2>6, <3>2, OthersStay, OpsStep DEF Running
      <4>2. KeyOf[d] \in Keys /\ ops[KeyOf[d]] # None /\ view[d] # None
        BY <4>1, CallTypes DEF Loaded
      <4>3. QED
        BY <1>1, <4>1, <4>2, OpsStep
    <3>3. QED
      BY <3>1, <3>2
  <2>7. SysTypes'
    BY <2>1, <2>2, <2>3, <2>4, <2>5 DEF SysTypes
  <2>8. Loaded'
    BY <2>2, <2>6 DEF Loaded
  <2>9. QED
    BY <2>1, <2>4, <2>7, <2>8
<1>2. ASSUME NEW t \in Tenants, ExpireLock(t) PROVE SysInv' /\ Bounded'
  <2>1. /\ UNCHANGED <<level, route, ops, pc, view, held, unsaved, stats>>
        /\ lock' = [lock EXCEPT ![t] = FALSE]
    BY <1>2 DEF ExpireLock
  <2>2. QED
    BY <2>1 DEF SysInv, SysTypes, Located, Loaded, Running, Bounded
<1>3. CASE UNCHANGED sys
  BY <1>3 DEF sys, SysInv, SysTypes, Located, Loaded, Running, Bounded
<1>4. QED
  BY <1>1, <1>2, <1>3, ActSteps

-----------------------------------------------------------------------------
\* The history.

HistoryTypes == exposed \subseteq Tenants /\ contested \subseteq Keys /\ reverted \subseteq Keys

\* A call at work has its lock or its tenant is exposed, and two for one tenant
\* leave it exposed.
Guarded ==
    /\ \A c \in Calls : Live(c) => lock[TenantOf[c]] \/ TenantOf[c] \in exposed
    /\ \A c, d \in Calls : Live(c) /\ Live(d) /\ c # d /\ TenantOf[c] = TenantOf[d] =>
          TenantOf[c] \in exposed

\* A key two calls work with is contested.
Parted == \A c, d \in Calls : Live(c) /\ Live(d) /\ c # d /\ KeyOf[c] = KeyOf[d] =>
             KeyOf[c] \in contested

LEMMA HistoryNext ==
    ASSUME HistoryTypes, Next
    PROVE  HistoryTypes'
<1>1. exposed' \subseteq Tenants
  BY DEF Next, Observe
<1>2. contested' \subseteq Keys
  BY DEF Next, Observe, HistoryTypes
<1>3. \A c \in Calls : KeyOf[c] \in Keys
  BY CallTypes
<1>4. reverted' \subseteq Keys
  BY <1>3 DEF Next, Observe, HistoryTypes
<1>5. QED
  BY <1>1, <1>2, <1>4 DEF HistoryTypes

\* Only a call whose tenant has no lock begins.
LEMMA Begins ==
    ASSUME SysInv, Act, NEW c \in Calls, ~Live(c), Live(c)'
    PROVE  ~lock[TenantOf[c]] /\ \A d \in Calls : d # c => pc'[d] = pc[d]
<1>1. CASE \E d \in Calls : Step(d)
  <2>1. PICK d \in Calls : Step(d)
    BY <1>1
  <2>2. \A x \in Calls : x # d => pc'[x] = pc[x]
    BY <2>1, OthersStay DEF SysInv
  <2>3. d = c
    BY <2>2 DEF Live
  <2>4. QED
    BY <2>1, <2>2, <2>3, LockStep
<1>2. CASE UNCHANGED pc
  BY <1>2 DEF Live
<1>3. QED
  BY <1>1, <1>2 DEF Act, ExpireLock, Rest, sys

LEMMA GuardedNext ==
    ASSUME SysInv, Guarded, Next
    PROVE  Guarded'
<1>0. Act /\ Observe
  BY DEF Next
<1>1. ASSUME NEW c \in Calls, Live(c)'
      PROVE  /\ TenantOf[c] \in exposed => TenantOf[c] \in exposed'
             /\ lock'[TenantOf[c]] \/ TenantOf[c] \in exposed'
  <2>1. TenantOf[c] \in Tenants /\ c \in Busy(TenantOf[c])'
    BY <1>1, CallTypes DEF Busy
  <2>2. Busy(TenantOf[c])' # {}
    BY <2>1
  <2>3. QED
    BY <1>0, <2>1, <2>2 DEF Observe
<1>2. ASSUME NEW c \in Calls, NEW d \in Calls, Live(c)', Live(d)', c # d,
             TenantOf[c] = TenantOf[d]
      PROVE  TenantOf[c] \in exposed'
  <2>1. CASE Live(c) /\ Live(d)
    BY <1>1, <1>2, <2>1 DEF Guarded
  <2>2. CASE ~Live(c)
    <3>1. ~lock[TenantOf[c]] /\ pc'[d] = pc[d]
      BY <1>0, <1>2, <2>2, Begins
    <3>2. Live(d)
      BY <1>2, <3>1 DEF Live
    <3>3. QED
      BY <1>1, <1>2, <3>1, <3>2 DEF Guarded
  <2>3. CASE ~Live(d)
    <3>1. ~lock[TenantOf[d]] /\ pc'[c] = pc[c]
      BY <1>0, <1>2, <2>3, Begins
    <3>2. Live(c)
      BY <1>2, <3>1 DEF Live
    <3>3. QED
      BY <1>1, <1>2, <3>1, <3>2 DEF Guarded
  <2>4. QED
    BY <2>1, <2>2, <2>3
<1>3. QED
  BY <1>1, <1>2 DEF Guarded

LEMMA PartedNext ==
    ASSUME Guarded', Next
    PROVE  Parted' /\ contested \subseteq contested'
<1>1. contested' = contested \cup {k \in Keys : Together(k)'}
  BY DEF Next, Observe
<1>2. ASSUME NEW c \in Calls, NEW d \in Calls, Live(c)', Live(d)', c # d, KeyOf[c] = KeyOf[d]
      PROVE  Together(KeyOf[c])'
  <2>1. TenantOf[c] # TenantOf[d] \/ TenantOf[c] \in exposed'
    BY <1>2 DEF Guarded
  <2>2. QED
    BY <1>2, <2>1 DEF Together
<1>3. QED
  BY <1>1, <1>2, CallTypes DEF Parted

-----------------------------------------------------------------------------
\* The copies and the record.

\* What the copy of a call that works alone with its key says: the row, or what
\* the row was refused.
CopyOf(c) ==
    LET row == ops[KeyOf[c]] IN
    /\ pc[c].block = "try" => view[c] = row.state
    /\ pc[c].block = "catch" /\ pc[c].at > 1 => view[c] = row.state
    /\ pc[c].block = "catch" => view[c] = row.state \/ ~IsInvalidTransition(row.state, view[c])

Current == \A c \in Calls : Running(c) /\ KeyOf[c] \notin contested => CopyOf(c)

\* The try block goes on only while the operation is not rolled back, the catch
\* block only after it is.
Recorded ==
    \A c \in Calls : /\ pc[c].block = "try" /\ pc[c].at > 1 => view[c] # "ROLLBACK"
                     /\ pc[c].block = "catch" /\ pc[c].at > 1 => view[c] = "ROLLBACK"

\* A statement that throws ends the block.
LEMMA ThrowLeaves ==
    ASSUME SysTypes, NEW c \in Calls, Throw(c)
    PROVE  /\ pc[c].block = "try" => pc'[c].block = "catch" /\ pc'[c].at = 1
           /\ pc[c].block # "try" => pc'[c].block = "release"
<1>1. pc[c].block = "try" => pc'[c] = First("catch")
  BY DEF Throw, Goto, SysTypes
<1>2. pc[c].block # "try" => pc'[c] = At("release")
  BY DEF Throw, Goto, SysTypes
<1>3. QED
  BY <1>1, <1>2, Places

LEMMA AdvanceStays ==
    ASSUME SysInv, NEW c \in Calls, Running(c), Advance(c)
    PROVE  \/ pc'[c].block = "release"
           \/ pc'[c].block = pc[c].block /\ pc'[c].at = pc[c].at + 1
<1>1. PICK p \in Place : /\ pc' = [pc EXCEPT ![c] = p]
                        /\ \/ p.block = "release"
                           \/ p.block = pc[c].block /\ p.at = pc[c].at + 1
  BY Advances DEF SysInv
<1>2. pc'[c] = p
  BY <1>1 DEF SysInv, SysTypes
<1>3. QED
  BY <1>1, <1>2

\* Within a block, a call goes on by a transition that is legal, or by work.
LEMMA GoesOn ==
    ASSUME SysInv, NEW c \in Calls, Step(c),
           pc'[c].block \in {"try", "catch"}, pc'[c].at > 1
    PROVE  /\ Running(c) /\ pc[c].block = pc'[c].block
           /\ \/ /\ Transition(c) /\ ~Throw(c)
                 /\ Statement(c).state # None /\ view'[c] = Statement(c).state
              \/ ~Transition(c) /\ pc[c].at > 1 /\ UNCHANGED <<ops, view>>
<1> USE DEF SysInv
<1>1. pc[c].block = pc'[c].block /\ pc'[c].at = pc[c].at + 1
  BY OthersStay
<1>2. Running(c)
  BY <1>1 DEF Running
<1>3. Transition(c) \/ Work(c) \/ ResolveRoute(c) \/ PublishRoute(c)
  <2>1. ~AcquireLock(c) /\ ~CreateOperation(c) /\ ~ReleaseLock(c)
    BY <1>2 DEF AcquireLock, CreateOperation, ReleaseLock, Running
  <2>2. ~Crash(c)
    BY <1>1, <1>2, Places DEF Crash, End, Goto, Running, SysTypes
  <2>3. QED
    BY <2>1, <2>2 DEF Step
<1>4. ~Throw(c)
  BY <1>1, <1>2, ThrowLeaves DEF Running
<1>5. CASE Transition(c)
  <2>1. Statement(c).state # None /\ view'[c] = Statement(c).state
    BY <1>4, <1>5, TransitionRow DEF Transition
  <2>2. QED
    BY <1>1, <1>2, <1>4, <1>5, <2>1
<1>6. CASE (Work(c) \/ ResolveRoute(c) \/ PublishRoute(c)) /\ ~Transition(c)
  <2>1. UNCHANGED <<ops, view>> /\ Statement(c).do # "transition"
    BY <1>6 DEF Work, ResolveRoute, PublishRoute
  <2>2. pc[c].at # 1
    BY <1>2, <2>1, TryBegins, CatchBegins DEF Statement, Block, Running
  <2>3. pc[c].at \in 1..22
    BY <1>2 DEF Located, Running
  <2>4. QED
    BY <1>1, <1>2, <1>6, <2>1, <2>2, <2>3
<1>7. QED
  BY <1>3, <1>5, <1>6

LEMMA RecordedStep ==
    ASSUME SysInv, Recorded, NEW c \in Calls, Step(c)
    PROVE  Recorded'
<1> USE DEF SysInv
<1>1. ASSUME pc'[c].block = "try", pc'[c].at > 1
      PROVE  view'[c] # "ROLLBACK"
  <2>1. Running(c) /\ pc[c].block = "try"
    BY <1>1, GoesOn
  <2>2. Statement(c).state # "ROLLBACK"
    BY <2>1, Statements, TryStatements
  <2>3. QED
    BY <1>1, <2>1, <2>2, GoesOn DEF Recorded
<1>2. ASSUME pc'[c].block = "catch", pc'[c].at > 1
      PROVE  view'[c] = "ROLLBACK"
  <2>1. Running(c) /\ pc[c].block = "catch"
    BY <1>2, GoesOn
  <2>2. Statement(c).state \in {"ROLLBACK", None}
    BY <2>1, Statements, CatchStatements
  <2>3. QED
    BY <1>2, <2>1, <2>2, GoesOn DEF Recorded
<1>3. \A d \in Calls : d # c => pc'[d] = pc[d] /\ view'[d] = view[d]
  BY OthersStay, OpsStep
<1>4. QED
  BY <1>1, <1>2, <1>3 DEF Recorded

\* Where a call that throws comes to its catch block, and what of.
LEMMA EntersCatch ==
    ASSUME SysInv, NEW c \in Calls, Step(c), pc'[c].block = "catch", ~(pc'[c].at > 1)
    PROVE  /\ pc[c].block = "try"
           /\ Transition(c) \/ UNCHANGED <<ops, view>>
<1>1. ~AcquireLock(c) /\ ~CreateOperation(c) /\ ~ReleaseLock(c) /\ ~Crash(c)
  BY Places DEF AcquireLock, CreateOperation, ReleaseLock, Crash, End, Goto, SysInv, SysTypes
<1>2. Transition(c) \/ Work(c) \/ ResolveRoute(c) \/ PublishRoute(c)
  BY <1>1 DEF Step
<1>3. Running(c) /\ (Advance(c) \/ Throw(c))
  BY <1>2, Runs
<1>4. CASE Throw(c)
  BY <1>2, <1>3, <1>4, ThrowLeaves DEF Running, Work, ResolveRoute, PublishRoute, SysInv
<1>5. CASE Advance(c)
  <2>3. pc'[c].block = "catch" => pc'[c].at = pc[c].at + 1
    BY <1>3, <1>5, AdvanceStays
  <2>4. pc[c].at \in 1..22
    BY <1>3 DEF Running, SysInv, Located
  <2>5. QED
    BY <2>3, <2>4
<1>6. QED
  BY <1>3, <1>4, <1>5

LEMMA OwnCopy ==
    ASSUME SysInv, NEW c \in Calls, Step(c), Running(c) => CopyOf(c), Running(c)'
    PROVE  CopyOf(c)'
<1> DEFINE k == KeyOf[c]
<1>1. k \in Keys
  BY CallTypes
<1>2. CASE CreateOperation(c)
  <2>1. /\ pc'[c].block = "try" /\ view'[c] = ops'[k].state
    BY <1>2, CreateRow DEF SysInv
  <2>2. QED
    BY <2>1 DEF CopyOf
<1>3. CASE Transition(c)
  <2>1. Running(c) /\ Statement(c).state \in OperationState
    BY <1>3, TransitionRow
  <2>2. ops[k] # None
    BY <2>1 DEF SysInv, Loaded
  <2>3. CASE /\ view'[c] = Statement(c).state
             /\ ops' = [ops EXCEPT ![k].state = Statement(c).state]
    <3>1. ops'[k].state = Statement(c).state
      BY <1>1, <2>1, <2>2, <2>3, WriteRow DEF SysInv
    <3>2. QED
      BY <2>3, <3>1 DEF CopyOf
  <2>4. CASE Throw(c) /\ ops' = ops
    <3>1. pc[c].block = "try" /\ pc'[c].block = "catch" /\ pc'[c].at = 1
      BY <2>1, <2>4, ThrowLeaves DEF Running, SysInv
    <3>2. view[c] = ops[k].state
      BY <2>1, <3>1 DEF CopyOf
    <3>3. view'[c] = ops'[k].state \/ ~IsInvalidTransition(ops'[k].state, view'[c])
      BY <1>3, <2>4, <3>2, TransitionRow
    <3>4. ~(pc'[c].at > 1)
      BY <3>1
    <3>5. QED
      BY <3>1, <3>3, <3>4 DEF CopyOf
  <2>5. QED
    BY <1>3, <2>3, <2>4, TransitionRow
<1>4. CASE ~Transition(c) /\ UNCHANGED <<ops, view>> /\ Running(c)
  <2>1. CASE pc'[c].at > 1
    <3>1. pc[c].block = pc'[c].block /\ pc[c].at > 1
      BY <1>4, <2>1, GoesOn DEF Running
    <3>2. QED
      BY <1>4, <3>1 DEF CopyOf
  <2>2. CASE ~(pc'[c].at > 1) /\ pc'[c].block = "catch"
    <3>1. pc[c].block = "try"
      BY <2>2, EntersCatch
    <3>2. view[c] = ops[k].state
      BY <1>4, <3>1 DEF CopyOf
    <3>3. QED
      BY <1>4, <2>2, <3>2 DEF CopyOf
  <2>3. CASE ~(pc'[c].at > 1) /\ pc'[c].block = "try"
    <3>1. pc[c].block = "try"
      <4>1. ~CreateOperation(c) /\ ~AcquireLock(c) /\ ~ReleaseLock(c) /\ ~Crash(c)
        BY <1>4, <2>3, Places DEF CreateOperation, AcquireLock, ReleaseLock, Crash, End, Goto,
           Running, SysInv, SysTypes
      <4>2. Advance(c) \/ Throw(c)
        BY <4>1, Runs DEF Step
      <4>3. ~Throw(c)
        BY <1>4, <2>3, ThrowLeaves DEF Running, SysInv
      <4>4. QED
        BY <1>4, <2>3, <4>2, <4>3, AdvanceStays
    <3>2. QED
      BY <1>4, <2>3, <3>1 DEF CopyOf
  <2>4. QED
    BY <2>1, <2>2, <2>3 DEF Running
<1>5. ~CreateOperation(c) => Running(c)
  <2>1. CASE AcquireLock(c) \/ ReleaseLock(c) \/ Crash(c)
    BY <2>1, Places DEF AcquireLock, ReleaseLock, Crash, End, Goto, Running, SysInv, SysTypes
  <2>2. CASE Transition(c) \/ Work(c) \/ ResolveRoute(c) \/ PublishRoute(c)
    BY <2>2, Runs
  <2>3. QED
    BY <2>1, <2>2 DEF Step
<1>6. CASE pc'[c] = At("done")
  BY <1>6, Places DEF Running
<1>7. QED
  BY <1>2, <1>3, <1>4, <1>5, <1>6, RowSteps DEF RowStep, SysInv

LEMMA CurrentStep ==
    ASSUME SysInv, Current, Parted, contested \subseteq contested', NEW c \in Calls, Step(c)
    PROVE  Current'
<1>1. SUFFICES ASSUME NEW d \in Calls, Running(d)', KeyOf[d] \notin contested'
               PROVE  CopyOf(d)'
  BY DEF Current
<1>2. KeyOf[d] \notin contested
  BY <1>1
<1>3. CASE d = c
  BY <1>1, <1>2, <1>3, OwnCopy DEF Current
<1>4. CASE d # c
  <2>1. pc'[d] = pc[d] /\ view'[d] = view[d] /\ Running(d)
    BY <1>1, <1>4, OthersStay, OpsStep DEF Running, SysInv
  <2>2. ops'[KeyOf[d]] = ops[KeyOf[d]]
    <3>1. CASE KeyOf[d] # KeyOf[c]
      BY <3>1, CallTypes, OpsStep
    <3>2. CASE KeyOf[d] = KeyOf[c]
      <4>1. ~Live(c)
        BY <1>2, <1>4, <2>1, <3>2 DEF Parted, Live, Running
      <4>2. AcquireLock(c)
        BY <4>1, Runs DEF Step, CreateOperation, ReleaseLock, Crash, Live, Running
      <4>3. QED
        BY <4>2 DEF AcquireLock
    <3>3. QED
      BY <3>1, <3>2
  <2>3. CopyOf(d)
    BY <1>2, <2>1 DEF Current
  <2>4. QED
    BY <2>1, <2>2, <2>3 DEF CopyOf
<1>5. QED
  BY <1>3, <1>4

-----------------------------------------------------------------------------
\* What is taken back.

\* A call about to revert the schema.
Reverting(c) == pc[c].block = "catch" /\ pc[c].at = 2

\* An operation that took a migration back is rolled back for good, and no call
\* is about to revert the schema for it.
TakenBack ==
    \A k \in reverted \ contested :
        /\ ops[k] # None /\ ops[k].state = "ROLLBACK"
        /\ \A c \in Calls : KeyOf[c] = k => ~Reverting(c)

\* A call comes to revert the schema only if the row was not rolled back before:
\* the transition from ROLLBACK to itself is refused.
LEMMA NoSecondRollback ==
    ASSUME SysInv, Current, NEW c \in Calls, Step(c), Reverting(c)', KeyOf[c] \notin contested
    PROVE  ops[KeyOf[c]].state # "ROLLBACK"
<1>1. pc'[c].block = "catch" /\ pc'[c].at = 2
  BY DEF Reverting
<1>2. pc[c].block = "catch" /\ 2 = pc[c].at + 1 /\ pc[c].at \in 1..8
  BY <1>1, OthersStay DEF SysInv, Located
<1>3. pc[c].at = 1 /\ Running(c)
  BY <1>2 DEF Running
<1>4. Transition(c) /\ ~Throw(c)
  BY <1>1, <1>3, GoesOn
<1>5. Statement(c).state = "ROLLBACK"
  BY <1>2, <1>3, Statements, CatchBegins DEF SysInv
<1>6. ~IsInvalidTransition(view[c], "ROLLBACK")
  BY <1>4, <1>5, TransitionRow
<1>7. view[c] # "ROLLBACK" /\ view[c] # "FINALIZED"
  BY <1>6, NotRolledBackTwice
<1>8. view[c] = ops[KeyOf[c]].state \/ ~IsInvalidTransition(ops[KeyOf[c]].state, view[c])
  BY <1>2, <1>3 DEF Current, CopyOf
<1>9. QED
  BY <1>7, <1>8, AfterRollback

\* A rolled back row is not moved any more.
LEMMA StaysRolledBack ==
    ASSUME SysInv, Current, Recorded, NEW c \in Calls, Step(c),
           NEW k \in Keys \ contested, ops[k] # None, ops[k].state = "ROLLBACK"
    PROVE  ops'[k] # None /\ ops'[k].state = "ROLLBACK"
<1>1. KeyOf[c] \in Keys
  BY CallTypes
<1>2. CASE ops'[k] = ops[k]
  BY <1>2
<1>3. CASE KeyOf[c] # k
  BY <1>2, <1>3, OpsStep
<1>4. CASE KeyOf[c] = k /\ CreateOperation(c)
  BY <1>2, <1>4, CreateRow DEF SysInv
<1>5. CASE KeyOf[c] = k /\ Transition(c)
  <2> DEFINE s == Statement(c).state
  <2>1. Running(c) /\ s \in OperationState
    BY <1>5, TransitionRow
  <2>2. ASSUME ~IsInvalidTransition(view[c], s) PROVE s = "ROLLBACK"
    <3>1. CASE pc[c].block = "try"
      <4>1. view[c] = "ROLLBACK"
        BY <1>5, <2>1, <3>1 DEF Current, CopyOf
      <4>2. pc[c].at = 1
        BY <3>1, <4>1 DEF Recorded, SysInv, Located
      <4>3. s = "PREPARING"
        BY <2>1, <3>1, <4>2, Statements, TryBegins DEF SysInv
      <4>4. QED
        BY <2>2, <4>1, <4>3, NotRolledBackTwice
    <3>2. CASE pc[c].block = "catch"
      BY <2>1, <3>2, Statements, CatchStatements, NoneAssumption DEF SysInv
    <3>3. QED
      BY <2>1, <3>1, <3>2 DEF Running
  <2>3. CASE ops' = [ops EXCEPT ![k].state = s] /\ ~IsInvalidTransition(view[c], s)
    BY <2>1, <2>2, <2>3, WriteRow DEF SysInv
  <2>4. QED
    BY <1>2, <1>5, <2>3, TransitionRow
<1>6. QED
  BY <1>2, <1>3, <1>4, <1>5, RowSteps DEF RowStep, SysInv

\* The schema loses a migration only where a call reverts it.
LEMMA Reverts ==
    ASSUME SysInv, Bounded, NEW c \in Calls, Step(c), level' < level
    PROVE  Reverting(c) /\ UNCHANGED ops /\ ~Reverting(c)'
<1>1. level \in Nat /\ StartLevel \in Nat /\ Pending \in Nat
  BY StartAssumption DEF SysInv, SysTypes
<1>2. Work(c) /\ level' = LevelAfter(Statement(c).do)
  BY <1>1, LevelStep
<1>3. Statement(c).do = "down"
  BY <1>1, <1>2 DEF LevelAfter, Bounded
<1>4. Running(c) /\ UNCHANGED ops
  BY <1>2 DEF Work
<1>5. pc[c].block = "catch"
  BY <1>3, <1>4, Statements, TryStatements DEF Running, SysInv
<1>6. pc[c].at \in 1..8 /\ Statement(c) = Catch[pc[c].at]
  BY <1>4, <1>5, Statements DEF SysInv
<1>7. pc[c].at # 1 /\ ~(pc[c].at > 2)
  BY <1>3, <1>6, CatchBegins, CatchStatements
<1>8. pc[c].at = 2
  BY <1>6, <1>7
<1>9. ~Reverting(c)'
  <2>1. SUFFICES ASSUME pc'[c].block = "catch", pc'[c].at = 2 PROVE FALSE
    BY DEF Reverting
  <2>2. pc'[c].at = pc[c].at + 1
    BY <2>1, OthersStay DEF SysInv
  <2>3. QED
    BY <1>8, <2>1, <2>2
<1>10. QED
  BY <1>4, <1>5, <1>8, <1>9 DEF Reverting

Inv == /\ SysInv /\ Bounded
       /\ HistoryTypes /\ Guarded /\ Parted
       /\ Current /\ Recorded /\ TakenBack

LEMMA TakenBackNext ==
    ASSUME Inv, Parted', contested \subseteq contested', Next
    PROVE  TakenBack'
<1> USE DEF Inv
<1>0. Act /\ Observe
  BY DEF Next
<1>1. ASSUME NEW c \in Calls, Step(c) PROVE TakenBack'
  <2>1. SUFFICES ASSUME NEW k \in reverted' \ contested'
                 PROVE  /\ ops'[k] # None /\ ops'[k].state = "ROLLBACK"
                        /\ \A d \in Calls : KeyOf[d] = k => ~Reverting(d)'
    BY DEF TakenBack
  <2>2. k \notin contested
    BY <2>1
  <2>3. CASE k \in reverted
    <3>1. k \in Keys /\ ops[k] # None /\ ops[k].state = "ROLLBACK"
      BY <2>2, <2>3 DEF TakenBack, HistoryTypes
    <3>2. ops'[k] # None /\ ops'[k].state = "ROLLBACK"
      BY <1>1, <2>2, <3>1, StaysRolledBack
    <3>3. ASSUME NEW d \in Calls, KeyOf[d] = k PROVE ~Reverting(d)'
      <4>1. CASE d = c
        BY <1>1, <2>2, <3>1, <3>3, <4>1, NoSecondRollback
      <4>2. CASE d # c
        BY <1>1, <2>2, <2>3, <3>3, <4>2, OthersStay DEF TakenBack, Reverting, SysInv
      <4>3. QED
        BY <4>1, <4>2
    <3>4. QED
      BY <3>2, <3>3
  <2>4. CASE k \notin reverted
    <3>1. level' < level /\ k \in {KeyOf[d] : d \in {e \in Calls : pc'[e] # pc[e]}}
      BY <1>0, <2>1, <2>4 DEF Observe
    <3>2. KeyOf[c] = k
      BY <1>1, <3>1, OthersStay DEF SysInv
    <3>3. Reverting(c) /\ UNCHANGED ops /\ ~Reverting(c)'
      BY <1>1, <3>1, Reverts
    <3>4. Running(c) /\ Live(c) /\ pc[c].at > 1
      BY <3>3 DEF Reverting, Running, Live
    <3>5. ops[k] # None /\ ops[k].state = "ROLLBACK"
      BY <2>2, <3>2, <3>3, <3>4 DEF Reverting, Recorded, Current, CopyOf, SysInv, Loaded
    <3>6. ASSUME NEW d \in Calls, KeyOf[d] = k, d # c PROVE ~Reverting(d)'
      <4>1. ~Live(d)
        BY <2>2, <3>2, <3>4, <3>6 DEF Parted
      <4>2. pc'[d] = pc[d]
        BY <1>1, <3>6, OthersStay DEF SysInv
      <4>3. QED
        BY <4>1, <4>2 DEF Reverting, Live
    <3>7. QED
      BY <3>3, <3>5, <3>6
  <2>5. QED
    BY <2>3, <2>4
<1>2. CASE UNCHANGED <<level, ops, pc>>
  <2>0. ~(level' < level)
    BY <1>2 DEF SysInv, SysTypes
  <2>1. reverted' = reverted
    BY <1>0, <2>0 DEF Observe
  <2>2. QED
    BY <1>2, <2>1 DEF TakenBack, Reverting
<1>3. QED
  BY <1>0, <1>1, <1>2 DEF Act, ExpireLock, Rest, sys

LEMMA InvNext == Inv /\ [Next]_vars => Inv'
<1> SUFFICES ASSUME Inv, [Next]_vars PROVE Inv'
  OBVIOUS
<1> USE DEF Inv
<1>1. CASE UNCHANGED vars
  <2>1. UNCHANGED sys /\ UNCHANGED <<exposed, contested, reverted>>
    BY <1>1 DEF vars, sys
  <2>2. SysInv' /\ Bounded'
    BY <2>1, SysInvStep
  <2>3. UNCHANGED <<pc, ops, view, lock>>
    BY <2>1 DEF sys
  <2>4. QED
    BY <2>1, <2>2, <2>3 DEF HistoryTypes, Guarded, Parted, Current, Recorded, TakenBack, Live,
       Running, CopyOf, Reverting
<1>2. CASE Next
  <2>1. Act /\ Observe
    BY <1>2 DEF Next
  <2>2. SysInv' /\ Bounded'
    BY <2>1, SysInvStep
  <2>3. HistoryTypes' /\ Guarded'
    BY <1>2, HistoryNext, GuardedNext
  <2>4. Parted' /\ contested \subseteq contested'
    BY <1>2, <2>3, PartedNext
  <2>5. Current' /\ Recorded'
    <3>1. CASE \E c \in Calls : Step(c)
      BY <2>4, <3>1, CurrentStep, RecordedStep
    <3>2. CASE UNCHANGED <<pc, ops, view>>
      BY <2>4, <3>2 DEF Current, Recorded, Running, CopyOf
    <3>3. QED
      BY <2>1, <3>1, <3>2 DEF Act, ExpireLock, Rest, sys
  <2>6. TakenBack'
    BY <1>2, <2>4, TakenBackNext
  <2>7. QED
    BY <2>2, <2>3, <2>4, <2>5, <2>6
<1>3. QED
  BY <1>1, <1>2

LEMMA InvInit == Init => Inv
<1> SUFFICES ASSUME Init PROVE Inv
  OBVIOUS
<1>1. \A c \in Calls : pc[c] \in Place /\ pc[c].block = "idle" /\ ~unsaved[c]
  BY Places DEF Init
<1>2. SysTypes
  BY <1>1, Places, StartAssumption DEF Init, SysTypes
<1>3. Located /\ Loaded
  BY <1>1 DEF Located, Loaded, Running
<1>4. Bounded
  BY StartAssumption DEF Init, Bounded
<1>5. HistoryTypes /\ Guarded /\ Parted /\ Current /\ Recorded /\ TakenBack
  BY <1>1 DEF Init, HistoryTypes, Guarded, Parted, Current, Recorded, TakenBack, Live, Running
<1>6. QED
  BY <1>2, <1>3, <1>4, <1>5 DEF Inv, SysInv

\* Every reachable state is well-typed, for any calls, tenants and keys.
THEOREM TypeCorrect == Spec => []TypeOK
<1>1. Inv => TypeOK
  BY DEF Inv, SysInv, SysTypes, HistoryTypes, TypeOK
<1>2. QED
  BY InvInit, InvNext, <1>1, PTL DEF Spec

LEMMA RevertsNext ==
    ASSUME Inv, [Next]_vars
    PROVE  [\A c \in Calls :
               level' < level /\ pc'[c] # pc[c] => KeyOf[c] \notin reverted \ contested]_vars
<1> USE DEF Inv
<1>1. SUFFICES ASSUME NEW d \in Calls, level' < level, pc'[d] # pc[d]
               PROVE  KeyOf[d] \notin reverted \ contested
  OBVIOUS
<1>2. CASE \E c \in Calls : Step(c)
  <2>1. PICK c \in Calls : Step(c)
    BY <1>2
  <2>2. c = d
    BY <1>1, <2>1, OthersStay DEF SysInv
  <2>3. Reverting(d)
    BY <1>1, <2>1, <2>2, Reverts
  <2>4. QED
    BY <2>3 DEF TakenBack
<1>3. CASE UNCHANGED pc
  BY <1>1, <1>3
<1>4. QED
  BY <1>2, <1>3, NextActs, ActSteps DEF ExpireLock, sys

\* For any calls, with any failures and crashes, and wherever a lock runs out: no
\* operation takes back a second migration, unless two calls no lock kept apart
\* worked with its key at a time.
THEOREM RevertsOnce == Spec => RevertsOncePerOperation
<1>1. Inv /\ [Next]_vars =>
        [\A c \in Calls :
            level' < level /\ pc'[c] # pc[c] => KeyOf[c] \notin reverted \ contested]_vars
  BY RevertsNext
<1>2. QED
  BY InvInit, InvNext, <1>1, PTL DEF Spec, RevertsOncePerOperation

-----------------------------------------------------------------------------
\* Nothing is undone unrecorded.

\* Whatever a call that works alone with its key does to the schema or to a
\* route in its catch block, it does once its row says ROLLBACK.
LEMMA UndoneStep ==
    ASSUME Inv, NEW c \in Calls, pc[c].block = "catch", Step(c),
           level' # level \/ route' # route, KeyOf[c] \notin contested
    PROVE  ops'[KeyOf[c]].state = "ROLLBACK"
<1> USE DEF Inv
<1>1. Running(c) /\ KeyOf[c] \in Keys /\ ops[KeyOf[c]] # None
  BY CallTypes DEF Running, SysInv, Loaded
<1>2. CASE Transition(c)
  <2>1. route' # route
    BY <1>2 DEF Transition
  <2>2. Statement(c).state = "ROLLBACK"
    BY <1>1, <1>2, Statements, CatchStatements, NoneAssumption DEF Transition, SysInv
  <2>3. ops' = [ops EXCEPT ![KeyOf[c]].state = Statement(c).state]
    BY <1>2, <2>1, TransitionRow
  <2>4. "ROLLBACK" \in OperationState
    BY DEF OperationState
  <2>5. QED
    BY <1>1, <2>2, <2>3, <2>4, WriteRow DEF SysInv
<1>3. CASE Work(c) \/ ResolveRoute(c) \/ PublishRoute(c)
  <2>1. ops' = ops /\ Statement(c).do # "transition"
    BY <1>3 DEF Work, ResolveRoute, PublishRoute
  <2>2. pc[c].at \in 1..8 /\ pc[c].at # 1
    BY <1>1, <2>1, CatchBegins, Statements DEF SysInv
  <2>3. pc[c].at > 1
    BY <2>2
  <2>4. view[c] = "ROLLBACK"
    BY <2>3 DEF Recorded
  <2>5. QED
    BY <1>1, <2>1, <2>3, <2>4 DEF Current, CopyOf
<1>4. QED
  BY <1>2, <1>3 DEF Step, AcquireLock, CreateOperation, ReleaseLock, Crash

LEMMA UndoneNext ==
    ASSUME Inv, [Next]_vars
    PROVE  [\A c \in Calls :
               pc[c].block = "catch" /\ pc'[c] # pc[c] /\ (level' # level \/ route' # route) =>
                   ops'[KeyOf[c]].state = "ROLLBACK" \/ KeyOf[c] \in contested]_vars
<1>1. SUFFICES ASSUME NEW d \in Calls, pc[d].block = "catch", pc'[d] # pc[d],
                      level' # level \/ route' # route, KeyOf[d] \notin contested
               PROVE  ops'[KeyOf[d]].state = "ROLLBACK"
  OBVIOUS
<1>2. CASE \E c \in Calls : Step(c)
  <2>1. PICK c \in Calls : Step(c)
    BY <1>2
  <2>2. c = d
    BY <1>1, <2>1, OthersStay DEF Inv, SysInv
  <2>3. QED
    BY <1>1, <2>1, <2>2, UndoneStep
<1>3. CASE UNCHANGED pc
  BY <1>1, <1>3
<1>4. QED
  BY <1>2, <1>3, NextActs, ActSteps DEF ExpireLock, sys

\* For any calls, with any failures and crashes, and wherever a lock runs out:
\* the catch block reverts the schema and takes the route back only once the row
\* of the operation says ROLLBACK, unless two calls no lock kept apart worked
\* with its key at a time.
THEOREM UndoneRecorded == Spec => UndoneOnlyWhenRolledBack
<1>1. Inv /\ [Next]_vars =>
        [\A c \in Calls :
            pc[c].block = "catch" /\ pc'[c] # pc[c] /\ (level' # level \/ route' # route) =>
                ops'[KeyOf[c]].state = "ROLLBACK" \/ KeyOf[c] \in contested]_vars
  BY UndoneNext
<1>2. QED
  BY InvInit, InvNext, <1>1, PTL DEF Spec, UndoneOnlyWhenRolledBack

-----------------------------------------------------------------------------
\* The operation rows.

LEMMA StepMovesRow ==
    ASSUME Inv, NEW c \in Calls, Step(c)
    PROVE  Ledger!LedgerNext \/ ops' = ops
<1> USE DEF Inv
<1> DEFINE k == KeyOf[c]
<1>1. k \in Keys
  BY CallTypes
<1>2. CASE CreateOperation(c)
  <2>1. CASE ops' # ops
    <3>1. ops[k] = None /\ TenantOf[c] \in Tenants
      BY <1>2, <2>1, CallTypes DEF CreateOperation
    <3>2. ops' = [ops EXCEPT ![k] = [tenant |-> TenantOf[c], state |-> "REQUESTED"]]
      BY <1>2, <2>1 DEF CreateOperation
    <3>3. Ledger!Open(k)
      BY <3>1, <3>2 DEF Ledger!Open
    <3>4. QED
      BY <1>1, <3>3 DEF Ledger!LedgerNext
  <2>2. QED
    BY <2>1
<1>3. CASE Transition(c)
  <2> DEFINE s == Statement(c).state
  <2>1. Running(c) /\ s \in OperationState
    BY <1>3, TransitionRow
  <2>2. ops[k] # None /\ ops[k] \in Operation
    BY <1>1, <2>1 DEF SysInv, SysTypes, Loaded
  <2>3. ops[k].state \in OperationState
    BY <2>2 DEF Operation
  <2>4. view[c] \in OperationState
    BY <2>1 DEF SysInv, SysTypes, Loaded
  <2>5. s \in Ledger!OperationState
    BY <2>1 DEF Ledger!OperationState, OperationState
  <2>6. CASE ops' = [ops EXCEPT ![k].state = s] /\ k \in contested
    <3>1. Ledger!Overwrite(k)
      BY <2>2, <2>5, <2>6 DEF Ledger!Overwrite
    <3>2. QED
      BY <1>1, <3>1 DEF Ledger!LedgerNext
  <2>7. CASE /\ ops' = [ops EXCEPT ![k].state = s] /\ k \notin contested
             /\ ~IsInvalidTransition(view[c], s)
    <3>1. CopyOf(c)
      BY <2>1, <2>7 DEF Current
    <3>2. ~IsInvalidTransition(ops[k].state, s)
      <4>1. CASE view[c] = ops[k].state
        BY <2>7, <4>1
      <4>2. CASE pc[c].block = "catch" /\ ~IsInvalidTransition(ops[k].state, view[c])
        <5>1. s = "ROLLBACK"
          BY <2>1, <4>2, Statements, CatchStatements, NoneAssumption DEF SysInv
        <5>2. QED
          BY <2>3, <2>4, <2>7, <4>2, <5>1, RollbackAhead
      <4>3. QED
        BY <2>1, <3>1, <4>1, <4>2 DEF CopyOf, Running
    <3>3. ~Ledger!IsInvalidTransition(ops[k].state, s)
      BY <3>2 DEF Ledger!IsInvalidTransition, Ledger!AllowedMoves, IsInvalidTransition,
         AllowedMoves
    <3>4. Ledger!Advance(k)
      BY <2>2, <2>5, <2>7, <3>3 DEF Ledger!Advance
    <3>5. QED
      BY <1>1, <3>4 DEF Ledger!LedgerNext
  <2>8. QED
    BY <1>3, <2>6, <2>7, TransitionRow
<1>4. QED
  BY <1>2, <1>3, RowSteps DEF RowStep, SysInv

\* For any calls, with any failures and crashes, and wherever a lock runs out:
\* migrations implement the ledger, although a call compares with its own copy of
\* its operation and not with the row.
THEOREM OperationsImplemented == Spec => ImplementsLedger
<1>1. Init => Ledger!LedgerInit
  BY DEF Init, Ledger!LedgerInit
<1>2. Inv /\ [Next]_vars => [Ledger!LedgerNext]_ops
  <2> SUFFICES ASSUME Inv, [Next]_vars
               PROVE  Ledger!LedgerNext \/ ops' = ops
    OBVIOUS
  <2>1. CASE \E c \in Calls : Step(c)
    BY <2>1, StepMovesRow
  <2>2. CASE UNCHANGED ops
    BY <2>2
  <2>3. QED
    BY <2>1, <2>2, NextActs, ActSteps DEF ExpireLock, sys
<1>3. QED
  BY InvInit, InvNext, <1>1, <1>2, PTL DEF Spec, ImplementsLedger, Ledger!LedgerSpec

=============================================================================
