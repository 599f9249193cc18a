--------------------------- MODULE OfflineSyncProofs ---------------------------
(***************************************************************************)
(* Theorems about OfflineSync, for any operations, runs and bound.         *)
(***************************************************************************)
EXTENDS OfflineSync, SequenceTheorems, TLAPS

SaveRecord == [items : SUBSET Ops, waiter : Ops \cup Runs \cup {None}]

\* Neither settled nor in danger.
Safe(o) == o \notin settled \cup endangered

\* Before anything is saved, initialize is alone with the disk.
Fresh == loading /\ ~apart => queue = {} /\ saves = <<>> /\ loaded = disk

\* A save endangers all that initialize has not brought to the signal.
Overlap == saves # <<>> => loaded \subseteq endangered

InWrite(o) == written /\ o \in Head(saves).items

\* A queued item is on disk or in the write about to be committed, in the signal or
\* what is still to be read, and in every save.
Kept == \A o \in Ops : request[o].pc = "queued" /\ Safe(o) =>
    /\ o \in disk \/ InWrite(o)
    /\ o \in loaded \/ (~loading /\ o \in queue)
    /\ \A i \in 1..Len(saves) : o \in saves[i].items

Asked == \A o \in Ops : request[o].pc = "saving" /\ Safe(o) => ~loading /\ o \in queue

\* A save a request waits for holds its item, and so does every later one.
Waiters == \A i \in 1..Len(saves) : saves[i].waiter \in Ops =>
    /\ request[saves[i].waiter].pc = "saving"
    /\ Safe(saves[i].waiter) => \A j \in i..Len(saves) : saves[i].waiter \in saves[j].items

Unique == \A i, j \in 1..Len(saves) :
    saves[i].waiter \in Ops /\ saves[i].waiter = saves[j].waiter => i = j

\* Nobody waits for a write that succeeded.
Writing == written => saves # <<>>

Sending == \A r \in Runs : run[r].pc = "sent" => run[r].op \in Ops

StoreInv == Fresh /\ Overlap /\ Kept /\ Asked /\ Waiters /\ Unique /\ Writing /\ DiskFollowsSignal

\* The inductive invariant.
IInv == TypeOK /\ Sending /\ StoreInv

LEMMA SavesType == ASSUME TypeOK PROVE saves \in Seq(SaveRecord)
  BY DEF TypeOK, SaveRecord

LEMMA InitIInv == Init => IInv
  <1> SUFFICES ASSUME Init PROVE IInv  OBVIOUS
  <1> USE SyncAssumption DEF Init
  <1>1. At("new") \in Request  BY DEF At, Request, RequestPc
  <1>2. IdleRun \in Run  BY DEF IdleRun, Run, RunPc
  <1>3. TypeOK
    <2>1. request \in [Ops -> Request] /\ run \in [Runs -> Run] /\ applied \in [Ops -> Nat]  BY <1>1, <1>2
    <2>2. saves \in Seq(SaveRecord) /\ faults \in 0..MaxFaults  OBVIOUS
    <2> QED  BY <2>1, <2>2 DEF TypeOK, SaveRecord
  <1>4. Sending  BY DEF Sending, IdleRun
  <1>5. Fresh /\ Overlap /\ DiskFollowsSignal  BY DEF Fresh, Overlap, DiskFollowsSignal
  <1>6. Kept /\ Asked /\ Waiters /\ Unique  BY DEF Kept, Asked, Waiters, Unique, At
  <1>7. Writing  BY DEF Writing
  <1> QED  BY <1>3, <1>4, <1>5, <1>6, <1>7 DEF IInv, StoreInv

-----------------------------------------------------------------------------
\* Types.

LEMMA SaveType ==
  ASSUME TypeOK, NEW items \in SUBSET Ops, NEW who \in Ops \cup Runs \cup {None}, Save(items, who)
  PROVE  /\ queue' \in SUBSET Ops /\ disk' \in SUBSET Ops /\ loaded' \in SUBSET Ops
         /\ endangered' \in SUBSET Ops /\ loading' \in BOOLEAN /\ failedSave' \in BOOLEAN
         /\ apart' \in BOOLEAN /\ written' \in BOOLEAN
         /\ saves' \in Seq(SaveRecord)
  <1>1. [items |-> items, waiter |-> who] \in SaveRecord  BY DEF SaveRecord
  <1>2. saves' \in Seq(SaveRecord)  BY <1>1, SavesType, AppendProperties DEF Save
  <1> QED  BY <1>2 DEF Save, TypeOK

\* A write that succeeded waits for its commit at the head of the saves.
LEMMA WriteOfHead ==
  ASSUME TypeOK, saves # <<>>
  PROVE  LET t == [saves EXCEPT ![1].waiter = None] IN
         /\ t \in Seq(SaveRecord) /\ Len(t) = Len(saves) /\ t # <<>> /\ Head(t) = t[1]
         /\ 1 \in 1..Len(saves) /\ Head(saves) = saves[1]
         /\ t[1].items = saves[1].items /\ t[1].waiter = None
         /\ \A i \in 1..Len(saves) : t[i].items = saves[i].items /\ (i # 1 => t[i] = saves[i])
  <1> DEFINE t == [saves EXCEPT ![1].waiter = None]
  <1>1. /\ saves \in Seq(SaveRecord) /\ Len(saves) \in Nat \ {0} /\ Head(saves) = saves[1]
        /\ saves \in [1..Len(saves) -> SaveRecord]
    BY SavesType, LenProperties, EmptySeq
  <1>2. saves[1] \in SaveRecord /\ 1 \in 1..Len(saves)  BY <1>1
  <1>3. t = [saves EXCEPT ![1] = [saves[1] EXCEPT !.waiter = None]]  OBVIOUS
  <1>4. [saves[1] EXCEPT !.waiter = None] \in SaveRecord /\ [saves[1] EXCEPT !.waiter = None].items = saves[1].items
        /\ [saves[1] EXCEPT !.waiter = None].waiter = None
    BY <1>2 DEF SaveRecord
  <1> HIDE DEF t
  <1>5. t \in [1..Len(saves) -> SaveRecord]  BY <1>1, <1>3, <1>4
  <1>6. t \in Seq(SaveRecord) /\ Len(t) = Len(saves)  BY <1>1, <1>5, SeqDef, LenProperties
  <1>7. t # <<>> /\ Head(t) = t[1]  BY <1>1, <1>6, LenProperties, EmptySeq, HeadTailProperties
  <1>8. t[1] = [saves[1] EXCEPT !.waiter = None] /\ \A i \in 1..Len(saves) : i # 1 => t[i] = saves[i]  BY <1>1, <1>2, <1>3
  <1> QED  BY <1>1, <1>2, <1>4, <1>6, <1>7, <1>8 DEF t

LEMMA TypeStep == IInv /\ [Next]_vars => TypeOK' /\ Sending'
  <1> SUFFICES ASSUME IInv, [Next]_vars PROVE TypeOK' /\ Sending'  OBVIOUS
  <1> DEFINE Goal == TypeOK' /\ Sending'
  <1> USE SyncAssumption DEF IInv
  <1>0. /\ \A pc \in RequestPc : At(pc) \in Request
        /\ IdleRun \in Run
    BY DEF At, Request, IdleRun, Run, RunPc
  <1>t. \A f \in Seq(SaveRecord) : f \in Seq([items : SUBSET Ops, waiter : Ops \cup Runs \cup {None}])
    BY DEF SaveRecord
  <1>s. ASSUME NEW o \in Ops, NEW taken \in BOOLEAN, Send(o, taken) PROVE applied' \in [Ops -> Nat]
    BY <1>s DEF TypeOK, Send
  <1>f. Fault => faults' \in 0..MaxFaults  BY DEF TypeOK, Fault
  <1>1. ASSUME NEW o \in Ops, Ask(o) PROVE Goal
    <2>1. CASE online
      <3>1. PICK taken \in BOOLEAN : Send(o, taken) /\ request' = [request EXCEPT ![o] = [pc |-> "sent", taken |-> taken]]
        BY <1>1, <2>1 DEF Ask
      <3>2. [pc |-> "sent", taken |-> taken] \in Request  BY DEF Request, RequestPc
      <3>3. request' \in [Ops -> Request]  BY <3>1, <3>2 DEF TypeOK
      <3> QED  BY <1>1, <2>1, <3>1, <3>3, <1>s DEF Ask, TypeOK, store, Sending
    <2>2. CASE ~online
      <3>1. Save(queue \cup {o}, o)  BY <1>1, <2>2 DEF Ask
      <3>2. queue \cup {o} \in SUBSET Ops  BY DEF TypeOK
      <3>3. request' \in [Ops -> Request]  BY <1>1, <2>2, <1>0 DEF Ask, TypeOK, RequestPc
      <3> QED  BY <1>1, <2>2, <3>1, <3>2, <3>3, <1>t, SaveType DEF Ask, TypeOK, Sending
    <2> QED  BY <2>1, <2>2 DEF TypeOK
  <1>2. ASSUME NEW o \in Ops, Answer(o) PROVE Goal
    <2>1. CASE request' = [request EXCEPT ![o] = At("ended")] /\ UNCHANGED applied
      <3>1. request' \in [Ops -> Request]  BY <2>1, <1>0 DEF TypeOK, RequestPc
      <3> QED  BY <1>2, <2>1, <3>1 DEF Answer, TypeOK, store, Sending
    <2>2. ASSUME NEW taken \in BOOLEAN, Send(o, taken), request' = [request EXCEPT ![o] = [pc |-> "forced", taken |-> taken]]
          PROVE Goal
      <3>1. [pc |-> "forced", taken |-> taken] \in Request  BY DEF Request, RequestPc
      <3>2. request' \in [Ops -> Request]  BY <2>2, <3>1 DEF TypeOK
      <3> QED  BY <1>2, <2>2, <3>2, <1>s DEF Answer, TypeOK, store, Sending
    <2> QED  BY <1>2, <2>1, <2>2 DEF Answer
  <1>3. ASSUME NEW o \in Ops, NoAnswer(o) PROVE Goal
    <2>1. faults' \in 0..MaxFaults  BY <1>3, <1>f DEF NoAnswer, TypeOK
    <2>2. request' \in [Ops -> Request]  BY <1>3, <1>0 DEF NoAnswer, TypeOK, RequestPc
    <2>3. CASE Save(queue \cup {o}, o)
      <3>1. queue \cup {o} \in SUBSET Ops  BY DEF TypeOK
      <3> QED  BY <1>3, <2>1, <2>2, <2>3, <3>1, <1>t, SaveType DEF NoAnswer, TypeOK, Sending
    <2>4. CASE UNCHANGED store  BY <1>3, <2>1, <2>2, <2>4 DEF NoAnswer, TypeOK, store, Sending
    <2> QED  BY <1>3, <2>3, <2>4 DEF NoAnswer
  <1>4. ASSUME NEW o \in Ops, Dismiss(o) PROVE Goal
    <2>1. Save(queue \ {o}, None) /\ queue \ {o} \in SUBSET Ops  BY <1>4 DEF Dismiss, TypeOK
    <2> QED  BY <1>4, <2>1, <1>t, SaveType DEF Dismiss, TypeOK, Sending
  <1>5. ASSUME NEW r \in Runs, NextItem(r) PROVE Goal
    <2>1. ASSUME NEW o \in run[r].items, NEW taken \in BOOLEAN, Send(o, taken),
                 run' = [run EXCEPT ![r] = [pc |-> "sent", items |-> @.items \ {o}, op |-> o, taken |-> taken]]
          PROVE Goal
      <3>1. o \in Ops /\ run[r].items \in SUBSET Ops  BY DEF TypeOK, Run
      <3>2. [pc |-> "sent", items |-> run[r].items \ {o}, op |-> o, taken |-> taken] \in Run
        BY <3>1 DEF Run, RunPc
      <3>3. run' \in [Runs -> Run]  BY <2>1, <3>2 DEF TypeOK
      <3>4. applied' \in [Ops -> Nat]  BY <2>1, <3>1, <1>s
      <3>5. Sending'  BY <2>1, <3>1 DEF TypeOK, Sending
      <3> QED  BY <1>5, <3>3, <3>4, <3>5 DEF NextItem, TypeOK, store
    <2>2. ASSUME NEW o \in run[r].items, run' = [run EXCEPT ![r] = [@ EXCEPT !.items = run[r].items \ {o}]], UNCHANGED applied
          PROVE Goal
      <3>1. [run[r] EXCEPT !.items = run[r].items \ {o}] \in Run  BY DEF TypeOK, Run
      <3>4. run' = [run EXCEPT ![r] = [run[r] EXCEPT !.items = run[r].items \ {o}]]  BY <2>2 DEF TypeOK, Run
      <3>2. run' \in [Runs -> Run]  BY <3>1, <3>4 DEF TypeOK
      <3>3. Sending'  BY <2>2 DEF TypeOK, Sending, Run
      <3> QED  BY <1>5, <2>2, <3>2, <3>3 DEF NextItem, TypeOK, store
    <2> QED  BY <1>5, <2>1, <2>2 DEF NextItem
  <1>6. ASSUME NEW r \in Runs, Finish(r) PROVE Goal
    BY <1>6, <1>0 DEF Finish, EndRun, TypeOK, store, Sending, IdleRun
  <1>7. ASSUME NEW r \in Runs, NEW pc \in RunPc \ {"sent"}, Goto(r, pc) PROVE run' \in [Runs -> Run] /\ Sending'
    <2>1. [run[r] EXCEPT !.pc = pc] \in Run  BY DEF TypeOK, Run
    <2>2. run' \in [Runs -> Run]  BY <1>7, <2>1 DEF Goto, TypeOK
    <2> QED  BY <1>7, <2>2 DEF Goto, TypeOK, Sending, Run
  <1>8. ASSUME NEW r \in Runs, ItemAnswered(r) PROVE Goal
    <2>1. run[r].op \in Ops  BY <1>8 DEF ItemAnswered, Sending
    <2>2. queue \ {run[r].op} \in SUBSET Ops /\ settled' \in SUBSET Ops  BY <1>8, <2>1 DEF ItemAnswered, TypeOK
    <2>3. run' \in [Runs -> Run] /\ Sending'  BY <1>8, <1>7 DEF ItemAnswered, RunPc
    <2>4. Save(queue \ {run[r].op}, r)  BY <1>8 DEF ItemAnswered
    <2> QED  BY <1>8, <2>2, <2>3, <2>4, <1>t, SaveType DEF ItemAnswered, TypeOK
  <1>9. ASSUME NEW r \in Runs, ItemKept(r) PROVE Goal
    <2>1. queue \in SUBSET Ops  BY DEF TypeOK
    <2>2. run' \in [Runs -> Run] /\ Sending'  BY <1>9, <1>7 DEF ItemKept, RunPc
    <2>3. Save(queue, r)  BY <1>9 DEF ItemKept
    <2>4. faults' \in 0..MaxFaults  BY <1>9, <1>f DEF ItemKept, TypeOK
    <2> QED  BY <1>9, <2>1, <2>2, <2>3, <2>4, <1>t, SaveType DEF ItemKept, TypeOK
  <1>10. CASE GoOffline  BY <1>10 DEF GoOffline, TypeOK, store, Sending
  <1>11. CASE GoOnline
    <2>1. [IdleRun EXCEPT !.pc = "next", !.items = queue] \in Run  BY DEF IdleRun, Run, RunPc, TypeOK
    <2>2. run' \in [Runs -> Run] /\ processing' \in BOOLEAN /\ Sending'
      <3>1. CASE UNCHANGED <<processing, run>>  BY <3>1 DEF TypeOK, Sending
      <3>2. ASSUME NEW r \in Runs, processing' = TRUE,
                   run' = [run EXCEPT ![r] = [IdleRun EXCEPT !.pc = "next", !.items = queue]]
            PROVE run' \in [Runs -> Run] /\ processing' \in BOOLEAN /\ Sending'
        <4>1. run' \in [Runs -> Run]  BY <2>1, <3>2 DEF TypeOK
        <4>2. run'[r].pc = "next" /\ \A q \in Runs \ {r} : run'[q] = run[q]  BY <3>2 DEF TypeOK, IdleRun
        <4> QED  BY <3>2, <4>1, <4>2 DEF Sending
      <3> QED  BY <1>11, <3>1, <3>2 DEF GoOnline
    <2> QED  BY <1>11, <2>2 DEF GoOnline, TypeOK, store
  <1>12. CASE Load  BY <1>12 DEF Load, TypeOK, Sending
  <1>18. CASE LoadRefused  BY <1>18, <1>f DEF LoadRefused, TypeOK, Sending
  <1>13. CASE Written
    <2> DEFINE who == Head(saves).waiter
    <2>1. Head(saves) \in SaveRecord /\ saves' \in Seq(SaveRecord)
      BY <1>13, SavesType, HeadTailProperties, WriteOfHead DEF Written
    <2>2. who \in Ops \cup Runs \cup {None}  BY <2>1 DEF SaveRecord
    <2>3. request' \in [Ops -> Request]  BY <1>13, <2>2, <1>0 DEF Written, Resume, TypeOK, RequestPc
    <2>4. CASE who \in Runs
      <3>0. run[who] \in Run  BY <2>4 DEF TypeOK
      <3>1. [run[who] EXCEPT !.pc = "next", !.op = None] \in Run  BY <3>0 DEF Run, RunPc
      <3>2. run' = [run EXCEPT ![who] = [run[who] EXCEPT !.pc = "next", !.op = None]]
        BY <1>13, <2>4 DEF Written, Resume, TypeOK
      <3>3. run' \in [Runs -> Run]  BY <3>1, <3>2 DEF TypeOK
      <3>4. Sending'  BY <3>2 DEF TypeOK, Sending, Run
      <3> QED  BY <1>13, <2>1, <2>3, <3>3, <3>4, <1>t DEF Written, TypeOK
    <2>5. CASE who \notin Runs
      <3>1. run' = run  BY <1>13, <2>5 DEF Written, Resume
      <3> QED  BY <1>13, <2>1, <2>3, <3>1, <1>t DEF Written, TypeOK, Sending
    <2> QED  BY <2>4, <2>5
  <1>17. CASE Committed \/ Aborted
    <2>1. saves # <<>>  BY <1>17 DEF Committed, Aborted, StoreInv, Writing
    <2>2. Head(saves) \in SaveRecord /\ saves' \in Seq(SaveRecord)
      BY <1>17, <2>1, SavesType, HeadTailProperties DEF Committed, Aborted
    <2>3. Head(saves).items \in SUBSET Ops  BY <2>2 DEF SaveRecord
    <2>4. disk' \in SUBSET Ops /\ endangered' \in SUBSET Ops /\ faults' \in 0..MaxFaults
      BY <1>17, <2>3, <1>f DEF Committed, Aborted, Uncommitted, TypeOK
    <2>5. Sending'  BY <1>17 DEF Committed, Aborted, Sending
    <2> QED  BY <1>17, <2>2, <2>4, <2>5, <1>t DEF Committed, Aborted, TypeOK
  <1>14. CASE SaveFailed
    <2> DEFINE who == Head(saves).waiter
    <2>1. Head(saves) \in SaveRecord /\ Tail(saves) \in Seq(SaveRecord)
      BY <1>14, SavesType, HeadTailProperties DEF SaveFailed
    <2>2. faults' \in 0..MaxFaults  BY <1>14, <1>f DEF SaveFailed
    <2> DEFINE Rest == saves' \in Seq(SaveRecord) /\ request' \in [Ops -> Request] /\ run' \in [Runs -> Run]
                       /\ processing' \in BOOLEAN /\ Sending'
    <2>3. CASE who \in Ops /\ request' = [request EXCEPT ![who] = At("ended")] /\ saves' = Tail(saves) /\ UNCHANGED <<run, processing>>
      <3>1. request' \in [Ops -> Request]  BY <2>3, <1>0 DEF TypeOK, RequestPc
      <3>2. Rest  BY <2>1, <2>3, <3>1 DEF TypeOK, Sending
      <3> QED  BY <1>14, <2>2, <3>2, <1>t DEF SaveFailed, TypeOK
    <2>4. CASE /\ who \in Runs /\ run' = [run EXCEPT ![who] = [@ EXCEPT !.pc = "updating"]]
               /\ saves' = Append(Tail(saves), [items |-> queue, waiter |-> who])
               /\ UNCHANGED <<request, processing>>
      <3>0. Goto(who, "updating")  BY <2>4 DEF Goto
      <3>1. run' \in [Runs -> Run] /\ Sending'  BY <2>4, <3>0, <1>7 DEF RunPc
      <3>2. [items |-> queue, waiter |-> who] \in SaveRecord  BY <2>4 DEF TypeOK, SaveRecord
      <3>3. saves' \in Seq(SaveRecord)  BY <2>1, <2>4, <3>2, AppendProperties
      <3>4. Rest  BY <2>4, <3>1, <3>3 DEF TypeOK
      <3> QED  BY <1>14, <2>2, <3>4, <1>t DEF SaveFailed, TypeOK
    <2>5. CASE who \in Runs /\ EndRun(who) /\ saves' = Tail(saves) /\ UNCHANGED request
      <3>1. Rest  BY <2>1, <2>5, <1>0 DEF EndRun, TypeOK, Sending, IdleRun
      <3> QED  BY <1>14, <2>2, <3>1, <1>t DEF SaveFailed, TypeOK
    <2>6. CASE who = None /\ saves' = Tail(saves) /\ UNCHANGED <<run, request, processing>>
      <3>1. Rest  BY <2>1, <2>6 DEF TypeOK, Sending
      <3> QED  BY <1>14, <2>2, <3>1, <1>t DEF SaveFailed, TypeOK
    <2> QED  BY <1>14, <2>3, <2>4, <2>5, <2>6 DEF SaveFailed
  <1>15. CASE Restart
    <2>1. request' \in [Ops -> Request]  BY <1>15, <1>0 DEF Restart, TypeOK, RequestPc
    <2>2. run' \in [Runs -> Run] /\ Sending'  BY <1>15, <1>0 DEF Restart, TypeOK, Sending, IdleRun
    <2>3. saves' = <<>> /\ saves' \in Seq(SaveRecord)  BY <1>15 DEF Restart
    <2>4. endangered' \in SUBSET Ops
      <3>1. written => Head(saves) \in SaveRecord
        BY SavesType, HeadTailProperties DEF StoreInv, Writing
      <3> QED  BY <1>15, <3>1 DEF Restart, Uncommitted, SaveRecord, TypeOK
    <2> QED  BY <1>15, <2>1, <2>2, <2>3, <2>4, <1>f, <1>t DEF Restart, TypeOK, LoadQueue
  <1>16. CASE UNCHANGED vars  BY <1>16 DEF vars, store, TypeOK, Sending
  <1> QED
    BY <1>1, <1>2, <1>3, <1>4, <1>5, <1>6, <1>8, <1>9, <1>10, <1>11, <1>12, <1>13, <1>14, <1>15, <1>16, <1>17, <1>18 DEF Next, RunStep

-----------------------------------------------------------------------------
\* The store.

\* What settles or is in danger stays so.
LEMMA SafeShrinks ==
  ASSUME settled \subseteq settled', endangered \subseteq endangered', NEW o, Safe(o)'
  PROVE  Safe(o)
  BY DEF Safe

\* Every change of the queue, whoever makes it, keeps the invariant.
LEMMA SaveStep ==
  ASSUME IInv, NEW items \in SUBSET Ops, NEW who \in Ops \cup Runs \cup {None}, Save(items, who),
         settled \subseteq settled', queue \ settled' \subseteq items,
         \A o \in Ops \ {who} : request'[o] = request[o],
         who \in Ops => /\ who \in items
                        /\ request[who].pc \notin {"saving", "queued"}
                        /\ request'[who].pc = "saving"
  PROVE  StoreInv'
  <1> USE DEF IInv, StoreInv
  <1> DEFINE e == [items |-> items, waiter |-> who]
  <1>1. e \in SaveRecord /\ e.items = items /\ e.waiter = who  BY DEF SaveRecord
  <1> HIDE DEF e
  <1>2. /\ saves' = Append(saves, e) /\ saves' # <<>> /\ Len(saves') = Len(saves) + 1
        /\ \A i \in 1..Len(saves) : saves'[i] = saves[i]
        /\ saves'[Len(saves')] = e
        /\ Len(saves) \in Nat
    BY <1>1, SavesType, AppendProperties, LenProperties DEF Save, e
  <1>3. \A i \in 1..Len(saves') : i = Len(saves') \/ i \in 1..Len(saves)  BY <1>2
  <1>4. /\ queue' = items /\ loading' = loading /\ loaded' = loaded /\ disk' = disk /\ written' = written
        /\ endangered \subseteq endangered' /\ apart' = loading
    BY DEF Save
  <1>5. loaded \subseteq endangered' /\ (loading => items \subseteq endangered')  BY DEF Save
  <1>6. Fresh' /\ Overlap' /\ Writing'  BY <1>2, <1>4, <1>5 DEF Fresh, Overlap, Writing
  <1>h. written => Head(saves') = Head(saves)
    <2> SUFFICES ASSUME written PROVE Head(saves') = Head(saves)  OBVIOUS
    <2>1. saves # <<>> /\ saves \in Seq(SaveRecord) /\ saves' \in Seq(SaveRecord)
      BY <1>1, <1>2, SavesType, AppendProperties DEF Writing
    <2>2. Head(saves) = saves[1] /\ Head(saves') = saves'[1] /\ 1 \in 1..Len(saves)
      BY <1>2, <2>1, LenProperties, EmptySeq, HeadTailProperties
    <2> QED  BY <1>2, <2>2
  <1>7. DiskFollowsSignal'  BY <1>1, <1>2, <1>4 DEF DiskFollowsSignal
  <1>8. Kept'
    <2> SUFFICES ASSUME NEW o \in Ops, request'[o].pc = "queued", Safe(o)'
                 PROVE /\ o \in disk' \/ (written' /\ o \in Head(saves').items)
                       /\ o \in loaded' \/ (~loading' /\ o \in queue')
                       /\ \A i \in 1..Len(saves') : o \in saves'[i].items
      BY DEF Kept, InWrite
    <2>1. o # who /\ request[o].pc = "queued" /\ Safe(o)  BY <1>4, SafeShrinks
    <2>2. /\ o \in disk \/ (written /\ o \in Head(saves).items)
          /\ o \in loaded \/ (~loading /\ o \in queue)
          /\ \A i \in 1..Len(saves) : o \in saves[i].items
      BY <2>1 DEF Kept, InWrite
    <2>3. ~loading /\ o \in queue  BY <1>5, <2>2 DEF Safe
    <2>4. o \in items  BY <2>3 DEF Safe
    <2>5. o \in disk' \/ (written' /\ o \in Head(saves').items)  BY <1>4, <1>h, <2>2
    <2>6. ~loading' /\ o \in queue'  BY <1>4, <2>3, <2>4
    <2>7. \A i \in 1..Len(saves') : o \in saves'[i].items  BY <1>1, <1>2, <1>3, <2>2, <2>4
    <2> QED  BY <2>5, <2>6, <2>7
  <1>9. Asked'
    <2> SUFFICES ASSUME NEW o \in Ops, request'[o].pc = "saving", Safe(o)' PROVE ~loading' /\ o \in queue'
      BY DEF Asked
    <2>1. CASE o = who  BY <1>4, <1>5, <2>1 DEF Safe
    <2>2. CASE o # who
      <3>1. ~loading /\ o \in queue  BY <1>4, <2>2, SafeShrinks DEF Asked
      <3> QED  BY <1>4, <3>1 DEF Safe
    <2> QED  BY <2>1, <2>2
  <1>10. \A i \in 1..Len(saves) : saves[i].waiter \in Ops => saves[i].waiter # who  BY DEF Waiters
  <1>11. Waiters'
    <2> SUFFICES ASSUME NEW i \in 1..Len(saves'), NEW o \in Ops, saves'[i].waiter = o
                 PROVE /\ request'[o].pc = "saving"
                       /\ o \notin settled' \cup endangered' => \A j \in i..Len(saves') : o \in saves'[j].items
      BY DEF Waiters, Safe
    <2>1. CASE i = Len(saves')  BY <1>1, <1>2, <2>1
    <2>2. CASE i \in 1..Len(saves)
      <3>1. saves[i].waiter = o /\ o # who /\ request[o].pc = "saving"  BY <1>2, <1>10, <2>2 DEF Waiters
      <3>2. ASSUME o \notin settled' \cup endangered' PROVE \A j \in i..Len(saves') : o \in saves'[j].items
        <4>1. Safe(o)  BY <3>2, <1>4 DEF Safe
        <4>2. o \in queue /\ \A j \in i..Len(saves) : o \in saves[j].items  BY <2>2, <3>1, <4>1 DEF Waiters, Asked
        <4>3. o \in items  BY <3>2, <4>2 DEF Safe
        <4> QED  BY <1>1, <1>2, <2>2, <4>2, <4>3
      <3> QED  BY <3>1, <3>2
    <2> QED  BY <1>3, <2>1, <2>2
  <1>12. Unique'
    <2> SUFFICES ASSUME NEW i \in 1..Len(saves'), NEW j \in 1..Len(saves'),
                        saves'[i].waiter \in Ops, saves'[i].waiter = saves'[j].waiter
                 PROVE i = j
      BY DEF Unique
    <2>1. CASE i \in 1..Len(saves) /\ j \in 1..Len(saves)  BY <1>2, <2>1 DEF Unique
    <2>2. CASE i = Len(saves') /\ j \in 1..Len(saves)  BY <1>1, <1>2, <1>10, <2>2
    <2>3. CASE i \in 1..Len(saves) /\ j = Len(saves')  BY <1>1, <1>2, <1>10, <2>3
    <2> QED  BY <1>3, <2>1, <2>2, <2>3
  <1> QED  BY <1>6, <1>7, <1>8, <1>9, <1>11, <1>12

\* So does a step that leaves the queue, its saves and what waits for them alone.
LEMMA StoreAlone ==
  ASSUME IInv, UNCHANGED <<store, settled>>,
         \A o \in Ops : \/ request'[o] = request[o]
                        \/ {request[o].pc, request'[o].pc} \cap {"saving", "queued"} = {}
  PROVE  StoreInv'
  <1> USE DEF IInv, StoreInv, store, Safe
  <1>1. Fresh' /\ Overlap' /\ Unique' /\ Writing' /\ DiskFollowsSignal'
    BY DEF Fresh, Overlap, Unique, Writing, DiskFollowsSignal
  <1>2. \A o \in Ops : /\ request'[o].pc = "queued" => request[o].pc = "queued"
                       /\ (request'[o].pc = "saving") <=> (request[o].pc = "saving")
    OBVIOUS
  <1>3. Kept' /\ Asked'  BY <1>2 DEF Kept, Asked, InWrite
  <1>4. Waiters'  BY <1>2 DEF Waiters
  <1> QED  BY <1>1, <1>3, <1>4

\* The first save under way ends, well or not.
LEMMA HeadOfSaves ==
  ASSUME IInv, saves # <<>>
  PROVE  /\ Head(saves) = saves[1] /\ Head(saves) \in SaveRecord
         /\ Len(saves) \in Nat \ {0} /\ Tail(saves) \in Seq(SaveRecord)
         /\ Len(Tail(saves)) = Len(saves) - 1
         /\ \A i \in 1..Len(Tail(saves)) : Tail(saves)[i] = saves[i + 1]
         /\ Tail(saves) = <<>> <=> Len(saves) = 1
  <1>1. saves \in Seq(SaveRecord)  BY SavesType DEF IInv
  <1>2. Len(saves) \in Nat \ {0} /\ Head(saves) = saves[1]  BY <1>1, LenProperties, EmptySeq
  <1>3. /\ Head(saves) \in SaveRecord /\ Tail(saves) \in Seq(SaveRecord)
        /\ Len(Tail(saves)) = Len(saves) - 1
        /\ \A i \in 1..Len(Tail(saves)) : Tail(saves)[i] = saves[i + 1]
    BY <1>1, HeadTailProperties
  <1>4. Tail(saves) = <<>> <=> Len(Tail(saves)) = 0  BY <1>3, EmptySeq
  <1> QED  BY <1>2, <1>3, <1>4

\* What remains of the saves waits and holds as before.
LEMMA TailOfSaves ==
  ASSUME IInv, saves # <<>>
  PROVE  LET t == Tail(saves) IN
         /\ \A o \in Ops : request[o].pc = "queued" /\ Safe(o) => \A i \in 1..Len(t) : o \in t[i].items
         /\ \A i \in 1..Len(t) : t[i].waiter \in Ops =>
              /\ t[i].waiter # Head(saves).waiter
              /\ request[t[i].waiter].pc = "saving"
              /\ Safe(t[i].waiter) => \A j \in i..Len(t) : t[i].waiter \in t[j].items
         /\ \A i, j \in 1..Len(t) : t[i].waiter \in Ops /\ t[i].waiter = t[j].waiter => i = j
         /\ t # <<>> => t[Len(t)] = saves[Len(saves)]
  <1> USE DEF IInv, StoreInv
  <1> DEFINE t == Tail(saves)
  <1>1. /\ Len(t) \in Nat /\ Len(saves) = Len(t) + 1 /\ \A i \in 1..Len(t) : t[i] = saves[i + 1]
        /\ Head(saves) = saves[1] /\ (t = <<>> <=> Len(t) = 0)
    BY HeadOfSaves
  <1> HIDE DEF t
  <1>2. \A i \in 1..Len(t) : i + 1 \in 1..Len(saves) /\ 1 \in 1..Len(saves) /\ i + 1 # 1  BY <1>1
  <1>3. \A o \in Ops : request[o].pc = "queued" /\ Safe(o) => \A i \in 1..Len(t) : o \in t[i].items
    BY <1>1, <1>2 DEF Kept
  <1>4. ASSUME NEW i \in 1..Len(t), t[i].waiter \in Ops
        PROVE  /\ t[i].waiter # Head(saves).waiter
               /\ request[t[i].waiter].pc = "saving"
               /\ Safe(t[i].waiter) => \A j \in i..Len(t) : t[i].waiter \in t[j].items
    <2>1. t[i] = saves[i + 1] /\ i + 1 \in 1..Len(saves)  BY <1>1, <1>2
    <2>2. t[i].waiter # Head(saves).waiter  BY <1>1, <1>2, <1>4, <2>1 DEF Unique
    <2>3. /\ request[t[i].waiter].pc = "saving"
          /\ Safe(t[i].waiter) => \A j \in (i + 1)..Len(saves) : t[i].waiter \in saves[j].items
      BY <1>4, <2>1 DEF Waiters
    <2>4. \A j \in i..Len(t) : j + 1 \in (i + 1)..Len(saves) /\ t[j] = saves[j + 1]  BY <1>1
    <2>5. Safe(t[i].waiter) => \A j \in i..Len(t) : t[i].waiter \in t[j].items
      <3> SUFFICES ASSUME Safe(t[i].waiter), NEW j \in i..Len(t) PROVE t[i].waiter \in t[j].items  OBVIOUS
      <3> QED  BY <2>3, <2>4
    <2> QED  BY <2>2, <2>3, <2>5
  <1>5. ASSUME NEW i \in 1..Len(t), NEW j \in 1..Len(t), t[i].waiter \in Ops, t[i].waiter = t[j].waiter
        PROVE  i = j
    <2>1. i + 1 = j + 1  BY <1>1, <1>2, <1>5 DEF Unique
    <2> QED  BY <2>1
  <1>6. t # <<>> => t[Len(t)] = saves[Len(saves)]  BY <1>1
  <1> QED  BY <1>3, <1>4, <1>5, <1>6 DEF t

LEMMA WrittenStep == ASSUME IInv, Written PROVE StoreInv'
  <1> USE SyncAssumption DEF IInv, StoreInv, Written
  <1> DEFINE who == Head(saves).waiter
  <1>1. /\ Len(saves') = Len(saves) /\ saves' # <<>> /\ Head(saves') = saves'[1]
        /\ 1 \in 1..Len(saves) /\ who = saves[1].waiter /\ Len(saves) \in Nat
        /\ saves'[1].items = saves[1].items /\ saves'[1].waiter = None
        /\ \A i \in 1..Len(saves) : saves'[i].items = saves[i].items /\ (i # 1 => saves'[i] = saves[i])
    BY WriteOfHead, HeadOfSaves
  <1>2. who \in Ops \cup Runs \cup {None}  BY HeadOfSaves DEF SaveRecord
  <1>3. \A o \in Ops \ {who} : request'[o] = request[o]  BY <1>2 DEF Resume, TypeOK
  <1>4. who \in Ops => request'[who].pc = "queued" /\ request[who].pc = "saving"
    BY <1>1 DEF Resume, TypeOK, Waiters, At
  <1>5. UNCHANGED <<settled, endangered, loading, loaded, apart, queue, disk, failedSave>> /\ written' /\ ~written  OBVIOUS
  <1> HIDE DEF who, Written
  <1>6. Fresh' /\ Overlap' /\ Writing'  BY <1>1, <1>5 DEF Fresh, Overlap, Writing
  <1>7. DiskFollowsSignal'
    <2>1. saves # <<>> /\ Len(saves) \in 1..Len(saves)  BY <1>1
    <2> QED  BY <1>1, <1>5, <2>1 DEF DiskFollowsSignal
  <1>8. Kept'
    <2> SUFFICES ASSUME NEW o \in Ops, request'[o].pc = "queued", Safe(o)
                 PROVE /\ o \in disk \/ o \in saves[1].items
                       /\ o \in loaded \/ (~loading /\ o \in queue)
                       /\ \A i \in 1..Len(saves) : o \in saves[i].items
      BY <1>1, <1>5 DEF Kept, Safe, InWrite
    <2>1. CASE o = who
      <3>1. ~loading /\ o \in queue  BY <1>4, <2>1 DEF Asked
      <3>2. \A j \in 1..Len(saves) : o \in saves[j].items  BY <1>1, <2>1 DEF Waiters
      <3> QED  BY <1>1, <3>1, <3>2
    <2>2. CASE o # who
      <3>1. request[o].pc = "queued"  BY <1>3, <2>2
      <3> QED  BY <1>5, <3>1 DEF Kept, InWrite
    <2> QED  BY <2>1, <2>2
  <1>9. Asked'
    <2> SUFFICES ASSUME NEW o \in Ops, request'[o].pc = "saving", Safe(o) PROVE ~loading /\ o \in queue
      BY <1>5 DEF Asked, Safe
    <2>1. o # who  BY <1>4
    <2> QED  BY <1>3, <2>1 DEF Asked
  <1>10. \A i \in 1..Len(saves') : saves'[i].waiter \in Ops => i # 1 /\ saves'[i] = saves[i]
    BY <1>1
  <1>11. Unique'  BY <1>1, <1>10 DEF Unique
  <1>12. Waiters'
    <2> SUFFICES ASSUME NEW i \in 1..Len(saves), NEW o \in Ops, saves'[i].waiter = o
                 PROVE /\ request'[o].pc = "saving"
                       /\ Safe(o) => \A j \in i..Len(saves) : o \in saves'[j].items
      BY <1>1, <1>5 DEF Waiters, Safe
    <2>1. i # 1 /\ saves[i].waiter = o  BY <1>1, <1>10
    <2>2. o # who  BY <1>1, <2>1 DEF Unique
    <2>3. request[o].pc = "saving" /\ (Safe(o) => \A j \in i..Len(saves) : o \in saves[j].items)
      BY <2>1 DEF Waiters
    <2>4. \A j \in i..Len(saves) : j \in 1..Len(saves)  BY <1>1
    <2>5. Safe(o) => \A j \in i..Len(saves) : o \in saves'[j].items  BY <1>1, <2>3, <2>4
    <2> QED  BY <1>3, <2>2, <2>3, <2>5
  <1> QED  BY <1>6, <1>7, <1>8, <1>9, <1>11, <1>12

\* The first save is over, committed or not.
LEMMA EndedStep == ASSUME IInv, Committed \/ Aborted PROVE StoreInv'
  <1> USE SyncAssumption DEF IInv, StoreInv
  <1> DEFINE t == Tail(saves)
  <1>0. saves # <<>> /\ written /\ ~written'  BY DEF Committed, Aborted, Writing
  <1>1. Head(saves) = saves[1] /\ 1 \in 1..Len(saves) /\ Len(saves) \in Nat /\ (t = <<>> <=> Len(saves) = 1)
    BY <1>0, HeadOfSaves
  <1>2. UNCHANGED <<settled, loading, loaded, apart, queue, request>> /\ saves' = t /\ endangered \subseteq endangered'
    BY DEF Committed, Aborted
  <1>3. Fresh' /\ Overlap' /\ Writing'  BY <1>0, <1>2 DEF Fresh, Overlap, Writing
  <1>4. DiskFollowsSignal'
    <2>1. t # <<>> => t[Len(t)] = saves[Len(saves)]  BY <1>0, TailOfSaves
    <2>2. failedSave' \/ disk' = saves[1].items  BY <1>1 DEF Committed, Aborted
    <2> QED  BY <1>0, <1>1, <1>2, <2>1, <2>2 DEF DiskFollowsSignal
  <1>5. \A o : Safe(o)' => Safe(o)  BY <1>2 DEF Safe
  <1>6. Kept'
    <2> SUFFICES ASSUME NEW o \in Ops, request[o].pc = "queued", Safe(o)'
                 PROVE /\ o \in disk'
                       /\ o \in loaded \/ (~loading /\ o \in queue)
                       /\ \A i \in 1..Len(t) : o \in t[i].items
      BY <1>2 DEF Kept
    <2>1. /\ o \in disk \/ o \in Head(saves).items
          /\ o \in loaded \/ (~loading /\ o \in queue)
          /\ o \in saves[1].items
      BY <1>1, <1>5 DEF Kept, InWrite
    <2>2. o \in disk'
      <3>1. CASE Committed  BY <1>1, <2>1, <3>1 DEF Committed
      <3>2. CASE Aborted
        <4>1. o \notin Head(saves).items \ disk  BY <1>0, <3>2 DEF Aborted, Uncommitted, Safe
        <4> QED  BY <2>1, <3>2, <4>1 DEF Aborted
      <3> QED  BY <3>1, <3>2
    <2> QED  BY <1>0, <1>5, <2>1, <2>2, TailOfSaves
  <1>7. Asked'  BY <1>2, <1>5 DEF Asked
  <1>8. Waiters' /\ Unique'
    <2>1. Unique'  BY <1>0, <1>2, TailOfSaves DEF Unique
    <2>2. \A i \in 1..Len(t) : t[i].waiter \in Ops =>
              /\ request[t[i].waiter].pc = "saving"
              /\ Safe(t[i].waiter) => \A j \in i..Len(t) : t[i].waiter \in t[j].items
      BY <1>0, TailOfSaves
    <2> HIDE DEF t
    <2>3. Waiters'
      <3> SUFFICES ASSUME NEW i \in 1..Len(t), NEW o \in Ops, t[i].waiter = o
                   PROVE request[o].pc = "saving" /\ (Safe(o)' => \A j \in i..Len(t) : o \in t[j].items)
        BY <1>2 DEF Waiters, Safe
      <3> QED  BY <1>5, <2>2
    <2> QED  BY <2>1, <2>3
  <1> QED  BY <1>3, <1>4, <1>6, <1>7, <1>8

\* A failing save, without the save that a run may ask for after it.
LEMMA FailedTail ==
  ASSUME IInv, saves # <<>>, ~written, UNCHANGED <<queue, written, disk, loading, loaded, apart, endangered, settled>>,
         saves' = Tail(saves), failedSave' = TRUE,
         \A o \in Ops \ {Head(saves).waiter} : request'[o] = request[o],
         Head(saves).waiter \in Ops => request'[Head(saves).waiter].pc = "ended"
  PROVE  StoreInv'
  <1> USE DEF IInv, StoreInv
  <1>1. Fresh' /\ Overlap' /\ Writing'  BY DEF Fresh, Overlap, Writing
  <1>2. DiskFollowsSignal'  BY TailOfSaves DEF DiskFollowsSignal
  <1>3. \A o \in Ops : request'[o].pc \in {"queued", "saving"} => request'[o] = request[o]  OBVIOUS
  <1>4. Kept'  BY <1>3, TailOfSaves DEF Kept, Safe, InWrite
  <1>5. Asked'  BY <1>3 DEF Asked, Safe
  <1>6. Waiters'  BY TailOfSaves DEF Waiters, Safe
  <1>7. Unique'  BY TailOfSaves DEF Unique
  <1> QED  BY <1>1, <1>2, <1>4, <1>5, <1>6, <1>7

LEMMA SaveFailedStep == ASSUME IInv, SaveFailed PROVE StoreInv'
  <1> USE SyncAssumption
  <1> DEFINE who == Head(saves).waiter
             t == Tail(saves)
  <1>1. /\ saves # <<>> /\ ~written /\ failedSave' = TRUE
        /\ UNCHANGED <<online, queue, written, disk, loading, loaded, apart, endangered, applied, settled>>
    BY DEF SaveFailed
  <1>2. CASE who \in Ops /\ request' = [request EXCEPT ![who] = At("ended")] /\ saves' = t
    <2>1. request'[who].pc = "ended" /\ \A o \in Ops \ {who} : request'[o] = request[o]
      BY <1>2 DEF IInv, TypeOK, At
    <2> QED  BY <1>1, <1>2, <2>1, FailedTail
  <1>3. CASE who \notin Ops /\ UNCHANGED request /\ saves' = t
    <2>1. \A o \in Ops \ {who} : request'[o] = request[o]  BY <1>3
    <2>2. who \notin Ops /\ saves' = Tail(saves)  BY <1>3
    <2> QED  BY <1>1, <2>1, <2>2, FailedTail
  <1>4. CASE who \in Runs /\ UNCHANGED request /\ saves' = Append(t, [items |-> queue, waiter |-> who])
    <2> USE DEF IInv, StoreInv
    <2> DEFINE e == [items |-> queue, waiter |-> who]
    <2>1. e \in SaveRecord /\ e.items = queue /\ e.waiter \notin Ops  BY <1>4 DEF SaveRecord, TypeOK
    <2>2. t \in Seq(SaveRecord)  BY <1>1, HeadOfSaves
    <2> HIDE DEF e
    <2>3. saves' = Append(t, e)  BY <1>4 DEF e
    <2> HIDE DEF t
    <2>4. /\ saves' # <<>> /\ Len(saves') = Len(t) + 1 /\ Len(t) \in Nat
          /\ \A i \in 1..Len(t) : saves'[i] = t[i]
          /\ saves'[Len(saves')] = e
      BY <2>1, <2>2, <2>3, AppendProperties, LenProperties
    <2>5. \A i \in 1..Len(saves') : i = Len(saves') \/ i \in 1..Len(t)  BY <2>4
    <2>6. /\ \A o \in Ops : request[o].pc = "queued" /\ Safe(o) => \A i \in 1..Len(t) : o \in t[i].items
          /\ \A i \in 1..Len(t) : t[i].waiter \in Ops =>
               /\ request[t[i].waiter].pc = "saving"
               /\ Safe(t[i].waiter) => \A j \in i..Len(t) : t[i].waiter \in t[j].items
          /\ \A i, j \in 1..Len(t) : t[i].waiter \in Ops /\ t[i].waiter = t[j].waiter => i = j
      BY <1>1, TailOfSaves DEF t
    <2>7. Fresh' /\ Overlap' /\ Writing'  BY <1>1 DEF Fresh, Overlap, Writing
    <2>8. DiskFollowsSignal'  BY <1>1, <2>1, <2>4 DEF DiskFollowsSignal
    <2>9. Kept'
      <3> SUFFICES ASSUME NEW o \in Ops, request[o].pc = "queued", Safe(o)
                   PROVE /\ o \in disk /\ (o \in loaded \/ (~loading /\ o \in queue))
                         /\ \A i \in 1..Len(saves') : o \in saves'[i].items
        BY <1>1, <1>4 DEF Kept, Safe, InWrite
      <3>1. o \in disk /\ (o \in loaded \/ (~loading /\ o \in queue))  BY <1>1 DEF Kept, InWrite
      <3>2. o \in queue  BY <1>1, <3>1 DEF Overlap, Safe
      <3> QED  BY <2>1, <2>4, <2>5, <2>6, <3>1, <3>2
    <2>10. Asked'  BY <1>1, <1>4 DEF Asked, Safe
    <2>11. Waiters'
      <3> SUFFICES ASSUME NEW i \in 1..Len(saves'), NEW o \in Ops, saves'[i].waiter = o
                   PROVE /\ request[o].pc = "saving"
                         /\ Safe(o) => \A j \in i..Len(saves') : o \in saves'[j].items
        BY <1>1, <1>4 DEF Waiters, Safe
      <3>1. i \in 1..Len(t) /\ t[i].waiter = o  BY <2>1, <2>4, <2>5
      <3>2. request[o].pc = "saving"  BY <2>6, <3>1
      <3>3. ASSUME Safe(o) PROVE \A j \in i..Len(saves') : o \in saves'[j].items
        <4>1. o \in queue /\ \A j \in i..Len(t) : o \in t[j].items  BY <2>6, <3>1, <3>2, <3>3 DEF Asked
        <4> QED  BY <2>1, <2>4, <3>1, <4>1
      <3> QED  BY <3>2, <3>3
    <2>12. Unique'
      <3> SUFFICES ASSUME NEW i \in 1..Len(saves'), NEW j \in 1..Len(saves'),
                          saves'[i].waiter \in Ops, saves'[i].waiter = saves'[j].waiter
                   PROVE i = j
        BY DEF Unique
      <3>1. i \in 1..Len(t) /\ j \in 1..Len(t)  BY <2>1, <2>4, <2>5
      <3> QED  BY <2>4, <2>6, <3>1
    <2> QED  BY <2>7, <2>8, <2>9, <2>10, <2>11, <2>12
  <1> QED  BY <1>2, <1>3, <1>4 DEF SaveFailed

LEMMA LoadStep == ASSUME IInv, Load \/ LoadRefused PROVE StoreInv'
  <1> USE DEF IInv, StoreInv, Load, LoadRefused
  <1>1. Fresh' /\ Overlap' /\ Writing'  BY DEF Fresh, Overlap, Writing
  <1>2. DiskFollowsSignal'  BY DEF Fresh, DiskFollowsSignal
  <1>3. Kept'  BY DEF Kept, Safe, InWrite
  <1>4. Asked'  BY DEF Asked, Safe
  <1>5. Waiters'  BY DEF Waiters, Safe
  <1>6. Unique'  BY DEF Unique
  <1> QED  BY <1>1, <1>2, <1>3, <1>4, <1>5, <1>6

LEMMA RestartStep == ASSUME IInv, Restart PROVE StoreInv'
  <1> USE DEF IInv, StoreInv, Restart, LoadQueue
  <1>1. saves' = <<>> /\ Len(saves') = 0 /\ \A i \in 1..Len(saves') : FALSE  OBVIOUS
  <1>2. Fresh' /\ Overlap' /\ Writing' /\ DiskFollowsSignal'
    BY <1>1 DEF Fresh, Overlap, Writing, DiskFollowsSignal
  <1>3. \A o \in Ops : request'[o].pc # "saving" /\ (request'[o].pc = "queued" => request[o].pc = "queued")
    BY DEF At
  <1>4. Kept'
    <2> SUFFICES ASSUME NEW o \in Ops, request[o].pc = "queued", Safe(o)' PROVE o \in disk
      BY <1>1, <1>3 DEF Kept
    <2>1. Safe(o) /\ o \notin Uncommitted  BY DEF Safe
    <2> QED  BY <2>1 DEF Kept, InWrite, Uncommitted
  <1>5. Asked'  BY <1>3 DEF Asked
  <1>6. Waiters' /\ Unique'  BY <1>1 DEF Waiters, Unique
  <1> QED  BY <1>2, <1>4, <1>5, <1>6

LEMMA StoreStep == IInv /\ [Next]_vars => StoreInv'
  <1> SUFFICES ASSUME IInv, [Next]_vars PROVE StoreInv'  OBVIOUS
  <1> USE SyncAssumption
  <1>0. request \in [Ops -> Request] /\ run \in [Runs -> Run]  BY DEF IInv, TypeOK
  <1>1. ASSUME NEW o \in Ops, Save(queue \cup {o}, o), request[o].pc \in {"new", "sent"},
               request' = [request EXCEPT ![o] = At("saving")], UNCHANGED settled
        PROVE StoreInv'
    <2>1. queue \cup {o} \in SUBSET Ops  BY DEF IInv, TypeOK
    <2>2. request'[o].pc = "saving" /\ \A q \in Ops \ {o} : request'[q] = request[q]  BY <1>0, <1>1 DEF At
    <2>3. /\ o \in Ops \cup Runs \cup {None} /\ settled \subseteq settled' /\ queue \ settled' \subseteq queue \cup {o}
          /\ o \in queue \cup {o} /\ request[o].pc \notin {"saving", "queued"}
      BY <1>1
    <2> QED  BY <1>1, <2>1, <2>2, <2>3, SaveStep
  <1>2. ASSUME NEW o \in Ops, Ask(o) PROVE StoreInv'
    <2>1. CASE ~online  BY <1>1, <1>2, <2>1 DEF Ask
    <2>2. CASE online
      <3>1. PICK taken \in BOOLEAN : request' = [request EXCEPT ![o] = [pc |-> "sent", taken |-> taken]]
        BY <1>2, <2>2 DEF Ask
      <3>2. request'[o].pc = "sent" /\ \A q \in Ops \ {o} : request'[q] = request[q]  BY <1>0, <3>1
      <3> QED  BY <1>2, <2>2, <3>2, StoreAlone DEF Ask
    <2> QED  BY <2>1, <2>2
  <1>3. ASSUME NEW o \in Ops, Answer(o) PROVE StoreInv'
    <2>1. request'[o].pc \in {"ended", "forced"} /\ \A q \in Ops \ {o} : request'[q] = request[q]
      BY <1>0, <1>3 DEF Answer, At
    <2> QED  BY <1>3, <2>1, StoreAlone DEF Answer
  <1>4. ASSUME NEW o \in Ops, NoAnswer(o) PROVE StoreInv'
    <2>1. CASE request[o].pc = "sent"  BY <1>1, <1>4, <2>1 DEF NoAnswer
    <2>2. CASE request[o].pc = "forced"
      <3>1. request'[o].pc = "ended" /\ \A q \in Ops \ {o} : request'[q] = request[q]
        BY <1>0, <1>4, <2>2 DEF NoAnswer, At
      <3> QED  BY <1>4, <2>2, <3>1, StoreAlone DEF NoAnswer
    <2> QED  BY <1>4, <2>1, <2>2 DEF NoAnswer
  <1>5. ASSUME NEW o \in Ops, Dismiss(o) PROVE StoreInv'
    <2>1. /\ queue \ {o} \in SUBSET Ops /\ None \in Ops \cup Runs \cup {None} /\ None \notin Ops
          /\ settled \subseteq settled' /\ queue \ settled' \subseteq queue \ {o}
          /\ Save(queue \ {o}, None) /\ \A q \in Ops \ {None} : request'[q] = request[q]
      BY <1>5 DEF Dismiss, IInv, TypeOK
    <2> QED  BY <2>1, SaveStep
  <1>6. ASSUME NEW r \in Runs, ItemAnswered(r) PROVE StoreInv'
    <2>1. /\ queue \ {run[r].op} \in SUBSET Ops /\ r \in Ops \cup Runs \cup {None} /\ r \notin Ops
          /\ settled \subseteq settled' /\ queue \ settled' \subseteq queue \ {run[r].op}
          /\ Save(queue \ {run[r].op}, r) /\ \A q \in Ops \ {r} : request'[q] = request[q]
      BY <1>6 DEF ItemAnswered, IInv, TypeOK
    <2> QED  BY <2>1, SaveStep
  <1>7. ASSUME NEW r \in Runs, ItemKept(r) PROVE StoreInv'
    <2>1. /\ queue \in SUBSET Ops /\ r \in Ops \cup Runs \cup {None} /\ r \notin Ops
          /\ settled \subseteq settled' /\ queue \ settled' \subseteq queue
          /\ Save(queue, r) /\ \A q \in Ops \ {r} : request'[q] = request[q]
      BY <1>7 DEF ItemKept, IInv, TypeOK
    <2> QED  BY <2>1, SaveStep
  <1>8. ASSUME NEW r \in Runs, NextItem(r) PROVE StoreInv'  BY <1>8, StoreAlone DEF NextItem
  <1>9. ASSUME NEW r \in Runs, Finish(r) PROVE StoreInv'  BY <1>9, StoreAlone DEF Finish, EndRun
  <1>10. CASE GoOffline  BY <1>10, StoreAlone DEF GoOffline
  <1>11. CASE GoOnline  BY <1>11, StoreAlone DEF GoOnline
  <1>12. CASE UNCHANGED vars  BY <1>12, StoreAlone DEF vars
  <1> QED
    BY <1>2, <1>3, <1>4, <1>5, <1>6, <1>7, <1>8, <1>9, <1>10, <1>11, <1>12,
       LoadStep, WrittenStep, EndedStep, SaveFailedStep, RestartStep DEF Next, RunStep

-----------------------------------------------------------------------------
LEMMA IInvStep == IInv /\ [Next]_vars => IInv'
  BY TypeStep, StoreStep DEF IInv

\* The variables of the offline queue keep their types.
THEOREM SyncTypeCorrect == Spec => []TypeOK
  <1>1. IInv => TypeOK  BY DEF IInv
  <1> QED  BY InitIInv, IInvStep, <1>1, PTL DEF Spec

\* What the user was told is queued stays on the device until the server answered
\* for it or the user dismissed it (SyncQueueService.add, awaited by enqueue),
\* unless a save overtook initialize or its refused read, or the write the user was
\* told of was never committed (StorageService.set resolves before that).
THEOREM QueuedKept == Spec => []QueuedIsKept
  <1>1. IInv => QueuedIsKept  BY DEF IInv, StoreInv, Kept, Safe, InWrite, QueuedIsKept
  <1> QED  BY InitIInv, IInvStep, <1>1, PTL DEF Spec

\* The disk follows the signal of SyncQueueService.
THEOREM DiskFollows == Spec => []DiskFollowsSignal
  <1>1. IInv => DiskFollowsSignal  BY DEF IInv, StoreInv
  <1> QED  BY InitIInv, IInvStep, <1>1, PTL DEF Spec

-----------------------------------------------------------------------------
\* What is carried out is paid for.

\* The request is over, or was handed to the queue.
Handed(o) == request[o].pc \in {"saving", "queued", "ended"}

InSaves(o) == \E i \in 1..Len(saves) : o \in saves[i].items
Holds(r, o) == o \in run[r].items \/ (run[r].pc = "sent" /\ run[r].op = o)

\* Every place an item may be sent from, now or after a restart.
Stored(o) ==
    \/ o \in queue \cup disk \cup loaded
    \/ InSaves(o)
    \/ \E r \in Runs : Holds(r, o)

Known == \A o \in Ops : Stored(o) => Handed(o)

\* One run is at work at a time, and it sends an item once.
OneRun ==
    /\ \A r \in Runs : run[r].pc # "idle" => processing
    /\ \A r, q \in Runs : run[r].pc # "idle" /\ run[q].pc # "idle" => r = q
    /\ \A r \in Runs : run[r].pc = "idle" => run[r].items = {}
    /\ \A r \in Runs : run[r].pc = "sent" => run[r].op \notin run[r].items

\* A run waits for one save at most, and only after it has sent something.
RunWaits ==
    /\ \A i \in 1..Len(saves) : saves[i].waiter \in Runs => run[saves[i].waiter].pc \in {"removing", "updating"}
    /\ \A i, j \in 1..Len(saves) : saves[i].waiter \in Runs /\ saves[i].waiter = saves[j].waiter => i = j

\* What initialize is about to load is not at the same time at hand.
Apart == loading => \A o \in loaded : o \notin queue /\ \A r \in Runs : ~Holds(r, o)

Orderly == Known /\ OneRun /\ RunWaits /\ Apart

\* What a run has in flight was carried out.
Taken(o) == \E r \in Runs : run[r].pc = "sent" /\ run[r].op = o /\ run[r].taken

\* Something may send the operation, for the first time or again.
MaySend(o) ==
    \/ request[o].pc = "new"
    \/ request[o].pc = "sent" /\ ~request[o].taken
    \/ ~Taken(o) /\ (o \in queue \/ (loading /\ o \in loaded) \/ \E r \in Runs : o \in run[r].items)

Budget(o) == applied[o] + (IF MaySend(o) THEN 1 ELSE 0) <= 1 + faults

\* What a step makes of the saves: a new one at the end, or the first one gone.
LEMMA AppendSave ==
  ASSUME TypeOK, NEW e \in SaveRecord
  PROVE  LET t == Append(saves, e) IN
         /\ Len(saves) \in Nat /\ Len(t) = Len(saves) + 1 /\ t[Len(t)] = e
         /\ \A i \in 1..Len(t) : i = Len(t) \/ (i \in 1..Len(saves) /\ t[i] = saves[i])
  <1> DEFINE t == Append(saves, e)
  <1>1. saves \in Seq(SaveRecord)  BY SavesType
  <1>2. /\ Len(saves) \in Nat /\ Len(t) = Len(saves) + 1 /\ t[Len(t)] = e
        /\ \A i \in 1..Len(saves) : t[i] = saves[i]
    BY <1>1, AppendProperties, LenProperties
  <1> HIDE DEF t
  <1>3. \A i \in 1..Len(t) : i = Len(t) \/ (i \in 1..Len(saves) /\ t[i] = saves[i])  BY <1>2
  <1> QED  BY <1>2, <1>3 DEF t

LEMMA HandedStep == IInv /\ [Next]_vars => \A o \in Ops : Handed(o) => Handed(o)'
  <1> SUFFICES ASSUME IInv, [Next]_vars, NEW x \in Ops, Handed(x) PROVE Handed(x)'  OBVIOUS
  <1> DEFINE Goal == Handed(x)'
  <1>0. request \in [Ops -> Request]  BY DEF IInv, TypeOK
  <1>1. ASSUME request'[x] = request[x] PROVE Goal  BY <1>1 DEF Handed
  <1>2. ASSUME request'[x].pc \in {"saving", "queued", "ended"} PROVE Goal  BY <1>2 DEF Handed
  <1>3. ASSUME UNCHANGED request PROVE Goal  BY <1>1, <1>3
  <1> HIDE DEF Goal
  <1>4. ASSUME NEW o \in Ops, Ask(o) PROVE Goal
    <2>1. o # x  BY <1>4 DEF Ask, Handed
    <2> QED  BY <1>0, <1>1, <1>4, <2>1 DEF Ask
  <1>5. ASSUME NEW o \in Ops, Answer(o) PROVE Goal
    <2>1. o # x  BY <1>5 DEF Answer, Handed
    <2> QED  BY <1>0, <1>1, <1>5, <2>1 DEF Answer
  <1>6. ASSUME NEW o \in Ops, NoAnswer(o) PROVE Goal
    <2>1. o # x  BY <1>6 DEF NoAnswer, Handed
    <2> QED  BY <1>0, <1>1, <1>6, <2>1 DEF NoAnswer
  <1>7. ASSUME Written PROVE Goal
    <2>1. request' = request \/ \E w \in Ops : request' = [request EXCEPT ![w] = At("queued")]
      BY <1>7 DEF Written, Resume
    <2>2. request'[x] = request[x] \/ request'[x].pc = "queued"  BY <1>0, <2>1 DEF At
    <2> QED  BY <1>1, <1>2, <2>2
  <1>8. ASSUME SaveFailed PROVE Goal
    <2>1. request' = request \/ \E w \in Ops : request' = [request EXCEPT ![w] = At("ended")]
      BY <1>8 DEF SaveFailed
    <2>2. request'[x] = request[x] \/ request'[x].pc = "ended"  BY <1>0, <2>1 DEF At
    <2> QED  BY <1>1, <1>2, <2>2
  <1>9. ASSUME Restart PROVE Goal
    <2>1. request'[x] = request[x] \/ request'[x].pc = "ended"  BY <1>9 DEF Restart, At
    <2> QED  BY <1>1, <1>2, <2>1
  <1>10. ASSUME UNCHANGED vars PROVE Goal  BY <1>3, <1>10 DEF vars
  <1>11. ASSUME NEW r \in Runs, RunStep(r) PROVE Goal
    BY <1>3, <1>11 DEF RunStep, NextItem, Finish, ItemAnswered, ItemKept
  <1>12. ASSUME NEW o \in Ops, Dismiss(o) PROVE Goal  BY <1>3, <1>12 DEF Dismiss
  <1>13. ASSUME GoOffline \/ GoOnline \/ Load \/ LoadRefused \/ Committed \/ Aborted PROVE Goal
    BY <1>3, <1>13 DEF GoOffline, GoOnline, Load, LoadRefused, Committed, Aborted
  <1>14. Goal
    BY <1>4, <1>5, <1>6, <1>7, <1>8, <1>9, <1>10, <1>11, <1>12, <1>13 DEF Next
  <1> QED  BY <1>14 DEF Goal

LEMMA ItemsOfSave ==
  ASSUME TypeOK, NEW items \in SUBSET Ops, NEW who \in Ops \cup Runs \cup {None}, Save(items, who),
         NEW o, InSaves(o)'
  PROVE  o \in items \/ InSaves(o)
  <1> DEFINE e == [items |-> items, waiter |-> who]
  <1>1. e \in SaveRecord /\ e.items = items  BY DEF SaveRecord
  <1>2. saves' = Append(saves, e)  BY DEF Save
  <1> HIDE DEF e
  <1>3. PICK i \in 1..Len(saves') : o \in saves'[i].items  BY DEF InSaves
  <1>4. saves'[i] = e \/ (i \in 1..Len(saves) /\ saves'[i] = saves[i])  BY <1>1, <1>2, <1>3, AppendSave
  <1> QED  BY <1>1, <1>3, <1>4 DEF InSaves

LEMMA ItemsOfTail ==
  ASSUME IInv, saves # <<>>, NEW o
  PROVE  /\ o \in Head(saves).items => InSaves(o)
         /\ \A i \in 1..Len(Tail(saves)) : o \in Tail(saves)[i].items => InSaves(o)
  <1>1. /\ Head(saves) = saves[1] /\ Len(saves) \in Nat \ {0}
        /\ Len(Tail(saves)) = Len(saves) - 1
        /\ \A i \in 1..Len(Tail(saves)) : Tail(saves)[i] = saves[i + 1]
    BY HeadOfSaves
  <1>2. 1 \in 1..Len(saves) /\ \A i \in 1..Len(Tail(saves)) : i + 1 \in 1..Len(saves)  BY <1>1
  <1> QED  BY <1>1, <1>2 DEF InSaves

\* A run that goes anywhere but to "sent" holds what it held.
LEMMA HoldsStep ==
  ASSUME TypeOK, NEW r \in Runs, NEW pc, pc # "sent", Goto(r, pc), NEW q \in Runs, NEW o, Holds(q, o)'
  PROVE  Holds(q, o)
  BY DEF TypeOK, Run, Goto, Holds

LEMMA KnownStep ==
  ASSUME IInv, Known, [Next]_vars, NEW x \in Ops, Stored(x)'
  PROVE  Handed(x)'
  <1> USE SyncAssumption
  <1> DEFINE Goal == Handed(x)'
  <1>0. TypeOK /\ request \in [Ops -> Request] /\ run \in [Runs -> Run] /\ queue \in SUBSET Ops
    BY DEF IInv, TypeOK
  <1>1. ASSUME Stored(x) PROVE Goal  BY <1>1, HandedStep DEF Known
  <1> HIDE DEF Goal
  <1>2. ASSUME UNCHANGED <<store, run>> PROVE Goal
    BY <1>1, <1>2 DEF store, Stored, InSaves, Holds
  <1>3. ASSUME NEW items \in SUBSET Ops, NEW who \in Ops \cup Runs \cup {None}, Save(items, who),
               \A r \in Runs : Holds(r, x)' => Holds(r, x), x \in items => x \in queue \/ Handed(x)'
        PROVE Goal
    <2>1. UNCHANGED <<disk, loaded>> /\ queue' = items  BY <1>3 DEF Save
    <2>2. InSaves(x)' => x \in items \/ InSaves(x)  BY <1>0, <1>3, ItemsOfSave
    <2> QED  BY <1>1, <1>3, <2>1, <2>2 DEF Stored, Goal
  <1>4. ASSUME NEW o \in Ops, Save(queue \cup {o}, o), UNCHANGED run, request' = [request EXCEPT ![o] = At("saving")]
        PROVE Goal
    <2>1. x = o => Handed(x)'  BY <1>0, <1>4 DEF Handed, At
    <2>2. queue \cup {o} \in SUBSET Ops  BY <1>0
    <2>3. \A r \in Runs : Holds(r, x)' => Holds(r, x)  BY <1>4 DEF Holds
    <2> QED  BY <1>3, <1>4, <2>1, <2>2, <2>3
  <1>5. ASSUME NEW o \in Ops, Ask(o) \/ NoAnswer(o) \/ Answer(o) PROVE Goal
    BY <1>2, <1>4, <1>5 DEF Ask, Answer, NoAnswer
  <1>6. ASSUME NEW o \in Ops, Dismiss(o) PROVE Goal
    <2>1. Save(queue \ {o}, None) /\ UNCHANGED run  BY <1>6 DEF Dismiss
    <2>2. queue \ {o} \in SUBSET Ops  BY <1>0
    <2>3. \A r \in Runs : Holds(r, x)' => Holds(r, x)  BY <2>1 DEF Holds
    <2> QED  BY <1>3, <2>1, <2>2, <2>3
  <1>7. ASSUME NEW r \in Runs, ItemAnswered(r) \/ ItemKept(r) PROVE Goal
    <2>1. PICK pc \in {"removing", "updating"} : Goto(r, pc)  BY <1>7 DEF ItemAnswered, ItemKept
    <2>2. \A q \in Runs : Holds(q, x)' => Holds(q, x)  BY <1>0, <2>1, HoldsStep
    <2>3. PICK items \in SUBSET queue : Save(items, r)  BY <1>7 DEF ItemAnswered, ItemKept
    <2>4. items \in SUBSET Ops  BY <1>0
    <2> QED  BY <1>3, <2>2, <2>3, <2>4
  <1>8. ASSUME UNCHANGED store, \A r \in Runs : Holds(r, x)' => x \in queue \/ \E q \in Runs : Holds(q, x) PROVE Goal
    BY <1>1, <1>8 DEF store, Stored, InSaves
  <1>9. ASSUME GoOnline PROVE Goal
    <2>1. UNCHANGED store  BY <1>9 DEF GoOnline
    <2>2. \/ UNCHANGED run
          \/ \E r \in Runs : run' = [run EXCEPT ![r] = [IdleRun EXCEPT !.pc = "next", !.items = queue]]
      BY <1>9 DEF GoOnline
    <2>3. \A q \in Runs : Holds(q, x)' => x \in queue \/ Holds(q, x)
      <3>1. ASSUME NEW r \in Runs, run' = [run EXCEPT ![r] = [IdleRun EXCEPT !.pc = "next", !.items = queue]]
            PROVE  \A q \in Runs : Holds(q, x)' => x \in queue \/ Holds(q, x)
        <4>1. run'[r].pc = "next" /\ run'[r].items = queue /\ \A q \in Runs \ {r} : run'[q] = run[q]
          BY <1>0, <3>1 DEF IdleRun
        <4> QED  BY <4>1 DEF Holds
      <3>2. run' = run => \A q \in Runs : Holds(q, x)' => Holds(q, x)  BY DEF Holds
      <3> QED  BY <2>2, <3>1, <3>2
    <2> QED  BY <1>8, <2>1, <2>3
  <1>10. ASSUME NEW r \in Runs, NextItem(r) PROVE Goal
    <2>1. UNCHANGED store  BY <1>10 DEF NextItem
    <2>2. PICK o \in run[r].items :
            \/ \E taken \in BOOLEAN : run' = [run EXCEPT ![r] = [pc |-> "sent", items |-> @.items \ {o}, op |-> o, taken |-> taken]]
            \/ run' = [run EXCEPT ![r] = [@ EXCEPT !.items = run[r].items \ {o}]]
      BY <1>10 DEF NextItem
    <2>3. \A q \in Runs : Holds(q, x)' => Holds(q, x)
      <3>1. CASE run' = [run EXCEPT ![r] = [@ EXCEPT !.items = run[r].items \ {o}]]
        BY <1>0, <3>1 DEF Holds, Run
      <3>2. ASSUME NEW taken \in BOOLEAN, run' = [run EXCEPT ![r] = [pc |-> "sent", items |-> @.items \ {o}, op |-> o, taken |-> taken]]
            PROVE  \A q \in Runs : Holds(q, x)' => Holds(q, x)
        BY <1>0, <3>2 DEF Holds, Run
      <3> QED  BY <2>2, <3>1, <3>2
    <2> QED  BY <1>8, <2>1, <2>3
  <1>11. ASSUME NEW r \in Runs, Finish(r) PROVE Goal
    <2>1. \A q \in Runs : Holds(q, x)' => Holds(q, x)  BY <1>0, <1>11 DEF Finish, EndRun, IdleRun, Holds
    <2> QED  BY <1>8, <1>11, <2>1 DEF Finish
  <1>12. ASSUME GoOffline \/ UNCHANGED vars PROVE Goal  BY <1>2, <1>12 DEF GoOffline, vars
  <1>13. ASSUME Load \/ LoadRefused PROVE Goal  BY <1>1, <1>13 DEF Load, LoadRefused, Stored, InSaves, Holds
  <1>14. ASSUME Restart PROVE Goal
    <2>1. saves' = <<>> /\ queue' = {} /\ loaded' = disk /\ disk' = disk /\ run' = [r \in Runs |-> IdleRun]
      BY <1>14 DEF Restart, LoadQueue
    <2>2. ~InSaves(x)'  BY <2>1 DEF InSaves
    <2>3. \A q \in Runs : ~Holds(q, x)'  BY <2>1 DEF Holds, IdleRun
    <2> QED  BY <1>1, <2>1, <2>2, <2>3 DEF Stored
  <1>15. ASSUME Written PROVE Goal
    <2>1. saves # <<>> /\ saves' = [saves EXCEPT ![1].waiter = None] /\ UNCHANGED <<queue, loaded, disk>>
      BY <1>15 DEF Written
    <2>2. \A q \in Runs : Holds(q, x)' => Holds(q, x)
      <3>1. run' = run \/ \E r \in Runs : run' = [run EXCEPT ![r] = [@ EXCEPT !.pc = "next", !.op = None]]
        BY <1>15 DEF Written, Resume
      <3>2. \A r \in Runs : run' = [run EXCEPT ![r] = [@ EXCEPT !.pc = "next", !.op = None]] =>
              \A q \in Runs : Holds(q, x)' => Holds(q, x)
        BY <1>0 DEF Holds, Run
      <3>3. run' = run => \A q \in Runs : Holds(q, x)' => Holds(q, x)  BY DEF Holds
      <3> QED  BY <3>1, <3>2, <3>3
    <2>3. InSaves(x)' => InSaves(x)  BY <1>0, <2>1, WriteOfHead DEF InSaves
    <2> QED  BY <1>1, <2>1, <2>2, <2>3 DEF Stored
  <1>18. ASSUME Committed \/ Aborted PROVE Goal
    <2>1. /\ saves # <<>> /\ saves' = Tail(saves) /\ UNCHANGED <<queue, loaded, run>>
          /\ disk' = disk \/ disk' = Head(saves).items
      BY <1>18 DEF Committed, Aborted, IInv, StoreInv, Writing
    <2>2. InSaves(x)' => InSaves(x)
      <3>1. InSaves(x)' => \E i \in 1..Len(Tail(saves)) : x \in Tail(saves)[i].items  BY <2>1 DEF InSaves
      <3> QED  BY <2>1, <3>1, ItemsOfTail
    <2>3. x \in Head(saves).items => InSaves(x)  BY <2>1, ItemsOfTail
    <2> QED  BY <1>1, <2>1, <2>2, <2>3 DEF Stored, Holds
  <1>16. ASSUME SaveFailed PROVE Goal
    <2>1. saves # <<>> /\ UNCHANGED <<queue, loaded, disk>>  BY <1>16 DEF SaveFailed
    <2>2. \/ saves' = Tail(saves)
          \/ \E r \in Runs : saves' = Append(Tail(saves), [items |-> queue, waiter |-> r])
      BY <1>16 DEF SaveFailed
    <2>3. \A q \in Runs : Holds(q, x)' => Holds(q, x)
      <3>1. \/ run' = run
            \/ \E r \in Runs : Goto(r, "updating")
            \/ \E r \in Runs : run' = [run EXCEPT ![r] = IdleRun]
        BY <1>16 DEF SaveFailed, EndRun, Goto
      <3>2. ASSUME NEW r \in Runs, run' = [run EXCEPT ![r] = IdleRun] PROVE \A q \in Runs : Holds(q, x)' => Holds(q, x)
        BY <1>0, <3>2 DEF Holds, IdleRun
      <3>3. run' = run => \A q \in Runs : Holds(q, x)' => Holds(q, x)  BY DEF Holds
      <3> QED  BY <1>0, <3>1, <3>2, <3>3, HoldsStep
    <2>4. InSaves(x)' => InSaves(x) \/ x \in queue
      <3>1. CASE saves' = Tail(saves)
        <4>1. InSaves(x)' => \E i \in 1..Len(Tail(saves)) : x \in Tail(saves)[i].items  BY <3>1 DEF InSaves
        <4> QED  BY <2>1, <4>1, ItemsOfTail
      <3>2. ASSUME NEW r \in Runs, saves' = Append(Tail(saves), [items |-> queue, waiter |-> r]), InSaves(x)'
            PROVE  InSaves(x) \/ x \in queue
        <4> DEFINE e == [items |-> queue, waiter |-> r]
                   t == Tail(saves)
        <4>1. e \in SaveRecord /\ e.items = queue  BY <1>0 DEF SaveRecord
        <4>2. t \in Seq(SaveRecord)  BY <2>1, HeadOfSaves
        <4>3. saves' = Append(t, e)  BY <3>2
        <4>4. PICK i \in 1..Len(saves') : x \in saves'[i].items  BY <3>2 DEF InSaves
        <4> HIDE DEF e, t
        <4>5. Len(saves') = Len(t) + 1 /\ saves'[Len(t) + 1] = e /\ (\A k \in 1..Len(t) : saves'[k] = t[k]) /\ Len(t) \in Nat
          BY <4>1, <4>2, <4>3, AppendProperties, LenProperties
        <4>6. saves'[i] = e \/ (i \in 1..Len(t) /\ x \in t[i].items)  BY <4>4, <4>5
        <4> QED  BY <2>1, <4>1, <4>4, <4>6, ItemsOfTail DEF t
      <3> QED  BY <2>2, <3>1, <3>2
    <2> QED  BY <1>1, <2>1, <2>3, <2>4 DEF Stored
  <1>17. Goal
    BY <1>5, <1>6, <1>7, <1>9, <1>10, <1>11, <1>12, <1>13, <1>14, <1>15, <1>16, <1>18 DEF Next, RunStep
  <1> QED  BY <1>17 DEF Goal

\* The run at work goes on.
LEMMA RunGoesOn ==
  ASSUME TypeOK, OneRun, NEW r \in Runs, NEW e, run' = [run EXCEPT ![r] = e], UNCHANGED processing,
         run[r].pc # "idle", e.pc # "idle", e.pc = "sent" => e.op \notin e.items
  PROVE  OneRun'
  <1>1. run'[r] = e /\ \A q \in Runs \ {r} : run'[q] = run[q]  BY DEF TypeOK
  <1>2. \A q \in Runs : run'[q].pc # "idle" => q = r  BY <1>1 DEF OneRun
  <1> QED  BY <1>1, <1>2 DEF OneRun

\* It ends.
LEMMA RunEnds ==
  ASSUME TypeOK, OneRun, NEW r \in Runs, run' = [run EXCEPT ![r] = IdleRun], run[r].pc # "idle"
  PROVE  OneRun'
  <1>1. run'[r] = IdleRun /\ \A q \in Runs \ {r} : run'[q] = run[q]  BY DEF TypeOK
  <1>2. \A q \in Runs : run'[q].pc = "idle" /\ run'[q].items = {}  BY <1>1 DEF OneRun, IdleRun
  <1> QED  BY <1>2 DEF OneRun

LEMMA OneRunStep == IInv /\ OneRun /\ RunWaits /\ [Next]_vars => OneRun'
  <1> SUFFICES ASSUME IInv, OneRun, RunWaits, [Next]_vars PROVE OneRun'  OBVIOUS
  <1> DEFINE Goal == OneRun'
  <1>0. TypeOK /\ run \in [Runs -> Run]  BY DEF IInv, TypeOK
  <1>1. ASSUME UNCHANGED <<run, processing>> PROVE Goal  BY <1>1 DEF OneRun
  <1>2. ASSUME NEW r \in Runs, NEW pc \in RunPc \ {"idle", "sent"}, Goto(r, pc), run[r].pc # "idle", UNCHANGED processing
        PROVE Goal
    <2>1. [run[r] EXCEPT !.pc = pc].pc = pc  BY <1>0 DEF Run
    <2> QED  BY <1>0, <1>2, <2>1, RunGoesOn DEF Goto
  <1>3. ASSUME NEW r \in Runs, NextItem(r) PROVE Goal
    <2>1. run[r].pc = "next" /\ UNCHANGED processing  BY <1>3 DEF NextItem
    <2>2. PICK o \in run[r].items :
            \/ \E taken \in BOOLEAN : run' = [run EXCEPT ![r] = [pc |-> "sent", items |-> @.items \ {o}, op |-> o, taken |-> taken]]
            \/ run' = [run EXCEPT ![r] = [@ EXCEPT !.items = run[r].items \ {o}]]
      BY <1>3 DEF NextItem
    <2>3. ASSUME NEW taken \in BOOLEAN, run' = [run EXCEPT ![r] = [pc |-> "sent", items |-> @.items \ {o}, op |-> o, taken |-> taken]]
          PROVE Goal
      <3> DEFINE e == [pc |-> "sent", items |-> run[r].items \ {o}, op |-> o, taken |-> taken]
      <3>1. run' = [run EXCEPT ![r] = e] /\ e.pc # "idle" /\ e.op \notin e.items  BY <2>3
      <3> QED  BY <1>0, <2>1, <3>1, RunGoesOn
    <2>4. CASE run' = [run EXCEPT ![r] = [@ EXCEPT !.items = run[r].items \ {o}]]
      <3> DEFINE e == [run[r] EXCEPT !.items = run[r].items \ {o}]
      <3>1. run' = [run EXCEPT ![r] = e] /\ e.pc = "next"  BY <1>0, <2>1, <2>4 DEF Run
      <3> QED  BY <1>0, <2>1, <3>1, RunGoesOn
    <2> QED  BY <2>2, <2>3, <2>4
  <1>4. ASSUME NEW r \in Runs, Finish(r) PROVE Goal  BY <1>0, <1>4, RunEnds DEF Finish, EndRun
  <1>5. ASSUME GoOnline PROVE Goal
    <2>1. ASSUME NEW r \in Runs, MayRun(r), processing' = TRUE,
                 run' = [run EXCEPT ![r] = [IdleRun EXCEPT !.pc = "next", !.items = queue]]
          PROVE Goal
      <3>1. run'[r].pc = "next" /\ \A q \in Runs \ {r} : run'[q] = run[q]  BY <1>0, <2>1 DEF IdleRun
      <3>2. \A q \in Runs : run[q].pc = "idle"  BY <2>1 DEF MayRun, OneRun
      <3> QED  BY <2>1, <3>1, <3>2 DEF OneRun
    <2> QED  BY <1>1, <1>5, <2>1 DEF GoOnline
  <1>6. ASSUME NEW r \in Runs, ItemAnswered(r) \/ ItemKept(r) PROVE Goal
    <2>1. PICK pc \in {"removing", "updating"} : Goto(r, pc)  BY <1>6 DEF ItemAnswered, ItemKept
    <2>2. pc \in RunPc \ {"idle", "sent"} /\ run[r].pc # "idle" /\ UNCHANGED processing
      BY <1>6, <2>1 DEF ItemAnswered, ItemKept, RunPc
    <2> QED  BY <1>2, <2>1, <2>2
  <1>7. ASSUME Written PROVE Goal
    <2> DEFINE who == Head(saves).waiter
    <2>1. saves # <<>> /\ UNCHANGED processing  BY <1>7 DEF Written
    <2>2. CASE who \in Runs
      <3>1. run' = [run EXCEPT ![who] = [run[who] EXCEPT !.pc = "next", !.op = None]]  BY <1>7, <2>2 DEF Written, Resume
      <3>2. [run[who] EXCEPT !.pc = "next", !.op = None].pc = "next"  BY <1>0, <2>2 DEF Run
      <3>3. 1 \in 1..Len(saves) /\ Head(saves) = saves[1]  BY <2>1, HeadOfSaves
      <3>4. run[who].pc # "idle"  BY <2>2, <3>3 DEF RunWaits
      <3> HIDE DEF who
      <3> QED  BY <1>0, <2>1, <2>2, <3>1, <3>2, <3>4, RunGoesOn
    <2>3. CASE who \notin Runs  BY <1>1, <1>7, <2>3 DEF Written, Resume
    <2> QED  BY <2>2, <2>3
  <1>8. ASSUME SaveFailed PROVE Goal
    <2>1. \/ UNCHANGED <<run, processing>>
          \/ \E r \in Runs : run[r].pc = "removing" /\ Goto(r, "updating") /\ UNCHANGED processing
          \/ \E r \in Runs : run[r].pc = "updating" /\ run' = [run EXCEPT ![r] = IdleRun]
      BY <1>8 DEF SaveFailed, EndRun, Goto
    <2> QED  BY <1>0, <1>1, <1>2, <2>1, RunEnds DEF RunPc
  <1>9. ASSUME Restart PROVE Goal  BY <1>9 DEF Restart, OneRun, IdleRun
  <1> HIDE DEF Goal
  <1>10. ASSUME NEW o \in Ops, Ask(o) \/ Answer(o) \/ NoAnswer(o) \/ Dismiss(o) PROVE Goal
    BY <1>1, <1>10 DEF Ask, Answer, NoAnswer, Dismiss
  <1>11. ASSUME GoOffline \/ Load \/ LoadRefused \/ Committed \/ Aborted \/ UNCHANGED vars PROVE Goal
    BY <1>1, <1>11 DEF GoOffline, Load, LoadRefused, Committed, Aborted, vars
  <1>12. Goal
    BY <1>3, <1>4, <1>5, <1>6, <1>7, <1>8, <1>9, <1>10, <1>11 DEF Next, RunStep
  <1> QED  BY <1>12 DEF Goal

\* A run of which no save is under way may go anywhere.
LEMMA WaitsElsewhere ==
  ASSUME TypeOK, RunWaits, UNCHANGED saves, NEW r \in Runs, run[r].pc \notin {"removing", "updating"},
         \A q \in Runs \ {r} : run'[q] = run[q]
  PROVE  RunWaits'
  BY DEF RunWaits

\* A save by someone who waits for no other.
LEMMA WaitsOnce ==
  ASSUME TypeOK, RunWaits, NEW items \in SUBSET Ops, NEW who \in Ops \cup Runs \cup {None}, Save(items, who),
         \A q \in Runs \ {who} : run'[q] = run[q],
         who \in Runs => /\ run[who].pc \notin {"removing", "updating"}
                         /\ run'[who].pc \in {"removing", "updating"}
  PROVE  RunWaits'
  <1> DEFINE e == [items |-> items, waiter |-> who]
  <1>1. e \in SaveRecord /\ e.waiter = who  BY DEF SaveRecord
  <1>2. saves' = Append(saves, e)  BY DEF Save
  <1> HIDE DEF e
  <1>3. /\ saves'[Len(saves')] = e
        /\ \A i \in 1..Len(saves') : i = Len(saves') \/ (i \in 1..Len(saves) /\ saves'[i] = saves[i])
    BY <1>1, <1>2, AppendSave
  <1>4. \A i \in 1..Len(saves) : saves[i].waiter \in Runs => saves[i].waiter # who  BY DEF RunWaits
  <1>5. ASSUME NEW i \in 1..Len(saves'), saves'[i].waiter \in Runs
        PROVE  run'[saves'[i].waiter].pc \in {"removing", "updating"}
    BY <1>1, <1>3, <1>4, <1>5 DEF RunWaits
  <1>6. ASSUME NEW i \in 1..Len(saves'), NEW j \in 1..Len(saves'), saves'[i].waiter \in Runs, saves'[i].waiter = saves'[j].waiter
        PROVE  i = j
    <2>1. CASE i = Len(saves') /\ j # Len(saves')  BY <1>1, <1>3, <1>4, <1>6, <2>1
    <2>2. CASE j = Len(saves') /\ i # Len(saves')  BY <1>1, <1>3, <1>4, <1>6, <2>2
    <2>3. CASE i # Len(saves') /\ j # Len(saves')  BY <1>3, <1>6, <2>3 DEF RunWaits
    <2> QED  BY <2>1, <2>2, <2>3
  <1> QED  BY <1>5, <1>6 DEF RunWaits

\* Without the first save, its waiter waits for none.
LEMMA TailWaits ==
  ASSUME IInv, RunWaits, saves # <<>>
  PROVE  LET t == Tail(saves) IN
         /\ \A i \in 1..Len(t) : t[i].waiter \in Runs =>
              run[t[i].waiter].pc \in {"removing", "updating"} /\ t[i].waiter # Head(saves).waiter
         /\ \A i, j \in 1..Len(t) : t[i].waiter \in Runs /\ t[i].waiter = t[j].waiter => i = j
  <1> DEFINE t == Tail(saves)
  <1>1. /\ Head(saves) = saves[1] /\ Len(saves) \in Nat \ {0} /\ Len(t) = Len(saves) - 1
        /\ \A i \in 1..Len(t) : t[i] = saves[i + 1]
    BY HeadOfSaves
  <1> HIDE DEF t
  <1>2. 1 \in 1..Len(saves) /\ \A i \in 1..Len(t) : i + 1 \in 1..Len(saves) /\ i + 1 # 1  BY <1>1
  <1>3. ASSUME NEW i \in 1..Len(t), t[i].waiter \in Runs
        PROVE  run[t[i].waiter].pc \in {"removing", "updating"} /\ t[i].waiter # Head(saves).waiter
    BY <1>1, <1>2, <1>3 DEF RunWaits
  <1>4. ASSUME NEW i \in 1..Len(t), NEW j \in 1..Len(t), t[i].waiter \in Runs, t[i].waiter = t[j].waiter
        PROVE  i = j
    <2>1. i + 1 = j + 1  BY <1>1, <1>2, <1>4 DEF RunWaits
    <2> QED  BY <2>1
  <1> QED  BY <1>3, <1>4 DEF t

LEMMA RunWaitsStep == IInv /\ OneRun /\ RunWaits /\ [Next]_vars => RunWaits'
  <1> SUFFICES ASSUME IInv, OneRun, RunWaits, [Next]_vars PROVE RunWaits'  OBVIOUS
  <1> USE SyncAssumption
  <1> DEFINE Goal == RunWaits'
  <1>0. TypeOK /\ run \in [Runs -> Run] /\ queue \in SUBSET Ops  BY DEF IInv, TypeOK
  <1>1. ASSUME UNCHANGED <<saves, run>> PROVE Goal  BY <1>1 DEF RunWaits
  <1>2. ASSUME NEW who \in Ops \cup {None}, NEW items \in SUBSET Ops, Save(items, who), UNCHANGED run PROVE Goal
    BY <1>0, <1>2, WaitsOnce
  <1>3. ASSUME NEW o \in Ops, Ask(o) \/ Answer(o) \/ NoAnswer(o) PROVE Goal
    <2>1. queue \cup {o} \in SUBSET Ops  BY <1>0
    <2> QED  BY <1>1, <1>2, <1>3, <2>1 DEF Ask, Answer, NoAnswer, store
  <1>4. ASSUME NEW o \in Ops, Dismiss(o) PROVE Goal
    <2>1. queue \ {o} \in SUBSET Ops  BY <1>0
    <2> QED  BY <1>2, <1>4, <2>1 DEF Dismiss
  <1>5. ASSUME NEW r \in Runs, NEW e, run[r].pc \notin {"removing", "updating"}, run' = [run EXCEPT ![r] = e], UNCHANGED saves
        PROVE Goal
    <2>1. \A q \in Runs \ {r} : run'[q] = run[q]  BY <1>0, <1>5
    <2> QED  BY <1>0, <1>5, <2>1, WaitsElsewhere
  <1>6. ASSUME NEW r \in Runs, NextItem(r) \/ Finish(r) PROVE Goal
    <2>1. run[r].pc = "next" /\ UNCHANGED saves  BY <1>6 DEF NextItem, Finish, store
    <2>2. \E e : run' = [run EXCEPT ![r] = e]  BY <1>6, Zenon DEF NextItem, Finish, EndRun
    <2> QED  BY <1>5, <2>1, <2>2
  <1>7. ASSUME GoOnline PROVE Goal
    <2>1. UNCHANGED saves  BY <1>7 DEF GoOnline, store
    <2>2. run' = run \/ \E r \in Runs : run[r].pc = "idle" /\ \E e : run' = [run EXCEPT ![r] = e]
      BY <1>7, Zenon DEF GoOnline, MayRun
    <2> QED  BY <1>1, <1>5, <2>1, <2>2
  <1>8. ASSUME NEW r \in Runs, ItemAnswered(r) \/ ItemKept(r) PROVE Goal
    <2>1. PICK pc \in {"removing", "updating"} : Goto(r, pc)  BY <1>8 DEF ItemAnswered, ItemKept
    <2>2. PICK items \in SUBSET queue : Save(items, r)  BY <1>8 DEF ItemAnswered, ItemKept
    <2>3. run'[r].pc = pc /\ \A q \in Runs \ {r} : run'[q] = run[q]  BY <1>0, <2>1 DEF Goto, Run
    <2>4. items \in SUBSET Ops /\ run[r].pc = "sent"  BY <1>0, <1>8 DEF ItemAnswered, ItemKept
    <2> QED  BY <1>0, <2>2, <2>3, <2>4, WaitsOnce
  <1>9. ASSUME saves # <<>>, saves' = Tail(saves), \A q \in Runs \ {Head(saves).waiter} : run'[q] = run[q] PROVE Goal
    <2> DEFINE t == Tail(saves)
    <2> HIDE DEF t
    <2>1. saves' = t  BY <1>9 DEF t
    <2>2. /\ \A i \in 1..Len(t) : t[i].waiter \in Runs =>
               run[t[i].waiter].pc \in {"removing", "updating"} /\ t[i].waiter # Head(saves).waiter
          /\ \A i, j \in 1..Len(t) : t[i].waiter \in Runs /\ t[i].waiter = t[j].waiter => i = j
      BY <1>9, TailWaits DEF t
    <2> QED  BY <1>9, <2>1, <2>2 DEF RunWaits
  <1>10. ASSUME Written PROVE Goal
    <2>1. \A q \in Runs \ {Head(saves).waiter} : run'[q] = run[q]  BY <1>0, <1>10 DEF Written, Resume
    <2>2. saves # <<>> /\ saves' = [saves EXCEPT ![1].waiter = None]  BY <1>10 DEF Written
    <2>3. /\ Len(saves') = Len(saves) /\ 1 \in 1..Len(saves) /\ Head(saves) = saves[1] /\ saves'[1].waiter = None
          /\ \A i \in 1..Len(saves) : i # 1 => saves'[i] = saves[i]
      BY <1>0, <2>2, WriteOfHead
    <2>4. \A i \in 1..Len(saves) : saves'[i].waiter \in Runs => i # 1 /\ saves'[i] = saves[i]  BY <2>3
    <2>5. \A i \in 1..Len(saves) : i # 1 /\ saves[i].waiter \in Runs => saves[i].waiter # saves[1].waiter
      BY <2>3 DEF RunWaits
    <2> QED  BY <2>1, <2>3, <2>4, <2>5 DEF RunWaits
  <1>15. ASSUME Committed \/ Aborted PROVE Goal
    BY <1>9, <1>15 DEF Committed, Aborted, IInv, StoreInv, Writing
  <1>11. ASSUME SaveFailed PROVE Goal
    <2> DEFINE who == Head(saves).waiter
    <2>0. saves # <<>>  BY <1>11 DEF SaveFailed
    <2>1. CASE saves' = Tail(saves)
      <3>1. \A q \in Runs \ {who} : run'[q] = run[q]  BY <1>0, <1>11 DEF SaveFailed, EndRun
      <3> QED  BY <1>9, <2>0, <2>1, <3>1
    <2>2. CASE who \in Runs /\ Goto(who, "updating") /\ saves' = Append(Tail(saves), [items |-> queue, waiter |-> who])
      <3> DEFINE e == [items |-> queue, waiter |-> who]
                 t == Tail(saves)
      <3>1. e \in SaveRecord /\ e.waiter = who  BY <1>0, <2>2 DEF SaveRecord
      <3>2. t \in Seq(SaveRecord)  BY <2>0, HeadOfSaves
      <3>3. saves' = Append(t, e)  BY <2>2
      <3>4. run'[who].pc = "updating" /\ \A q \in Runs \ {who} : run'[q] = run[q]  BY <1>0, <2>2 DEF Goto, Run
      <3>5. /\ \A i \in 1..Len(t) : t[i].waiter \in Runs =>
                 run[t[i].waiter].pc \in {"removing", "updating"} /\ t[i].waiter # who
            /\ \A i, j \in 1..Len(t) : t[i].waiter \in Runs /\ t[i].waiter = t[j].waiter => i = j
        BY <2>0, TailWaits
      <3> HIDE DEF e, t, who
      <3>6. /\ Len(saves') = Len(t) + 1 /\ saves'[Len(saves')] = e /\ Len(t) \in Nat
            /\ \A k \in 1..Len(t) : saves'[k] = t[k]
        BY <3>1, <3>2, <3>3, AppendProperties, LenProperties
      <3>7. \A k \in 1..Len(saves') : k = Len(saves') \/ k \in 1..Len(t)  BY <3>6
      <3>8. ASSUME NEW i \in 1..Len(saves'), saves'[i].waiter \in Runs
            PROVE  run'[saves'[i].waiter].pc \in {"removing", "updating"}
        BY <3>1, <3>4, <3>5, <3>6, <3>7, <3>8
      <3>9. ASSUME NEW i \in 1..Len(saves'), NEW j \in 1..Len(saves'), saves'[i].waiter \in Runs, saves'[i].waiter = saves'[j].waiter
            PROVE  i = j
        <4>1. CASE i = Len(saves') /\ j \in 1..Len(t)  BY <3>1, <3>5, <3>6, <3>9, <4>1
        <4>2. CASE j = Len(saves') /\ i \in 1..Len(t)  BY <3>1, <3>5, <3>6, <3>9, <4>2
        <4>3. CASE i \in 1..Len(t) /\ j \in 1..Len(t)  BY <3>5, <3>6, <3>9, <4>3
        <4> QED  BY <3>7, <4>1, <4>2, <4>3
      <3> QED  BY <3>8, <3>9 DEF RunWaits
    <2> QED  BY <1>11, <2>1, <2>2 DEF SaveFailed, Goto
  <1>12. ASSUME Restart PROVE Goal
    <2>1. saves' = <<>>  BY <1>12 DEF Restart
    <2> QED  BY <2>1 DEF RunWaits
  <1> HIDE DEF Goal
  <1>13. ASSUME GoOffline \/ Load \/ LoadRefused \/ UNCHANGED vars PROVE Goal
    BY <1>1, <1>13 DEF GoOffline, Load, LoadRefused, vars, store
  <1>14. Goal
    BY <1>3, <1>4, <1>6, <1>7, <1>8, <1>10, <1>11, <1>12, <1>13, <1>15 DEF Next, RunStep
  <1> QED  BY <1>14 DEF Goal

LEMMA ApartStep == IInv /\ Known /\ Apart /\ [Next]_vars => Apart'
  <1> SUFFICES ASSUME IInv, Known, Apart, [Next]_vars, loading', NEW x \in loaded'
               PROVE  x \notin queue' /\ \A r \in Runs : ~Holds(r, x)'
    BY DEF Apart
  <1> USE SyncAssumption
  <1> DEFINE Goal == x \notin queue' /\ \A r \in Runs : ~Holds(r, x)'
  <1>0. TypeOK /\ run \in [Runs -> Run] /\ queue \in SUBSET Ops  BY DEF IInv, TypeOK
  <1>1. ASSUME UNCHANGED <<loading, loaded>>, x \notin queue => x \notin queue',
               \A r \in Runs : Holds(r, x)' => x \in queue \/ Holds(r, x)
        PROVE Goal
    BY <1>1 DEF Apart
  <1> HIDE DEF Goal
  <1>2. ASSUME UNCHANGED <<loading, loaded, queue>>, \A r \in Runs : Holds(r, x)' => x \in queue \/ Holds(r, x) PROVE Goal
    BY <1>1, <1>2
  <1>3. ASSUME UNCHANGED <<loading, loaded, queue, run>> PROVE Goal
    BY <1>2, <1>3 DEF Holds
  <1>4. ASSUME NEW o \in Ops, Save(queue \cup {o}, o), request[o].pc \in {"new", "sent"}, UNCHANGED run PROVE Goal
    <2>1. x \in loaded /\ queue' = queue \cup {o} /\ UNCHANGED <<loading, loaded>>  BY <1>4 DEF Save
    <2>2. x # o  BY <1>4, <2>1 DEF Known, Stored, Handed
    <2> QED  BY <1>1, <1>4, <2>1, <2>2 DEF Holds
  <1>5. ASSUME NEW o \in Ops, Ask(o) \/ Answer(o) \/ NoAnswer(o) PROVE Goal
    BY <1>3, <1>4, <1>5 DEF Ask, Answer, NoAnswer, store
  <1>6. ASSUME NEW o \in Ops, Dismiss(o) PROVE Goal
    <2>1. UNCHANGED <<loading, loaded, run>> /\ queue' = queue \ {o}  BY <1>6 DEF Dismiss, Save
    <2> QED  BY <1>1, <2>1 DEF Holds
  <1>7. ASSUME NEW r \in Runs, ItemAnswered(r) \/ ItemKept(r) PROVE Goal
    <2>1. PICK pc \in {"removing", "updating"} : Goto(r, pc)  BY <1>7 DEF ItemAnswered, ItemKept
    <2>2. \A q \in Runs : Holds(q, x)' => Holds(q, x)  BY <1>0, <2>1, HoldsStep
    <2>3. UNCHANGED <<loading, loaded>> /\ queue' \subseteq queue  BY <1>7 DEF ItemAnswered, ItemKept, Save
    <2> QED  BY <1>1, <2>2, <2>3
  <1>8. ASSUME GoOnline PROVE Goal
    <2>1. UNCHANGED <<loading, loaded, queue>>  BY <1>8 DEF GoOnline, store
    <2>2. ASSUME NEW r \in Runs, run' = [run EXCEPT ![r] = [IdleRun EXCEPT !.pc = "next", !.items = queue]]
          PROVE  \A q \in Runs : Holds(q, x)' => x \in queue \/ Holds(q, x)
      <3>1. run'[r].pc = "next" /\ run'[r].items = queue /\ \A q \in Runs \ {r} : run'[q] = run[q]
        BY <1>0, <2>2 DEF IdleRun
      <3> QED  BY <3>1 DEF Holds
    <2>3. run' = run => \A q \in Runs : Holds(q, x)' => Holds(q, x)  BY DEF Holds
    <2> QED  BY <1>2, <1>8, <2>1, <2>2, <2>3 DEF GoOnline
  <1>9. ASSUME NEW r \in Runs, NextItem(r) PROVE Goal
    <2>1. UNCHANGED <<loading, loaded, queue>>  BY <1>9 DEF NextItem, store
    <2>2. PICK o \in run[r].items :
            \/ \E taken \in BOOLEAN : run' = [run EXCEPT ![r] = [pc |-> "sent", items |-> @.items \ {o}, op |-> o, taken |-> taken]]
            \/ run' = [run EXCEPT ![r] = [@ EXCEPT !.items = run[r].items \ {o}]]
      BY <1>9 DEF NextItem
    <2>3. \A q \in Runs : Holds(q, x)' => Holds(q, x)
      <3>1. CASE run' = [run EXCEPT ![r] = [@ EXCEPT !.items = run[r].items \ {o}]]
        BY <1>0, <3>1 DEF Holds, Run
      <3>2. ASSUME NEW taken \in BOOLEAN, run' = [run EXCEPT ![r] = [pc |-> "sent", items |-> @.items \ {o}, op |-> o, taken |-> taken]]
            PROVE  \A q \in Runs : Holds(q, x)' => Holds(q, x)
        BY <1>0, <3>2 DEF Holds, Run
      <3> QED  BY <2>2, <3>1, <3>2
    <2> QED  BY <1>2, <2>1, <2>3
  <1>10. ASSUME NEW r \in Runs, run' = [run EXCEPT ![r] = IdleRun] PROVE \A q \in Runs : Holds(q, x)' => Holds(q, x)
    BY <1>0, <1>10 DEF IdleRun, Holds
  <1>11. ASSUME NEW r \in Runs, Finish(r) PROVE Goal  BY <1>2, <1>10, <1>11 DEF Finish, EndRun, store
  <1>12. ASSUME Written PROVE Goal
    <2>1. run' = run \/ \E r \in Runs : run' = [run EXCEPT ![r] = [@ EXCEPT !.pc = "next", !.op = None]]
      BY <1>12 DEF Written, Resume
    <2>2. \A r \in Runs : run' = [run EXCEPT ![r] = [@ EXCEPT !.pc = "next", !.op = None]] =>
            \A q \in Runs : Holds(q, x)' => Holds(q, x)
      BY <1>0 DEF Holds, Run
    <2>3. run' = run => \A q \in Runs : Holds(q, x)' => Holds(q, x)  BY DEF Holds
    <2> QED  BY <1>2, <1>12, <2>1, <2>2, <2>3 DEF Written
  <1>13. ASSUME SaveFailed PROVE Goal
    <2>1. \/ run' = run
          \/ \E r \in Runs : Goto(r, "updating")
          \/ \E r \in Runs : run' = [run EXCEPT ![r] = IdleRun]
      BY <1>13 DEF SaveFailed, EndRun, Goto
    <2>2. run' = run => \A q \in Runs : Holds(q, x)' => Holds(q, x)  BY DEF Holds
    <2>3. \A q \in Runs : Holds(q, x)' => Holds(q, x)  BY <1>0, <1>10, <2>1, <2>2, HoldsStep
    <2> QED  BY <1>2, <1>13, <2>3 DEF SaveFailed
  <1>14. ASSUME Restart PROVE Goal
    BY <1>14 DEF Restart, Holds, IdleRun, Goal
  <1>15. ASSUME GoOffline \/ Committed \/ Aborted \/ UNCHANGED vars PROVE Goal
    BY <1>3, <1>15 DEF GoOffline, Committed, Aborted, vars, store
  <1>16. ~Load /\ ~LoadRefused  BY DEF Load, LoadRefused
  <1>17. Goal
    BY <1>5, <1>6, <1>7, <1>8, <1>9, <1>11, <1>12, <1>13, <1>14, <1>15, <1>16 DEF Next, RunStep
  <1> QED  BY <1>17 DEF Goal

LEMMA OrderlyStep == IInv /\ Orderly /\ [Next]_vars => Orderly'
  <1> SUFFICES ASSUME IInv, Orderly, [Next]_vars PROVE Orderly'  OBVIOUS
  <1>1. Known /\ OneRun /\ RunWaits /\ Apart  BY DEF Orderly
  <1>2. Known'
    <2>1. \A x \in Ops : Stored(x)' => Handed(x)'  BY <1>1, KnownStep
    <2> QED  BY <2>1 DEF Known
  <1> QED  BY <1>1, <1>2, OneRunStep, RunWaitsStep, ApartStep DEF Orderly

-----------------------------------------------------------------------------
\* The only run at work decides what is in flight.
LEMMA TakenBy ==
  ASSUME OneRun, NEW r \in Runs, run[r].pc # "idle", NEW o
  PROVE  Taken(o) <=> run[r].pc = "sent" /\ run[r].op = o /\ run[r].taken
  <1>1. \A q \in Runs : run[q].pc # "idle" => q = r  BY DEF OneRun
  <1> QED  BY <1>1 DEF Taken

LEMMA BudgetNext ==
  ASSUME IInv, Orderly, [Next]_vars, NEW x \in Ops, Budget(x)
  PROVE  Budget(x)'
  <1> USE SyncAssumption DEF Orderly
  <1> DEFINE Goal == Budget(x)'
  <1>0. /\ TypeOK /\ run \in [Runs -> Run] /\ request \in [Ops -> Request] /\ queue \in SUBSET Ops
        /\ applied \in [Ops -> Nat] /\ applied[x] \in Nat /\ faults \in Nat
    BY DEF IInv, TypeOK
  <1>1. ASSUME applied'[x] = applied[x], faults' = faults, MaySend(x)' => MaySend(x) PROVE Goal
    BY <1>0, <1>1 DEF Budget
  <1>2. ASSUME applied'[x] = applied[x], faults' = faults + 1 PROVE Goal
    BY <1>0, <1>2 DEF Budget
  <1>3. ASSUME NEW taken \in BOOLEAN, Send(x, taken), faults' = faults, MaySend(x), taken => ~MaySend(x)' PROVE Goal
    <2>1. applied'[x] = IF taken THEN applied[x] + 1 ELSE applied[x]  BY <1>0, <1>3 DEF Send
    <2>2. applied[x] + 1 <= 1 + faults  BY <1>3 DEF Budget
    <2>3. CASE taken
      <3>1. ~MaySend(x)' /\ applied'[x] = applied[x] + 1  BY <1>3, <2>1, <2>3
      <3> QED  BY <1>0, <1>3, <2>2, <3>1 DEF Budget
    <2>4. CASE ~taken  BY <1>0, <1>1, <1>3, <2>1, <2>4
    <2> QED  BY <2>3, <2>4
  <1> HIDE DEF Goal
  <1>4. ASSUME NEW o \in Ops, NEW taken \in BOOLEAN, Send(o, taken), x # o PROVE applied'[x] = applied[x]
    BY <1>0, <1>4 DEF Send
  <1>5. ASSUME UNCHANGED <<store, run>>, request'[x] = request[x] PROVE MaySend(x)' => MaySend(x)
    BY <1>5 DEF store, MaySend, Taken
  <1>6. ASSUME ~Stored(x), UNCHANGED <<store, run>>, request'[x].pc # "new", ~(request'[x].pc = "sent" /\ ~request'[x].taken)
        PROVE ~MaySend(x)'
    BY <1>6 DEF store, MaySend, Stored, Holds
  <1>7. ASSUME NEW o \in Ops, Ask(o) PROVE Goal
    <2>1. CASE x = o /\ online
      <3>1. PICK taken \in BOOLEAN : Send(o, taken) /\ request' = [request EXCEPT ![o] = [pc |-> "sent", taken |-> taken]]
        BY <1>7, <2>1 DEF Ask
      <3>2. MaySend(x) /\ ~Stored(x)  BY <1>7, <2>1 DEF Ask, MaySend, Known, Handed
      <3>3. request'[x].pc = "sent" /\ request'[x].taken = taken  BY <1>0, <2>1, <3>1
      <3>4. UNCHANGED <<store, run, faults>>  BY <1>7, <2>1 DEF Ask
      <3>5. taken => ~MaySend(x)'  BY <1>6, <3>2, <3>3, <3>4
      <3> QED  BY <1>3, <2>1, <3>1, <3>2, <3>4, <3>5
    <2>2. CASE x = o /\ ~online
      <3>1. MaySend(x) /\ applied'[x] = applied[x] /\ faults' = faults  BY <1>7, <2>2 DEF Ask, MaySend
      <3> QED  BY <1>1, <3>1
    <2>3. CASE x # o
      <3>1. applied'[x] = applied[x] /\ faults' = faults  BY <1>4, <1>7, <2>3 DEF Ask
      <3>2. request'[x] = request[x]  BY <1>0, <1>7, <2>3 DEF Ask
      <3>3. CASE online  BY <1>1, <1>5, <1>7, <3>1, <3>2, <3>3 DEF Ask
      <3>4. CASE ~online
        <4>1. queue' = queue \cup {o} /\ UNCHANGED <<loading, loaded, run>>  BY <1>7, <3>4 DEF Ask, Save
        <4>2. MaySend(x)' => MaySend(x)  BY <2>3, <3>2, <4>1 DEF MaySend, Taken
        <4> QED  BY <1>1, <3>1, <4>2
      <3> QED  BY <3>3, <3>4
    <2> QED  BY <2>1, <2>2, <2>3
  <1>8. ASSUME NEW o \in Ops, Answer(o) PROVE Goal
    <2>0. UNCHANGED <<store, run, faults>>  BY <1>8 DEF Answer
    <2>1. CASE request' = [request EXCEPT ![o] = At("ended")] /\ UNCHANGED applied
      <3>1. MaySend(x)' => MaySend(x)
        <4>1. CASE x = o
          <5>1. request'[x].pc = "ended"  BY <1>0, <2>1, <4>1 DEF At
          <5> QED  BY <2>0, <5>1 DEF MaySend, Taken, store
        <4>2. CASE x # o
          <5>1. request'[x] = request[x]  BY <1>0, <2>1, <4>2
          <5> QED  BY <1>5, <2>0, <5>1
        <4> QED  BY <4>1, <4>2
      <3> QED  BY <1>1, <2>0, <2>1, <3>1
    <2>2. ASSUME NEW taken \in BOOLEAN, request[o] = At("sent"), Send(o, taken),
                 request' = [request EXCEPT ![o] = [pc |-> "forced", taken |-> taken]]
          PROVE Goal
      <3>1. CASE x = o
        <4>1. MaySend(x) /\ ~Stored(x)  BY <2>2, <3>1 DEF MaySend, Known, Handed, At
        <4>2. request'[x].pc = "forced"  BY <1>0, <2>2, <3>1
        <4>3. ~MaySend(x)'  BY <1>6, <2>0, <4>1, <4>2
        <4> QED  BY <1>3, <2>0, <2>2, <3>1, <4>1, <4>3
      <3>2. CASE x # o
        <4>1. applied'[x] = applied[x] /\ request'[x] = request[x]  BY <1>0, <1>4, <2>2, <3>2
        <4> QED  BY <1>1, <1>5, <2>0, <4>1
      <3> QED  BY <3>1, <3>2
    <2> QED  BY <1>8, <2>1, <2>2 DEF Answer
  <1>9. ASSUME NEW o \in Ops, NoAnswer(o) PROVE Goal
    <2>0. UNCHANGED <<applied, run>>  BY <1>9 DEF NoAnswer
    <2>1. CASE request[o].taken
      <3>1. faults' = faults + 1  BY <1>9, <2>1 DEF NoAnswer, Fault
      <3> QED  BY <1>2, <2>0, <3>1
    <2>2. CASE ~request[o].taken
      <3>0. faults' = faults  BY <1>9, <2>2 DEF NoAnswer
      <3>1. MaySend(x)' => MaySend(x)
        <4>1. CASE request[o].pc = "sent" /\ x = o  BY <2>2, <4>1 DEF MaySend
        <4>2. CASE x # o
          <5>1. request'[x] = request[x]  BY <1>0, <1>9, <4>2 DEF NoAnswer
          <5>2. UNCHANGED <<loading, loaded>> /\ (x \in queue' => x \in queue)  BY <1>9, <4>2 DEF NoAnswer, Save, store
          <5> QED  BY <2>0, <5>1, <5>2 DEF MaySend, Taken
        <4>3. CASE request[o].pc = "forced" /\ x = o
          <5>1. request'[x].pc = "ended" /\ UNCHANGED store  BY <1>0, <1>9, <4>3 DEF NoAnswer, At
          <5> QED  BY <2>0, <5>1 DEF MaySend, Taken, store
        <4> QED  BY <1>9, <4>1, <4>2, <4>3 DEF NoAnswer
      <3> QED  BY <1>1, <2>0, <3>0, <3>1
    <2> QED  BY <2>1, <2>2
  <1>10. ASSUME NEW o \in Ops, Dismiss(o) PROVE Goal
    <2>1. UNCHANGED <<loading, loaded, run, request, applied, faults>> /\ queue' = queue \ {o}  BY <1>10 DEF Dismiss, Save
    <2>2. MaySend(x)' => MaySend(x)  BY <2>1 DEF MaySend, Taken
    <2> QED  BY <1>1, <2>1, <2>2
  <1>11. ASSUME GoOnline PROVE Goal
    <2>1. UNCHANGED <<loading, loaded, queue, request, applied, faults>>  BY <1>11 DEF GoOnline, store
    <2>2. ASSUME NEW r \in Runs, MayRun(r), run' = [run EXCEPT ![r] = [IdleRun EXCEPT !.pc = "next", !.items = queue]]
          PROVE  MaySend(x)' => MaySend(x)
      <3>1. run'[r].pc = "next" /\ run'[r].items = queue /\ \A q \in Runs \ {r} : run'[q] = run[q]
        BY <1>0, <2>2 DEF IdleRun
      <3>2. ~Taken(x)  BY <2>2 DEF MayRun, OneRun, Taken
      <3>3. \A q \in Runs : x \in run'[q].items => x \in queue \/ x \in run[q].items  BY <3>1
      <3> QED  BY <2>1, <3>2, <3>3 DEF MaySend
    <2>3. run' = run => (MaySend(x)' => MaySend(x))  BY <2>1 DEF MaySend, Taken
    <2>4. MaySend(x)' => MaySend(x)  BY <1>11, <2>2, <2>3 DEF GoOnline
    <2> QED  BY <1>1, <2>1, <2>4
  <1>12. ASSUME NEW r \in Runs, NextItem(r) PROVE Goal
    <2>0. UNCHANGED <<loading, loaded, queue, request, faults>> /\ run[r].pc = "next"  BY <1>12 DEF NextItem, store
    <2>1. ~Taken(x)  BY <2>0, TakenBy
    <2>2. ASSUME NEW o \in run[r].items, NEW taken \in BOOLEAN, Send(o, taken),
                 run' = [run EXCEPT ![r] = [pc |-> "sent", items |-> @.items \ {o}, op |-> o, taken |-> taken]]
          PROVE Goal
      <3>0. o \in Ops  BY <1>0 DEF Run
      <3>1. /\ run'[r].pc = "sent" /\ run'[r].op = o /\ run'[r].taken = taken /\ run'[r].items = run[r].items \ {o}
            /\ \A q \in Runs \ {r} : run'[q] = run[q]
        BY <1>0, <2>2
      <3>2. CASE x = o
        <4>1. MaySend(x) /\ Stored(x)  BY <2>1, <2>2, <3>2 DEF MaySend, Stored, Holds
        <4>2. request'[x].pc \in {"saving", "queued", "ended"}  BY <2>0, <4>1 DEF Known, Handed
        <4>3. taken => Taken(x)'  BY <3>1, <3>2 DEF Taken
        <4>4. taken => ~MaySend(x)'  BY <4>2, <4>3 DEF MaySend
        <4> QED  BY <1>3, <2>0, <2>2, <3>2, <4>1, <4>4
      <3>3. CASE x # o
        <4>1. applied'[x] = applied[x]  BY <1>4, <2>2, <3>0, <3>3
        <4>2. \A q \in Runs : x \in run'[q].items => x \in run[q].items  BY <3>1
        <4>3. MaySend(x)' => MaySend(x)  BY <2>0, <2>1, <4>2 DEF MaySend
        <4> QED  BY <1>1, <2>0, <4>1, <4>3
      <3> QED  BY <3>2, <3>3
    <2>3. ASSUME NEW o \in run[r].items, run' = [run EXCEPT ![r] = [@ EXCEPT !.items = run[r].items \ {o}]], UNCHANGED applied
          PROVE Goal
      <3>1. \A q \in Runs : x \in run'[q].items => x \in run[q].items  BY <1>0, <2>3 DEF Run
      <3>2. MaySend(x)' => MaySend(x)  BY <2>0, <2>1, <3>1 DEF MaySend
      <3> QED  BY <1>1, <2>0, <2>3, <3>2
    <2> QED  BY <1>12, <2>2, <2>3 DEF NextItem
  <1>13. ASSUME NEW r \in Runs, Finish(r) PROVE Goal
    <2>0. UNCHANGED <<loading, loaded, queue, request, faults, applied>> /\ run[r].pc = "next" /\ run' = [run EXCEPT ![r] = IdleRun]
      BY <1>13 DEF Finish, EndRun, store
    <2>1. ~Taken(x)  BY <2>0, TakenBy
    <2>2. \A q \in Runs : x \in run'[q].items => x \in run[q].items  BY <1>0, <2>0 DEF IdleRun
    <2>3. MaySend(x)' => MaySend(x)  BY <2>0, <2>1, <2>2 DEF MaySend
    <2> QED  BY <1>1, <2>0, <2>3
  <1>14. ASSUME NEW r \in Runs, NEW pc, Goto(r, pc), run[r].pc = "sent", UNCHANGED <<loading, loaded, request>>, queue' \subseteq queue,
                Taken(x) => x \notin queue'
         PROVE  MaySend(x)' => MaySend(x)
    <2>1. \A q \in Runs : run'[q].items = run[q].items  BY <1>0, <1>14 DEF Goto, Run
    <2>2. CASE Taken(x)
      <3>1. run[r].op = x  BY <1>14, <2>2, TakenBy
      <3>2. Stored(x) /\ x \notin queue'  BY <1>14, <2>2, <3>1 DEF Stored, Holds
      <3>3. request'[x].pc \in {"saving", "queued", "ended"}  BY <1>14, <3>2 DEF Known, Handed
      <3>4. ~(loading' /\ x \in loaded')  BY <1>14, <3>1 DEF Apart, Holds
      <3>5. \A q \in Runs : x \notin run'[q].items
        <4>1. \A q \in Runs : q # r => run[q].items = {}  BY <1>14 DEF OneRun
        <4>2. x \notin run[r].items  BY <1>14, <3>1 DEF OneRun
        <4> QED  BY <2>1, <4>1, <4>2
      <3> QED  BY <3>2, <3>3, <3>4, <3>5 DEF MaySend
    <2>3. CASE ~Taken(x)  BY <1>14, <2>1, <2>3 DEF MaySend
    <2> QED  BY <2>2, <2>3
  <1>15. ASSUME NEW r \in Runs, ItemAnswered(r) PROVE Goal
    <2>1. /\ run[r].pc = "sent" /\ queue' = queue \ {run[r].op} /\ UNCHANGED <<loading, loaded, request, applied, faults>>
          /\ \E pc : Goto(r, pc)
      BY <1>15 DEF ItemAnswered, Save
    <2>2. Taken(x) => x \notin queue'  BY <2>1, TakenBy
    <2>3. MaySend(x)' => MaySend(x)  BY <1>14, <2>1, <2>2
    <2> QED  BY <1>1, <2>1, <2>3
  <1>16. ASSUME NEW r \in Runs, ItemKept(r) PROVE Goal
    <2>1. /\ run[r].pc = "sent" /\ queue' = queue /\ UNCHANGED <<loading, loaded, request, applied>>
          /\ Goto(r, "updating")
      BY <1>16 DEF ItemKept, Save
    <2>2. CASE run[r].taken
      <3>1. faults' = faults + 1  BY <1>16, <2>2 DEF ItemKept, Fault
      <3> QED  BY <1>2, <2>1, <3>1
    <2>3. CASE ~run[r].taken
      <3>1. faults' = faults  BY <1>16, <2>3 DEF ItemKept
      <3>2. ~Taken(x)  BY <2>1, <2>3, TakenBy
      <3>3. MaySend(x)' => MaySend(x)  BY <1>14, <2>1, <3>2
      <3> QED  BY <1>1, <2>1, <3>1, <3>3
    <2> QED  BY <2>2, <2>3
  <1>17. ASSUME Load PROVE Goal
    <2>1. MaySend(x)' => MaySend(x)  BY <1>17 DEF Load, MaySend, Taken
    <2> QED  BY <1>1, <1>17, <2>1 DEF Load
  <1>18. ASSUME Written PROVE Goal
    <2> DEFINE who == Head(saves).waiter
    <2>0. UNCHANGED <<loading, loaded, queue, applied, faults>> /\ saves # <<>>  BY <1>18 DEF Written
    <2>1. request'[x] = request[x] \/ request'[x].pc = "queued"
      <3>1. request' = request \/ \E w \in Ops : request' = [request EXCEPT ![w] = At("queued")]
        BY <1>18 DEF Written, Resume
      <3> QED  BY <1>0, <3>1 DEF At
    <2>2. (\A q \in Runs : run'[q].items = run[q].items) /\ (Taken(x) => Taken(x)')
      <3>1. ASSUME who \in Runs
            PROVE (\A q \in Runs : run'[q].items = run[q].items) /\ (Taken(x) => Taken(x)')
        <4>1. run' = [run EXCEPT ![who] = [@ EXCEPT !.pc = "next", !.op = None]]  BY <1>18, <3>1 DEF Written, Resume
        <4>2. run[who].pc \in {"removing", "updating"}
          <5>1. 1 \in 1..Len(saves) /\ Head(saves) = saves[1]  BY <2>0, HeadOfSaves
          <5> QED  BY <3>1, <5>1 DEF RunWaits
        <4> HIDE DEF who
        <4>3. \A q \in Runs : run'[q].items = run[q].items  BY <1>0, <3>1, <4>1 DEF Run
        <4>4. ~Taken(x)  BY <3>1, <4>2, TakenBy
        <4> QED  BY <4>3, <4>4
      <3>2. CASE who \notin Runs  BY <1>18, <3>2 DEF Written, Resume, Taken
      <3> QED  BY <3>1, <3>2
    <2>3. MaySend(x)' => MaySend(x)  BY <2>0, <2>1, <2>2 DEF MaySend
    <2> QED  BY <1>1, <2>0, <2>3
  <1>19. ASSUME SaveFailed \/ Aborted \/ LoadRefused \/ Restart PROVE Goal
    BY <1>2, <1>19 DEF SaveFailed, Aborted, LoadRefused, Restart, Fault
  <1>22. ASSUME Committed PROVE Goal
    <2>1. MaySend(x)' => MaySend(x)  BY <1>22 DEF Committed, MaySend, Taken
    <2> QED  BY <1>1, <1>22, <2>1 DEF Committed
  <1>20. ASSUME GoOffline \/ UNCHANGED vars PROVE Goal
    BY <1>1, <1>5, <1>20 DEF GoOffline, vars
  <1>21. Goal
    BY <1>7, <1>8, <1>9, <1>10, <1>11, <1>12, <1>13, <1>15, <1>16, <1>17, <1>18, <1>19, <1>20, <1>22 DEF Next, RunStep
  <1> QED  BY <1>21 DEF Goal

\* What the user asked for once is carried out again for a fault only, and once
\* for each: two returns of the network, a retry or a dismissal repeat nothing
\* (isProcessing of SyncOrchestratorService, SyncQueueService.remove).
THEOREM RepeatedByFault == Spec => []RepeatedOnlyByFault
  <1> DEFINE Paid == \A o \in Ops : Budget(o)
  <1>1. Init => Orderly /\ Paid
    <2> SUFFICES ASSUME Init PROVE Orderly /\ Paid  OBVIOUS
    <2>1. \A o \in Ops : ~Stored(o)  BY DEF Init, Stored, InSaves, Holds, IdleRun
    <2>2. OneRun /\ RunWaits /\ Apart  BY DEF Init, OneRun, RunWaits, Apart, IdleRun
    <2>3. Paid  BY DEF Init, Budget
    <2> QED  BY <2>1, <2>2, <2>3 DEF Orderly, Known
  <1>2. IInv /\ Orderly /\ Paid /\ [Next]_vars => Orderly' /\ Paid'
    <2> SUFFICES ASSUME IInv, Orderly, Paid, [Next]_vars PROVE Orderly' /\ Paid'  OBVIOUS
    <2>1. ASSUME NEW o \in Ops PROVE Budget(o)'  BY BudgetNext
    <2> QED  BY <2>1, OrderlyStep
  <1>3. IInv /\ Paid => RepeatedOnlyByFault
    <2> SUFFICES ASSUME IInv, Paid, NEW o \in Ops PROVE applied[o] <= 1 + faults
      BY DEF RepeatedOnlyByFault
    <2>1. applied[o] + (IF MaySend(o) THEN 1 ELSE 0) <= 1 + faults  BY DEF Budget
    <2>2. applied[o] \in Nat /\ faults \in Nat  BY SyncAssumption DEF IInv, TypeOK
    <2> QED  BY <2>1, <2>2
  <1> HIDE DEF Paid
  <1> QED  BY InitIInv, IInvStep, <1>1, <1>2, <1>3, PTL DEF Spec

=============================================================================
