------------------------------ MODULE OfflineSync ------------------------------
(***************************************************************************)
(* The offline queue of the mobile client (SyncService and its services in *)
(* apps/client/mobile): requests that find no server are queued, the queue *)
(* is saved to IndexedDB, and every return of the network sends it again.  *)
(*                                                                         *)
(* JavaScript runs one step at a time, so a step here is what happens      *)
(* between two awaits.  Every change of the queue saves the whole queue;   *)
(* IndexedDB carries the saves out in the order they were asked for, and   *)
(* tells of a write before it commits it.  The order of the items only     *)
(* decides which one is sent first: the queue is a set.  Backoff is a      *)
(* clock's choice: a run may skip any item.  The database itself opens.    *)
(***************************************************************************)
EXTENDS Naturals, Sequences, FiniteSets

CONSTANTS
    Ops,      \* what the user asks for, once each
    Runs,     \* executions of processQueue
    None,     \* no one waits for a save
    MaxFaults \* bound: lost answers, failing reads and saves, deaths of the application

ASSUME SyncAssumption == None \notin Ops \cup Runs /\ Ops \cap Runs = {} /\ MaxFaults \in Nat

VARIABLES
    online,     \* ConnectivityService.isOnline
    processing, \* SyncOrchestratorService.isProcessing
    queue,      \* the signal of SyncQueueService
    saves,      \* the saves under way: their queue and who waits for each
    written,    \* the write of the first of them succeeded, and is not committed yet
    disk,       \* the saved queue
    failedSave, \* the last save failed, before or at its commit
    loading,    \* SyncQueueService.initialize is under way
    loaded,     \* what it reads, until it is in the signal
    apart,      \* history: initialize left signal and disk apart, no save since
    endangered, \* history: items initialize or a write never committed may lose
    request,    \* op -> the user's request
    run,        \* run -> the items it has still to send, the first of them
    applied,    \* op -> how often the server carried it out
    settled,    \* history: ops the server answered for, or the user dismissed
    faults      \* counter of the bound

store == <<queue, saves, written, disk, failedSave, loading, loaded, apart, endangered>>
vars == <<online, processing, store, request, run, applied, settled, faults>>

\* taken: the server has carried out what is in flight.
\* ended: it failed, or was answered otherwise than by being queued.
RequestPc == {"new", "sent", "forced", "saving", "queued", "ended"}
Request == [pc : RequestPc, taken : BOOLEAN]
At(pc) == [pc |-> pc, taken |-> FALSE]
RunPc == {"idle", "next", "sent", "removing", "updating"}
Run == [pc : RunPc, items : SUBSET Ops, op : Ops \cup {None}, taken : BOOLEAN]
IdleRun == [pc |-> "idle", items |-> {}, op |-> None, taken |-> FALSE]

TypeOK ==
    /\ online \in BOOLEAN /\ processing \in BOOLEAN
    /\ loading \in BOOLEAN /\ failedSave \in BOOLEAN /\ written \in BOOLEAN /\ apart \in BOOLEAN
    /\ queue \in SUBSET Ops /\ disk \in SUBSET Ops /\ loaded \in SUBSET Ops
    /\ endangered \in SUBSET Ops /\ settled \in SUBSET Ops
    /\ saves \in Seq([items : SUBSET Ops, waiter : Ops \cup Runs \cup {None}])
    /\ request \in [Ops -> Request]
    /\ run \in [Runs -> Run]
    /\ applied \in [Ops -> Nat]
    /\ faults \in 0..MaxFaults

\* The application starts with an empty signal, which initialize then replaces.
Init ==
    /\ online \in BOOLEAN
    /\ processing = FALSE
    /\ queue = {} /\ saves = <<>> /\ written = FALSE /\ disk = {} /\ failedSave = FALSE
    /\ loading = TRUE /\ loaded = {} /\ apart = FALSE /\ endangered = {}
    /\ request = [o \in Ops |-> At("new")]
    /\ run = [r \in Runs |-> IdleRun]
    /\ applied = [o \in Ops |-> 0]
    /\ settled = {}
    /\ faults = 0

Fault == faults < MaxFaults /\ faults' = faults + 1

-----------------------------------------------------------------------------
\* SyncQueueService and its storage.

\* Mutant: a change of the queue is saved only when the network is there.
SaveOnline(items, who) ==
    /\ queue' = items
    /\ saves' = IF online THEN Append(saves, [items |-> items, waiter |-> who]) ELSE saves
    /\ apart' = loading
    /\ endangered' = endangered \cup loaded \cup (IF loading THEN items ELSE {})
    /\ UNCHANGED <<written, disk, failedSave, loading, loaded>>

\* The signal changes at once, the save follows.  It leaves out what is still to
\* be loaded, or could not be, and is left out itself by what is loaded after it.
Save(items, who) ==
    /\ queue' = items
    /\ saves' = Append(saves, [items |-> items, waiter |-> who])
    /\ apart' = loading
    /\ endangered' = endangered \cup loaded \cup (IF loading THEN items ELSE {})
    /\ UNCHANGED <<written, disk, failedSave, loading, loaded>>

\* Mutant: an empty store is read as one empty item.
LoadQueueOrNull == IF disk = {} THEN {None} ELSE disk

LoadQueue == disk

\* What was read replaces the signal, items that were added meanwhile included.
Load ==
    /\ loading
    /\ loading' = FALSE
    /\ queue' = loaded
    /\ loaded' = {}
    /\ UNCHANGED <<online, processing, saves, written, disk, failedSave, apart, endangered, request, run, applied, settled, faults>>

\* The read is refused, and nobody waits for initialize: the signal stays as it is
\* and the next save erases what was not read.
LoadRefused ==
    /\ loading
    /\ Fault
    /\ loading' = FALSE
    /\ apart' = TRUE
    /\ UNCHANGED <<online, processing, queue, saves, written, disk, failedSave, loaded, endangered, request, run, applied, settled>>

\* What waits for a save goes on after it.
Resume(who) ==
    /\ request' = IF who \in Ops THEN [request EXCEPT ![who] = At("queued")] ELSE request
    /\ run' = IF who \in Runs THEN [run EXCEPT ![who] = [@ EXCEPT !.pc = "next", !.op = None]] ELSE run

\* request.onsuccess: nobody waits any more, though nothing is committed yet.
Written ==
    /\ saves # <<>> /\ ~written
    /\ written' = TRUE
    /\ saves' = [saves EXCEPT ![1].waiter = None]
    /\ Resume(Head(saves).waiter)
    /\ UNCHANGED <<online, processing, queue, disk, failedSave, loading, loaded, apart, endangered, applied, settled, faults>>

\* The transaction commits; the next one may begin.
Committed ==
    /\ written
    /\ written' = FALSE
    /\ disk' = Head(saves).items
    /\ saves' = Tail(saves)
    /\ failedSave' = FALSE
    /\ UNCHANGED <<online, processing, queue, loading, loaded, apart, endangered, request, run, applied, settled, faults>>

\* What is lost when the write that succeeded is not committed.
Uncommitted == IF written THEN Head(saves).items \ disk ELSE {}

\* The transaction aborts instead; no one listens.
Aborted ==
    /\ written
    /\ Fault
    /\ written' = FALSE
    /\ saves' = Tail(saves)
    /\ failedSave' = TRUE
    /\ endangered' = endangered \cup Uncommitted
    /\ UNCHANGED <<online, processing, queue, disk, loading, loaded, apart, request, run, applied, settled>>

\* Mutant: the flag is reset only when every item was gone through.
EndRunHeld(r) ==
    /\ run' = [run EXCEPT ![r] = IdleRun]
    /\ processing' = (run[r].items # {})

\* The finally of processQueue.
EndRun(r) ==
    /\ run' = [run EXCEPT ![r] = IdleRun]
    /\ processing' = FALSE

\* A write is refused.  A request rejects, though its item stays in the signal; a
\* run that was removing an item takes the error for a failed request and updates
\* the item; one that was updating gives up.
SaveFailed ==
    LET who == Head(saves).waiter IN
    /\ saves # <<>> /\ ~written
    /\ Fault
    /\ failedSave' = TRUE
    /\ \/ /\ who \in Ops
          /\ request' = [request EXCEPT ![who] = At("ended")]
          /\ saves' = Tail(saves)
          /\ UNCHANGED <<run, processing>>
       \/ /\ who \in Runs /\ run[who].pc = "removing"
          /\ run' = [run EXCEPT ![who] = [@ EXCEPT !.pc = "updating"]]
          /\ saves' = Append(Tail(saves), [items |-> queue, waiter |-> who])
          /\ UNCHANGED <<request, processing>>
       \/ /\ who \in Runs /\ run[who].pc = "updating"
          /\ EndRun(who)
          /\ saves' = Tail(saves)
          /\ UNCHANGED request
       \/ /\ who = None
          /\ saves' = Tail(saves)
          /\ UNCHANGED <<run, request, processing>>
    /\ UNCHANGED <<online, queue, written, disk, loading, loaded, apart, endangered, applied, settled>>

-----------------------------------------------------------------------------
\* The user's requests and the server's answers to them.

\* What is sent is carried out or not; the answer comes later.
Send(o, taken) == applied' = [applied EXCEPT ![o] = IF taken THEN @ + 1 ELSE @]

Ask(o) ==
    /\ request[o].pc = "new"
    /\ IF online
       THEN /\ \E taken \in BOOLEAN :
                 /\ Send(o, taken)
                 /\ request' = [request EXCEPT ![o] = [pc |-> "sent", taken |-> taken]]
            /\ UNCHANGED store
       ELSE /\ Save(queue \cup {o}, o)
            /\ request' = [request EXCEPT ![o] = At("saving")]
            /\ UNCHANGED applied
    /\ UNCHANGED <<online, processing, run, settled, faults>>

\* The request ends, with what the server or its conflict strategy says, or a
\* conflict sends it once more with force (clientWins).
Answer(o) ==
    /\ request[o].pc \in {"sent", "forced"}
    /\ \/ /\ request' = [request EXCEPT ![o] = At("ended")]
          /\ UNCHANGED applied
       \/ /\ request[o] = At("sent")
          /\ \E taken \in BOOLEAN :
               /\ Send(o, taken)
               /\ request' = [request EXCEPT ![o] = [pc |-> "forced", taken |-> taken]]
    /\ UNCHANGED <<online, processing, store, run, settled, faults>>

\* No answer, or an error of the server: the request is queued.  It is a fault
\* when the server had carried it out.  A forced request rejects.
NoAnswer(o) ==
    /\ IF request[o].taken THEN Fault ELSE UNCHANGED faults
    /\ \/ /\ request[o].pc = "sent"
          /\ Save(queue \cup {o}, o)
          /\ request' = [request EXCEPT ![o] = At("saving")]
       \/ /\ request[o].pc = "forced"
          /\ request' = [request EXCEPT ![o] = At("ended")]
          /\ UNCHANGED store
    /\ UNCHANGED <<online, processing, run, applied, settled>>

\* The user dismisses an item of the queue; nobody waits for the save.
Dismiss(o) ==
    /\ o \in queue
    /\ Save(queue \ {o}, None)
    /\ settled' = settled \cup {o}
    /\ UNCHANGED <<online, processing, request, run, applied, faults>>

-----------------------------------------------------------------------------
\* Connectivity and processQueue.

GoOffline ==
    /\ online
    /\ online' = FALSE
    /\ UNCHANGED <<processing, store, request, run, applied, settled, faults>>

\* Mutant: a run does not look whether another one is at work.
MayRunAlways(r) == run[r].pc = "idle" /\ queue # {}

\* A run starts for a queue that is not empty, when no run is at work.
MayRun(r) == ~processing /\ run[r].pc = "idle" /\ queue # {}

\* The network returns; a run takes its snapshot, or finds no access token.
GoOnline ==
    /\ ~online
    /\ online' = TRUE
    /\ \/ UNCHANGED <<processing, run>>
       \/ \E r \in Runs :
            /\ MayRun(r)
            /\ r = CHOOSE q \in Runs : run[q].pc = "idle"
            /\ processing' = TRUE
            /\ run' = [run EXCEPT ![r] = [IdleRun EXCEPT !.pc = "next", !.items = queue]]
    /\ UNCHANGED <<store, request, applied, settled, faults>>

\* The next item of the snapshot is sent, dismissed meanwhile or not, or skipped
\* when its backoff is not over.
NextItem(r) ==
    /\ run[r].pc = "next"
    /\ \E o \in run[r].items :
         \/ \E taken \in BOOLEAN :
              /\ Send(o, taken)
              /\ run' = [run EXCEPT ![r] = [pc |-> "sent", items |-> @.items \ {o}, op |-> o, taken |-> taken]]
         \/ /\ run' = [run EXCEPT ![r] = [@ EXCEPT !.items = run[r].items \ {o}]]
            /\ UNCHANGED applied
    /\ UNCHANGED <<online, processing, store, request, settled, faults>>

Finish(r) ==
    /\ run[r].pc = "next"
    /\ run[r].items = {}
    /\ EndRun(r)
    /\ UNCHANGED <<online, store, request, applied, settled, faults>>

Goto(r, pc) == run' = [run EXCEPT ![r] = [@ EXCEPT !.pc = pc]]

\* Success, and a refusal that no retry would change, take the item out.
ItemAnswered(r) ==
    /\ run[r].pc = "sent"
    /\ Save(queue \ {run[r].op}, r)
    /\ Goto(r, IF run[r].taken THEN "removing" ELSE "updating")
    /\ settled' = settled \cup {run[r].op}
    /\ UNCHANGED <<online, processing, request, applied, faults>>

\* Mutant: a conflict is treated as any other refusal.
ItemKeptDropped(r) ==
    /\ run[r].pc = "sent"
    /\ IF run[r].taken THEN Fault ELSE UNCHANGED faults
    /\ Save(queue \ {run[r].op}, r)
    /\ Goto(r, "updating")
    /\ UNCHANGED <<online, processing, request, applied, settled>>

\* A conflict marks the item, no answer counts a retry: it stays in the queue.
ItemKept(r) ==
    /\ run[r].pc = "sent"
    /\ IF run[r].taken THEN Fault ELSE UNCHANGED faults
    /\ Save(queue, r)
    /\ Goto(r, "updating")
    /\ UNCHANGED <<online, processing, request, applied, settled>>

\* The application dies and is started again: what was not committed is gone.
Restart ==
    /\ Fault
    /\ processing' = FALSE
    /\ queue' = {} /\ saves' = <<>> /\ written' = FALSE /\ failedSave' = FALSE
    /\ loading' = TRUE /\ loaded' = LoadQueue /\ apart' = FALSE
    /\ endangered' = endangered \cup Uncommitted
    /\ request' = [o \in Ops |-> IF request[o].pc \in {"sent", "forced", "saving"}
                                 THEN At("ended") ELSE request[o]]
    /\ run' = [r \in Runs |-> IdleRun]
    /\ UNCHANGED <<online, disk, applied, settled>>

RunStep(r) == NextItem(r) \/ Finish(r) \/ ItemAnswered(r) \/ ItemKept(r)

Next ==
    \/ \E o \in Ops : Ask(o) \/ Answer(o) \/ NoAnswer(o) \/ Dismiss(o)
    \/ \E r \in Runs : RunStep(r)
    \/ GoOffline \/ GoOnline \/ Load \/ LoadRefused
    \/ Written \/ Committed \/ Aborted \/ SaveFailed \/ Restart

\* The event loop goes on; the browser ends every request that is not answered.
Fairness ==
    /\ \A r \in Runs : WF_vars(RunStep(r))
    /\ WF_vars(Written) /\ WF_vars(Committed)

Spec == Init /\ [][Next]_vars /\ Fairness

-----------------------------------------------------------------------------
\* The device keeps what the user was told is queued: until the server answered
\* for it or the user dismissed it, it is in the saved queue or in the write about
\* to be committed, whatever fails or dies.  Three things can lose it: a save that
\* overtakes initialize, a save after a refused read, and a write the user was
\* told of that is never committed.
QueuedIsKept ==
    \A o \in Ops : request[o].pc = "queued" /\ o \notin settled \cup endangered =>
        o \in disk \/ (written /\ o \in Head(saves).items)

\* The saved queue follows the signal: the last save under way holds it, or all
\* saves are done and the disk holds it, unless the last one failed.  What
\* initialize left apart, overtaken by a save or refused its read, the next save
\* brings together again.
DiskFollowsSignal ==
    ~loading /\ ~apart =>
        IF saves # <<>> THEN saves[Len(saves)].items = queue ELSE failedSave \/ disk = queue

\* Items carry no idempotency key, so a lost answer repeats them; nothing else
\* does: two returns of the network, a retry or a dismissal carry nothing out
\* twice.
RepeatedOnlyByFault == \A o \in Ops : applied[o] <= 1 + faults

\* A run never holds isProcessing for ever, failing saves included: without
\* this no later return of the network would send anything.
RunsEnd == processing ~> ~processing

=============================================================================
