--------------------------------- MODULE Jobs ---------------------------------
(***************************************************************************)
(* The job worker (JobProcessorService, libs/domain/scheduler) behind its  *)
(* BullMQ queue, and the inbox that makes its messages idempotent          *)
(* (InboxService, libs/kernel/messaging).                                  *)
(*                                                                         *)
(* InboxService.process runs its handler inside em.transactional, and the  *)
(* entity manager of executeJob joins that transaction: every flush of the *)
(* job and the row of the inbox become visible together, when it commits.  *)
(* What the handler sends (a notification) leaves at once.                 *)
(*                                                                         *)
(* A job in a queue may be delivered again: its lock expires while the     *)
(* worker is dead or blocked (a stall), the handler rejects, or a producer *)
(* adds the same job id once more.                                         *)
(***************************************************************************)
EXTENDS Naturals, Sequences, FiniteSets

CONSTANTS
    Jobs,          \* job ids
    Workers,       \* executions of the worker's callback that may run at once
    None,          \* no job, no worker, no row
    Kinds,         \* what the database may hold of the jobs: see kind
    MaxAttempts,   \* job -> job.maxAttempts
    QueueAttempts, \* attempts of the queue (defaultJobOptions)
    MaxStalls,     \* stalls BullMQ forgives a job
    MaxAdds,       \* bound: how often jobs are added to the queue
    MaxFaults      \* bound: crashes, failing statements, stalls of a live worker

Kind == {"known", "unknown", "mismatched"}

ASSUME KindsAssumption == Kinds \subseteq [Jobs -> Kind]
ASSUME NoneAssumption == None \notin Jobs \cup Workers
ASSUME LimitsAssumption ==
    /\ MaxAttempts \in [Jobs -> Nat \ {0}]
    /\ QueueAttempts \in Nat \ {0} /\ {MaxStalls, MaxAdds, MaxFaults} \subseteq Nat

JobStatus == {"PENDING", "RUNNING", "SUCCEEDED", "RETRY_SCHEDULED", "FAILED_TERMINAL"}
Decided == {"SUCCEEDED", "RETRY_SCHEDULED", "FAILED_TERMINAL"}

\* A row of the job table, as far as the worker writes it.
Row == [status : JobStatus, attempts : Nat]
NewJob == [status |-> "PENDING", attempts |-> 0]

VARIABLES
    kind,   \* job -> is it in the database, and of the tenant in its payload?
    row,    \* job -> its committed row
    inbox,  \* jobs with a committed InboxMessage of this consumer
    queue,  \* job -> its entry in BullMQ
    worker, \* worker -> [pc, job, copy]: its step, its job and its copy of the row
    sent,   \* job -> job.attempts in the keys of the notifications sent for it
    adds, faults \* counters of the two bounds

vars == <<kind, row, inbox, queue, worker, sent, adds, faults>>

Entry == [state : {"none", "waiting", "active", "failed"}, owner : Workers \cup {None},
          tries : 0..QueueAttempts, stalls : 0..MaxStalls]
NoEntry == [state |-> "none", owner |-> None, tries |-> 0, stalls |-> 0]

Step == {"idle", "inbox", "find", "start", "route", "commit", "resolve", "reject"}
Execution == [pc : Step, job : Jobs \cup {None}, copy : Row]
Idle == [pc |-> "idle", job |-> None, copy |-> NewJob]

TypeOK ==
    /\ kind \in [Jobs -> Kind]
    /\ row \in [Jobs -> Row]
    /\ inbox \subseteq Jobs
    /\ queue \in [Jobs -> Entry]
    /\ worker \in [Workers -> Execution]
    /\ sent \in [Jobs -> Seq(Nat)]
    /\ adds \in 0..MaxAdds
    /\ faults \in 0..MaxFaults

Init ==
    /\ kind \in Kinds
    /\ row = [j \in Jobs |-> NewJob]
    /\ inbox = {}
    /\ queue = [j \in Jobs |-> NoEntry]
    /\ worker = [w \in Workers |-> Idle]
    /\ sent = [j \in Jobs |-> <<>>]
    /\ adds = 0
    /\ faults = 0

-----------------------------------------------------------------------------
\* The queue.

\* A job id that is in the queue, failed ones included, is not added again.
Add(j) ==
    /\ queue[j].state = "none"
    /\ adds < MaxAdds
    /\ adds' = adds + 1
    /\ queue' = [queue EXCEPT ![j] = [NoEntry EXCEPT !.state = "waiting"]]
    /\ UNCHANGED <<kind, row, inbox, worker, sent, faults>>

Take(w, j) ==
    /\ worker[w].pc = "idle"
    /\ queue[j].state = "waiting"
    /\ queue' = [queue EXCEPT ![j] = [@ EXCEPT !.state = "active", !.owner = w]]
    /\ worker' = [worker EXCEPT ![w] = [pc |-> "inbox", job |-> j, copy |-> NewJob]]
    /\ UNCHANGED <<kind, row, inbox, sent, adds, faults>>

Fault ==
    /\ faults < MaxFaults
    /\ faults' = faults + 1

Owner(w, j) == worker[w].job = j /\ queue[j].owner = w
Orphaned(j) == ~\E w \in Workers : Owner(w, j)

\* Mutant: stalled jobs are not looked for.
StalledNever(e) == e

\* A stalled job waits again, or fails when it stalled too often.
Stalled(e) ==
    IF e.stalls < MaxStalls
    THEN [e EXCEPT !.state = "waiting", !.owner = None, !.stalls = @ + 1]
    ELSE [e EXCEPT !.state = "failed", !.owner = None]

Stall(j) ==
    /\ queue[j].state = "active"
    /\ queue' = [queue EXCEPT ![j] = Stalled(@)]
    /\ UNCHANGED <<kind, row, inbox, worker, sent, adds>>

StallOrphan(j) == Orphaned(j) /\ Stall(j) /\ UNCHANGED faults
StallOwned(j) == ~Orphaned(j) /\ Fault /\ Stall(j)

\* Mutant: a rejected job waits again however often it was tried.
RejectedForever(e) == [e EXCEPT !.state = "waiting", !.owner = None, !.tries = @ + 1]

Rejected(e) ==
    [e EXCEPT !.state = IF e.tries + 1 < QueueAttempts THEN "waiting" ELSE "failed",
              !.owner = None, !.tries = @ + 1]

\* The callback's promise settles.  BullMQ ignores a worker whose lock was lost,
\* removes a completed job and tries a rejected one again.
Settle(w) ==
    LET j == worker[w].job IN
    /\ worker[w].pc \in {"resolve", "reject"}
    /\ worker' = [worker EXCEPT ![w] = Idle]
    /\ queue' = IF ~Owner(w, j) THEN queue
                ELSE [queue EXCEPT ![j] = IF worker[w].pc = "resolve" THEN NoEntry ELSE Rejected(@)]
    /\ UNCHANGED <<kind, row, inbox, sent, adds, faults>>

-----------------------------------------------------------------------------
\* The callback: InboxService.process around executeJob.

Goto(w, pc) == worker' = [worker EXCEPT ![w] = [@ EXCEPT !.pc = pc]]
Continue(w, pc, copy) == worker' = [worker EXCEPT ![w] = [@ EXCEPT !.pc = pc, !.copy = copy]]

\* Mutant: the inbox is not looked up.
ReadInboxNever(w) ==
    /\ worker[w].pc = "inbox"
    /\ Goto(w, "find")
    /\ UNCHANGED <<kind, row, inbox, queue, sent, adds, faults>>

\* A message with a row in the inbox is answered with its stored result.
ReadInbox(w) ==
    /\ worker[w].pc = "inbox"
    /\ Goto(w, IF worker[w].job \in inbox THEN "resolve" ELSE "find")
    /\ UNCHANGED <<kind, row, inbox, queue, sent, adds, faults>>

\* An unknown job is logged and recorded; a job of another tenant throws.
FindJob(w) ==
    LET j == worker[w].job IN
    /\ worker[w].pc = "find"
    /\ \/ kind[j] = "known" /\ Continue(w, "start", row[j])
       \/ kind[j] = "unknown" /\ Goto(w, "commit")
       \/ kind[j] = "mismatched" /\ Goto(w, "reject")
    /\ UNCHANGED <<kind, row, inbox, queue, sent, adds, faults>>

\* JobStateMachine.transition, which refuses nothing.
Transition(job, next) ==
    [status |-> next, attempts |-> IF next = "RUNNING" THEN job.attempts + 1 ELSE job.attempts]

\* The rows a transaction that is not over has updated are locked.
RowLocked(j) == \E v \in Workers : worker[v].job = j /\ kind[j] = "known" /\ worker[v].pc \in {"route", "commit"}

\* Mutant: the attempt is written outside the transaction of the inbox.
StartOutside(w) ==
    LET j == worker[w].job IN
    /\ worker[w].pc = "start"
    /\ Continue(w, "route", Transition(worker[w].copy, "RUNNING"))
    /\ row' = [row EXCEPT ![j] = Transition(worker[w].copy, "RUNNING")]
    /\ UNCHANGED <<kind, inbox, queue, sent, adds, faults>>

\* The attempt is counted on the copy and flushed: an UPDATE, which waits for
\* the transaction of another worker on the same job.
Start(w) ==
    /\ worker[w].pc = "start"
    /\ ~RowLocked(worker[w].job)
    /\ Continue(w, "route", Transition(worker[w].copy, "RUNNING"))
    /\ UNCHANGED <<kind, row, inbox, queue, sent, adds, faults>>

\* routeJobExecution: the handler sends a notification or finds nothing to send,
\* and returns or throws, perhaps after the sending.  executeJob swallows the error.
Route(w) ==
    LET j == worker[w].job
        copy == worker[w].copy
        failed == IF copy.attempts < MaxAttempts[j] THEN "RETRY_SCHEDULED" ELSE "FAILED_TERMINAL"
    IN
    /\ worker[w].pc = "route"
    /\ sent' \in {sent, [sent EXCEPT ![j] = Append(@, copy.attempts)]}
    /\ \E outcome \in {"SUCCEEDED", failed} : Continue(w, "commit", Transition(copy, outcome))
    /\ UNCHANGED <<kind, row, inbox, queue, adds, faults>>

\* Mutant: the inbox has no key.
CommittedAnyway(w) == worker[w].pc = "commit"

\* The insertion into the inbox finds no row with its key.
Committed(w) == worker[w].pc = "commit" /\ worker[w].job \notin inbox

Apply(w) ==
    LET j == worker[w].job IN
    /\ inbox' = inbox \cup {j}
    /\ row' = IF kind[j] = "known" THEN [row EXCEPT ![j] = worker[w].copy] ELSE row

\* The last flush, the row of the inbox and the commit.
Commit(w) ==
    /\ Committed(w)
    /\ Apply(w)
    /\ Goto(w, "resolve")
    /\ UNCHANGED <<kind, queue, sent, adds, faults>>

\* The connection breaks after the commit: the callback rejects all the same.
CommitUnanswered(w) ==
    /\ Committed(w)
    /\ Fault
    /\ Apply(w)
    /\ Goto(w, "reject")
    /\ UNCHANGED <<kind, queue, sent, adds>>

\* Another worker recorded the message first: everything is rolled back.
DuplicateKey(w) ==
    /\ worker[w].pc = "commit"
    /\ worker[w].job \in inbox
    /\ Goto(w, "reject")
    /\ UNCHANGED <<kind, row, inbox, queue, sent, adds, faults>>

\* Mutant: the callback swallows the error of a statement.
ThrowSwallowed(w) ==
    /\ worker[w].pc \in {"inbox", "find", "start", "commit"}
    /\ Fault
    /\ Goto(w, "resolve")
    /\ UNCHANGED <<kind, row, inbox, queue, sent, adds>>

\* A statement throws and the transaction is rolled back.
Throw(w) ==
    /\ worker[w].pc \in {"inbox", "find", "start", "commit"}
    /\ Fault
    /\ Goto(w, "reject")
    /\ UNCHANGED <<kind, row, inbox, queue, sent, adds>>

\* The process dies, its transaction is rolled back and its job is left active.
Crash(w) ==
    /\ worker[w].pc # "idle"
    /\ Fault
    /\ worker' = [worker EXCEPT ![w] = Idle]
    /\ UNCHANGED <<kind, row, inbox, queue, sent, adds>>

Run(w) ==
    \/ \E j \in Jobs : Take(w, j)
    \/ ReadInbox(w) \/ FindJob(w) \/ Start(w) \/ Route(w)
    \/ Commit(w) \/ DuplicateKey(w) \/ Settle(w)

Next ==
    \/ \E j \in Jobs : Add(j) \/ StallOrphan(j) \/ StallOwned(j)
    \/ \E w \in Workers : Run(w) \/ CommitUnanswered(w) \/ Throw(w) \/ Crash(w)

\* The worker polls its queue and checks for stalled jobs.
Fairness ==
    /\ \A w \in Workers : WF_vars(Run(w))
    /\ \A j \in Jobs : WF_vars(StallOrphan(j))

Spec == Init /\ [][Next]_vars /\ Fairness

-----------------------------------------------------------------------------
\* A job in the database was decided, in its first attempt, exactly if its
\* message is in the inbox: no crash, repeated delivery or failing statement
\* leaves one of the two without the other (em.transactional of
\* InboxService.process, joined by executeJob).
InboxAgreesWithJob ==
    \A j \in Jobs : kind[j] = "known" =>
        IF j \in inbox THEN row[j].status \in Decided /\ row[j].attempts = 1 ELSE row[j] = NewJob

\* Once the inbox knows a job, no delivery changes what was decided of it.
DecisionIsFinal == [][\A j \in inbox : row'[j] = row[j] /\ j \in inbox']_vars

\* A job leaves the queue as completed only when the inbox knows it: a crash
\* between the commit and the acknowledgement repeats the job, never loses it.
CompletedOnlyWhenRecorded ==
    [][\A j \in Jobs : queue[j].state = "active" /\ queue'[j].state = "none" => j \in inbox]_vars

\* A handler runs again for a fault only, and once for each: however often a job
\* is added, tried or delivered, a processed message is recognized, unless its
\* lock expired while it was being processed.
HandledAgainByFault == \A j \in Jobs : Len(sent[j]) <= 1 + faults

\* Every job that was added is completed or ends among the failed ones,
\* whatever stalls, throws or dies.
JobsSettle == \A j \in Jobs : queue[j].state = "waiting" ~> queue[j].state \in {"none", "failed"}

=============================================================================
