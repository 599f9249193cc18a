------------------------------ MODULE JobsProofs ------------------------------
(***************************************************************************)
(* Theorems about Jobs, for any jobs, workers and bounds.                  *)
(***************************************************************************)
EXTENDS Jobs, FiniteSetTheorems, TLAPS

\* Entries that may still be tried have a try left; only active ones are owned.
TriesLeft == \A j \in Jobs :
    /\ queue[j].state \in {"waiting", "active"} => queue[j].tries < QueueAttempts
    /\ queue[j].owner # None => queue[j].state = "active"

\* A busy worker has a job, and counts attempts only for a job it found.
Busy == \A w \in Workers :
    /\ worker[w].pc # "idle" => worker[w].job \in Jobs
    /\ worker[w].pc \in {"start", "route"} => kind[worker[w].job] = "known"

\* What a worker knows of a job that is not decided yet.
Copies == \A w \in Workers : worker[w].job \in Jobs \ inbox /\ kind[worker[w].job] = "known" =>
    /\ worker[w].pc = "start" => worker[w].copy = NewJob
    /\ worker[w].pc = "route" => worker[w].copy.attempts = 1
    /\ worker[w].pc = "commit" => worker[w].copy.status \in Decided /\ worker[w].copy.attempts = 1

\* The inductive invariant.
IInv == TypeOK /\ TriesLeft /\ Busy /\ InboxAgreesWithJob /\ Copies

LEMMA InitIInv == Init => IInv
  <1> SUFFICES ASSUME Init PROVE IInv  OBVIOUS
  <1> USE NoneAssumption, LimitsAssumption, KindsAssumption DEF Init, Kind
  <1>1. NewJob \in Row  BY DEF NewJob, Row, JobStatus
  <1>2. NoEntry \in Entry  BY DEF NoEntry, Entry
  <1>3. Idle \in Execution  BY <1>1 DEF Idle, Execution, Step
  <1>4. TypeOK  BY <1>1, <1>2, <1>3 DEF TypeOK
  <1>5. TriesLeft  BY DEF TriesLeft, NoEntry
  <1>6. Busy /\ Copies  BY DEF Busy, Copies, Idle
  <1>7. InboxAgreesWithJob  BY DEF InboxAgreesWithJob
  <1> QED  BY <1>4, <1>5, <1>6, <1>7 DEF IInv

\* JobStateMachine.transition keeps rows rows.
LEMMA TransitionType ==
  ASSUME NEW job \in Row, NEW next \in JobStatus
  PROVE  Transition(job, next) \in Row
  BY DEF Transition, Row

LEMMA TypeStep == IInv /\ [Next]_vars => TypeOK'
  <1> SUFFICES ASSUME IInv, [Next]_vars PROVE TypeOK'  OBVIOUS
  <1> USE DEF IInv, TypeOK
  <1>1. NoEntry \in Entry  BY LimitsAssumption DEF NoEntry, Entry
  <1>2. NewJob \in Row  BY DEF NewJob, Row, JobStatus
  <1>3. Idle \in Execution  BY <1>2 DEF Idle, Execution, Step
  <1>4. ASSUME NEW j \in Jobs, Add(j) PROVE TypeOK'
    <2>1. [NoEntry EXCEPT !.state = "waiting"] \in Entry  BY <1>1 DEF Entry
    <2> QED  BY <1>4, <2>1, LimitsAssumption DEF Add
  <1>5. ASSUME NEW j \in Jobs, Stall(j) PROVE queue' \in [Jobs -> Entry]
    <2>1. Stalled(queue[j]) \in Entry
      <3>1. queue[j] \in Entry  OBVIOUS
      <3>2. MaxStalls \in Nat  BY LimitsAssumption
      <3>3. CASE queue[j].stalls < MaxStalls
        <4>1. queue[j].stalls + 1 \in 0..MaxStalls  BY <3>1, <3>2, <3>3 DEF Entry
        <4> QED  BY <3>1, <3>3, <4>1 DEF Stalled, Entry
      <3>4. CASE ~(queue[j].stalls < MaxStalls)  BY <3>1, <3>4 DEF Stalled, Entry
      <3> QED  BY <3>3, <3>4
    <2> QED  BY <1>5, <2>1 DEF Stall
  <1>6. ASSUME NEW j \in Jobs, StallOrphan(j) PROVE TypeOK'
    BY <1>6, <1>5 DEF StallOrphan, Stall
  <1>7. ASSUME NEW j \in Jobs, StallOwned(j) PROVE TypeOK'
    <2>1. faults' \in 0..MaxFaults  BY <1>7, LimitsAssumption DEF StallOwned, Fault
    <2>2. queue' \in [Jobs -> Entry]  BY <1>7, <1>5 DEF StallOwned
    <2> QED  BY <1>7, <2>1, <2>2 DEF StallOwned, Stall
  <1>8. ASSUME NEW w \in Workers, NEW pc \in Step, Goto(w, pc) PROVE worker' \in [Workers -> Execution]
    BY <1>8 DEF Goto, Execution
  <1>9. ASSUME NEW w \in Workers, NEW pc \in Step, NEW copy \in Row, Continue(w, pc, copy)
        PROVE worker' \in [Workers -> Execution]
    BY <1>9 DEF Continue, Execution
  <1>10. ASSUME NEW w \in Workers, NEW j \in Jobs, Take(w, j) PROVE TypeOK'
    BY <1>10, <1>2 DEF Take, Entry, Execution, Step
  <1>11. ASSUME NEW w \in Workers, ReadInbox(w) PROVE TypeOK'
    BY <1>11, <1>8 DEF ReadInbox, Step
  <1>12. ASSUME NEW w \in Workers, FindJob(w) PROVE TypeOK'
    <2>1. row[worker[w].job] \in Row  BY <1>12 DEF FindJob, Busy
    <2> QED  BY <1>12, <1>8, <1>9, <2>1 DEF FindJob, Step
  <1>13. ASSUME NEW w \in Workers, Start(w) PROVE TypeOK'
    <2>1. worker[w].copy \in Row  BY DEF Execution
    <2>2. Transition(worker[w].copy, "RUNNING") \in Row  BY <2>1, TransitionType DEF JobStatus
    <2> QED  BY <1>13, <1>9, <2>2 DEF Start, Step
  <1>14. ASSUME NEW w \in Workers, Route(w) PROVE TypeOK'
    <2> DEFINE copy == worker[w].copy
               j == worker[w].job
    <2>1. copy \in Row /\ j \in Jobs  BY <1>14 DEF Execution, Route, Busy
    <2>2. copy.attempts \in Nat  BY <2>1 DEF Row
    <2>3. sent' \in [Jobs -> Seq(Nat)]
      <3>1. Append(sent[j], copy.attempts) \in Seq(Nat)  BY <2>1, <2>2
      <3>2. sent' = sent \/ sent' = [sent EXCEPT ![j] = Append(@, copy.attempts)]
        BY <1>14 DEF Route
      <3> QED  BY <3>1, <3>2, <2>1
    <2>4. \/ Continue(w, "commit", Transition(copy, "SUCCEEDED"))
          \/ Continue(w, "commit", Transition(copy, "RETRY_SCHEDULED"))
          \/ Continue(w, "commit", Transition(copy, "FAILED_TERMINAL"))
      <3>1. CASE copy.attempts < MaxAttempts[j]  BY <1>14, <3>1 DEF Route
      <3>2. CASE ~(copy.attempts < MaxAttempts[j])  BY <1>14, <3>2 DEF Route
      <3> QED  BY <3>1, <3>2
    <2>5. PICK s \in JobStatus : Continue(w, "commit", Transition(copy, s))
      <3> HIDE DEF copy
      <3> QED  BY <2>4 DEF JobStatus
    <2>6. Transition(copy, s) \in Row  BY <2>1, <2>5, TransitionType
    <2>7. worker' \in [Workers -> Execution]  BY <2>5, <2>6, <1>9 DEF Step
    <2> QED  BY <1>14, <2>3, <2>7 DEF Route
  <1>15. ASSUME NEW w \in Workers, Apply(w), worker[w].pc = "commit"
         PROVE  inbox' \subseteq Jobs /\ row' \in [Jobs -> Row]
    BY <1>15 DEF Apply, Busy, Execution
  <1>16. ASSUME NEW w \in Workers, Commit(w) PROVE TypeOK'
    BY <1>16, <1>8, <1>15 DEF Commit, Committed, Step
  <1>17. ASSUME NEW w \in Workers, CommitUnanswered(w) PROVE TypeOK'
    BY <1>17, <1>8, <1>15, LimitsAssumption DEF CommitUnanswered, Committed, Step, Fault
  <1>18. ASSUME NEW w \in Workers, DuplicateKey(w) PROVE TypeOK'
    BY <1>18, <1>8 DEF DuplicateKey, Step
  <1>19. ASSUME NEW w \in Workers, Throw(w) PROVE TypeOK'
    BY <1>19, <1>8, LimitsAssumption DEF Throw, Step, Fault
  <1>20. ASSUME NEW w \in Workers, Crash(w) PROVE TypeOK'
    BY <1>20, <1>3, LimitsAssumption DEF Crash, Fault
  <1>21. ASSUME NEW w \in Workers, Settle(w) PROVE TypeOK'
    <2> DEFINE j == worker[w].job
    <2>1. j \in Jobs  BY <1>21 DEF Settle, Busy
    <2>2. worker' \in [Workers -> Execution]  BY <1>21, <1>3 DEF Settle
    <2>3. queue[j] \in Entry  BY <2>1
    <2>4. ASSUME Owner(w, j) PROVE Rejected(queue[j]) \in Entry
      <3>1. queue[j].state = "active"  BY <2>1, <2>4, NoneAssumption DEF TriesLeft, Owner
      <3>2. queue[j].tries + 1 \in 0..QueueAttempts
        BY <2>1, <2>3, <3>1, LimitsAssumption DEF TriesLeft, Entry
      <3> QED  BY <2>3, <3>2 DEF Rejected, Entry
    <2>5. queue' \in [Jobs -> Entry]
      <3>1. CASE ~Owner(w, j)  BY <1>21, <3>1 DEF Settle
      <3>2. CASE Owner(w, j) /\ worker[w].pc = "resolve"  BY <1>21, <3>2, <1>1 DEF Settle
      <3>3. CASE Owner(w, j) /\ worker[w].pc # "resolve"
        <4>1. queue' = [queue EXCEPT ![j] = Rejected(queue[j])]  BY <1>21, <3>3 DEF Settle
        <4> QED  BY <4>1, <3>3, <2>4
      <3> QED  BY <3>1, <3>2, <3>3
    <2> QED  BY <1>21, <2>2, <2>5 DEF Settle
  <1>22. CASE UNCHANGED vars  BY <1>22 DEF vars
  <1> HIDE DEF IInv, TypeOK
  <1> DEFINE Goal == TypeOK'
  <1> HIDE DEF Goal
  <1>23. ASSUME NEW j \in Jobs, Add(j) \/ StallOrphan(j) \/ StallOwned(j) PROVE Goal
    BY <1>23, <1>4, <1>6, <1>7 DEF Goal
  <1>24. ASSUME NEW w \in Workers, Run(w) PROVE Goal
    BY <1>24, <1>10, <1>11, <1>12, <1>13, <1>14, <1>16, <1>18, <1>21 DEF Goal, Run
  <1>25. ASSUME NEW w \in Workers, CommitUnanswered(w) \/ Throw(w) \/ Crash(w) PROVE Goal
    BY <1>25, <1>17, <1>19, <1>20 DEF Goal
  <1>26. Goal  BY <1>22, <1>23, <1>24, <1>25 DEF Next, Goal
  <1> QED  BY <1>26 DEF Goal

LEMMA TriesStep == IInv /\ [Next]_vars => TriesLeft'
  <1> SUFFICES ASSUME IInv, [Next]_vars, NEW i \in Jobs
               PROVE  /\ queue'[i].state \in {"waiting", "active"} => queue'[i].tries < QueueAttempts
                      /\ queue'[i].owner # None => queue'[i].state = "active"
    BY DEF TriesLeft
  <1> DEFINE Fine(e) == /\ e.state \in {"waiting", "active"} => e.tries < QueueAttempts
                        /\ e.owner # None => e.state = "active"
             Goal == Fine(queue'[i])
  <1>1. queue \in [Jobs -> Entry] /\ Fine(queue[i]) /\ queue[i] \in Entry  BY DEF IInv, TypeOK, TriesLeft
  <1>2. Fine(NoEntry)  BY DEF NoEntry
  <1>3. ASSUME NEW j \in Jobs, Add(j) PROVE Goal
    <2>1. Fine([NoEntry EXCEPT !.state = "waiting"])  BY LimitsAssumption DEF NoEntry
    <2> QED  BY <1>1, <1>3, <2>1 DEF Add
  <1>4. ASSUME NEW j \in Jobs, Stall(j) PROVE Goal
    <2>1. queue[j] \in Entry /\ queue[j].state = "active" /\ queue[j].tries < QueueAttempts
      BY <1>4, <1>1 DEF Stall, IInv, TriesLeft
    <2>2. Fine(Stalled(queue[j]))  BY <2>1 DEF Stalled, Entry
    <2> QED  BY <1>1, <1>4, <2>2 DEF Stall
  <1>5. ASSUME NEW w \in Workers, NEW j \in Jobs, Take(w, j) PROVE Goal
    <2>1. queue[j] \in Entry /\ queue[j].state = "waiting" /\ queue[j].tries < QueueAttempts
      BY <1>5, <1>1 DEF Take, IInv, TriesLeft
    <2>2. Fine([queue[j] EXCEPT !.state = "active", !.owner = w])  BY <2>1 DEF Entry
    <2> QED  BY <1>1, <1>5, <2>2 DEF Take
  <1>6. ASSUME NEW w \in Workers, Settle(w) PROVE Goal
    <2> DEFINE j == worker[w].job
    <2>1. j \in Jobs  BY <1>6 DEF Settle, IInv, Busy
    <2>2. queue[j] \in Entry  BY <1>1, <2>1
    <2>3. Fine(Rejected(queue[j]))
      <3>1. queue[j].tries \in Nat  BY <2>2, LimitsAssumption DEF Entry
      <3>2. CASE queue[j].tries + 1 < QueueAttempts  BY <2>2, <3>1, <3>2 DEF Rejected, Entry
      <3>3. CASE ~(queue[j].tries + 1 < QueueAttempts)  BY <2>2, <3>1, <3>3 DEF Rejected, Entry
      <3> QED  BY <3>2, <3>3
    <2>4. \/ queue' = queue
          \/ queue' = [queue EXCEPT ![j] = NoEntry]
          \/ queue' = [queue EXCEPT ![j] = Rejected(queue[j])]
      BY <1>6 DEF Settle
    <2> HIDE DEF j, Fine
    <2>5. Fine(queue'[i])  BY <1>1, <1>2, <2>1, <2>3, <2>4
    <2> QED  BY <2>5
  <1>7. ASSUME UNCHANGED queue PROVE Goal  BY <1>1, <1>7
  <1> HIDE DEF Goal, Fine
  <1>8. ASSUME NEW j \in Jobs, Add(j) \/ StallOrphan(j) \/ StallOwned(j) PROVE Goal
    BY <1>8, <1>3, <1>4 DEF StallOrphan, StallOwned
  <1>9. ASSUME NEW w \in Workers, Run(w) PROVE Goal
    BY <1>9, <1>5, <1>6, <1>7
       DEF Run, ReadInbox, FindJob, Start, Route, Commit, DuplicateKey
  <1>10. ASSUME NEW w \in Workers, CommitUnanswered(w) \/ Throw(w) \/ Crash(w) PROVE Goal
    BY <1>10, <1>7 DEF CommitUnanswered, Throw, Crash
  <1>11. Goal  BY <1>7, <1>8, <1>9, <1>10 DEF Next, vars
  <1> QED  BY <1>11 DEF Goal, Fine

\* What Busy and Copies say of one worker.
BusyAt(e) ==
    /\ e.pc # "idle" => e.job \in Jobs
    /\ e.pc \in {"start", "route"} => kind[e.job] = "known"
CopyAt(e, in) == e.job \in Jobs \ in /\ kind[e.job] = "known" =>
    /\ e.pc = "start" => e.copy = NewJob
    /\ e.pc = "route" => e.copy.attempts = 1
    /\ e.pc = "commit" => e.copy.status \in Decided /\ e.copy.attempts = 1

\* A worker that goes on takes its knowledge with it; the others keep theirs.
LEMMA WorkerStep ==
  ASSUME IInv, kind' = kind, inbox \subseteq inbox', NEW w \in Workers, NEW e \in Execution,
         worker' = [worker EXCEPT ![w] = e], BusyAt(e), CopyAt(e, inbox')
  PROVE  Busy' /\ Copies'
  <1>1. ASSUME NEW v \in Workers
        PROVE  BusyAt(worker'[v]) /\ CopyAt(worker'[v], inbox')
    <2>1. worker \in [Workers -> Execution]  BY DEF IInv, TypeOK
    <2>2. CASE v = w  BY <2>1, <2>2
    <2>3. CASE v # w
      <3>1. worker'[v] = worker[v]  BY <2>1, <2>3
      <3>2. BusyAt(worker[v])  BY DEF IInv, Busy, BusyAt
      <3>3. CopyAt(worker[v], inbox)  BY DEF IInv, Copies, CopyAt
      <3> QED  BY <3>1, <3>2, <3>3 DEF CopyAt
    <2> QED  BY <2>2, <2>3
  <1> QED  BY <1>1 DEF Busy, Copies, BusyAt, CopyAt

LEMMA CopiesStep == IInv /\ [Next]_vars => Busy' /\ Copies'
  <1> SUFFICES ASSUME IInv, [Next]_vars PROVE Busy' /\ Copies'  OBVIOUS
  <1> DEFINE Goal == Busy' /\ Copies'
  <1> HIDE DEF Goal
  <1>1. worker \in [Workers -> Execution] /\ \A w \in Workers : worker[w] \in Execution  BY DEF IInv, TypeOK
  <1>2. Idle \in Execution /\ BusyAt(Idle) /\ CopyAt(Idle, inbox')
    BY NoneAssumption DEF Idle, Execution, Step, NewJob, Row, JobStatus, BusyAt, CopyAt
  <1>3. ASSUME NEW w \in Workers, NEW pc \in {"resolve", "reject", "find"}, Goto(w, pc),
               worker[w].pc # "idle", kind' = kind, inbox \subseteq inbox'
        PROVE  Goal
    <2> DEFINE e == [worker[w] EXCEPT !.pc = pc]
    <2>1. e \in Execution  BY <1>1 DEF Execution, Step
    <2>2. BusyAt(e) /\ CopyAt(e, inbox')
      BY <1>1, <1>3 DEF IInv, Busy, Copies, BusyAt, CopyAt, Execution
    <2>3. worker' = [worker EXCEPT ![w] = e]  BY <1>3 DEF Goto
    <2> HIDE DEF e
    <2> QED  BY <1>3, <2>1, <2>2, <2>3, WorkerStep DEF Goal
  <1>4. ASSUME NEW w \in Workers, NEW j \in Jobs, Take(w, j) PROVE Goal
    <2> DEFINE e == [pc |-> "inbox", job |-> j, copy |-> NewJob]
    <2>1. e \in Execution /\ BusyAt(e) /\ CopyAt(e, inbox')
      BY DEF Execution, Step, NewJob, Row, JobStatus, BusyAt, CopyAt
    <2> QED  BY <1>4, <2>1, WorkerStep DEF Goal, Take
  <1>5. ASSUME NEW w \in Workers, ReadInbox(w) PROVE Goal
    BY <1>5, <1>3 DEF ReadInbox
  <1>6. ASSUME NEW w \in Workers, FindJob(w) PROVE Goal
    <2> DEFINE j == worker[w].job
    <2>1. j \in Jobs /\ row \in [Jobs -> Row]  BY <1>6 DEF FindJob, IInv, Busy, TypeOK
    <2>2. CASE kind[j] = "known" /\ Continue(w, "start", row[j])
      <3> DEFINE e == [worker[w] EXCEPT !.pc = "start", !.copy = row[j]]
      <3>1. e \in Execution  BY <1>1, <2>1 DEF Execution, Step
      <3>2. j \notin inbox => row[j] = NewJob  BY <2>1, <2>2 DEF IInv, InboxAgreesWithJob
      <3>3. e.pc = "start" /\ e.job = j /\ e.copy = row[j]  BY <1>1 DEF Execution
      <3>4. BusyAt(e) /\ CopyAt(e, inbox')
        BY <1>6, <2>1, <2>2, <3>2, <3>3 DEF BusyAt, CopyAt, FindJob
      <3>5. worker' = [worker EXCEPT ![w] = e]  BY <2>2 DEF Continue
      <3> HIDE DEF e, j
      <3> QED  BY <1>6, <3>1, <3>4, <3>5, WorkerStep DEF Goal, FindJob
    <2>3. CASE kind[j] = "unknown" /\ Goto(w, "commit")
      <3> DEFINE e == [worker[w] EXCEPT !.pc = "commit"]
      <3>1. e \in Execution  BY <1>1 DEF Execution, Step
      <3>2. e.pc = "commit" /\ e.job = j  BY <1>1 DEF Execution
      <3>3. BusyAt(e) /\ CopyAt(e, inbox')  BY <2>1, <2>3, <3>2 DEF BusyAt, CopyAt
      <3>4. worker' = [worker EXCEPT ![w] = e]  BY <2>3 DEF Goto
      <3> HIDE DEF e, j
      <3> QED  BY <1>6, <3>1, <3>3, <3>4, WorkerStep DEF Goal, FindJob
    <2>4. CASE kind[j] = "mismatched" /\ Goto(w, "reject")  BY <1>6, <2>4, <1>3 DEF FindJob
    <2> QED  BY <1>6, <2>2, <2>3, <2>4 DEF FindJob
  <1>7. ASSUME NEW w \in Workers, Start(w) PROVE Goal
    <2> DEFINE c == Transition(worker[w].copy, "RUNNING")
               e == [worker[w] EXCEPT !.pc = "route", !.copy = c]
    <2>1. worker[w].copy \in Row /\ worker[w].job \in Jobs  BY <1>1, <1>7 DEF Execution, Start, IInv, Busy
    <2>2. c \in Row /\ c.attempts = worker[w].copy.attempts + 1
      BY <2>1, TransitionType DEF Transition, JobStatus
    <2> HIDE DEF c
    <2>3. e \in Execution  BY <1>1, <2>2 DEF Execution, Step
    <2>4. e.pc = "route" /\ e.job = worker[w].job /\ e.copy = c  BY <1>1 DEF Execution
    <2>5. BusyAt(e)  BY <1>7, <2>1, <2>4 DEF BusyAt, Start, IInv, Busy
    <2>6. CopyAt(e, inbox')
      <3>1. e.job \in Jobs \ inbox /\ kind[e.job] = "known" => worker[w].copy = NewJob
        BY <1>7, <2>4 DEF IInv, Copies, Start
      <3>2. NewJob.attempts = 0  BY DEF NewJob
      <3> QED  BY <1>7, <2>2, <2>4, <3>1, <3>2 DEF CopyAt, Start
    <2>7. worker' = [worker EXCEPT ![w] = e]  BY <1>7 DEF Start, Continue, c
    <2> HIDE DEF e
    <2> QED  BY <1>7, <2>3, <2>5, <2>6, <2>7, WorkerStep DEF Goal, Start
  <1>8. ASSUME NEW w \in Workers, Route(w) PROVE Goal
    <2> DEFINE copy == worker[w].copy
               j == worker[w].job
    <2>1. copy \in Row /\ j \in Jobs  BY <1>1, <1>8 DEF Execution, Route, IInv, Busy
    <2>2. PICK s \in Decided : Continue(w, "commit", Transition(copy, s))
      <3>1. \/ Continue(w, "commit", Transition(copy, "SUCCEEDED"))
            \/ Continue(w, "commit", Transition(copy, "RETRY_SCHEDULED"))
            \/ Continue(w, "commit", Transition(copy, "FAILED_TERMINAL"))
        <4>1. CASE copy.attempts < MaxAttempts[j]  BY <1>8, <4>1 DEF Route
        <4>2. CASE ~(copy.attempts < MaxAttempts[j])  BY <1>8, <4>2 DEF Route
        <4> QED  BY <4>1, <4>2
      <3> HIDE DEF copy
      <3> QED  BY <3>1 DEF Decided
    <2> DEFINE c == Transition(copy, s)
               e == [worker[w] EXCEPT !.pc = "commit", !.copy = c]
    <2>3. c \in Row  BY <2>1, TransitionType DEF Decided, JobStatus
    <2>4. c.status \in Decided /\ c.attempts = copy.attempts  BY <2>1 DEF Transition, Decided
    <2>5. worker' = [worker EXCEPT ![w] = e]  BY <2>2 DEF Continue
    <2>6. copy.attempts = 1 \/ ~(j \in Jobs \ inbox /\ kind[j] = "known")
      BY <1>8 DEF IInv, Copies, Route
    <2> HIDE DEF c, copy
    <2>7. e \in Execution  BY <1>1, <2>3 DEF Execution, Step
    <2>8. e.pc = "commit" /\ e.job = j /\ e.copy = c  BY <1>1 DEF Execution
    <2>9. BusyAt(e) /\ CopyAt(e, inbox')
      BY <1>8, <2>1, <2>4, <2>6, <2>8 DEF BusyAt, CopyAt, Route
    <2> HIDE DEF e
    <2> QED  BY <1>8, <2>5, <2>7, <2>9, WorkerStep DEF Goal, Route
  <1>9. ASSUME NEW w \in Workers, Commit(w) \/ CommitUnanswered(w) PROVE Goal
    <2>1. kind' = kind /\ inbox \subseteq inbox' /\ worker[w].pc # "idle"
      BY <1>9 DEF Commit, CommitUnanswered, Apply, Committed
    <2> QED  BY <1>9, <2>1, <1>3 DEF Commit, CommitUnanswered
  <1>10. ASSUME NEW w \in Workers, DuplicateKey(w) \/ Throw(w) PROVE Goal
    BY <1>10, <1>3 DEF DuplicateKey, Throw
  <1>11. ASSUME NEW w \in Workers, Crash(w) \/ Settle(w) PROVE Goal
    BY <1>11, <1>2, WorkerStep DEF Goal, Crash, Settle
  <1>12. ASSUME UNCHANGED <<worker, kind, inbox>> PROVE Goal
    BY <1>12 DEF Goal, IInv, Busy, Copies
  <1>13. ASSUME NEW j \in Jobs, Add(j) \/ StallOrphan(j) \/ StallOwned(j) PROVE Goal
    BY <1>13, <1>12 DEF Add, StallOrphan, StallOwned, Stall
  <1>14. ASSUME NEW w \in Workers, Run(w) PROVE Goal
    BY <1>14, <1>4, <1>5, <1>6, <1>7, <1>8, <1>9, <1>10, <1>11 DEF Run
  <1>15. Goal  BY <1>9, <1>10, <1>11, <1>12, <1>13, <1>14 DEF Next, vars
  <1> QED  BY <1>15 DEF Goal

LEMMA InboxStep == IInv /\ [Next]_vars => InboxAgreesWithJob' /\ \A j \in inbox : row'[j] = row[j] /\ j \in inbox'
  <1> SUFFICES ASSUME IInv, [Next]_vars
               PROVE InboxAgreesWithJob' /\ \A j \in inbox : row'[j] = row[j] /\ j \in inbox'  OBVIOUS
  <1> DEFINE Goal == InboxAgreesWithJob' /\ \A j \in inbox : row'[j] = row[j] /\ j \in inbox'
  <1>1. row \in [Jobs -> Row] /\ inbox \subseteq Jobs  BY DEF IInv, TypeOK
  <1>2. ASSUME NEW w \in Workers, Commit(w) \/ CommitUnanswered(w) PROVE Goal
    <2> DEFINE j == worker[w].job
    <2>1. /\ worker[w].pc = "commit" /\ j \notin inbox /\ kind' = kind
          /\ inbox' = inbox \cup {j}
          /\ row' = IF kind[j] = "known" THEN [row EXCEPT ![j] = worker[w].copy] ELSE row
      BY <1>2 DEF Commit, CommitUnanswered, Committed, Apply
    <2>2. j \in Jobs  BY <2>1 DEF IInv, Busy
    <2>3. kind[j] = "known" => worker[w].copy.status \in Decided /\ worker[w].copy.attempts = 1
      BY <2>1, <2>2 DEF IInv, Copies
    <2>4. ASSUME NEW i \in Jobs, kind[i] = "known"
          PROVE IF i \in inbox' THEN row'[i].status \in Decided /\ row'[i].attempts = 1 ELSE row'[i] = NewJob
      <3>1. IF i \in inbox THEN row[i].status \in Decided /\ row[i].attempts = 1 ELSE row[i] = NewJob
        BY <2>4 DEF IInv, InboxAgreesWithJob
      <3>2. CASE i = j  BY <2>1, <2>2, <2>3, <2>4, <3>2, <1>1
      <3>3. CASE i # j  BY <2>1, <3>1, <3>3, <1>1
      <3> QED  BY <3>2, <3>3
    <2>5. InboxAgreesWithJob'  BY <2>1, <2>4 DEF InboxAgreesWithJob
    <2>6. \A i \in inbox : row'[i] = row[i] /\ i \in inbox'  BY <2>1, <1>1
    <2> QED  BY <2>5, <2>6
  <1>3. ASSUME UNCHANGED <<kind, row, inbox>> PROVE Goal
    BY <1>3 DEF IInv, InboxAgreesWithJob
  <1> HIDE DEF Goal
  <1>4. ASSUME NEW j \in Jobs, Add(j) \/ StallOrphan(j) \/ StallOwned(j) PROVE Goal
    BY <1>4, <1>3 DEF Add, StallOrphan, StallOwned, Stall
  <1>5. ASSUME NEW w \in Workers, Run(w) PROVE Goal
    BY <1>5, <1>2, <1>3 DEF Run, Take, ReadInbox, FindJob, Start, Route, DuplicateKey, Settle
  <1>6. ASSUME NEW w \in Workers, CommitUnanswered(w) \/ Throw(w) \/ Crash(w) PROVE Goal
    BY <1>6, <1>2, <1>3 DEF Throw, Crash
  <1>7. Goal  BY <1>3, <1>4, <1>5, <1>6 DEF Next, vars
  <1> QED  BY <1>7 DEF Goal

\* A job is completed by the worker that owns it, after its callback resolved.
\* A worker resolves only what the inbox knows.
Resolved == \A w \in Workers : worker[w].pc = "resolve" => worker[w].job \in inbox

LEMMA ResolvedStep == IInv /\ Resolved /\ [Next]_vars => Resolved'
  <1> SUFFICES ASSUME IInv, Resolved, [Next]_vars, NEW v \in Workers, worker'[v].pc = "resolve"
               PROVE  worker'[v].job \in inbox'
    BY DEF Resolved
  <1> DEFINE Goal == worker'[v].job \in inbox'
  <1>1. worker \in [Workers -> Execution]  BY DEF IInv, TypeOK
  <1>2. inbox \subseteq inbox'  BY InboxStep
  <1>3. ASSUME worker'[v] = worker[v] PROVE Goal  BY <1>2, <1>3 DEF Resolved
  <1>4. ASSUME NEW w \in Workers, ReadInbox(w) PROVE Goal
    BY <1>1, <1>3, <1>4 DEF ReadInbox, Goto, Execution
  <1>5. ASSUME NEW w \in Workers, Commit(w) PROVE Goal
    BY <1>1, <1>3, <1>5 DEF Commit, Apply, Goto, Execution
  <1>6. ASSUME NEW w \in Workers, NEW pc \in Step \ {"resolve"}, Goto(w, pc) PROVE Goal
    BY <1>1, <1>3, <1>6 DEF Goto, Execution
  <1>7. ASSUME NEW w \in Workers, NEW pc \in Step \ {"resolve"}, NEW copy, Continue(w, pc, copy) PROVE Goal
    BY <1>1, <1>3, <1>7 DEF Continue, Execution
  <1>8. ASSUME NEW w \in Workers, NEW e, worker' = [worker EXCEPT ![w] = e], e.pc # "resolve" PROVE Goal
    BY <1>1, <1>3, <1>8
  <1>9. ASSUME UNCHANGED worker PROVE Goal  BY <1>3, <1>9
  <1> HIDE DEF Goal
  <1>10. ASSUME NEW j \in Jobs, Add(j) \/ StallOrphan(j) \/ StallOwned(j) PROVE Goal
    BY <1>10, <1>9 DEF Add, StallOrphan, StallOwned, Stall
  <1>11. ASSUME NEW w \in Workers, NEW j \in Jobs, Take(w, j) PROVE Goal
    <2> DEFINE e == [pc |-> "inbox", job |-> j, copy |-> NewJob]
    <2>1. worker' = [worker EXCEPT ![w] = e] /\ e.pc # "resolve"  BY <1>11 DEF Take
    <2> QED  BY <2>1, <1>8
  <1>12. ASSUME NEW w \in Workers, FindJob(w) \/ Start(w) PROVE Goal
    BY <1>12, <1>6, <1>7 DEF FindJob, Start, Step
  <1>13. ASSUME NEW w \in Workers, Route(w) PROVE Goal
    BY <1>13, <1>7 DEF Route, Step
  <1>14. ASSUME NEW w \in Workers, Crash(w) \/ Settle(w) PROVE Goal
    BY <1>14, <1>8 DEF Crash, Settle, Idle
  <1>15. ASSUME NEW w \in Workers, DuplicateKey(w) \/ Throw(w) \/ CommitUnanswered(w) PROVE Goal
    BY <1>15, <1>6 DEF DuplicateKey, Throw, CommitUnanswered, Step
  <1>16. ASSUME NEW w \in Workers, Run(w) PROVE Goal
    BY <1>16, <1>4, <1>5, <1>11, <1>12, <1>13, <1>14, <1>15 DEF Run
  <1>17. Goal  BY <1>9, <1>10, <1>14, <1>15, <1>16 DEF Next, vars
  <1> QED  BY <1>17 DEF Goal

LEMMA CompletedStep ==
  IInv /\ Resolved /\ [Next]_vars =>
    \A j \in Jobs : queue[j].state = "active" /\ queue'[j].state = "none" => j \in inbox
  <1> SUFFICES ASSUME IInv, Resolved, [Next]_vars, NEW i \in Jobs,
                      queue[i].state = "active", queue'[i].state = "none"
               PROVE  i \in inbox
    OBVIOUS
  <1> DEFINE Goal == i \in inbox
  <1>1. queue \in [Jobs -> Entry]  BY DEF IInv, TypeOK
  <1>2. ASSUME NEW w \in Workers, Settle(w) PROVE Goal
    <2> DEFINE j == worker[w].job
    <2>1. j \in Jobs /\ queue[j] \in Entry  BY <1>1, <1>2 DEF Settle, IInv, Busy
    <2>2. Rejected(queue[j]).state # "none"
      <3>1. CASE queue[j].tries + 1 < QueueAttempts  BY <2>1, <3>1 DEF Rejected, Entry
      <3>2. CASE ~(queue[j].tries + 1 < QueueAttempts)  BY <2>1, <3>2 DEF Rejected, Entry
      <3> QED  BY <3>1, <3>2
    <2>3. \/ queue' = queue
          \/ worker[w].pc = "resolve" /\ queue' = [queue EXCEPT ![j] = NoEntry]
          \/ queue' = [queue EXCEPT ![j] = Rejected(queue[j])]
      BY <1>2 DEF Settle
    <2>4. worker[w].pc = "resolve" => j \in inbox  BY DEF Resolved
    <2> HIDE DEF j
    <2> QED  BY <1>1, <2>1, <2>2, <2>3, <2>4
  <1>3. ASSUME NEW j \in Jobs, Add(j) PROVE Goal
    <2>1. i # j  BY <1>3 DEF Add
    <2> QED  BY <1>1, <1>3, <2>1 DEF Add
  <1>4. ASSUME NEW j \in Jobs, Stall(j) PROVE Goal
    <2>1. queue[j] \in Entry  BY <1>1
    <2>2. Stalled(queue[j]).state # "none"
      <3>1. CASE queue[j].stalls < MaxStalls  BY <2>1, <3>1 DEF Stalled, Entry
      <3>2. CASE ~(queue[j].stalls < MaxStalls)  BY <2>1, <3>2 DEF Stalled, Entry
      <3> QED  BY <3>1, <3>2
    <2> QED  BY <1>1, <1>4, <2>2 DEF Stall
  <1>5. ASSUME NEW w \in Workers, NEW j \in Jobs, Take(w, j) PROVE Goal
    <2>1. i # j  BY <1>5 DEF Take
    <2> QED  BY <1>1, <1>5, <2>1 DEF Take
  <1>6. ASSUME UNCHANGED queue PROVE Goal  BY <1>6
  <1> HIDE DEF Goal
  <1>7. ASSUME NEW j \in Jobs, Add(j) \/ StallOrphan(j) \/ StallOwned(j) PROVE Goal
    BY <1>7, <1>3, <1>4 DEF StallOrphan, StallOwned
  <1>8. ASSUME NEW w \in Workers, Run(w) PROVE Goal
    BY <1>8, <1>2, <1>5, <1>6 DEF Run, ReadInbox, FindJob, Start, Route, Commit, DuplicateKey
  <1>9. ASSUME NEW w \in Workers, CommitUnanswered(w) \/ Throw(w) \/ Crash(w) PROVE Goal
    BY <1>9, <1>6 DEF CommitUnanswered, Throw, Crash
  <1>10. Goal  BY <1>6, <1>7, <1>8, <1>9 DEF Next, vars
  <1> QED  BY <1>10 DEF Goal

LEMMA Invariant == Spec => [](IInv /\ Resolved)
  <1>1. Init => IInv /\ Resolved
    <2>1. Init => Resolved  BY DEF Init, Resolved, Idle
    <2> QED  BY <2>1, InitIInv
  <1>2. IInv /\ Resolved /\ [Next]_vars => (IInv /\ Resolved)'
    BY TypeStep, TriesStep, CopiesStep, InboxStep, ResolvedStep DEF IInv
  <1> QED  BY <1>1, <1>2, PTL DEF Spec

\* The variables of the job worker keep their types.
THEOREM JobsTypeCorrect == Spec => []TypeOK
  <1>1. IInv => TypeOK  BY DEF IInv
  <1> QED  BY <1>1, Invariant, PTL

\* Whatever stalls, throws or dies: a job is decided, in its first attempt,
\* exactly if the inbox has its message.
THEOREM InboxAgrees == Spec => []InboxAgreesWithJob
  <1>1. IInv => InboxAgreesWithJob  BY DEF IInv
  <1> QED  BY <1>1, Invariant, PTL

\* A repeated delivery never changes what was decided of a job.
THEOREM DecisionFinal == Spec => DecisionIsFinal
  <1>1. IInv /\ [Next]_vars => [\A j \in inbox : row'[j] = row[j] /\ j \in inbox']_vars
    BY InboxStep
  <1> QED  BY <1>1, Invariant, PTL DEF Spec, DecisionIsFinal

\* No job is acknowledged to the queue before the inbox has its message.
THEOREM CompletedRecorded == Spec => CompletedOnlyWhenRecorded
  <1>1. IInv /\ Resolved /\ [Next]_vars =>
          [\A j \in Jobs : queue[j].state = "active" /\ queue'[j].state = "none" => j \in inbox]_vars
    BY CompletedStep
  <1> QED  BY <1>1, Invariant, PTL DEF Spec, CompletedOnlyWhenRecorded

-----------------------------------------------------------------------------
\* The workers that may still send something for job j: they have not looked
\* into the inbox yet, or did so before it knew the job.
MaySend(j) == {w \in Workers : worker[w].job = j /\
                   \/ worker[w].pc \in {"find", "start", "route"}
                   \/ worker[w].pc = "inbox" /\ j \notin inbox}

\* ... and whether the queue may give it to one more without a fault: no one is
\* at work on the entry, or its owner has rejected it.
ToCome(j) ==
    /\ j \notin inbox
    /\ \/ queue[j].state \in {"none", "waiting"}
       \/ /\ queue[j].state = "active"
          /\ \A w \in Workers : Owner(w, j) => worker[w].pc \in {"idle", "reject"}

Count(j) == Cardinality(MaySend(j))
Sends(w, j) == IF w \in MaySend(j) THEN 1 ELSE 0
Comes(j) == IF ToCome(j) THEN 1 ELSE 0

\* What was sent, what may be sent and what may be given out is paid for.
Budget(j) ==
    /\ IsFiniteSet(MaySend(j))
    /\ Len(sent[j]) + Count(j) + Comes(j) <= 1 + faults

LEMMA InitBudget == Init => \A j \in Jobs : Budget(j)
  <1> SUFFICES ASSUME Init, NEW j \in Jobs PROVE Budget(j)  OBVIOUS
  <1>1. MaySend(j) = {}  BY NoneAssumption DEF Init, MaySend, Idle
  <1>2. IsFiniteSet(MaySend(j)) /\ Count(j) = 0  BY <1>1, FS_EmptySet DEF Count
  <1>3. Len(sent[j]) = 0 /\ faults = 0  BY DEF Init
  <1> QED  BY <1>2, <1>3 DEF Budget, Count, Comes

\* A step of worker w adds at most w to those that may send, or takes it away.
LEMMA MaySendStep ==
  ASSUME NEW j \in Jobs, NEW w \in Workers, IsFiniteSet(MaySend(j)), inbox \subseteq inbox',
         \A v \in Workers \ {w} : worker'[v] = worker[v]
  PROVE  /\ IsFiniteSet(MaySend(j)')
         /\ Count(j)' \in Nat /\ Count(j) \in Nat
         /\ Count(j)' + Sends(w, j) <= Count(j) + Sends(w, j)'
  <1> DEFINE old == MaySend(j)
             new == MaySend(j)'
  <1>1. new \subseteq old \cup {w}  BY DEF MaySend
  <1> HIDE DEF old, new
  <1>2. IsFiniteSet(old)  BY DEF old
  <1>3. IsFiniteSet(old \cup {w}) /\ IsFiniteSet(old \ {w})
        /\ Cardinality(old) \in Nat /\ Cardinality(old \cup {w}) \in Nat /\ Cardinality(old \ {w}) \in Nat
        /\ Cardinality(old \cup {w}) = (IF w \in old THEN Cardinality(old) ELSE Cardinality(old) + 1)
        /\ Cardinality(old \ {w}) = (IF w \in old THEN Cardinality(old) - 1 ELSE Cardinality(old))
    BY <1>2, FS_AddElement, FS_RemoveElement, FS_CardinalityType
  <1>4. IsFiniteSet(new) /\ Cardinality(new) <= Cardinality(old \cup {w})  BY <1>1, <1>3, FS_Subset
  <1>5. Cardinality(new) \in Nat  BY <1>4, FS_CardinalityType
  <1>6. w \notin new => new \subseteq old \ {w}  BY <1>1
  <1>7. w \notin new => Cardinality(new) <= Cardinality(old \ {w})  BY <1>3, <1>6, FS_Subset
  <1>8. Cardinality(new) + (IF w \in old THEN 1 ELSE 0) <= Cardinality(old) + (IF w \in new THEN 1 ELSE 0)
    BY <1>3, <1>4, <1>5, <1>7
  <1> QED  BY <1>3, <1>4, <1>5, <1>8 DEF Sends, Count, old, new

\* A step of worker w stays within the budget if it pays for what it gains.
LEMMA BudgetStep ==
  ASSUME IInv, TypeOK', NEW j \in Jobs, NEW w \in Workers, Budget(j), inbox \subseteq inbox',
         \A v \in Workers \ {w} : worker'[v] = worker[v],
         Len(sent'[j]) + Sends(w, j)' + Comes(j)' + faults
             <= Len(sent[j]) + Sends(w, j) + Comes(j) + faults'
  PROVE  Budget(j)'
  <1>1. IsFiniteSet(MaySend(j))  BY DEF Budget
  <1>2. /\ IsFiniteSet(MaySend(j)')
        /\ Count(j)' \in Nat /\ Count(j) \in Nat
        /\ Count(j)' + Sends(w, j) <= Count(j) + Sends(w, j)'
    BY <1>1, MaySendStep
  <1>3. faults \in Nat /\ faults' \in Nat  BY LimitsAssumption DEF IInv, TypeOK
  <1>4. Len(sent[j]) \in Nat /\ Len(sent'[j]) \in Nat  BY DEF IInv, TypeOK
  <1>5. /\ Sends(w, j) \in Nat /\ Sends(w, j)' \in Nat
        /\ Comes(j) \in Nat /\ Comes(j)' \in Nat
    BY DEF Sends, Comes
  <1>6. Len(sent[j]) + Count(j) + Comes(j) <= 1 + faults  BY DEF Budget
  <1> DEFINE n == Len(sent[j])       n2 == Len(sent'[j])
             m == Count(j)           m2 == Count(j)'
             c == Comes(j)           c2 == Comes(j)'
             s == Sends(w, j)        s2 == Sends(w, j)'
             f == faults             f2 == faults'
  <1>7. /\ n \in Nat /\ n2 \in Nat /\ m \in Nat /\ m2 \in Nat /\ c \in Nat /\ c2 \in Nat
        /\ s \in Nat /\ s2 \in Nat /\ f \in Nat /\ f2 \in Nat
    BY <1>2, <1>3, <1>4, <1>5
  <1>8. n + m + c <= 1 + f /\ m2 + s <= m + s2 /\ n2 + s2 + c2 + f <= n + s + c + f2  BY <1>2, <1>6
  <1> HIDE DEF n, n2, m, m2, c, c2, s, s2, f, f2
  <1>9. n2 + m2 + c2 <= 1 + f2  BY <1>7, <1>8
  <1> USE DEF n, n2, m, m2, c, c2, s, s2, f, f2
  <1> QED  BY <1>2, <1>9 DEF Budget

\* A step that no worker takes.
LEMMA BudgetAlone ==
  ASSUME IInv, TypeOK', NEW j \in Jobs, Budget(j), UNCHANGED <<worker, inbox, sent>>,
         Comes(j)' + faults <= Comes(j) + faults'
  PROVE  Budget(j)'
  <1>1. MaySend(j)' = MaySend(j)  BY DEF MaySend
  <1>2. Count(j) \in Nat  BY FS_CardinalityType DEF Budget, Count
  <1>3. faults \in Nat /\ faults' \in Nat  BY LimitsAssumption DEF IInv, TypeOK
  <1>4. Len(sent[j]) \in Nat  BY DEF IInv, TypeOK
  <1>5. Comes(j) \in Nat /\ Comes(j)' \in Nat  BY DEF Comes
  <1>6. Len(sent[j]) + Count(j) + Comes(j) <= 1 + faults  BY DEF Budget
  <1>7. Len(sent[j]) + Count(j) + Comes(j)' <= 1 + faults'
    BY <1>2, <1>3, <1>4, <1>5, <1>6
  <1>8. IsFiniteSet(MaySend(j)') /\ Count(j)' = Count(j) BY <1>1 DEF Budget, Count
  <1> QED  BY <1>5, <1>7, <1>8 DEF Budget

\* What a step of worker w does to the queue's right to give the job out, when
\* the queue is left alone and w does not come to reject a job the inbox lacks.
LEMMA ComesStep ==
  ASSUME NEW j \in Jobs, NEW w \in Workers, NEW e, worker \in [Workers -> Execution],
         worker' = [worker EXCEPT ![w] = e], UNCHANGED queue, inbox \subseteq inbox',
         e.job = worker[w].job,
         e.pc \in {"idle", "reject"} => e.job # j \/ j \in inbox'
  PROVE  ToCome(j)' => ToCome(j)
  <1> SUFFICES ASSUME ToCome(j)' PROVE ToCome(j)  OBVIOUS
  <1>1. j \notin inbox /\ j \notin inbox' /\ queue' = queue  BY DEF ToCome
  <1>2. ASSUME NEW v \in Workers, Owner(v, j), queue[j].state = "active"
        PROVE  worker[v].pc \in {"idle", "reject"}
    <2>1. Owner(v, j)'  BY <1>1, <1>2 DEF Owner
    <2>2. worker'[v].pc \in {"idle", "reject"}  BY <1>1, <1>2, <2>1 DEF ToCome
    <2>3. v # w  BY <1>1, <1>2, <2>2 DEF Owner
    <2> QED  BY <2>2, <2>3
  <1> QED  BY <1>1, <1>2 DEF ToCome

LEMMA BudgetNext ==
  ASSUME IInv, Resolved, [Next]_vars, NEW j \in Jobs, Budget(j)
  PROVE  Budget(j)'
  <1> DEFINE Goal == Budget(j)'
  <1> HIDE DEF Goal
  <1>1. TypeOK' /\ inbox \subseteq inbox'  BY TypeStep, InboxStep
  <1>2. /\ worker \in [Workers -> Execution] /\ queue \in [Jobs -> Entry]
        /\ faults \in Nat /\ sent \in [Jobs -> Seq(Nat)] /\ Len(sent[j]) \in Nat
    BY LimitsAssumption DEF IInv, TypeOK
  <1>0. /\ Comes(j) \in Nat /\ Comes(j)' \in Nat
        /\ \A w \in Workers : Sends(w, j) \in Nat /\ Sends(w, j)' \in Nat
    BY DEF Comes, Sends
  <1>3. ASSUME NEW w \in Workers, NEW e, worker' = [worker EXCEPT ![w] = e], UNCHANGED <<sent, faults>>,
               w \in MaySend(j)' => w \in MaySend(j), ToCome(j)' => ToCome(j)
        PROVE  Goal
    <2>1. Sends(w, j)' <= Sends(w, j) /\ Comes(j)' <= Comes(j) /\ sent'[j] = sent[j] /\ faults' = faults
      BY <1>3 DEF Sends, Comes
    <2>2. Len(sent'[j]) + Sends(w, j)' + Comes(j)' + faults <= Len(sent[j]) + Sends(w, j) + Comes(j) + faults'
      BY <1>2, <2>1, <1>0
    <2> QED  BY <1>1, <1>3, <2>2, BudgetStep DEF Goal
  <1>4. ASSUME NEW w \in Workers, NEW e, worker' = [worker EXCEPT ![w] = e], UNCHANGED sent,
               faults' = faults + 1, w \in MaySend(j)' => w \in MaySend(j)
        PROVE  Goal
    <2>1. Sends(w, j)' <= Sends(w, j) /\ Comes(j)' <= Comes(j) + 1 /\ sent'[j] = sent[j] /\ faults' = faults + 1
      BY <1>4 DEF Sends, Comes
    <2>2. Len(sent'[j]) + Sends(w, j)' + Comes(j)' + faults <= Len(sent[j]) + Sends(w, j) + Comes(j) + faults'
      BY <1>2, <2>1, <1>0
    <2> QED  BY <1>1, <1>4, <2>2, BudgetStep DEF Goal
  <1>5. ASSUME NEW w \in Workers, NEW pc, Goto(w, pc), UNCHANGED <<queue, sent, faults>>,
               worker[w].pc # "idle",
               pc \notin {"idle", "inbox"}, pc = "reject" => worker[w].job \in inbox',
               pc \in {"find", "start", "route"} => w \in MaySend(worker[w].job)
        PROVE  Goal
    <2> DEFINE e == [worker[w] EXCEPT !.pc = pc]
    <2>1. worker' = [worker EXCEPT ![w] = e]  BY <1>5 DEF Goto
    <2>2. e.pc = pc /\ e.job = worker[w].job /\ worker'[w] = e  BY <1>2, <2>1 DEF Execution
    <2> HIDE DEF e
    <2>3. ToCome(j)' => ToCome(j)  BY <1>1, <1>2, <1>5, <2>1, <2>2, ComesStep
    <2>4. w \in MaySend(j)' => w \in MaySend(j)  BY <1>5, <2>2 DEF MaySend
    <2> QED  BY <1>3, <1>5, <2>1, <2>3, <2>4
  <1>6. ASSUME NEW w \in Workers, NEW i \in Jobs, Take(w, i) PROVE Goal
    <2> DEFINE e == [pc |-> "inbox", job |-> i, copy |-> NewJob]
    <2>1. worker' = [worker EXCEPT ![w] = e] /\ worker'[w] = e /\ UNCHANGED <<sent, faults, inbox>>
      BY <1>2, <1>6 DEF Take
    <2>2. queue[i].state = "waiting" /\ queue' = [queue EXCEPT ![i] = [@ EXCEPT !.state = "active", !.owner = w]]
      BY <1>6 DEF Take
    <2>3. queue'[i].state = "active" /\ queue'[i].owner = w  BY <1>2, <2>2 DEF Entry
    <2>4. CASE i = j /\ j \notin inbox
      <3>1. ToCome(j)  BY <2>2, <2>4 DEF ToCome
      <3>2. ~ToCome(j)'  BY <2>1, <2>3, <2>4 DEF ToCome, Owner
      <3>3. Len(sent'[j]) + Sends(w, j)' + Comes(j)' + faults <= Len(sent[j]) + Sends(w, j) + Comes(j) + faults'
        BY <1>2, <2>1, <3>1, <3>2 DEF Sends, Comes
      <3> QED  BY <1>1, <2>1, <3>3, BudgetStep DEF Goal
    <2>5. CASE i = j /\ j \in inbox
      <3>1. w \notin MaySend(j)' /\ ~ToCome(j)'  BY <2>1, <2>5 DEF MaySend, ToCome
      <3> QED  BY <1>3, <2>1, <3>1
    <2>6. CASE i # j
      <3>1. w \notin MaySend(j)'  BY <2>1, <2>6 DEF MaySend
      <3>2. queue'[j] = queue[j]  BY <1>2, <2>2, <2>6
      <3>3. ToCome(j)' => ToCome(j)
        <4> SUFFICES ASSUME ToCome(j)' PROVE ToCome(j)  OBVIOUS
        <4>1. ASSUME NEW v \in Workers, Owner(v, j), queue[j].state = "active"
              PROVE  worker[v].pc \in {"idle", "reject"}
          <5>1. CASE v = w  BY <1>6, <5>1 DEF Take
          <5>2. CASE v # w
            <6>1. worker'[v] = worker[v]  BY <2>1, <5>2
            <6>2. Owner(v, j)'  BY <3>2, <4>1, <6>1 DEF Owner
            <6> QED  BY <3>2, <4>1, <6>1, <6>2 DEF ToCome
          <5> QED  BY <5>1, <5>2
        <4> QED  BY <2>1, <3>2, <4>1 DEF ToCome
      <3> QED  BY <1>3, <2>1, <3>1, <3>3
    <2> QED  BY <2>4, <2>5, <2>6
  <1>7. ASSUME NEW w \in Workers, ReadInbox(w) PROVE Goal
    <2>1. worker[w].job \in Jobs  BY <1>7 DEF ReadInbox, IInv, Busy
    <2>2. CASE worker[w].job \in inbox  BY <1>5, <1>7, <2>2 DEF ReadInbox
    <2>3. CASE worker[w].job \notin inbox
      <3>1. w \in MaySend(worker[w].job)  BY <1>7, <2>1, <2>3 DEF ReadInbox, MaySend
      <3> QED  BY <1>5, <1>7, <2>3, <3>1 DEF ReadInbox
    <2> QED  BY <2>2, <2>3
  <1>8. ASSUME NEW w \in Workers, NEW e, worker' = [worker EXCEPT ![w] = e], UNCHANGED <<queue, inbox, faults>>,
               worker[w].pc \in {"find", "start", "route"}, e.job = worker[w].job,
               \/ e.pc \in {"find", "start", "route"} /\ sent' = sent
               \/ /\ e.pc = "commit" /\ \A i \in Jobs : i # worker[w].job => sent'[i] = sent[i]
                  /\ Len(sent'[worker[w].job]) \in {Len(sent[worker[w].job]), Len(sent[worker[w].job]) + 1}
        PROVE  Goal
    <2>1. ToCome(j)' => ToCome(j)  BY <1>1, <1>2, <1>8, ComesStep
    <2>2. worker'[w] = e  BY <1>2, <1>8
    <2>3. CASE e.pc \in {"find", "start", "route"} /\ sent' = sent
      <3>1. w \in MaySend(j)' => w \in MaySend(j)  BY <1>8, <2>2 DEF MaySend
      <3> QED  BY <1>3, <1>8, <2>1, <2>3, <3>1
    <2>4. CASE e.pc = "commit" /\ worker[w].job = j /\ Len(sent'[j]) \in {Len(sent[j]), Len(sent[j]) + 1}
      <3>1. Sends(w, j) = 1 /\ Sends(w, j)' = 0  BY <1>8, <2>2, <2>4 DEF Sends, MaySend
      <3>2. Comes(j)' <= Comes(j) /\ faults' = faults /\ Len(sent'[j]) <= Len(sent[j]) + 1 /\ Len(sent'[j]) \in Nat
        BY <1>2, <1>8, <2>1, <2>4 DEF Comes
      <3>3. Len(sent'[j]) + Sends(w, j)' + Comes(j)' + faults <= Len(sent[j]) + Sends(w, j) + Comes(j) + faults'
        BY <1>0, <1>2, <3>1, <3>2
      <3> QED  BY <1>1, <1>8, <3>3, BudgetStep DEF Goal
    <2>5. CASE e.pc = "commit" /\ worker[w].job # j /\ sent'[j] = sent[j]
      <3>1. Sends(w, j)' = 0 /\ Comes(j)' <= Comes(j) /\ faults' = faults
        BY <1>8, <2>1, <2>2, <2>5 DEF Sends, MaySend, Comes
      <3>2. Len(sent'[j]) + Sends(w, j)' + Comes(j)' + faults <= Len(sent[j]) + Sends(w, j) + Comes(j) + faults'
        BY <1>0, <1>2, <2>5, <3>1
      <3> QED  BY <1>1, <1>8, <3>2, BudgetStep DEF Goal
    <2> QED  BY <1>8, <2>3, <2>4, <2>5
  <1>9. ASSUME NEW w \in Workers, NEW pc, NEW copy, Continue(w, pc, copy), UNCHANGED <<queue, inbox, faults>>,
               worker[w].pc \in {"find", "start", "route"},
               \/ pc \in {"find", "start", "route"} /\ sent' = sent
               \/ /\ pc = "commit" /\ \A i \in Jobs : i # worker[w].job => sent'[i] = sent[i]
                  /\ Len(sent'[worker[w].job]) \in {Len(sent[worker[w].job]), Len(sent[worker[w].job]) + 1}
        PROVE  Goal
    <2> DEFINE e == [worker[w] EXCEPT !.pc = pc, !.copy = copy]
    <2>1. worker' = [worker EXCEPT ![w] = e]  BY <1>9 DEF Continue
    <2>2. e.pc = pc /\ e.job = worker[w].job  BY <1>2 DEF Execution
    <2> HIDE DEF e
    <2> QED  BY <1>8, <1>9, <2>1, <2>2
  <1>10. ASSUME NEW w \in Workers, FindJob(w) PROVE Goal
    <2> DEFINE i == worker[w].job
    <2>1. CASE Continue(w, "start", row[i])  BY <1>9, <1>10, <2>1 DEF FindJob
    <2>2. CASE Goto(w, "commit")  BY <1>5, <1>10, <2>2 DEF FindJob
    <2>3. CASE Goto(w, "reject")
      <3> DEFINE e == [worker[w] EXCEPT !.pc = "reject"]
      <3>1. worker' = [worker EXCEPT ![w] = e]  BY <2>3 DEF Goto
      <3>2. e.pc = "reject" /\ e.job = i /\ worker'[w] = e  BY <1>2, <3>1 DEF Execution
      <3> HIDE DEF e
      <3>3. CASE i = j
        <4>1. Sends(w, j) = 1 /\ Sends(w, j)' = 0  BY <1>10, <3>2, <3>3 DEF Sends, MaySend, FindJob
        <4>2. Comes(j)' <= Comes(j) + 1 /\ faults' = faults /\ sent'[j] = sent[j]  BY <1>10 DEF Comes, FindJob
        <4>3. Len(sent'[j]) + Sends(w, j)' + Comes(j)' + faults <= Len(sent[j]) + Sends(w, j) + Comes(j) + faults'
          BY <1>0, <1>2, <4>1, <4>2
        <4> QED  BY <1>1, <3>1, <4>3, BudgetStep DEF Goal
      <3>4. CASE i # j
        <4>1. ToCome(j)' => ToCome(j)  BY <1>1, <1>2, <1>10, <3>1, <3>2, <3>4, ComesStep DEF FindJob
        <4>2. w \notin MaySend(j)'  BY <3>2 DEF MaySend
        <4> QED  BY <1>3, <1>10, <3>1, <4>1, <4>2 DEF FindJob
      <3> QED  BY <3>3, <3>4
    <2> QED  BY <1>10, <2>1, <2>2, <2>3 DEF FindJob
  <1>11. ASSUME NEW w \in Workers, Start(w) PROVE Goal
    BY <1>9, <1>11 DEF Start
  <1>12. ASSUME NEW w \in Workers, Route(w) PROVE Goal
    <2> DEFINE i == worker[w].job
    <2>1. i \in Jobs /\ worker[w].copy \in Row  BY <1>2, <1>12 DEF Route, IInv, Busy, Execution
    <2>2. PICK copy : Continue(w, "commit", copy)
      BY <1>12, Zenon DEF Route
    <2>3. sent' = sent \/ sent' = [sent EXCEPT ![i] = Append(@, worker[w].copy.attempts)]
      BY <1>12, Zenon DEF Route
    <2>4. \A k \in Jobs : k # i => sent'[k] = sent[k]  BY <1>2, <2>1, <2>3
    <2>5. Len(sent'[i]) \in {Len(sent[i]), Len(sent[i]) + 1}
      <3>1. sent[i] \in Seq(Nat) /\ worker[w].copy.attempts \in Nat  BY <1>2, <2>1 DEF Row
      <3>2. Len(Append(sent[i], worker[w].copy.attempts)) = Len(sent[i]) + 1  BY <3>1
      <3> QED  BY <1>2, <2>1, <2>3, <3>2
    <2> HIDE DEF i
    <2>6. worker[w].pc = "route" /\ UNCHANGED <<queue, inbox, faults>>  BY <1>12 DEF Route
    <2> QED  BY <1>9, <2>2, <2>4, <2>5, <2>6 DEF i
  <1>13. ASSUME NEW w \in Workers, Commit(w) PROVE Goal
    BY <1>5, <1>13 DEF Commit, Committed, Apply
  <1>14. ASSUME NEW w \in Workers, DuplicateKey(w) PROVE Goal
    BY <1>5, <1>14 DEF DuplicateKey
  <1>15. ASSUME NEW w \in Workers, CommitUnanswered(w) \/ Throw(w) PROVE Goal
    <2> DEFINE e == [worker[w] EXCEPT !.pc = "reject"]
    <2>1. worker' = [worker EXCEPT ![w] = e] /\ UNCHANGED sent /\ faults' = faults + 1
      BY <1>15 DEF CommitUnanswered, Throw, Goto, Fault
    <2>2. worker'[w].pc = "reject"  BY <1>2, <2>1 DEF Execution
    <2>3. w \notin MaySend(j)'  BY <2>2 DEF MaySend
    <2> HIDE DEF e
    <2> QED  BY <1>4, <2>1, <2>3
  <1>16. ASSUME NEW w \in Workers, Crash(w) PROVE Goal
    <2>1. worker'[w].pc = "idle"  BY <1>2, <1>16 DEF Crash, Idle
    <2>2. w \notin MaySend(j)'  BY <2>1 DEF MaySend
    <2> QED  BY <1>4, <1>16, <2>2 DEF Crash, Fault
  <1>17. ASSUME NEW w \in Workers, Settle(w) PROVE Goal
    <2> DEFINE i == worker[w].job
    <2>1. /\ worker' = [worker EXCEPT ![w] = Idle] /\ UNCHANGED <<sent, faults, inbox>>
          /\ i \in Jobs /\ worker[w].pc \in {"resolve", "reject"} /\ worker'[w].pc = "idle" /\ worker'[w].job = None
      BY <1>2, <1>17 DEF Settle, IInv, Busy, Idle
    <2>2. w \notin MaySend(j)'  BY <2>1 DEF MaySend
    <2>3. ASSUME ToCome(j)' PROVE ToCome(j)
      <3>1. j \notin inbox  BY <2>1, <2>3 DEF ToCome
      <3>2. CASE i = j /\ Owner(w, j)
        <4>1. worker[w].pc = "reject"  BY <2>1, <3>1, <3>2 DEF Resolved
        <4>2. queue[j].state = "active"  BY NoneAssumption, <3>2 DEF Owner, IInv, TriesLeft
        <4>3. \A v \in Workers : Owner(v, j) => v = w  BY <3>2 DEF Owner
        <4> QED  BY <3>1, <4>1, <4>2, <4>3 DEF ToCome
      <3>3. CASE ~(i = j /\ Owner(w, j))
        <4>1. queue'[j] = queue[j]  BY <1>2, <1>17, <2>1, <3>3 DEF Settle
        <4>2. ~Owner(w, j)  BY <3>3 DEF Owner
        <4>3. ASSUME NEW v \in Workers, Owner(v, j), queue[j].state = "active"
              PROVE  worker[v].pc \in {"idle", "reject"}
          <5>1. worker'[v] = worker[v]  BY <1>2, <2>1, <4>2, <4>3
          <5>2. Owner(v, j)'  BY <4>1, <4>3, <5>1 DEF Owner
          <5> QED  BY <2>3, <4>1, <4>3, <5>1, <5>2 DEF ToCome
        <4> QED  BY <2>3, <3>1, <4>1, <4>3 DEF ToCome
      <3> QED  BY <3>2, <3>3
    <2> QED  BY <1>3, <2>1, <2>2, <2>3
  <1>18. ASSUME UNCHANGED <<worker, inbox, sent, faults>>, ToCome(j)' => ToCome(j) PROVE Goal
    <2>1. Comes(j)' + faults <= Comes(j) + faults'  BY <1>2, <1>18 DEF Comes
    <2> QED  BY <1>1, <1>18, <2>1, BudgetAlone DEF Goal
  <1>19. ASSUME NEW i \in Jobs, Add(i) PROVE Goal
    <2>1. i = j \/ queue'[j] = queue[j]  BY <1>2, <1>19 DEF Add
    <2>2. ToCome(j)' => ToCome(j)  BY <1>19, <2>1 DEF Add, ToCome, Owner
    <2> QED  BY <1>18, <1>19, <2>2 DEF Add
  <1>20. ASSUME NEW i \in Jobs, StallOrphan(i) PROVE Goal
    <2>1. i = j \/ queue'[j] = queue[j]  BY <1>2, <1>20 DEF StallOrphan, Stall
    <2>2. ToCome(j)' => ToCome(j)
      <3>1. CASE i = j  BY <1>20, <3>1 DEF StallOrphan, Stall, ToCome, Orphaned
      <3>2. CASE queue'[j] = queue[j]  BY <1>20, <3>2 DEF StallOrphan, Stall, ToCome, Owner
      <3> QED  BY <2>1, <3>1, <3>2
    <2> QED  BY <1>18, <1>20, <2>2 DEF StallOrphan, Stall
  <1>21. ASSUME NEW i \in Jobs, StallOwned(i) PROVE Goal
    <2>1. UNCHANGED <<worker, inbox, sent>> /\ faults' = faults + 1  BY <1>21 DEF StallOwned, Stall, Fault
    <2>2. Comes(j)' + faults <= Comes(j) + faults'  BY <1>2, <2>1 DEF Comes
    <2> QED  BY <1>1, <2>1, <2>2, BudgetAlone DEF Goal
  <1>22. ASSUME UNCHANGED vars PROVE Goal
    <2>1. ToCome(j)' => ToCome(j)  BY <1>22 DEF vars, ToCome, Owner
    <2> QED  BY <1>18, <1>22, <2>1 DEF vars
  <1>23. ASSUME NEW w \in Workers, Run(w) PROVE Goal
    BY <1>6, <1>7, <1>10, <1>11, <1>12, <1>13, <1>14, <1>17, <1>23 DEF Run
  <1>24. Goal  BY <1>15, <1>16, <1>19, <1>20, <1>21, <1>22, <1>23 DEF Next
  <1> QED  BY <1>24 DEF Goal

\* However often a job is added, tried or delivered: its handler runs again for
\* a fault only, and once for each (InboxService.process).
THEOREM HandledByFault == Spec => []HandledAgainByFault
  <1> DEFINE Paid == \A j \in Jobs : Budget(j)
  <1>1. Init => Paid  BY InitBudget
  <1>2. IInv /\ Resolved /\ Paid /\ [Next]_vars => Paid'
    <2> SUFFICES ASSUME IInv, Resolved, Paid, [Next]_vars, NEW j \in Jobs PROVE Budget(j)'  OBVIOUS
    <2>1. Budget(j)  OBVIOUS
    <2> HIDE DEF Paid
    <2> QED  BY <2>1, BudgetNext
  <1>3. IInv /\ Paid => HandledAgainByFault
    <2> SUFFICES ASSUME IInv, Paid, NEW j \in Jobs PROVE Len(sent[j]) <= 1 + faults
      BY DEF HandledAgainByFault
    <2>1. IsFiniteSet(MaySend(j)) /\ Len(sent[j]) + Count(j) + Comes(j) <= 1 + faults  BY DEF Budget
    <2>2. Count(j) \in Nat  BY <2>1, FS_CardinalityType DEF Count
    <2>3. Comes(j) \in Nat  BY DEF Comes
    <2>4. Len(sent[j]) \in Nat /\ faults \in Nat  BY LimitsAssumption DEF IInv, TypeOK
    <2> QED  BY <2>1, <2>2, <2>3, <2>4
  <1> HIDE DEF Paid
  <1> QED  BY <1>1, <1>2, <1>3, Invariant, PTL DEF Spec

=============================================================================
