---------------------------- MODULE AccountOutbox ----------------------------
(***************************************************************************)
(* Accounts and the outbox of their events (libs/domain/accounting): a     *)
(* request creates an account in one transaction and stores its event      *)
(* meanwhile; in every process a relay publishes stored events to Kafka    *)
(* every ten seconds and marks them as processed.                          *)
(*                                                                         *)
(* The outbox repository forks the entity manager, so an event is stored   *)
(* by a transaction of its own, on a second connection of the pool, while  *)
(* the account's waits open on the first.  A request stands for its        *)
(* account, its event and its outbox row.  The setup of a tenant's chart   *)
(* commits thirteen accounts in one transaction and stores no event.       *)
(*                                                                         *)
(* A process whose modules include TenantModule has TenantModelSubscriber  *)
(* refuse every update of a row with a tenantId that is made without a     *)
(* tenant's context: the relay runs from a timer and has none.             *)
(***************************************************************************)
EXTENDS Naturals, FiniteSets

CONSTANTS
    Requests,   \* requests that write accounts
    Processes,  \* instances of the accounting service
    HomeOf,     \* request -> the process that serves it
    TenantOf,   \* request -> its tenant
    CodeOf,     \* request -> the code of the account it creates
    Charts,     \* which requests may set up a chart instead: sets of requests
    Chart,      \* the codes of a chart
    Pool,       \* connections of one process
    Batch,      \* events one run of the relay fetches (20 in the code)
    Times,      \* readings of the clock for createdAt
    Poisoned,   \* events the broker never accepts
    Guards,     \* is TenantModelSubscriber registered?
    Failures,   \* may the database or the broker fail, or answer too late?
    Crashes,    \* may a process die?
    None        \* no event

ASSUME HomeAssumption == HomeOf \in [Requests -> Processes]
ASSUME ChartsAssumption == Charts \subseteq SUBSET Requests
ASSUME NoneAssumption == None \notin Requests
ASSUME TimesAssumption == Times \subseteq Nat \ {0}
ASSUME SizesAssumption == Pool \in Nat /\ Batch \in Nat \ {0}
ASSUME ChoicesAssumption == Guards \subseteq BOOLEAN /\ Failures \in BOOLEAN /\ Crashes \in BOOLEAN
ASSUME PoisonAssumption == Poisoned \subseteq Requests

VARIABLES
    guarded,   \* does the subscriber guard the rows?  Never changes
    setups,    \* requests that set up a chart.  Never changes
    account,   \* requests whose accounts are committed
    stamp,     \* request -> createdAt of its outbox row; 0: it has none
    marked,    \* outbox rows with a processedAt
    topic,     \* events the broker has
    pc,        \* request -> the statement it is about to run, or how it ended
    status,    \* process -> down, or what its broker client found when it started
    running,   \* process -> isProcessing
    batch,     \* process -> fetched events the loop has not come to
    marking    \* process -> the event it has published and not marked, or None

vars == <<guarded, setups, account, stamp, marked, topic, pc, status, running, batch, marking>>

requests == <<account, stamp, pc>>
relays   == <<marked, topic, running, batch, marking>>

\* What a request has done so far: where it holds a connection, and where its
\* account is written and not committed.
InTransaction == {"find", "insert", "save", "commit"}
Uncommitted   == {"save", "commit"}
Serving       == {"begin"} \cup InTransaction
Ended         == {"created", "skipped", "failed"}

TypeOK ==
    /\ guarded \in Guards /\ setups \in Charts
    /\ account \subseteq Requests
    /\ stamp \in [Requests -> Times \cup {0}]
    /\ marked \subseteq Requests /\ topic \subseteq Requests
    /\ pc \in [Requests -> {"new"} \cup Serving \cup Ended]
    /\ status \in [Processes -> {"down", "healthy", "unhealthy"}]
    /\ running \in [Processes -> BOOLEAN]
    /\ batch \in [Processes -> SUBSET Requests]
    /\ marking \in [Processes -> Requests \cup {None}]

Init ==
    /\ guarded \in Guards /\ setups \in Charts
    /\ account = {} /\ marked = {} /\ topic = {}
    /\ stamp = [r \in Requests |-> 0]
    /\ pc = [r \in Requests |-> "new"]
    /\ status = [p \in Processes |-> "down"]
    /\ running = [p \in Processes |-> FALSE]
    /\ batch = [p \in Processes |-> {}]
    /\ marking = [p \in Processes |-> None]

Up(p) == status[p] # "down"

\* The pool has a connection to give; every open transaction holds one.
Free(p) == Cardinality({r \in Requests : HomeOf[r] = p /\ pc[r] \in InTransaction}) < Pool

Stored == {r \in Requests : stamp[r] # 0}
Unmarked == Stored \ marked

\* The unique index is on tenant and code.
Codes(r) == IF r \in setups THEN Chart ELSE {CodeOf[r]}
SameCode(r, s) == TenantOf[r] = TenantOf[s] /\ Codes(r) \cap Codes(s) # {}

Goto(r, s) == pc' = [pc EXCEPT ![r] = s]

-----------------------------------------------------------------------------
\* CreateAccountUseCase.execute opens its transaction.
Begin(r) ==
    /\ pc[r] = "new" /\ r \notin setups
    /\ Up(HomeOf[r]) /\ Free(HomeOf[r])
    /\ Goto(r, "find")
    /\ UNCHANGED <<guarded, setups, account, stamp, status, relays>>

\* findByCode: a committed account of the same code ends the request.
FindByCode(r) ==
    /\ pc[r] = "find"
    /\ Goto(r, IF \E s \in account : SameCode(r, s) THEN "failed" ELSE "insert")
    /\ UNCHANGED <<guarded, setups, account, stamp, status, relays>>

\* SetupChartOfAccountsUseCase.execute, a call or the listener of tenant.created:
\* findAll, before any transaction, ends the setup of a tenant that has accounts.
FindAll(r) ==
    /\ pc[r] = "new" /\ r \in setups
    /\ Up(HomeOf[r]) /\ Free(HomeOf[r])
    /\ Goto(r, IF \E s \in account : TenantOf[s] = TenantOf[r] THEN "skipped" ELSE "begin")
    /\ UNCHANGED <<guarded, setups, account, stamp, status, relays>>

\* The setup opens its transaction.
BeginSetup(r) ==
    /\ pc[r] = "begin" /\ Free(HomeOf[r])
    /\ Goto(r, "insert")
    /\ UNCHANGED <<guarded, setups, account, stamp, status, relays>>

\* A creation goes on to its event, a setup to its COMMIT.
Inserted(r) == IF r \in setups THEN "commit" ELSE "save"

\* Mutant: findByCode alone keeps codes apart.
InsertUnconstrained(r) ==
    /\ pc[r] = "insert"
    /\ Goto(r, Inserted(r))
    /\ UNCHANGED <<guarded, setups, account, stamp, status, relays>>

\* Mutant: the account is written outside the transaction.
InsertAutocommits(r) ==
    /\ pc[r] = "insert"
    /\ \A s \in account : ~SameCode(r, s)
    /\ account' = account \cup {r}
    /\ Goto(r, Inserted(r))
    /\ UNCHANGED <<guarded, setups, stamp, status, relays>>

\* create: the unique index makes the INSERT wait for an uncommitted account of the
\* same code, and refuses it after a committed one.  All setups insert the same
\* codes in the same order and a creation inserts one: waits form no cycle, and a
\* setup's INSERTs are one step.
Insert(r) ==
    /\ pc[r] = "insert"
    /\ \A s \in Requests \ {r} : SameCode(r, s) => pc[s] \notin Uncommitted
    /\ Goto(r, IF \E s \in account : SameCode(r, s) THEN "failed" ELSE Inserted(r))
    /\ UNCHANGED <<guarded, setups, account, stamp, status, relays>>

\* outboxRepository.save: INSERT and COMMIT on another connection.  The answer may
\* be lost, and the request throws.
SaveEvent(r) ==
    /\ pc[r] = "save"
    /\ Free(HomeOf[r])
    /\ \E t \in Times : stamp' = [stamp EXCEPT ![r] = t]
    /\ \/ Goto(r, "commit")
       \/ Failures /\ Goto(r, "failed")
    /\ UNCHANGED <<guarded, setups, account, status, relays>>

\* COMMIT of the account's transaction; its answer may be lost as well.
Commit(r) ==
    /\ pc[r] = "commit"
    /\ account' = account \cup {r}
    /\ \/ Goto(r, "created")
       \/ Failures /\ Goto(r, "failed")
    /\ UNCHANGED <<guarded, setups, stamp, status, relays>>

\* A statement fails (or the parent account is missing): the transaction is rolled
\* back and the request answers an error.
Refuse(r) ==
    /\ Failures
    /\ pc[r] \in Serving
    /\ Goto(r, "failed")
    /\ UNCHANGED <<guarded, setups, account, stamp, status, relays>>

\* Mutant: one waits for a connection without a limit.
NeverTimesOut(r) == FALSE /\ UNCHANGED vars

\* The pool gives up on a request for a connection that it could not serve.
TimesOut(r) ==
    /\ pc[r] \in {"new", "begin", "save"}
    /\ Up(HomeOf[r]) /\ ~Free(HomeOf[r])
    /\ Goto(r, "failed")
    /\ UNCHANGED <<guarded, setups, account, stamp, status, relays>>

-----------------------------------------------------------------------------
\* The possible answers of findUnprocessed(Batch): the oldest unmarked rows.
Oldest ==
    {B \in SUBSET Unmarked :
        /\ Cardinality(B) <= Batch
        /\ Cardinality(B) = Batch \/ B = Unmarked
        /\ \A x \in B, y \in Unmarked \ B : stamp[x] <= stamp[y]}

\* processOutbox is called by the timer.  The flag keeps runs of one process apart,
\* not those of two.
Tick(p) ==
    /\ Up(p) /\ ~running[p]
    /\ Free(p) /\ Unmarked # {}
    /\ running' = [running EXCEPT ![p] = TRUE]
    /\ \E B \in Oldest : batch' = [batch EXCEPT ![p] = B]
    /\ UNCHANGED <<guarded, setups, requests, marked, topic, status, marking>>

\* The event the loop comes to: the oldest that is left.
AtHead(p, m) ==
    /\ running[p] /\ marking[p] = None
    /\ m \in batch[p]
    /\ \A x \in batch[p] : stamp[m] <= stamp[x]

\* publish reaches the broker; when its answer is lost, the loop goes on.
Send(p, m) ==
    /\ AtHead(p, m)
    /\ status[p] = "healthy" /\ m \notin Poisoned
    /\ topic' = topic \cup {m}
    /\ batch' = [batch EXCEPT ![p] = @ \ {m}]
    /\ \/ marking' = [marking EXCEPT ![p] = m]
       \/ Failures /\ UNCHANGED marking
    /\ UNCHANGED <<guarded, setups, requests, marked, status, running>>

\* Mutant: one catch around the whole loop.
SendFailsRun(p, m) ==
    /\ AtHead(p, m)
    /\ status[p] = "unhealthy" \/ m \in Poisoned \/ Failures
    /\ running' = [running EXCEPT ![p] = FALSE]
    /\ batch' = [batch EXCEPT ![p] = {}]
    /\ UNCHANGED <<guarded, setups, requests, marked, topic, status, marking>>

\* Mutant: publish logs an error and returns.
SendFailsSilently(p, m) ==
    /\ AtHead(p, m)
    /\ status[p] = "unhealthy" \/ m \in Poisoned \/ Failures
    /\ batch' = [batch EXCEPT ![p] = @ \ {m}]
    /\ marking' = [marking EXCEPT ![p] = m]
    /\ UNCHANGED <<guarded, setups, requests, marked, topic, status, running>>

\* publish throws, always when the client did not connect at the start; the loop
\* goes on with the next event.
SendFails(p, m) ==
    /\ AtHead(p, m)
    /\ status[p] = "unhealthy" \/ m \in Poisoned \/ Failures
    /\ batch' = [batch EXCEPT ![p] = @ \ {m}]
    /\ UNCHANGED <<guarded, setups, requests, marked, topic, status, running, marking>>

\* markAsProcessed.  Under the subscriber its UPDATE is refused.
Mark(p) ==
    /\ marking[p] # None
    /\ ~guarded /\ Free(p)
    /\ marked' = marked \cup {marking[p]}
    /\ marking' = [marking EXCEPT ![p] = None]
    /\ UNCHANGED <<guarded, setups, requests, topic, status, running, batch>>

MarkFails(p) ==
    /\ marking[p] # None
    /\ guarded \/ Failures \/ ~Free(p)
    /\ marking' = [marking EXCEPT ![p] = None]
    /\ UNCHANGED <<guarded, setups, requests, marked, topic, status, running, batch>>

EndRun(p) ==
    /\ running[p] /\ batch[p] = {} /\ marking[p] = None
    /\ running' = [running EXCEPT ![p] = FALSE]
    /\ UNCHANGED <<guarded, setups, requests, marked, topic, status, batch, marking>>

\* A process dies: its transactions are rolled back, its relay's run is gone.
Crash(p) ==
    /\ Crashes /\ Up(p)
    /\ status' = [status EXCEPT ![p] = "down"]
    /\ pc' = [r \in Requests |-> IF HomeOf[r] = p /\ pc[r] \in Serving THEN "failed" ELSE pc[r]]
    /\ running' = [running EXCEPT ![p] = FALSE]
    /\ batch' = [batch EXCEPT ![p] = {}]
    /\ marking' = [marking EXCEPT ![p] = None]
    /\ UNCHANGED <<guarded, setups, account, stamp, marked, topic>>

\* KafkaMessageBroker.onModuleInit tries to connect five times and never again.
Boot(p) ==
    /\ ~Up(p)
    /\ \E s \in {"healthy"} \cup (IF Failures THEN {"unhealthy"} ELSE {}) :
          status' = [status EXCEPT ![p] = s]
    /\ UNCHANGED <<guarded, setups, requests, relays>>

-----------------------------------------------------------------------------
RequestStep(r) == BeginSetup(r) \/ FindByCode(r) \/ Insert(r) \/ SaveEvent(r) \/ Commit(r) \/ TimesOut(r)
Serve(r)       == Begin(r) \/ FindAll(r) \/ RequestStep(r) \/ Refuse(r)
RunStep(p)     == (\E m \in Requests : Send(p, m) \/ SendFails(p, m)) \/ Mark(p) \/ MarkFails(p) \/ EndRun(p)
Relay(p)       == Tick(p) \/ RunStep(p) \/ Crash(p) \/ Boot(p)

Next == (\E r \in Requests : Serve(r)) \/ (\E p \in Processes : Relay(p))

Spec == Init /\ [][Next]_vars

\* The event loop of a process takes its next step, the pool's timeout expires and
\* the relay's timer fires.  The broker accepts an event that is tried again and
\* again some time, unless it is poisoned.
Fairness ==
    /\ \A r \in Requests : WF_vars(RequestStep(r))
    /\ \A p \in Processes :
          /\ WF_vars(Tick(p)) /\ WF_vars(RunStep(p))
          /\ \A m \in Requests \ Poisoned : SF_vars(Send(p, m))

FairSpec == Spec /\ Fairness

-----------------------------------------------------------------------------
\* No account of CreateAccountUseCase goes unannounced: what is committed has its
\* event stored, and what is answered is committed, however the two transactions
\* interleave and fail.  The accounts of a setup have no event at all
\* (setup-chart-of-accounts.use-case.ts:29-33): of every account this would be false.
AccountIsAnnounced ==
    /\ account \ setups \subseteq Stored
    /\ \A r \in Requests : pc[r] = "created" => r \in account

\* A row is marked only after the broker has its event, and the broker has nothing
\* that no request stored: neither a relay that dies between publish and mark, nor
\* a send that fails, loses an event.
MarkedIsPublished == marked \subseteq topic /\ topic \subseteq Stored

\* Requests that all looked before any of them wrote still do not share a code, nor
\* does a setup that found no account of its tenant.
CodesAreUnique == \A r, s \in account : SameCode(r, s) => r = s

\* Requests that hold all the connections while each wants a second one, or wait
\* for one of these, end all the same.
RequestsEnd == \A r \in Requests : pc[r] \in Serving ~> pc[r] \in Ended

\* Batch other rows, none younger, are unmarked.
Blocked(m) == Cardinality({x \in Unmarked \ {m} : stamp[x] <= stamp[m]}) >= Batch

\* While one process stays up with a broker, an event that can be published is
\* published unless it waits behind a full batch of rows that are never marked.
PublishedUnlessBlocked ==
    (\E p \in Processes : <>[](status[p] = "healthy")) =>
        \A m \in Requests \ Poisoned : m \in Stored ~> (m \in topic \/ []Blocked(m))

\* docs/adr/0001-outbox-pattern.md:15 promises delivery at least once.
EventuallyPublished ==
    (\E p \in Processes : <>[](status[p] = "healthy")) =>
        \A m \in Requests \ Poisoned : m \in Stored ~> m \in topic

=============================================================================
