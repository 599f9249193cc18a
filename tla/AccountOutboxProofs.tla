------------------------- MODULE AccountOutboxProofs -------------------------
(***************************************************************************)
(* Machine-checked proofs about AccountOutbox, for any requests, setups,   *)
(* processes, codes, pool and batch, with or without the subscriber,       *)
(* failures and crashes: what the unique index, the order of the two       *)
(* transactions and the order of publish and mark guarantee.               *)
(***************************************************************************)
EXTENDS AccountOutbox, TLAPS

-----------------------------------------------------------------------------
\* A creation that is about to commit has stored its event.
Announced ==
    /\ AccountIsAnnounced
    /\ \A r \in Requests \ setups : pc[r] = "commit" => r \in Stored

\* The account of r is in the table, committed or not.
Written(r) == r \in account \/ pc[r] \in Uncommitted

\* The unique index: committed or not, two accounts do not share a code.
Indexed == \A r, s \in Requests : Written(r) /\ Written(s) /\ SameCode(r, s) => r = s

\* What a relay has fetched is stored, what it is about to mark is published.
Relayed ==
    /\ MarkedIsPublished
    /\ \A p \in Processes : batch[p] \subseteq Stored
    /\ \A p \in Processes : marking[p] # None => marking[p] \in topic

Inv == TypeOK /\ Announced /\ Indexed /\ Relayed

LEMMA InvInit == Init => Inv
<1> SUFFICES ASSUME Init PROVE Inv
  OBVIOUS
<1>1. TypeOK
  BY ChoicesAssumption DEF Init, TypeOK, Serving, InTransaction, Ended
<1>2. Announced /\ Indexed /\ Relayed
  BY DEF Init, Announced, AccountIsAnnounced, Indexed, Written, Uncommitted, Relayed, MarkedIsPublished, Stored
<1>3. QED
  BY <1>1, <1>2 DEF Inv

-----------------------------------------------------------------------------
\* A step of a request takes it from a state to another one; the relays do not
\* move, and at most its own outbox row and account appear.
LEMMA RequestMoves ==
    ASSUME TypeOK, NEW r \in Requests, Serve(r)
    PROVE  /\ UNCHANGED <<guarded, setups, status, relays>>
           /\ \E s \in Serving \cup Ended : pc' = [pc EXCEPT ![r] = s]
           /\ \/ account' = account
              \/ pc[r] = "commit" /\ account' = account \cup {r}
           /\ \/ stamp' = stamp
              \/ \E t \in Times : stamp' = [stamp EXCEPT ![r] = t]
<1>1. \A s : Goto(r, s) => pc' = [pc EXCEPT ![r] = s]
  BY DEF Goto
<1>2. CASE Begin(r) \/ FindAll(r) \/ BeginSetup(r) \/ FindByCode(r) \/ Insert(r)
  <2>1. \E s \in Serving \cup Ended : Goto(r, s)
    BY <1>2 DEF Begin, FindAll, BeginSetup, FindByCode, Insert, Inserted, Serving, InTransaction, Ended
  <2>2. UNCHANGED <<guarded, setups, account, stamp, status, relays>>
    BY <1>2 DEF Begin, FindAll, BeginSetup, FindByCode, Insert
  <2>3. QED
    BY <1>1, <2>1, <2>2
<1>3. CASE SaveEvent(r)
  <2>1. \E s \in Serving \cup Ended : Goto(r, s)
    BY <1>3 DEF SaveEvent, Serving, InTransaction, Ended
  <2>2. /\ UNCHANGED <<guarded, setups, account, status, relays>>
        /\ \E t \in Times : stamp' = [stamp EXCEPT ![r] = t]
    BY <1>3 DEF SaveEvent
  <2>3. QED
    BY <1>1, <2>1, <2>2
<1>4. CASE Commit(r)
  <2>1. \E s \in Serving \cup Ended : Goto(r, s)
    BY <1>4 DEF Commit, Ended
  <2>2. /\ UNCHANGED <<guarded, setups, stamp, status, relays>>
        /\ pc[r] = "commit" /\ account' = account \cup {r}
    BY <1>4 DEF Commit
  <2>3. QED
    BY <1>1, <2>1, <2>2
<1>5. CASE TimesOut(r) \/ Refuse(r)
  <2>1. \E s \in Serving \cup Ended : Goto(r, s)
    BY <1>5 DEF TimesOut, Refuse, Ended
  <2>2. UNCHANGED <<guarded, setups, account, stamp, status, relays>>
    BY <1>5 DEF TimesOut, Refuse
  <2>3. QED
    BY <1>1, <2>1, <2>2
<1>6. QED
  BY <1>2, <1>3, <1>4, <1>5 DEF Serve, RequestStep

\* Rows of the outbox stay.
LEMMA StoredGrows ==
    ASSUME TypeOK, NEW r \in Requests, Serve(r)
    PROVE  Stored \subseteq Stored' /\ (stamp' # stamp => r \in Stored')
<1>1. CASE stamp' = stamp
  BY <1>1 DEF Stored
<1>2. CASE \E t \in Times : stamp' = [stamp EXCEPT ![r] = t]
  <2>1. PICK t \in Times : stamp' = [stamp EXCEPT ![r] = t]
    BY <1>2
  <2>2. t # 0
    BY TimesAssumption
  <2>3. QED
    BY <2>1, <2>2 DEF Stored, TypeOK
<1>3. QED
  BY <1>1, <1>2, RequestMoves

LEMMA RequestTypes ==
    ASSUME TypeOK, NEW r \in Requests, Serve(r)
    PROVE  TypeOK'
<1>1. UNCHANGED <<guarded, setups, status, relays>>
  BY RequestMoves
<1>2. account' \subseteq Requests
  BY RequestMoves DEF TypeOK
<1>3. stamp' \in [Requests -> Times \cup {0}]
  BY RequestMoves DEF TypeOK
<1>4. pc' \in [Requests -> {"new"} \cup Serving \cup Ended]
  BY RequestMoves DEF TypeOK
<1>5. QED
  BY <1>1, <1>2, <1>3, <1>4 DEF TypeOK, relays

\* The event is stored before the account is committed, and the request is
\* answered after it.
LEMMA RequestAnnounces ==
    ASSUME TypeOK, Announced, NEW r \in Requests, Serve(r)
    PROVE  Announced'
<1>1. account' \ setups \subseteq Stored'
  <2>1. account \ setups \subseteq Stored'
    BY StoredGrows DEF Announced, AccountIsAnnounced
  <2>2. pc[r] = "commit" => r \in Stored' \cup setups
    BY StoredGrows DEF Announced
  <2>3. QED
    BY <2>1, <2>2, RequestMoves
<1>2. ASSUME NEW q \in Requests, q # r
      PROVE  /\ pc'[q] = "created" => q \in account'
             /\ pc'[q] = "commit" => q \in Stored' \cup setups
  BY <1>2, RequestMoves, StoredGrows DEF Announced, AccountIsAnnounced, TypeOK
<1>3. /\ pc'[r] = "created" => r \in account'
      /\ pc'[r] = "commit" => r \in Stored' \cup setups
  <2>1. CASE SaveEvent(r)
    <3>1. PICK t \in Times : stamp' = [stamp EXCEPT ![r] = t]
      BY <2>1 DEF SaveEvent
    <3>2. stamp'[r] # 0
      BY <3>1, TimesAssumption DEF TypeOK
    <3>3. pc'[r] \in {"commit", "failed"}
      BY <2>1 DEF SaveEvent, Goto, TypeOK
    <3>4. QED
      BY <3>2, <3>3 DEF Stored
  <2>2. CASE Commit(r)
    BY <2>2 DEF Commit, Goto, TypeOK
  <2>3. CASE Begin(r) \/ FindAll(r) \/ BeginSetup(r) \/ FindByCode(r) \/ Insert(r) \/ TimesOut(r) \/ Refuse(r)
    <3>1. pc'[r] # "created" /\ (pc'[r] = "commit" => r \in setups)
      BY <2>3 DEF Begin, FindAll, BeginSetup, FindByCode, Insert, Inserted, TimesOut, Refuse, Goto, TypeOK
    <3>2. QED
      BY <3>1
  <2>4. QED
    BY <2>1, <2>2, <2>3 DEF Serve, RequestStep
<1>4. setups' = setups
  BY RequestMoves
<1>5. QED
  BY <1>1, <1>2, <1>3, <1>4 DEF Announced, AccountIsAnnounced

\* Which requests set up a chart is settled, so what codes they share is.
LEMMA SameCodeKept ==
    ASSUME setups' = setups
    PROVE  \A r, s : SameCode(r, s)' <=> SameCode(r, s)
  BY DEF SameCode, Codes

\* Two requests share a code whichever is named first.
LEMMA SameCodeSymmetric ==
    ASSUME NEW r, NEW s, SameCode(r, s)
    PROVE  SameCode(s, r)
  BY DEF SameCode

\* The index decides when a row is inserted; from then on the row only moves
\* towards its commit or goes away.
LEMMA RequestKeepsIndex ==
    ASSUME TypeOK, Indexed, NEW r \in Requests, Serve(r)
    PROVE  Indexed'
<1>1. \A q \in Requests \ {r} : Written(q)' => Written(q)
  BY RequestMoves DEF Written, TypeOK
<1>2. CASE Written(r)' => Written(r)
  BY <1>1, <1>2, SameCodeKept, RequestMoves DEF Indexed
<1>3. CASE Written(r)' /\ ~Written(r)
  <2>1. Insert(r)
    <3>1. pc[r] \notin Uncommitted
      BY <1>3 DEF Written
    <3>2. account' = account
      BY <3>1, RequestMoves DEF Uncommitted
    <3>3. pc'[r] \in Uncommitted
      BY <1>3, <3>2 DEF Written
    <3>4. QED
      BY <3>1, <3>3 DEF Serve, RequestStep, Begin, FindAll, BeginSetup, FindByCode,
                        SaveEvent, Commit, TimesOut, Refuse,
                        Goto, Uncommitted, TypeOK
  <2>2. \A q \in account : ~SameCode(r, q)
    <3>1. account' = account
      BY <2>1 DEF Insert
    <3>2. pc'[r] \in Uncommitted
      BY <1>3, <3>1 DEF Written
    <3>3. QED
      BY <2>1, <3>2 DEF Insert, Goto, Uncommitted, TypeOK
  <2>3. \A q \in Requests \ {r} : SameCode(r, q) => ~Written(q)
    BY <2>1, <2>2 DEF Insert, Written
  <2>4. QED
    BY <1>1, <2>3, SameCodeSymmetric, SameCodeKept, RequestMoves DEF Indexed
<1>4. QED
  BY <1>2, <1>3

LEMMA RequestLeavesRelays ==
    ASSUME TypeOK, Relayed, NEW r \in Requests, Serve(r)
    PROVE  Relayed'
  BY RequestMoves, StoredGrows DEF Relayed, MarkedIsPublished, relays

-----------------------------------------------------------------------------
\* What a step of the relay leaves alone.
LEMMA RunFrame ==
    ASSUME NEW p \in Processes, Tick(p) \/ RunStep(p)
    PROVE  UNCHANGED <<guarded, setups, account, stamp, pc, status>>
  BY DEF Tick, RunStep, Send, SendFails, Mark, MarkFails, EndRun, requests

LEMMA RunTypes ==
    ASSUME TypeOK, NEW p \in Processes, Tick(p) \/ RunStep(p)
    PROVE  TypeOK'
<1>1. CASE Tick(p)
  <2>1. PICK B \in Oldest : batch' = [batch EXCEPT ![p] = B]
    BY <1>1 DEF Tick
  <2>2. B \subseteq Requests
    BY DEF Oldest, Unmarked, Stored
  <2>3. QED
    BY <1>1, <2>1, <2>2 DEF Tick, TypeOK, requests
<1>2. CASE \E m \in Requests : Send(p, m) \/ SendFails(p, m)
  <2>1. PICK m \in Requests : Send(p, m) \/ SendFails(p, m)
    BY <1>2
  <2>2. batch' = [batch EXCEPT ![p] = @ \ {m}]
    BY <2>1 DEF Send, SendFails
  <2>3. batch' \in [Processes -> SUBSET Requests]
    BY <2>2 DEF TypeOK
  <2>4. QED
    BY <2>1, <2>3 DEF Send, SendFails, TypeOK, requests
<1>3. CASE Mark(p)
  BY <1>3 DEF Mark, TypeOK, requests
<1>4. CASE MarkFails(p)
  BY <1>4 DEF MarkFails, TypeOK, requests
<1>5. CASE EndRun(p)
  BY <1>5 DEF EndRun, TypeOK, requests
<1>6. QED
  BY <1>1, <1>2, <1>3, <1>4, <1>5 DEF RunStep

\* A row is published before it is marked.
LEMMA RunRelays ==
    ASSUME TypeOK, Relayed, NEW p \in Processes, Tick(p) \/ RunStep(p)
    PROVE  Relayed'
<1>1. Stored' = Stored
  BY RunFrame DEF Stored
<1>2. CASE Tick(p)
  <2>1. PICK B \in Oldest : batch' = [batch EXCEPT ![p] = B]
    BY <1>2 DEF Tick
  <2>2. B \subseteq Stored
    BY DEF Oldest, Unmarked
  <2>3. \A q \in Processes : batch'[q] \subseteq Stored
    BY <2>1, <2>2 DEF Relayed, TypeOK
  <2>4. QED
    BY <1>1, <1>2, <2>3 DEF Tick, Relayed, MarkedIsPublished
<1>3. CASE \E m \in Requests : Send(p, m) \/ SendFails(p, m)
  <2>1. PICK m \in Requests : Send(p, m) \/ SendFails(p, m)
    BY <1>3
  <2>2. batch' = [batch EXCEPT ![p] = @ \ {m}]
    BY <2>1 DEF Send, SendFails
  <2>3. \A q \in Processes : batch'[q] \subseteq Stored
    BY <2>2 DEF Relayed, TypeOK
  <2>4. m \in Stored
    BY <2>1 DEF Send, SendFails, AtHead, Relayed
  <2>5. CASE Send(p, m)
    <3>1. topic' = topic \cup {m} /\ marked' = marked
      BY <2>5 DEF Send
    <3>2. marking' = marking \/ marking' = [marking EXCEPT ![p] = m]
      BY <2>5 DEF Send
    <3>3. \A q \in Processes : marking'[q] # None => marking'[q] \in topic'
      BY <3>1, <3>2 DEF Relayed, TypeOK
    <3>4. QED
      BY <1>1, <2>3, <2>4, <3>1, <3>3 DEF Relayed, MarkedIsPublished
  <2>6. CASE SendFails(p, m)
    BY <1>1, <2>3, <2>6 DEF SendFails, Relayed, MarkedIsPublished
  <2>7. QED
    BY <2>1, <2>5, <2>6
<1>4. CASE Mark(p)
  <2>1. /\ marked' = marked \cup {marking[p]} /\ topic' = topic /\ batch' = batch
        /\ marking' = [marking EXCEPT ![p] = None] /\ marking[p] # None
    BY <1>4 DEF Mark
  <2>2. QED
    BY <1>1, <2>1 DEF Relayed, MarkedIsPublished, TypeOK
<1>5. CASE MarkFails(p)
  BY <1>1, <1>5 DEF MarkFails, Relayed, MarkedIsPublished, TypeOK
<1>6. CASE EndRun(p)
  BY <1>1, <1>6 DEF EndRun, Relayed, MarkedIsPublished
<1>7. QED
  BY <1>2, <1>3, <1>4, <1>5, <1>6 DEF RunStep

\* A crash rolls back what is not committed, and forgets what was fetched.
LEMMA CrashKeepsInv ==
    ASSUME Inv, NEW p \in Processes, Crash(p)
    PROVE  Inv'
<1> USE DEF Inv
<1>1. /\ UNCHANGED <<guarded, setups, account, stamp, marked, topic>>
      /\ status' = [status EXCEPT ![p] = "down"]
      /\ running' = [running EXCEPT ![p] = FALSE]
      /\ batch' = [batch EXCEPT ![p] = {}]
      /\ marking' = [marking EXCEPT ![p] = None]
  BY DEF Crash
<1>2. \A r \in Requests : pc'[r] = pc[r] \/ pc'[r] = "failed"
  BY DEF Crash, TypeOK
<1>3. pc' \in [Requests -> {"new"} \cup Serving \cup Ended]
  BY DEF Crash, TypeOK, Ended
<1>4. TypeOK'
  BY <1>1, <1>3 DEF TypeOK
<1>5. Stored' = Stored
  BY <1>1 DEF Stored
<1>6. Announced'
  BY <1>1, <1>2, <1>5 DEF Announced, AccountIsAnnounced
<1>7. \A r \in Requests : Written(r)' => Written(r)
  BY <1>1, <1>2 DEF Written, Uncommitted
<1>8. Indexed'
  BY <1>1, <1>7, SameCodeKept DEF Indexed
<1>9. Relayed'
  BY <1>1, <1>5 DEF Relayed, MarkedIsPublished, TypeOK
<1>10. QED
  BY <1>4, <1>6, <1>8, <1>9

LEMMA BootKeepsInv ==
    ASSUME Inv, NEW p \in Processes, Boot(p)
    PROVE  Inv'
<1>1. UNCHANGED <<guarded, setups, requests, relays>>
  BY DEF Boot
<1>2. PICK s \in {"healthy", "unhealthy"} : status' = [status EXCEPT ![p] = s]
  BY DEF Boot
<1>3. TypeOK'
  BY <1>1, <1>2 DEF Inv, TypeOK, requests, relays
<1>4. QED
  BY <1>1, <1>3 DEF Inv, Announced, AccountIsAnnounced, Indexed, Written, SameCode, Codes, Relayed,
                    MarkedIsPublished, Stored, requests, relays

LEMMA InvNext == Inv /\ [Next]_vars => Inv'
<1> SUFFICES ASSUME Inv, [Next]_vars PROVE Inv'
  OBVIOUS
<1>1. CASE \E r \in Requests : Serve(r)
  BY <1>1, RequestTypes, RequestAnnounces, RequestKeepsIndex, RequestLeavesRelays DEF Inv
<1>2. CASE \E p \in Processes : Tick(p) \/ RunStep(p)
  <2>1. PICK p \in Processes : Tick(p) \/ RunStep(p)
    BY <1>2
  <2>2. TypeOK' /\ Relayed'
    BY <2>1, RunTypes, RunRelays DEF Inv
  <2>3. UNCHANGED <<setups, account, stamp, pc>>
    BY <2>1, RunFrame
  <2>4. Announced' /\ Indexed'
    BY <2>3 DEF Inv, Announced, AccountIsAnnounced, Indexed, Written, SameCode, Codes, Stored
  <2>5. QED
    BY <2>2, <2>4 DEF Inv
<1>3. CASE \E p \in Processes : Crash(p) \/ Boot(p)
  BY <1>3, CrashKeepsInv, BootKeepsInv
<1>4. CASE UNCHANGED vars
  BY <1>4 DEF vars, Inv, TypeOK, Announced, AccountIsAnnounced, Indexed, Written, SameCode,
              Codes, Relayed, MarkedIsPublished, Stored
<1>5. QED
  BY <1>1, <1>2, <1>3, <1>4 DEF Next, Relay

LEMMA Invariance == Spec => []Inv
  BY InvInit, InvNext, PTL DEF Spec

-----------------------------------------------------------------------------
\* The variables keep their types (all of the component's statements).
THEOREM TypeCorrect == Spec => []TypeOK
<1>1. Inv => TypeOK
  BY DEF Inv
<1>2. QED
  BY <1>1, Invariance, PTL

\* A committed account of CreateAccountUseCase has its event in the outbox, and a
\* request that answers success has committed (create-account.use-case.ts:17-52).
\* Nothing is claimed of a setup's accounts: they have no event.
THEOREM AccountsAnnounced == Spec => []AccountIsAnnounced
<1>1. Inv => AccountIsAnnounced
  BY DEF Inv, Announced
<1>2. QED
  BY <1>1, Invariance, PTL

\* Two accounts of one tenant never have the same code, though findByCode and
\* findAll read before the other's commit (create-account.use-case.ts:18,
\* setup-chart-of-accounts.use-case.ts:10, mikro-orm.schemas.ts:6).
THEOREM CodesUnique == Spec => []CodesAreUnique
<1>1. Inv => CodesAreUnique
  BY DEF Inv, TypeOK, Indexed, Written, CodesAreUnique
<1>2. QED
  BY <1>1, Invariance, PTL

\* No relay marks a row whose event the broker does not have
\* (outbox-relay.service.ts:79-81).
THEOREM PublishedBeforeMarked == Spec => []MarkedIsPublished
<1>1. Inv => MarkedIsPublished
  BY DEF Inv, Relayed
<1>2. QED
  BY <1>1, Invariance, PTL

=============================================================================
