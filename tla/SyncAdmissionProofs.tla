------------------------- MODULE SyncAdmissionProofs -------------------------
(***************************************************************************)
(* Proofs about the sync endpoint, for every set of records, requests and  *)
(* nonces and every setting of the constants.                              *)
(***************************************************************************)
EXTENDS SyncAdmission, NaturalFacts, TLAPS

-----------------------------------------------------------------------------
(* The operators of SealRecords. *)

(* A body with an authenticated policy has a policy, of a generation in    *)
(* range.                                                                  *)
LEMMA AuthenticPolicy ==
  ASSUME NEW r \in Records, Authentic(r)
  PROVE  /\ PolicyOf[r] \in Policies
         /\ GenerationOf(r) \in 0 .. MaxGeneration
BY RecordsAssumption DEF Authentic, GenerationOf

(* Some stored authenticated record is of the highest generation. *)
LEMMA TopExists ==
  ASSUME NEW tbl \in [Events -> Rows \cup {None}], AuthenticEvents(tbl) # {}
  PROVE  TopEvents(tbl) # {}
<1> DEFINE gens == {GenerationOf(tbl[e].record) : e \in AuthenticEvents(tbl)}
<1>1. \A e \in AuthenticEvents(tbl) :
        /\ e \in Events /\ tbl[e].record \in Records
        /\ Authentic(tbl[e].record)
  BY DEF AuthenticEvents, Rows
<1>2. gens \subseteq 0 .. MaxGeneration
  BY <1>1, AuthenticPolicy
<1>3. gens # {}
  OBVIOUS
<1>4. PICK g \in gens : \A x \in gens : x <= g
  BY <1>2, <1>3, GreatestNatural, RecordsAssumption
<1>5. PICK e \in AuthenticEvents(tbl) : g = GenerationOf(tbl[e].record)
  BY <1>4
<1>6. e \in TopEvents(tbl)
  BY <1>1, <1>4, <1>5 DEF TopEvents
<1> QED
  BY <1>6

(* The event a full scan chooses is one of those. *)
LEMMA NewestTopIsTop ==
  ASSUME NEW tbl \in [Events -> Rows \cup {None}], AuthenticEvents(tbl) # {}
  PROVE  NewestTop(tbl) \in TopEvents(tbl)
<1>1. TopEvents(tbl) # {}
  BY TopExists
<1>2. TopEvents(tbl) \subseteq 0 .. MaxEvent
  BY RecordsAssumption DEF TopEvents, AuthenticEvents, Events
<1>3. \E e \in TopEvents(tbl) : \A f \in TopEvents(tbl) : f <= e
  BY <1>1, <1>2, GreatestNatural, RecordsAssumption
<1> QED
  BY <1>3 DEF NewestTop

(* What a full scan finds: no policy when nothing stored authenticates,    *)
(* else the policy of a stored record that none outranks.                  *)
LEMMA StoredMaximumIsMaximum ==
  ASSUME NEW tbl \in [Events -> Rows \cup {None}]
  PROVE  /\ StoredMaximum(tbl) \in Policies \cup {None}
         /\ StoredMaximum(tbl) = None <=> AuthenticEvents(tbl) = {}
         /\ StoredMaximum(tbl) # None => IsMaximum(StoredMaximum(tbl), tbl)
<1>1. CASE AuthenticEvents(tbl) = {}
  BY <1>1 DEF StoredMaximum
<1>2. CASE AuthenticEvents(tbl) # {}
  <2> DEFINE n == NewestTop(tbl)
  <2>1. n \in TopEvents(tbl)
    BY <1>2, NewestTopIsTop
  <2>2. /\ n \in AuthenticEvents(tbl)
        /\ \A f \in AuthenticEvents(tbl) :
             GenerationOf(tbl[f].record) <= GenerationOf(tbl[n].record)
    BY <2>1 DEF TopEvents
  <2>3. tbl[n].record \in Records /\ Authentic(tbl[n].record)
    BY <2>2 DEF AuthenticEvents, Rows
  <2>4. PolicyOf[tbl[n].record] \in Policies
    BY <2>3, AuthenticPolicy
  <2>5. StoredMaximum(tbl) = PolicyOf[tbl[n].record]
    BY <1>2 DEF StoredMaximum
  <2> QED
    BY <1>2, <2>2, <2>4, <2>5, RecordsAssumption DEF GenerationOf, IsMaximum
<1> QED
  BY <1>1, <1>2

(* Storing a row changes the authenticated events at that event only. *)
LEMMA StoredRow ==
  ASSUME NEW tbl \in [Events -> Rows \cup {None}], NEW e \in Events,
         NEW row \in Rows, row # None
  PROVE  LET new == [tbl EXCEPT ![e] = row]
         IN  /\ new \in [Events -> Rows \cup {None}]
             /\ Authentic(row.record) =>
                  AuthenticEvents(new) = AuthenticEvents(tbl) \cup {e}
             /\ ~Authentic(row.record) =>
                  AuthenticEvents(new) = AuthenticEvents(tbl) \ {e}
             /\ \A f \in Events \ {e} : new[f] = tbl[f]
             /\ new[e] = row
BY DEF AuthenticEvents

(* A stored record that outranks every authenticated one, or carries the   *)
(* policy of the maximum, is the maximum afterwards.                       *)
LEMMA MaximumAfterStore ==
  ASSUME NEW tbl \in [Events -> Rows \cup {None}], NEW e \in Events,
         NEW row \in Rows, row # None, Authentic(row.record),
         e \notin AuthenticEvents(tbl),
         \A f \in AuthenticEvents(tbl) :
           GenerationOf(tbl[f].record) <= GenerationOf(row.record)
  PROVE  IsMaximum(PolicyOf[row.record], [tbl EXCEPT ![e] = row])
<1> DEFINE new == [tbl EXCEPT ![e] = row]
<1>1. /\ AuthenticEvents(new) = AuthenticEvents(tbl) \cup {e}
      /\ \A f \in Events \ {e} : new[f] = tbl[f]
      /\ new[e] = row
  BY StoredRow
<1>2. \A f \in AuthenticEvents(tbl) : new[f] = tbl[f]
  BY <1>1 DEF AuthenticEvents
<1>3. row.record \in Records
  BY DEF Rows
<1>4. GenerationOf(row.record) \in Nat
  BY <1>3, AuthenticPolicy, RecordsAssumption
<1>5. GenerationOf(row.record) = Generation[PolicyOf[row.record]]
  BY DEF GenerationOf
<1>6. \A f \in AuthenticEvents(new) :
        GenerationOf(new[f].record) <= Generation[PolicyOf[row.record]]
  BY <1>1, <1>2, <1>4, <1>5
<1>7. PolicyOf[new[e].record] = PolicyOf[row.record]
  BY <1>1
<1> QED
  BY <1>1, <1>6, <1>7 DEF IsMaximum

-----------------------------------------------------------------------------
(* Typing. *)

(* A request past the checks before the lock carries what they computed. *)
LEMMA AdmittedRequest ==
  ASSUME TypeOK, NEW h \in Handlers, handler[h].phase = "admitted"
  PROVE  /\ handler[h] \in Admitted
         /\ handler[h].offer \in Offer
         /\ handler[h].offer.event \in Events
         /\ [type |-> handler[h].offer.type, record |-> handler[h].offer.record]
              \in Rows
<1>1. handler[h] \in {Idle} \cup Admitted \cup Decided
  BY DEF TypeOK
<1>2. handler[h] \in Admitted
  BY <1>1 DEF Idle, Admitted, Decided
<1>3. handler[h].offer \in Offer
  BY <1>2, SyncAssumption DEF Admitted
<1> QED
  BY <1>2, <1>3 DEF Offer, Rows

(* The digest of an admission is a policy or none. *)
LEMMA AssessType ==
  ASSUME NEW p \in BOOLEAN, NEW r \in Records
  PROVE  Assess(p, r) \in Policies \cup {None}
BY AuthenticPolicy DEF Assess

(* So are the marks a decision reads and writes. *)
LEMMA MarkType ==
  ASSUME TypeOK, NEW h \in Handlers, handler[h].phase = "admitted"
  PROVE  /\ BootstrappedMark(h) \in Policies \cup {None}
         /\ RaisedMark(h) \in Policies \cup {None}
<1>1. handler[h].digest \in Policies \cup {None}
  BY AdmittedRequest DEF Admitted
<1>2. mark \in Policies \cup {None} /\ rows \in [Events -> Rows \cup {None}]
  BY DEF TypeOK
<1>3. StoredMaximum(rows) \in Policies \cup {None}
  BY <1>2, StoredMaximumIsMaximum
<1> QED
  BY <1>1, <1>2, <1>3 DEF BootstrappedMark, RaisedMark

(* The checks before the lock keep the types. *)
LEMMA ReceiveType ==
  ASSUME TypeOK, NEW h \in Handlers, NEW o \in Offers,
         NEW envelope \in Envelope \cup {None}, Receive(h, o, envelope)
  PROVE  TypeOK'
<1> DEFINE q == [phase |-> "admitted", offer |-> o, envelope |-> envelope,
                 digest |-> Assess(caPinned, o.record), since |-> now]
<1>1. o.record \in Records
  BY SyncAssumption DEF Offer
<1>2. Assess(caPinned, o.record) \in Policies \cup {None}
  BY <1>1, AssessType DEF TypeOK
<1>3. q \in Admitted
  BY <1>2 DEF Admitted, TypeOK
<1>4. handler' = [handler EXCEPT ![h] = q]
  BY DEF Receive
<1>5. handler' \in [Handlers -> {Idle} \cup Admitted \cup Decided]
  BY <1>3, <1>4 DEF TypeOK
<1> QED
  BY <1>5 DEF TypeOK, Receive, tables

(* What a commit writes beside the tables of the seal. *)
LEMMA CommitType ==
  ASSUME TypeOK, NEW h \in Handlers, handler[h].phase = "admitted",
         NEW reply \in {"ok", "conflict"}, Commit(h, reply)
  PROVE  /\ claimed' \subseteq Envelope
         /\ claims' \in [Nonces -> Nat]
         /\ handler' \in [Handlers -> {Idle} \cup Admitted \cup Decided]
         /\ caPinned' \in BOOLEAN /\ now' \in Nat
         /\ sent' \subseteq [offer : Offers, envelope : Envelope]
<1> DEFINE q == [phase |-> "decided", offer |-> handler[h].offer,
                 envelope |-> handler[h].envelope, digest |-> handler[h].digest,
                 since |-> handler[h].since, reply |-> reply]
<1>1. handler[h] \in Admitted
  BY AdmittedRequest
<1>2. q \in Decided
  BY <1>1 DEF Admitted, Decided
<1>3. handler' = [handler EXCEPT ![h] = q]
  BY DEF Commit
<1>4. handler' \in [Handlers -> {Idle} \cup Admitted \cup Decided]
  BY <1>2, <1>3 DEF TypeOK
<1>5. handler[h].envelope \in Envelope \cup {None}
  BY <1>1 DEF Admitted
<1>6. claimed' \subseteq Envelope
  BY <1>5 DEF Commit, TypeOK
<1>7. claims' \in [Nonces -> Nat]
  BY DEF Commit, TypeOK
<1> QED
  BY <1>4, <1>6, <1>7 DEF Commit, TypeOK

(* A transaction that is rolled back keeps the types. *)
LEMMA RollbackType ==
  ASSUME TypeOK, NEW h \in Handlers, Rollback(h)
  PROVE  TypeOK'
BY DEF TypeOK, Rollback, tables

(* Every outcome under the lock keeps the types. *)
LEMMA DecideType ==
  ASSUME TypeOK, NEW h \in Handlers, Decide(h)
  PROVE  TypeOK'
<1>1. handler[h].phase = "admitted"
  BY DEF Decide, NonceReused, NotAuthenticated, RecordCopied, GenerationRefused,
         StoreNewEvent, Displace, Complete, EventConflict, Fail, Deciding, Claiming
<1> DEFINE o == handler[h].offer
           row == [type |-> o.type, record |-> o.record]
<1>2. /\ o.event \in Events
      /\ row \in Rows
      /\ o.wrapped \in Wraps \cup {None}
  BY <1>1, AdmittedRequest DEF Offer
<1>3. /\ BootstrappedMark(h) \in Policies \cup {None}
      /\ RaisedMark(h) \in Policies \cup {None}
  BY <1>1, MarkType
<1>4. (enrolled \/ handler[h].digest # None) \in BOOLEAN
  BY DEF TypeOK
<1>5. CASE NonceReused(h)
  BY <1>5, RollbackType DEF NonceReused
<1>6. CASE NotAuthenticated(h)
  BY <1>1, <1>6, CommitType DEF NotAuthenticated, TypeOK
<1>7. CASE RecordCopied(h)
  BY <1>7, RollbackType DEF RecordCopied
<1>8. CASE GenerationRefused(h)
  BY <1>1, <1>3, <1>8, CommitType DEF GenerationRefused, TypeOK
<1>9. CASE StoreNewEvent(h)
  <2>1. /\ rows' = [rows EXCEPT ![o.event] = row]
        /\ wrapped' = [wrapped EXCEPT ![o.event] = o.wrapped]
        /\ caseRow' = TRUE
        /\ enrolled' \in BOOLEAN
        /\ mark' = RaisedMark(h)
        /\ Commit(h, "ok")
    BY <1>4, <1>9 DEF StoreNewEvent
  <2> QED
    BY <1>1, <1>2, <1>3, <2>1, CommitType DEF TypeOK
<1>10. CASE Displace(h)
  <2>1. /\ rows' = [rows EXCEPT ![o.event] = row]
        /\ wrapped' = [wrapped EXCEPT ![o.event] = o.wrapped]
        /\ caseRow' = caseRow
        /\ enrolled' = TRUE
        /\ mark' = RaisedMark(h)
        /\ Commit(h, "ok")
    BY <1>10 DEF Displace
  <2> QED
    BY <1>1, <1>2, <1>3, <2>1, CommitType DEF TypeOK
<1>11. CASE Complete(h)
  <2>1. /\ wrapped' \in {wrapped, [wrapped EXCEPT ![o.event] = o.wrapped]}
        /\ caseRow' = caseRow /\ rows' = rows
        /\ enrolled' \in BOOLEAN
        /\ mark' = RaisedMark(h)
        /\ Commit(h, "ok")
    BY <1>4, <1>11 DEF Complete
  <2> QED
    BY <1>1, <1>2, <1>3, <2>1, CommitType DEF TypeOK
<1>12. CASE EventConflict(h)
  BY <1>1, <1>3, <1>12, CommitType DEF EventConflict, TypeOK
<1>13. CASE Fail(h)
  BY <1>13, RollbackType DEF Fail
<1> QED
  BY <1>5, <1>6, <1>7, <1>8, <1>9, <1>10, <1>11, <1>12, <1>13 DEF Decide

(* Answering and pruning keep the types. *)
LEMMA AnswerType ==
  ASSUME TypeOK, NEW h \in Handlers, Answer(h)
  PROVE  TypeOK'
<1>1. claimed' \subseteq Envelope
  BY DEF Answer, Unexpired, TypeOK
<1> QED
  BY <1>1 DEF Answer, TypeOK

(* Every step keeps the types. *)
LEMMA TypeStep ==
  ASSUME TypeOK, [Next]_vars
  PROVE  TypeOK'
<1>1. CASE UNCHANGED vars
  BY <1>1 DEF TypeOK, vars, tables
<1>2. ASSUME NEW o \in Offers, NEW n \in Nonces, NEW at \in 0 .. MaxClock,
             Sign(o, n, at)
      PROVE  TypeOK'
  <2>1. [offer |-> o, envelope |-> [nonce |-> n, sentAt |-> at]]
          \in [offer : Offers, envelope : Envelope]
    BY SyncAssumption DEF Envelope
  <2> QED
    BY <1>2, <2>1 DEF Sign, TypeOK, tables
<1>3. CASE RegisterCase
  BY <1>3 DEF RegisterCase, TypeOK
<1>4. CASE Tick
  BY <1>4 DEF Tick, TypeOK, tables
<1>5. CASE Restart
  BY <1>5 DEF Restart, TypeOK, tables
<1>6. CASE Serve
  <2> SUFFICES ASSUME NEW h \in Handlers,
                      \/ \E o \in Offers : Receive(h, o, None)
                      \/ \E s \in sent : Receive(h, s.offer, s.envelope)
                      \/ Decide(h)
                      \/ Answer(h)
               PROVE  TypeOK'
    BY <1>6 DEF Serve
  <2>1. ASSUME NEW o \in Offers, Receive(h, o, None)
        PROVE  TypeOK'
    BY <2>1, ReceiveType
  <2>2. ASSUME NEW s \in sent, Receive(h, s.offer, s.envelope)
        PROVE  TypeOK'
    <3>1. s.offer \in Offers /\ s.envelope \in Envelope \cup {None}
      BY DEF TypeOK
    <3> QED
      BY <2>2, <3>1, ReceiveType
  <2>3. CASE Decide(h)
    BY <2>3, DecideType
  <2>4. CASE Answer(h)
    BY <2>4, AnswerType
  <2> QED
    BY <2>1, <2>2, <2>3, <2>4
<1> QED
  BY <1>1, <1>2, <1>3, <1>4, <1>5, <1>6 DEF Next

(* The initial state is well typed. *)
LEMMA InitType == Init => TypeOK
<1> SUFFICES ASSUME Init PROVE TypeOK
  OBVIOUS
<1>1. handler \in [Handlers -> {Idle} \cup Admitted \cup Decided]
  BY DEF Init
<1>2. /\ rows \in [Events -> Rows \cup {None}]
      /\ wrapped \in [Events -> Wraps \cup {None}]
      /\ claims \in [Nonces -> Nat]
  BY DEF Init
<1>3. /\ claimed \subseteq Envelope
      /\ sent \subseteq [offer : Offers, envelope : Envelope]
      /\ mark \in Policies \cup {None}
      /\ now \in Nat
  BY DEF Init
<1>4. caPinned \in BOOLEAN /\ caseRow \in BOOLEAN /\ enrolled \in BOOLEAN
  BY Zenon DEF Init
<1> QED
  BY <1>1, <1>2, <1>3, <1>4 DEF TypeOK

(* Every reachable state is well typed. *)
THEOREM TypeCorrect == Spec => []TypeOK
<1>1. Init => TypeOK
  BY InitType
<1>2. TypeOK /\ [Next]_vars => TypeOK'
  BY TypeStep
<1> QED
  BY <1>1, <1>2, PTL DEF Spec

-----------------------------------------------------------------------------
(* Authenticated records stay. *)

(* A request between the checks and the lock carries the assessment that   *)
(* the CA configured now gives: a restart ends the requests in progress.   *)
AdmittedIsAssessed ==
  \A h \in Handlers :
    handler[h].phase = "admitted" =>
      handler[h].digest = Assess(caPinned, handler[h].offer.record)

AssessedInv == TypeOK /\ AdmittedIsAssessed

(* Every step keeps the assessment of the admitted requests current. *)
LEMMA AssessedStep ==
  ASSUME AssessedInv, [Next]_vars
  PROVE  AdmittedIsAssessed'
<1> USE DEF AssessedInv
<1>1. CASE UNCHANGED <<caPinned, handler>>
  BY <1>1 DEF AdmittedIsAssessed
<1>2. CASE Restart
  BY <1>2 DEF Restart, AdmittedIsAssessed, Idle
<1>3. ASSUME NEW h \in Handlers, NEW o, NEW envelope, Receive(h, o, envelope)
      PROVE  AdmittedIsAssessed'
  BY <1>3 DEF Receive, AdmittedIsAssessed, TypeOK
<1>4. ASSUME NEW h \in Handlers,
             \/ Rollback(h)
             \/ Commit(h, "ok")
             \/ Commit(h, "conflict")
             \/ Answer(h)
      PROVE  AdmittedIsAssessed'
  <2>1. handler' = [handler EXCEPT ![h] = handler'[h]]
    BY <1>4 DEF Rollback, Commit, Answer, TypeOK
  <2>2. handler'[h].phase \in {"idle", "decided"}
    BY <1>4 DEF Rollback, Commit, Answer, Idle, TypeOK
  <2>3. caPinned' = caPinned
    BY <1>4 DEF Rollback, Commit, Answer
  <2> QED
    BY <2>1, <2>2, <2>3 DEF AdmittedIsAssessed, TypeOK
<1>5. ASSUME NEW h \in Handlers, Decide(h)
      PROVE  AdmittedIsAssessed'
  BY <1>4, <1>5 DEF Decide, NonceReused, NotAuthenticated, RecordCopied,
       GenerationRefused, StoreNewEvent, Displace, Complete, EventConflict, Fail
<1>6. CASE Serve
  BY <1>3, <1>4, <1>5, <1>6 DEF Serve
<1> QED
  BY <1>1, <1>2, <1>6 DEF Next, vars, Sign, RegisterCase, Tick

(* The assessment an admitted request carries is always the current one. *)
LEMMA AssessedCorrect == Spec => []AssessedInv
<1>1. Init => AssessedInv
  <2>1. Init => TypeOK
    BY InitType
  <2>2. Init => AdmittedIsAssessed
    BY DEF Init, AdmittedIsAssessed, Idle
  <2> QED
    BY <2>1, <2>2 DEF AssessedInv
<1>2. AssessedInv /\ [Next]_vars => AssessedInv'
  BY TypeStep, AssessedStep DEF AssessedInv
<1> QED
  BY <1>1, <1>2, PTL DEF Spec

(* What each step does to the stored rows: nothing, or one row is stored   *)
(* for a new event or over a record that does not authenticate.            *)
Storing(h) == StoreNewEvent(h) \/ Displace(h)

(* Only a request that stores or completes an event touches the rows. *)
LEMMA RowsChangeOnlyByStoring ==
  ASSUME [Next]_vars
  PROVE  \/ UNCHANGED <<rows, wrapped>>
         \/ \E h \in Handlers : Storing(h) \/ Complete(h)
BY DEF Next, vars, tables, Sign, RegisterCase, Tick, Restart, Serve, Receive,
       Decide, NonceReused, NotAuthenticated, RecordCopied, GenerationRefused,
       EventConflict, Fail, Rollback, Answer, Storing

(* A request that stores a row, and the row it stores. *)
LEMMA StoringRow ==
  ASSUME AssessedInv, NEW h \in Handlers, Storing(h)
  PROVE  LET o == handler[h].offer
             row == [type |-> o.type, record |-> o.record]
         IN  /\ handler[h].phase = "admitted"
             /\ handler[h].digest = Assess(caPinned, row.record)
             /\ o.event \in Events
             /\ row \in Rows /\ row # None
             /\ o.event \notin AuthenticEvents(rows)
             /\ rows' = [rows EXCEPT ![o.event] = row]
             /\ wrapped' = [wrapped EXCEPT ![o.event] = o.wrapped]
             /\ mark' = RaisedMark(h)
             /\ caPinned' = caPinned
             /\ ~Copied(h) /\ ~BelowMark(h)
<1> DEFINE o == handler[h].offer
           row == [type |-> o.type, record |-> o.record]
<1>1. handler[h].phase = "admitted"
  BY DEF Storing, StoreNewEvent, Displace, Deciding, Claiming
<1>2. handler[h].digest = Assess(caPinned, o.record)
  BY <1>1 DEF AssessedInv, AdmittedIsAssessed
<1>3. o.event \in Events /\ row \in Rows
  BY <1>1, AdmittedRequest DEF AssessedInv
<1>4. row # None
  BY <1>3, SyncAssumption
<1>5. o.event \notin AuthenticEvents(rows)
  <2>1. CASE StoreNewEvent(h)
    BY <2>1 DEF StoreNewEvent, IsNew, AuthenticEvents
  <2>2. CASE Displace(h)
    <3>1. /\ handler[h].digest # None
          /\ Assess(caPinned, rows[o.event].record) = None
          /\ rows[o.event] # None
      BY <2>2 DEF Displace, Displaces
    <3>2. caPinned
      BY <1>2, <3>1 DEF Assess
    <3>3. rows[o.event].record \in Records
      BY <1>3, <3>1 DEF AssessedInv, TypeOK, Rows
    <3>4. ~Authentic(rows[o.event].record)
      BY <3>1, <3>2, <3>3, AuthenticPolicy, RecordsAssumption DEF Assess
    <3> QED
      BY <3>4 DEF AuthenticEvents
  <2> QED
    BY <2>1, <2>2 DEF Storing
<1>6. /\ rows' = [rows EXCEPT ![o.event] = row]
      /\ wrapped' = [wrapped EXCEPT ![o.event] = o.wrapped]
      /\ mark' = RaisedMark(h)
      /\ caPinned' = caPinned
      /\ ~Copied(h) /\ ~BelowMark(h)
  BY DEF Storing, StoreNewEvent, Displace, Commit
<1> QED
  BY <1>1, <1>2, <1>3, <1>4, <1>5, <1>6

(* No step replaces an authenticated record or the wrapped s3 beside it. *)
LEMMA AuthenticRecordsStayInStep ==
  ASSUME AssessedInv, [Next]_vars
  PROVE  AuthenticRecordsStayStep
<1>1. CASE UNCHANGED <<rows, wrapped>>
  BY <1>1 DEF AuthenticRecordsStayStep
<1>2. ASSUME NEW h \in Handlers, Storing(h)
      PROVE  AuthenticRecordsStayStep
  <2> DEFINE o == handler[h].offer
             row == [type |-> o.type, record |-> o.record]
  <2>1. /\ o.event \notin AuthenticEvents(rows)
        /\ rows' = [rows EXCEPT ![o.event] = row]
        /\ wrapped' = [wrapped EXCEPT ![o.event] = o.wrapped]
    BY <1>2, StoringRow
  <2>2. /\ rows \in [Events -> Rows \cup {None}]
        /\ wrapped \in [Events -> Wraps \cup {None}]
    BY DEF AssessedInv, TypeOK
  <2>3. \A e \in AuthenticEvents(rows) : e \in Events /\ e # o.event
    BY <2>1 DEF AuthenticEvents
  <2> QED
    BY <2>1, <2>2, <2>3 DEF AuthenticRecordsStayStep
<1>3. ASSUME NEW h \in Handlers, Complete(h)
      PROVE  AuthenticRecordsStayStep
  <2> DEFINE o == handler[h].offer
  <2>1. rows' = rows
    BY <1>3 DEF Complete
  <2>2. \/ wrapped' = wrapped
        \/ /\ wrapped' = [wrapped EXCEPT ![o.event] = o.wrapped]
           /\ wrapped[o.event] \in {None, o.wrapped}
    BY <1>3 DEF Complete, WrapConflict
  <2>3. wrapped \in [Events -> Wraps \cup {None}]
    BY DEF AssessedInv, TypeOK
  <2>4. \A e \in Events : wrapped[e] # None => wrapped'[e] = wrapped[e]
    BY <2>2, <2>3
  <2> QED
    BY <2>1, <2>4 DEF AuthenticRecordsStayStep, AuthenticEvents
<1> QED
  BY <1>1, <1>2, <1>3, RowsChangeOnlyByStoring

(* Whatever is submitted and however the host is restarted, an             *)
(* authenticated record and its wrapped s3 are never replaced: only an     *)
(* event that holds none is ever stored to, and an identical resubmission  *)
(* adds a wrapped s3 only where none is.                                   *)
THEOREM AuthenticRecordsAreKept == Spec => AuthenticRecordsStay
<1>1. AssessedInv /\ [Next]_vars => [AuthenticRecordsStayStep]_vars
  BY AuthenticRecordsStayInStep
<1> QED
  BY <1>1, AssessedCorrect, PTL DEF Spec, AuthenticRecordsStay

-----------------------------------------------------------------------------
(* The mark is the stored maximum, where a pinned CA is never removed. *)

MarkNeedsCa == mark # None => caPinned

MarkInv == AssessedInv /\ MarkNeedsCa /\ MarkIsStoredMaximum

(* The mark a decision is made on is the stored maximum; without one,      *)
(* nothing stored authenticates.                                           *)
LEMMA BootstrappedIsMaximum ==
  ASSUME MarkInv, NEW h \in Handlers
  PROVE  /\ BootstrappedMark(h) # None => IsMaximum(BootstrappedMark(h), rows)
         /\ handler[h].digest # None /\ BootstrappedMark(h) = None =>
              AuthenticEvents(rows) = {}
<1>1. rows \in [Events -> Rows \cup {None}]
  BY DEF MarkInv, AssessedInv, TypeOK
<1> QED
  BY <1>1, StoredMaximumIsMaximum
     DEF BootstrappedMark, MarkInv, MarkIsStoredMaximum

(* A request of an admitted digest has a pinned CA and an authentic body. *)
LEMMA DigestIsAuthentic ==
  ASSUME NEW p \in BOOLEAN, NEW r \in Records
  PROVE  /\ Assess(p, r) # None =>
              /\ p /\ Authentic(r) /\ Assess(p, r) = PolicyOf[r]
              /\ Assess(p, r) \in Policies
         /\ p /\ Assess(p, r) = None => ~Authentic(r)
BY AuthenticPolicy, RecordsAssumption DEF Assess

(* An authenticated record that is stored becomes the mark, and every      *)
(* stored authenticated record was of its generation or a lower one.       *)
LEMMA StoredOutranks ==
  ASSUME MarkInv, NEW h \in Handlers, Storing(h), handler[h].digest # None
  PROVE  LET r == handler[h].offer.record
             m == BootstrappedMark(h)
         IN  /\ caPinned /\ Authentic(r) /\ PolicyOf[r] = handler[h].digest
             /\ m = None \/ m = PolicyOf[r] \/ Generation[m] < GenerationOf(r)
             /\ \A f \in AuthenticEvents(rows) :
                  GenerationOf(rows[f].record) <= GenerationOf(r)
             /\ RaisedMark(h) = PolicyOf[r]
<1> DEFINE r == handler[h].offer.record
           m == BootstrappedMark(h)
           d == handler[h].digest
<1>1. /\ handler[h].phase = "admitted"
      /\ d = Assess(caPinned, r)
      /\ ~BelowMark(h)
  BY StoringRow DEF MarkInv
<1>2. r \in Records
  BY <1>1, AdmittedRequest DEF MarkInv, AssessedInv, Offer
<1>3. caPinned /\ Authentic(r) /\ PolicyOf[r] = d /\ d \in Policies
  BY <1>1, <1>2, DigestIsAuthentic DEF MarkInv, AssessedInv, TypeOK
<1>4. m \in Policies \cup {None}
  BY <1>1, MarkType DEF MarkInv, AssessedInv
<1>5. Generation[d] \in Nat /\ (m # None => Generation[m] \in Nat)
  BY <1>3, <1>4, RecordsAssumption
<1>6. m = None \/ m = d \/ Generation[m] < Generation[d]
  <2>1. m # None => /\ ~(Generation[d] < Generation[m])
                    /\ Generation[d] = Generation[m] => d = m
    BY <1>1, Zenon DEF BelowMark
  <2> QED
    BY <1>5, <2>1
<1>7. RaisedMark(h) = d
  BY <1>3, <1>5, <1>6, RecordsAssumption DEF RaisedMark
<1>8. \A f \in AuthenticEvents(rows) :
        GenerationOf(rows[f].record) <= Generation[d]
  <2> TAKE f \in AuthenticEvents(rows)
  <2>1. rows[f].record \in Records /\ Authentic(rows[f].record)
    BY DEF AuthenticEvents, MarkInv, AssessedInv, TypeOK, Rows
  <2>2. GenerationOf(rows[f].record) \in Nat
    BY <2>1, AuthenticPolicy, RecordsAssumption
  <2>3. m # None
    BY <1>3, BootstrappedIsMaximum
  <2>4. GenerationOf(rows[f].record) <= Generation[m]
    BY <2>3, BootstrappedIsMaximum DEF IsMaximum
  <2> QED
    BY <1>5, <1>6, <2>2, <2>3, <2>4
<1> QED
  BY <1>3, <1>6, <1>7, <1>8 DEF GenerationOf

(* A request that stores a record leaves the mark at the maximum. *)
LEMMA StoringKeepsMaximum ==
  ASSUME MarkInv, NEW h \in Handlers, Storing(h)
  PROVE  MarkIsStoredMaximum' /\ MarkNeedsCa'
<1> DEFINE o == handler[h].offer
           row == [type |-> o.type, record |-> o.record]
<1>1. /\ handler[h].digest = Assess(caPinned, row.record)
      /\ o.event \in Events
      /\ row \in Rows /\ row # None
      /\ o.event \notin AuthenticEvents(rows)
      /\ rows' = [rows EXCEPT ![o.event] = row]
      /\ mark' = RaisedMark(h)
      /\ caPinned' = caPinned
  BY StoringRow DEF MarkInv
<1>2. row.record \in Records /\ rows \in [Events -> Rows \cup {None}]
  BY <1>1 DEF MarkInv, AssessedInv, TypeOK, Rows
<1>3. CASE handler[h].digest # None
  <2>1. /\ caPinned /\ Authentic(row.record)
        /\ mark' = PolicyOf[row.record]
        /\ \A f \in AuthenticEvents(rows) :
             GenerationOf(rows[f].record) <= GenerationOf(row.record)
    BY <1>1, <1>3, StoredOutranks
  <2>2. IsMaximum(mark', rows')
    BY <1>1, <1>2, <2>1, MaximumAfterStore
  <2> QED
    BY <1>1, <2>1, <2>2 DEF MarkIsStoredMaximum, MarkNeedsCa, IsMaximum,
         AuthenticEvents
<1>4. CASE handler[h].digest = None
  <2>1. mark' = mark
    BY <1>1, <1>4 DEF RaisedMark, BootstrappedMark
  <2>2. SUFFICES ASSUME mark # None PROVE IsMaximum(mark, rows')
    BY <1>1, <2>1 DEF MarkIsStoredMaximum, MarkNeedsCa, MarkInv, IsMaximum,
         AuthenticEvents
  <2>3. ~Authentic(row.record)
    BY <1>1, <1>2, <1>4, <2>2, DigestIsAuthentic
       DEF MarkInv, MarkNeedsCa, AssessedInv, TypeOK
  <2>4. /\ AuthenticEvents(rows') = AuthenticEvents(rows)
        /\ \A f \in AuthenticEvents(rows) : rows'[f] = rows[f]
    BY <1>1, <1>2, <2>3, StoredRow DEF AuthenticEvents
  <2>5. IsMaximum(mark, rows)
    BY <2>2 DEF MarkInv, MarkIsStoredMaximum
  <2> QED
    BY <2>4, <2>5 DEF IsMaximum
<1> QED
  BY <1>3, <1>4

(* An identical resubmission leaves the bootstrapped mark as it is: its    *)
(* policy is stored already.                                               *)
LEMMA CompleteKeepsMaximum ==
  ASSUME MarkInv, NEW h \in Handlers, Complete(h)
  PROVE  mark' = BootstrappedMark(h)
<1> DEFINE o == handler[h].offer
           m == BootstrappedMark(h)
           d == handler[h].digest
<1>1. /\ handler[h].phase = "admitted"
      /\ rows[o.event] = [type |-> o.type, record |-> o.record]
      /\ mark' = RaisedMark(h)
  BY DEF Complete, Deciding, Claiming, Identical
<1>2. SUFFICES ASSUME d # None PROVE m # None /\ ~(Generation[m] < Generation[d])
  BY <1>1 DEF RaisedMark
<1>3. /\ o.event \in Events /\ o.record \in Records
      /\ [type |-> o.type, record |-> o.record] \in Rows
  BY <1>1, AdmittedRequest DEF MarkInv, AssessedInv, Offer
<1>4. d = Assess(caPinned, o.record)
  BY <1>1 DEF MarkInv, AssessedInv, AdmittedIsAssessed
<1>5. Authentic(o.record) /\ d = PolicyOf[o.record] /\ d \in Policies
  BY <1>2, <1>3, <1>4, DigestIsAuthentic DEF MarkInv, AssessedInv, TypeOK
<1>6. o.event \in AuthenticEvents(rows)
  BY <1>1, <1>3, <1>5, SyncAssumption DEF AuthenticEvents
<1>7. m # None /\ IsMaximum(m, rows)
  BY <1>2, <1>6, BootstrappedIsMaximum
<1>8. m \in Policies
  BY <1>1, <1>7, MarkType DEF MarkInv, AssessedInv
<1>9. Generation[d] <= Generation[m]
  BY <1>1, <1>5, <1>6, <1>7 DEF IsMaximum, GenerationOf
<1> QED
  BY <1>5, <1>7, <1>8, <1>9, RecordsAssumption

(* Every step keeps the mark at the stored maximum. *)
LEMMA MarkInvStep ==
  ASSUME ~CaMayBeUnpinned, MarkInv, [Next]_vars
  PROVE  MarkInv'
<1>1. AssessedInv'
  BY TypeStep, AssessedStep DEF MarkInv, AssessedInv
<1>2. CASE \E h \in Handlers : Storing(h)
  BY <1>1, <1>2, StoringKeepsMaximum DEF MarkInv
<1>3. CASE \E h \in Handlers :
             \/ Complete(h)
             \/ GenerationRefused(h)
             \/ EventConflict(h)
  <2> PICK h \in Handlers : Complete(h) \/ GenerationRefused(h) \/ EventConflict(h)
    BY <1>3
  <2>1. mark' = BootstrappedMark(h) /\ rows' = rows /\ caPinned' = caPinned
    BY CompleteKeepsMaximum
       DEF Complete, GenerationRefused, EventConflict, Commit
  <2>2. handler[h].phase = "admitted"
    BY DEF Complete, GenerationRefused, EventConflict, Deciding, Claiming
  <2>3. MarkIsStoredMaximum'
    BY <2>1, BootstrappedIsMaximum DEF MarkIsStoredMaximum, IsMaximum, AuthenticEvents
  <2>4. handler[h].digest # None => caPinned
    BY <2>2 DEF MarkInv, AssessedInv, AdmittedIsAssessed, Assess
  <2>5. MarkNeedsCa'
    BY <2>1, <2>4 DEF BootstrappedMark, MarkInv, MarkNeedsCa
  <2> QED
    BY <1>1, <2>3, <2>5 DEF MarkInv
<1>4. CASE UNCHANGED <<rows, mark>> /\ (caPinned => caPinned')
  <2>1. MarkIsStoredMaximum'
    BY <1>4 DEF MarkInv, MarkIsStoredMaximum, IsMaximum, AuthenticEvents
  <2>2. MarkNeedsCa'
    BY <1>4 DEF MarkInv, MarkNeedsCa
  <2> QED
    BY <1>1, <2>1, <2>2 DEF MarkInv
<1>5. \/ \E h \in Handlers : Storing(h)
      \/ \E h \in Handlers : Complete(h) \/ GenerationRefused(h) \/ EventConflict(h)
      \/ UNCHANGED <<rows, mark>> /\ (caPinned => caPinned')
  BY DEF Next, vars, tables, Sign, RegisterCase, Tick, Restart, Serve, Receive,
         Decide, NonceReused, NotAuthenticated, RecordCopied, Fail, Commit,
         Rollback, Answer, Storing
<1> QED
  BY <1>2, <1>3, <1>4, <1>5

(* The inductive invariant of the mark, where no CA is ever removed. *)
LEMMA MarkInvCorrect ==
  ASSUME ~CaMayBeUnpinned
  PROVE  Spec => []MarkInv
<1>1. Init => MarkInv
  BY InitType DEF Init, MarkInv, AssessedInv, AdmittedIsAssessed, Idle,
       MarkNeedsCa, MarkIsStoredMaximum
<1>2. MarkInv /\ [Next]_vars => MarkInv'
  BY MarkInvStep
<1> QED
  BY <1>1, <1>2, PTL DEF Spec

(* Where a pinned CA is never removed, the mark of a seal is always the    *)
(* policy of a stored authenticated record, and no stored authenticated    *)
(* record is of a higher generation, whatever was stored before the CA was *)
(* pinned and however requests overlap.                                    *)
THEOREM MarkIsTheStoredMaximum ==
  ASSUME ~CaMayBeUnpinned
  PROVE  Spec => []MarkIsStoredMaximum
<1>1. MarkInv => MarkIsStoredMaximum
  BY DEF MarkInv
<1> QED
  BY <1>1, MarkInvCorrect, PTL
=============================================================================
