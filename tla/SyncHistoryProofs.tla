--------------------------- MODULE SyncHistoryProofs ---------------------------
(***************************************************************************)
(* The sync endpoint implements the abstract history of a seal, and admits *)
(* an envelope once.                                                       *)
(***************************************************************************)
EXTENDS SyncAdmissionProofs

-----------------------------------------------------------------------------
(* The refinement of SealHistory. *)

(* The accepted record of an event is the authenticated one, or none. *)
LEMMA AcceptedRecords ==
  ASSUME TypeOK, NEW e \in Events
  PROVE  /\ AuthenticRecords[e] # None <=> e \in AuthenticEvents(rows)
         /\ e \in AuthenticEvents(rows) => AuthenticRecords[e] = rows[e].record
<1>1. e \in AuthenticEvents(rows) => rows[e].record \in Records
  BY DEF AuthenticEvents, TypeOK, Rows
<1> QED
  BY <1>1, RecordsAssumption DEF AuthenticRecords

(* A verified record that passes admission continues the history. *)
LEMMA StoredContinues ==
  ASSUME MarkInv, NEW h \in Handlers, Storing(h), handler[h].digest # None
  PROVE  LET r == handler[h].offer.record
         IN  /\ History!Continues(r)
             /\ \A f \in Events : AuthenticRecords[f] # r
<1> DEFINE r == handler[h].offer.record
           m == BootstrappedMark(h)
<1>1. /\ caPinned /\ Authentic(r) /\ PolicyOf[r] = handler[h].digest
      /\ m = None \/ m = PolicyOf[r] \/ Generation[m] < GenerationOf(r)
  BY StoredOutranks
<1>2. /\ TypeOK
      /\ handler[h].phase = "admitted"
      /\ handler[h].offer.event \in Events /\ r \in Records
      /\ handler[h].offer.event \notin AuthenticEvents(rows)
      /\ ~Copied(h)
  BY StoringRow DEF MarkInv, AssessedInv, Rows
<1>3. History!Accepted = AuthenticEvents(rows)
  BY <1>2, AcceptedRecords
     DEF History!Accepted, History!Events, Events, AuthenticEvents
<1>4. \A f \in AuthenticEvents(rows) :
        /\ f \in Events
        /\ AuthenticRecords[f] = rows[f].record
        /\ GenerationOf(rows[f].record) \in Nat
        /\ History!GenerationOf(AuthenticRecords[f]) = GenerationOf(rows[f].record)
  <2> TAKE f \in AuthenticEvents(rows)
  <2>1. f \in Events /\ rows[f].record \in Records /\ Authentic(rows[f].record)
    BY <1>2 DEF AuthenticEvents, TypeOK, Rows
  <2>2. AuthenticRecords[f] = rows[f].record
    BY <1>2, <2>1, AcceptedRecords
  <2>3. GenerationOf(rows[f].record) \in Nat
    BY <2>1, AuthenticPolicy, RecordsAssumption
  <2> QED
    BY <2>1, <2>2, <2>3 DEF GenerationOf, History!GenerationOf
<1>5. /\ History!GenerationOf(r) = GenerationOf(r)
      /\ GenerationOf(r) \in Nat
  BY <1>1, <1>2, AuthenticPolicy, RecordsAssumption
     DEF GenerationOf, History!GenerationOf
<1>6. m \in Policies \cup {None}
  BY <1>2, MarkType
<1>7. History!Continues(r)
  <2>1. CASE m = None
    BY <1>3, <2>1, BootstrappedIsMaximum DEF History!Continues
  <2>2. CASE m # None /\ m = PolicyOf[r]
    <3>1. IsMaximum(m, rows)
      BY <2>2, BootstrappedIsMaximum
    <3>2. PICK f \in AuthenticEvents(rows) : PolicyOf[rows[f].record] = m
      BY <3>1 DEF IsMaximum
    <3>3. \A g \in AuthenticEvents(rows) :
            GenerationOf(rows[g].record) <= GenerationOf(rows[f].record)
      BY <3>1, <3>2 DEF IsMaximum, GenerationOf
    <3> QED
      BY <1>3, <1>4, <2>2, <3>2, <3>3 DEF History!Continues
  <2>3. CASE m # None /\ Generation[m] < GenerationOf(r)
    <3>1. IsMaximum(m, rows)
      BY <2>3, BootstrappedIsMaximum
    <3>2. Generation[m] \in Nat
      BY <1>6, <2>3, RecordsAssumption
    <3>3. \A f \in AuthenticEvents(rows) :
            GenerationOf(rows[f].record) < GenerationOf(r)
      BY <1>4, <1>5, <2>3, <3>1, <3>2 DEF IsMaximum
    <3> QED
      BY <1>3, <1>4, <1>5, <3>3 DEF History!Continues
  <2> QED
    BY <1>1, <2>1, <2>2, <2>3
<1>8. \A f \in Events : AuthenticRecords[f] # r
  <2> SUFFICES ASSUME NEW f \in Events, AuthenticRecords[f] = r
               PROVE  FALSE
    OBVIOUS
  <2>1. f \in AuthenticEvents(rows) /\ rows[f].record = r
    BY <1>2, AcceptedRecords, RecordsAssumption
  <2>2. rows[f] # None /\ f # handler[h].offer.event
    BY <1>2, <2>1 DEF AuthenticEvents
  <2> QED
    BY <1>2, <2>1, <2>2 DEF Copied
<1> QED
  BY <1>7, <1>8

(* A row that does not authenticate is not seen in the history; one that   *)
(* does is accepted at its event.                                          *)
LEMMA StoringIsAccepting ==
  ASSUME MarkInv, TypeOK', NEW h \in Handlers, Storing(h)
  PROVE  LET o == handler[h].offer
         IN  \/ UNCHANGED <<caPinned, AuthenticRecords>>
             \/ History!Accept(o.event, o.record)
<1> DEFINE o == handler[h].offer
           row == [type |-> o.type, record |-> o.record]
<1>1. /\ TypeOK
      /\ handler[h].digest = Assess(caPinned, row.record)
      /\ o.event \in Events
      /\ row \in Rows /\ row # None
      /\ o.event \notin AuthenticEvents(rows)
      /\ rows' = [rows EXCEPT ![o.event] = row]
      /\ caPinned' = caPinned
  BY StoringRow DEF MarkInv, AssessedInv
<1>2. o.record \in Records /\ rows \in [Events -> Rows \cup {None}]
  BY <1>1 DEF TypeOK, Rows
<1>3. CASE ~Authentic(o.record)
  <2>1. AuthenticEvents(rows') = AuthenticEvents(rows)
    BY <1>1, <1>2, <1>3, StoredRow DEF AuthenticEvents
  <2>2. \A e \in AuthenticEvents(rows) : rows'[e] = rows[e]
    BY <1>1, <1>2 DEF AuthenticEvents
  <2>3. AuthenticRecords' = AuthenticRecords
    BY <2>1, <2>2 DEF AuthenticRecords, AuthenticEvents
  <2> QED
    BY <1>1, <2>3
<1>4. CASE Authentic(o.record)
  <2>1. AuthenticRecords[o.event] = None
    BY <1>1, AcceptedRecords
  <2>2. AuthenticEvents(rows') = AuthenticEvents(rows) \cup {o.event}
    BY <1>1, <1>2, <1>4, StoredRow DEF AuthenticEvents
  <2>3. AuthenticRecords' = [AuthenticRecords EXCEPT ![o.event] = o.record]
    BY <1>1, <1>2, <2>2 DEF AuthenticRecords, AuthenticEvents
  <2>4. caPinned => handler[h].digest # None
    BY <1>1, <1>2, <1>4, DigestIsAuthentic DEF TypeOK
  <2>5. caPinned => /\ History!Continues(o.record)
                    /\ \A f \in Events : AuthenticRecords[f] # o.record
    BY <2>4, StoredContinues
  <2>6. History!Authentic(o.record)
    BY <1>4 DEF Authentic, History!Authentic
  <2> QED
    BY <1>1, <2>1, <2>3, <2>5, <2>6 DEF History!Accept, History!Events, Events
<1> QED
  BY <1>3, <1>4

(* Every step of the endpoint is a step of the history or changes nothing *)
(* of it.                                                                  *)
LEMMA HistoryStep ==
  ASSUME ~CaMayBeUnpinned, MarkInv, [Next]_vars
  PROVE  [History!Next]_<<caPinned, AuthenticRecords>>
<1>1. TypeOK'
  BY TypeStep DEF MarkInv, AssessedInv
<1>2. CASE \E h \in Handlers : Storing(h)
  <2> PICK h \in Handlers : Storing(h)
    BY <1>2
  <2>1. /\ handler[h].offer.event \in Events
        /\ handler[h].offer.record \in Records
    BY StoringRow DEF MarkInv, Rows
  <2> QED
    BY <1>1, <2>1, StoringIsAccepting DEF History!Next, History!Events, Events
<1>3. CASE rows' = rows /\ (caPinned' = caPinned \/ caPinned' = TRUE)
  <2>1. AuthenticRecords' = AuthenticRecords
    BY <1>3 DEF AuthenticRecords, AuthenticEvents
  <2> QED
    BY <1>3, <2>1 DEF History!Next, History!Guard
<1>4. \/ \E h \in Handlers : Storing(h)
      \/ rows' = rows /\ (caPinned' = caPinned \/ caPinned' = TRUE)
  <2>1. MarkInv => caPinned \in BOOLEAN
    BY DEF MarkInv, AssessedInv, TypeOK
  <2> QED
    BY <2>1 DEF Next, vars, tables, Sign, RegisterCase, Tick, Restart, Serve,
         Receive, Decide, NonceReused, NotAuthenticated, RecordCopied,
         GenerationRefused, Complete, EventConflict, Fail, Commit, Rollback,
         Answer, Storing
<1> QED
  BY <1>2, <1>3, <1>4

(* Where a pinned CA is never removed, the sync endpoint implements the    *)
(* abstract history: authenticated records are only added, and once a CA   *)
(* guards the seal each of them continues the highest generation.          *)
THEOREM HistoryIsImplemented ==
  ASSUME ~CaMayBeUnpinned
  PROVE  Spec => HistoryIsKept
<1>1. Init => History!Init
  <2> SUFFICES ASSUME Init PROVE History!Init
    OBVIOUS
  <2>1. AuthenticEvents(rows) = {}
    BY DEF Init, AuthenticEvents
  <2>2. AuthenticRecords = [e \in Events |-> None]
    BY <2>1 DEF AuthenticRecords
  <2>3. caPinned \in BOOLEAN
    BY Zenon DEF Init
  <2> QED
    BY <2>2, <2>3 DEF History!Init, History!Events, Events
<1>2. MarkInv /\ [Next]_vars => [History!Next]_<<caPinned, AuthenticRecords>>
  BY HistoryStep
<1> QED
  BY <1>1, <1>2, MarkInvCorrect, PTL DEF Spec, HistoryIsKept, History!Spec

-----------------------------------------------------------------------------
(* Enrollment. *)

(* An enrolled seal stores only authenticated records. *)
LEMMA EnrolledInStep ==
  ASSUME AssessedInv, [Next]_vars
  PROVE  EnrolledStep
<1>1. enrolled => enrolled'
  BY DEF Next, vars, tables, Sign, RegisterCase, Tick, Restart, Serve, Receive,
         Decide, NonceReused, NotAuthenticated, RecordCopied,
         GenerationRefused, StoreNewEvent, Displace, Complete, EventConflict,
         Fail, Rollback, Answer
<1>2. ASSUME NEW h \in Handlers, Storing(h), enrolled
      PROVE  \A e \in Events : rows'[e] # rows[e] => Authentic(rows'[e].record)
  <2> DEFINE o == handler[h].offer
             row == [type |-> o.type, record |-> o.record]
  <2>1. /\ handler[h].digest = Assess(caPinned, row.record)
        /\ o.event \in Events /\ row \in Rows
        /\ rows' = [rows EXCEPT ![o.event] = row]
    BY <1>2, StoringRow
  <2>2. handler[h].digest # None
    BY <1>2 DEF Storing, StoreNewEvent, Displace, Deciding
  <2>3. Authentic(o.record)
    BY <2>1, <2>2, DigestIsAuthentic DEF Rows, AssessedInv, TypeOK
  <2>4. rows \in [Events -> Rows \cup {None}]
    BY DEF AssessedInv, TypeOK
  <2> QED
    BY <2>1, <2>3, <2>4
<1>3. ASSUME NEW h \in Handlers, Complete(h)
      PROVE  rows' = rows
  BY <1>3 DEF Complete
<1> QED
  BY <1>1, <1>2, <1>3, RowsChangeOnlyByStoring DEF EnrolledStep

(* An enrollment is never lost, and from then on only authenticated        *)
(* records are stored, with any CA setting.                                *)
THEOREM EnrolledStaysAuthenticated == Spec => EnrolledSealStaysAuthenticated
<1>1. AssessedInv /\ [Next]_vars => [EnrolledStep]_vars
  BY EnrolledInStep
<1> QED
  BY <1>1, AssessedCorrect, PTL DEF Spec, EnrolledSealStaysAuthenticated

-----------------------------------------------------------------------------
(* The envelopes. A signed envelope is admitted once, provided the window  *)
(* and the longest wait of a request together stay within the retention of *)
(* nonces.                                                                 *)

(* A nonce names one envelope: the sender draws a fresh one each time. *)
NonceNamesEnvelope ==
  \A s, t \in sent : s.envelope.nonce = t.envelope.nonce => s = t

(* An admitted envelope was sent, and was in its window when it was checked *)
(* at most Patience seconds ago.                                            *)
AdmittedInTime ==
  \A h \in Handlers :
    handler[h] # Idle =>
      /\ now <= handler[h].since + Patience
      /\ handler[h].envelope # None =>
           /\ \E s \in sent : s.envelope = handler[h].envelope
           /\ handler[h].since <= handler[h].envelope.sentAt + Window

(* A nonce that was claimed is still stored, or its retention is over. *)
StoredOrOver(n) ==
  \E s \in sent :
    /\ s.envelope.nonce = n
    /\ s.envelope \in claimed \/ now > s.envelope.sentAt + Retention

ClaimedIsRemembered == \A n \in Nonces : claims[n] # 0 => StoredOrOver(n)

NonceInv ==
  /\ TypeOK
  /\ NonceNamesEnvelope
  /\ AdmittedInTime
  /\ ClaimedIsRemembered
  /\ EnvelopeAdmittedOnce

(* The parts of a sent submission and of a request in progress. *)
LEMMA SentType ==
  ASSUME TypeOK
  PROVE  /\ \A s \in sent :
              /\ s = [offer |-> s.offer, envelope |-> s.envelope]
              /\ s.envelope \in Envelope
              /\ s.envelope = [nonce |-> s.envelope.nonce,
                               sentAt |-> s.envelope.sentAt]
              /\ s.envelope.nonce \in Nonces /\ s.envelope.sentAt \in Nat
              /\ s.envelope # None
         /\ \A h \in Handlers :
              handler[h] # Idle =>
                /\ handler[h].since \in Nat
                /\ handler[h].envelope \in Envelope \cup {None}
         /\ now \in Nat /\ Window \in Nat /\ Retention \in Nat /\ Patience \in Nat
BY SyncAssumption DEF TypeOK, Envelope, Admitted, Decided

(* Signing adds an envelope with a nonce of its own. *)
LEMMA SignKeepsNonces ==
  ASSUME NonceInv, NEW o \in Offers, NEW n \in Nonces, NEW at \in 0 .. MaxClock,
         Sign(o, n, at)
  PROVE  /\ NonceNamesEnvelope' /\ AdmittedInTime'
         /\ ClaimedIsRemembered' /\ EnvelopeAdmittedOnce'
<1>1. /\ sent' = sent \cup {[offer |-> o, envelope |-> [nonce |-> n, sentAt |-> at]]}
      /\ \A s \in sent : s.envelope.nonce # n
      /\ UNCHANGED <<handler, now, claimed, claims>>
  BY DEF Sign, tables
<1>2. NonceNamesEnvelope'
  BY <1>1 DEF NonceInv, NonceNamesEnvelope
<1>3. AdmittedInTime'
  BY <1>1 DEF NonceInv, AdmittedInTime
<1>4. ClaimedIsRemembered'
  BY <1>1 DEF NonceInv, ClaimedIsRemembered, StoredOrOver
<1> QED
  BY <1>1, <1>2, <1>3, <1>4 DEF NonceInv, EnvelopeAdmittedOnce

(* Time passes only while every request in progress may still wait. *)
LEMMA TickKeepsNonces ==
  ASSUME NonceInv, Tick
  PROVE  /\ NonceNamesEnvelope' /\ AdmittedInTime'
         /\ ClaimedIsRemembered' /\ EnvelopeAdmittedOnce'
<1>1. /\ now' = now + 1
      /\ \A h \in Handlers : handler[h] # Idle => now - handler[h].since < Patience
      /\ UNCHANGED <<handler, sent, claimed, claims>>
  BY DEF Tick, tables
<1>2. AdmittedInTime'
  BY <1>1, SentType DEF NonceInv, AdmittedInTime
<1>3. ASSUME NEW n \in Nonces, StoredOrOver(n)
      PROVE  StoredOrOver(n)'
  <2> PICK s \in sent :
        /\ s.envelope.nonce = n
        /\ s.envelope \in claimed \/ now > s.envelope.sentAt + Retention
    BY <1>3 DEF StoredOrOver
  <2>1. s.envelope.sentAt \in Nat /\ now \in Nat /\ Retention \in Nat
    BY SentType DEF NonceInv
  <2>2. s.envelope \in claimed' \/ now' > s.envelope.sentAt + Retention
    BY <1>1, <2>1
  <2> QED
    BY <1>1, <2>2 DEF StoredOrOver
<1>4. ClaimedIsRemembered'
  BY <1>1, <1>3 DEF NonceInv, ClaimedIsRemembered
<1> QED
  BY <1>1, <1>2, <1>4 DEF NonceInv, NonceNamesEnvelope, EnvelopeAdmittedOnce

(* A request is admitted for an envelope that was sent and is in its window. *)
LEMMA ReceiveKeepsNonces ==
  ASSUME NonceInv, NEW h \in Handlers, NEW o \in Offers,
         NEW envelope \in Envelope \cup {None}, Receive(h, o, envelope)
  PROVE  /\ NonceNamesEnvelope' /\ AdmittedInTime'
         /\ ClaimedIsRemembered' /\ EnvelopeAdmittedOnce'
<1> DEFINE q == [phase |-> "admitted", offer |-> o, envelope |-> envelope,
                 digest |-> Assess(caPinned, o.record), since |-> now]
<1>1. /\ handler' = [handler EXCEPT ![h] = q]
      /\ handler \in [Handlers -> {Idle} \cup Admitted \cup Decided]
      /\ UNCHANGED <<now, sent, claimed, claims>>
  BY DEF Receive, tables, NonceInv, TypeOK
<1>2. envelope # None =>
        /\ [offer |-> o, envelope |-> envelope] \in sent
        /\ now - envelope.sentAt <= Window
  BY DEF Receive, InWindow
<1>3. /\ now <= q.since + Patience
      /\ q.envelope # None =>
           /\ \E s \in sent : s.envelope = q.envelope
           /\ q.since <= q.envelope.sentAt + Window
  <2>1. envelope # None => envelope.sentAt \in Nat
    BY DEF Envelope
  <2> QED
    BY <1>2, <2>1, SentType DEF NonceInv
<1>4. AdmittedInTime'
  BY <1>1, <1>3 DEF NonceInv, AdmittedInTime
<1> QED
  BY <1>1, <1>4 DEF NonceInv, NonceNamesEnvelope, ClaimedIsRemembered,
       StoredOrOver, EnvelopeAdmittedOnce

(* The nonce a transaction claims was never claimed before: had it been, it *)
(* would still be stored.                                                   *)
LEMMA ClaimIsFirst ==
  ASSUME Window + Patience <= Retention, NonceInv,
         NEW h \in Handlers, Claiming(h), handler[h].envelope # None
  PROVE  claims[handler[h].envelope.nonce] = 0
<1> DEFINE envelope == handler[h].envelope
<1>1. handler[h] # Idle
  BY DEF Claiming, Idle
<1>2. /\ envelope \in Envelope /\ handler[h].since \in Nat
      /\ now <= handler[h].since + Patience
      /\ handler[h].since <= envelope.sentAt + Window
  BY <1>1, SentType DEF NonceInv, AdmittedInTime
<1>3. PICK t \in sent : t.envelope = envelope
  BY <1>1 DEF NonceInv, AdmittedInTime
<1>4. envelope.nonce \in Nonces /\ envelope.sentAt \in Nat
  BY <1>2 DEF Envelope
<1>5. SUFFICES ASSUME claims[envelope.nonce] # 0 PROVE FALSE
  OBVIOUS
<1>6. PICK s \in sent :
        /\ s.envelope.nonce = envelope.nonce
        /\ s.envelope \in claimed \/ now > s.envelope.sentAt + Retention
  BY <1>4, <1>5 DEF NonceInv, ClaimedIsRemembered, StoredOrOver
<1>7. s.envelope = envelope
  BY <1>3, <1>6 DEF NonceInv, NonceNamesEnvelope
<1>8. envelope \notin claimed
  BY DEF Claiming, NonceUsed
<1>9. now > envelope.sentAt + Retention
  BY <1>6, <1>7, <1>8
<1> QED
  BY <1>2, <1>4, <1>9, SentType DEF NonceInv

(* A commit stores the nonce it counts. *)
LEMMA CommitKeepsNonces ==
  ASSUME Window + Patience <= Retention, NonceInv,
         NEW h \in Handlers, Claiming(h), NEW reply, Commit(h, reply)
  PROVE  /\ NonceNamesEnvelope' /\ AdmittedInTime'
         /\ ClaimedIsRemembered' /\ EnvelopeAdmittedOnce'
<1> DEFINE envelope == handler[h].envelope
           q == [phase |-> "decided", offer |-> handler[h].offer,
                 envelope |-> envelope, digest |-> handler[h].digest,
                 since |-> handler[h].since, reply |-> reply]
<1>1. /\ claimed' = claimed \cup ({envelope} \ {None})
      /\ claims' = [n \in Nonces |->
           IF envelope # None /\ envelope.nonce = n THEN claims[n] + 1
                                                    ELSE claims[n]]
      /\ handler' = [handler EXCEPT ![h] = q]
      /\ UNCHANGED <<now, sent>>
      /\ handler \in [Handlers -> {Idle} \cup Admitted \cup Decided]
      /\ claims \in [Nonces -> Nat]
  BY DEF Commit, NonceInv, TypeOK
<1>2. handler[h] # Idle
  BY DEF Claiming, Idle
<1>3. AdmittedInTime'
  BY <1>1, <1>2 DEF NonceInv, AdmittedInTime
<1>4. \A n \in Nonces : StoredOrOver(n) => StoredOrOver(n)'
  BY <1>1, SentType DEF NonceInv, StoredOrOver
<1>5. envelope # None => StoredOrOver(envelope.nonce)'
  BY <1>1, <1>2 DEF NonceInv, AdmittedInTime, StoredOrOver
<1>6. ClaimedIsRemembered'
  BY <1>1, <1>4, <1>5 DEF NonceInv, ClaimedIsRemembered
<1>7. envelope # None => claims[envelope.nonce] = 0
  BY ClaimIsFirst
<1>8. EnvelopeAdmittedOnce'
  BY <1>1, <1>7 DEF NonceInv, EnvelopeAdmittedOnce
<1> QED
  BY <1>1, <1>3, <1>6, <1>8 DEF NonceInv, NonceNamesEnvelope

(* A request ends, and nonces whose retention is over may be dropped. *)
LEMMA EndingKeepsNonces ==
  ASSUME NonceInv, NEW h \in Handlers, Rollback(h) \/ Answer(h) \/ Restart
  PROVE  /\ NonceNamesEnvelope' /\ AdmittedInTime'
         /\ ClaimedIsRemembered' /\ EnvelopeAdmittedOnce'
<1>1. /\ UNCHANGED <<now, sent, claims>>
      /\ \A g \in Handlers : handler'[g] \in {Idle, handler[g]}
  BY DEF Rollback, Answer, Restart, NonceInv, TypeOK
<1>2. claimed' = claimed \/ claimed' = Unexpired
  BY DEF Rollback, Answer, Restart, tables
<1>3. AdmittedInTime'
  BY <1>1 DEF NonceInv, AdmittedInTime
<1>4. ASSUME NEW n \in Nonces, StoredOrOver(n)
      PROVE  StoredOrOver(n)'
  <2> PICK s \in sent :
        /\ s.envelope.nonce = n
        /\ s.envelope \in claimed \/ now > s.envelope.sentAt + Retention
    BY <1>4 DEF StoredOrOver
  <2>1. s.envelope.sentAt \in Nat /\ now \in Nat /\ Retention \in Nat
    BY SentType DEF NonceInv
  <2>2. s.envelope \in claimed' \/ now > s.envelope.sentAt + Retention
    BY <1>2, <2>1 DEF Unexpired
  <2> QED
    BY <1>1, <2>2 DEF StoredOrOver
<1> QED
  BY <1>1, <1>3, <1>4 DEF NonceInv, NonceNamesEnvelope, ClaimedIsRemembered,
       EnvelopeAdmittedOnce

(* Every step keeps the invariant of the nonces. *)
LEMMA NonceInvStep ==
  ASSUME Window + Patience <= Retention, NonceInv, [Next]_vars
  PROVE  NonceInv'
<1>1. TypeOK'
  BY TypeStep DEF NonceInv
<1>2. CASE UNCHANGED <<now, sent, claimed, claims, handler>>
  BY <1>1, <1>2 DEF NonceInv, NonceNamesEnvelope, AdmittedInTime,
       ClaimedIsRemembered, StoredOrOver, EnvelopeAdmittedOnce
<1>3. CASE \E o \in Offers, n \in Nonces, at \in 0 .. MaxClock : Sign(o, n, at)
  BY <1>1, <1>3, SignKeepsNonces DEF NonceInv
<1>4. CASE Tick
  BY <1>1, <1>4, TickKeepsNonces DEF NonceInv
<1>5. CASE Restart
  <2>1. CASE Handlers = {}
    <3>1. AdmittedInTime'
      BY <2>1 DEF AdmittedInTime
    <3> QED
      BY <1>1, <1>5, <3>1 DEF Restart, tables, NonceInv, NonceNamesEnvelope,
           ClaimedIsRemembered, StoredOrOver, EnvelopeAdmittedOnce
  <2>2. CASE Handlers # {}
    <3> PICK h \in Handlers : TRUE
      BY <2>2
    <3> QED
      BY <1>1, <1>5, EndingKeepsNonces DEF NonceInv
  <2> QED
    BY <2>1, <2>2
<1>6. ASSUME NEW h \in Handlers, NEW o \in Offers,
             NEW envelope \in Envelope \cup {None}, Receive(h, o, envelope)
      PROVE  NonceInv'
  BY <1>1, <1>6, ReceiveKeepsNonces DEF NonceInv
<1>7. ASSUME NEW h \in Handlers, Decide(h)
      PROVE  NonceInv'
  <2>1. \/ Rollback(h)
        \/ Claiming(h) /\ (Commit(h, "ok") \/ Commit(h, "conflict"))
    BY <1>7 DEF Decide, NonceReused, NotAuthenticated, RecordCopied,
         GenerationRefused, StoreNewEvent, Displace, Complete, EventConflict,
         Fail, Deciding
  <2> QED
    BY <1>1, <2>1, EndingKeepsNonces, CommitKeepsNonces DEF NonceInv
<1>8. ASSUME NEW h \in Handlers, Answer(h)
      PROVE  NonceInv'
  BY <1>1, <1>8, EndingKeepsNonces DEF NonceInv
<1>9. CASE Serve
  <2>1. \A s \in sent : s.offer \in Offers /\ s.envelope \in Envelope \cup {None}
    BY DEF NonceInv, TypeOK
  <2> QED
    BY <1>6, <1>7, <1>8, <1>9, <2>1 DEF Serve
<1>10. CASE RegisterCase
  BY <1>2, <1>10 DEF RegisterCase
<1> QED
  BY <1>2, <1>3, <1>4, <1>5, <1>9, <1>10 DEF Next, vars, tables

(* However often the network delivers an envelope and whenever nonces are  *)
(* pruned, it is admitted at most once, if a request cannot wait so long   *)
(* that window and wait together exceed the retention.                     *)
THEOREM EnvelopeIsAdmittedOnce ==
  ASSUME Window + Patience <= Retention
  PROVE  Spec => []EnvelopeAdmittedOnce
<1>1. Init => NonceInv
  BY InitType DEF Init, NonceInv, NonceNamesEnvelope, AdmittedInTime, Idle,
       ClaimedIsRemembered, EnvelopeAdmittedOnce
<1>2. NonceInv /\ [Next]_vars => NonceInv'
  BY NonceInvStep
<1>3. NonceInv => EnvelopeAdmittedOnce
  BY DEF NonceInv
<1> QED
  BY <1>1, <1>2, <1>3, PTL DEF Spec

-----------------------------------------------------------------------------
(* What a reply "ok" promises. *)

(* The mark is never lost and never falls. *)
MarkRises == mark # None => mark' # None /\ Generation[mark] <= Generation[mark']

(* A decision writes the mark it was made on or a higher one. *)
LEMMA MarkRisesInStep ==
  ASSUME AssessedInv, [Next]_vars
  PROVE  MarkRises
<1>1. mark \in Policies \cup {None}
  BY DEF AssessedInv, TypeOK
<1>2. mark # None => Generation[mark] \in Int
  BY <1>1, RecordsAssumption
<1>3. ASSUME NEW h \in Handlers, mark' = BootstrappedMark(h)
      PROVE  MarkRises
  BY <1>2, <1>3 DEF MarkRises, BootstrappedMark
<1>4. ASSUME NEW h \in Handlers, handler[h].phase = "admitted", mark' = RaisedMark(h)
      PROVE  MarkRises
  <2>1. handler[h].digest \in Policies \cup {None}
    BY <1>4, AdmittedRequest DEF AssessedInv, Admitted
  <2>2. handler[h].digest # None =>
          handler[h].digest \in Policies /\ Generation[handler[h].digest] \in Int
    BY <2>1, RecordsAssumption
  <2>3. SUFFICES ASSUME mark # None
                 PROVE  mark' # None /\ Generation[mark] <= Generation[mark']
    BY DEF MarkRises
  <2>4. BootstrappedMark(h) = mark
    BY <2>3 DEF BootstrappedMark
  <2> QED
    BY <1>2, <1>4, <2>2, <2>3, <2>4 DEF RaisedMark
<1>5. mark' = mark => MarkRises
  BY <1>2 DEF MarkRises
<1>6. \/ mark' = mark
      \/ \E h \in Handlers : mark' = BootstrappedMark(h)
      \/ \E h \in Handlers : handler[h].phase = "admitted" /\ mark' = RaisedMark(h)
  BY DEF Next, vars, tables, Sign, RegisterCase, Tick, Restart, Serve, Receive,
         Decide, NonceReused, NotAuthenticated, RecordCopied, GenerationRefused,
         StoreNewEvent, Displace, Complete, EventConflict, Fail, Deciding,
         Claiming, Rollback, Answer
<1> QED
  BY <1>3, <1>4, <1>5, <1>6

(* The reply to an authenticated submission that is still on its way. *)
Promised(h) ==
  handler[h].phase = "decided" /\ handler[h].digest # None /\ handler[h].reply = "ok"

(* What is promised: the record and its wrapped s3 at their event, the *)
(* enrollment, and a mark that is not below.                           *)
Kept(h) ==
  LET o == handler[h].offer
  IN  /\ o.event \in AuthenticEvents(rows)
      /\ Identical(o)
      /\ o.wrapped \in {None, wrapped[o.event]}
      /\ enrolled
      /\ mark # None /\ handler[h].digest \in Policies
      /\ Generation[handler[h].digest] <= Generation[mark]

PromiseInv == AssessedInv /\ \A h \in Handlers : Promised(h) => Kept(h)

(* What was promised before a step is kept by it. *)
LEMMA PromiseOutlastsStep ==
  ASSUME PromiseInv, [Next]_vars, NEW h \in Handlers, Promised(h),
         handler'[h] = handler[h]
  PROVE  Kept(h)'
<1> DEFINE o == handler[h].offer
           d == handler[h].digest
<1>1. Kept(h) /\ AssessedInv /\ AssessedInv'
  BY TypeStep, AssessedStep DEF PromiseInv, AssessedInv
<1>2. AuthenticRecordsStayStep /\ MarkRises /\ (enrolled => enrolled')
  BY <1>1, AuthenticRecordsStayInStep, MarkRisesInStep, EnrolledInStep
     DEF EnrolledStep
<1>3. rows'[o.event] = rows[o.event]
      /\ (wrapped[o.event] # None => wrapped'[o.event] = wrapped[o.event])
  BY <1>1, <1>2 DEF AuthenticRecordsStayStep, Kept
<1>4. o.event \in AuthenticEvents(rows')
  BY <1>1, <1>3 DEF Kept, AuthenticEvents
<1>5. /\ enrolled'
      /\ rows'[o.event] = [type |-> o.type, record |-> o.record]
      /\ o.wrapped \in {None, wrapped'[o.event]}
  BY <1>1, <1>2, <1>3 DEF Kept, Identical
<1>6. /\ mark # None /\ mark' # None /\ d \in Policies
      /\ Generation[d] <= Generation[mark] /\ Generation[mark] <= Generation[mark']
      /\ mark \in Policies /\ mark' \in Policies
  BY <1>1, <1>2 DEF Kept, MarkRises, AssessedInv, TypeOK
<1>7. Generation[d] <= Generation[mark']
  BY <1>6, RecordsAssumption
<1> QED
  BY <1>4, <1>5, <1>6, <1>7 DEF Kept, Identical

(* A new promise is kept at once. *)
LEMMA PromiseIsKept ==
  ASSUME AssessedInv, AssessedInv', NEW h \in Handlers, Storing(h) \/ Complete(h),
         Promised(h)'
  PROVE  Kept(h)'
<1> DEFINE o == handler[h].offer
           row == [type |-> o.type, record |-> o.record]
           d == handler[h].digest
<1>1. /\ handler[h].phase = "admitted"
      /\ mark' = RaisedMark(h)
      /\ enrolled' = (enrolled \/ d # None) \/ enrolled' = TRUE
      /\ Commit(h, "ok")
  BY DEF Storing, StoreNewEvent, Displace, Complete, Deciding, Claiming
<1>2. handler'[h].offer = o /\ handler'[h].digest = d
  BY <1>1 DEF Commit, AssessedInv, TypeOK
<1>3. d # None /\ d = Assess(caPinned, o.record)
  BY <1>1, <1>2 DEF Promised, AssessedInv, AdmittedIsAssessed
<1>4. o.event \in Events /\ row \in Rows /\ o.record \in Records /\ row # None
  BY <1>1, AdmittedRequest, SyncAssumption DEF AssessedInv, Offer
<1>5. Authentic(o.record) /\ d \in Policies
  BY <1>3, <1>4, DigestIsAuthentic DEF AssessedInv, TypeOK
<1>6. rows'[o.event] = row /\ o.wrapped \in {None, wrapped'[o.event]}
  <2>1. /\ rows \in [Events -> Rows \cup {None}]
        /\ wrapped \in [Events -> Wraps \cup {None}]
    BY DEF AssessedInv, TypeOK
  <2>2. CASE Storing(h)
    BY <1>4, <2>1, <2>2, StoringRow
  <2>3. CASE Complete(h)
    BY <1>4, <2>1, <2>3 DEF Complete, Identical
  <2> QED
    BY <2>2, <2>3
<1>7. o.event \in AuthenticEvents(rows')
  BY <1>4, <1>5, <1>6 DEF AuthenticEvents
<1>8. mark' # None /\ Generation[d] <= Generation[mark']
  <2>1. BootstrappedMark(h) \in Policies \cup {None}
    BY <1>1, MarkType DEF AssessedInv
  <2>2. /\ Generation[d] \in Int
        /\ BootstrappedMark(h) # None => Generation[BootstrappedMark(h)] \in Int
    BY <1>5, <2>1, RecordsAssumption
  <2>3. d # None
    BY <1>3
  <2> HIDE DEF d
  <2> QED
    BY <1>1, <2>2, <2>3 DEF RaisedMark, d
<1> QED
  BY <1>1, <1>2, <1>3, <1>5, <1>6, <1>7, <1>8 DEF Kept, Identical

LEMMA PromiseStep ==
  ASSUME PromiseInv, [Next]_vars
  PROVE  PromiseInv'
<1>1. AssessedInv /\ AssessedInv'
  BY TypeStep, AssessedStep DEF PromiseInv, AssessedInv
<1>2. SUFFICES ASSUME NEW h \in Handlers, Promised(h)'
               PROVE  Kept(h)'
  BY <1>1 DEF PromiseInv
<1>3. CASE handler'[h] = handler[h]
  <2>1. Promised(h)
    BY <1>2, <1>3 DEF Promised
  <2> QED
    BY <1>3, <2>1, PromiseOutlastsStep
<1>4. CASE handler'[h] # handler[h]
  <2>1. Storing(h) \/ Complete(h)
    <3>1. handler \in [Handlers -> {Idle} \cup Admitted \cup Decided]
      BY <1>1 DEF AssessedInv, TypeOK
    <3>2. ASSUME NEW g \in Handlers, NEW q, handler' = [handler EXCEPT ![g] = q]
          PROVE  g = h
      BY <1>4, <3>1, <3>2
    <3>3. ASSUME NEW g \in Handlers, Rollback(g) \/ Answer(g)
          PROVE  FALSE
      <4>1. handler' = [handler EXCEPT ![g] = Idle]
        BY <3>3 DEF Rollback, Answer
      <4> QED
        BY <1>2, <3>1, <3>2, <4>1 DEF Promised, Idle
    <3>4. ASSUME NEW g \in Handlers, NEW o, NEW envelope, Receive(g, o, envelope)
          PROVE  FALSE
      <4>1. handler' = [handler EXCEPT ![g] = handler'[g]]
            /\ handler'[g].phase = "admitted"
        BY <3>1, <3>4 DEF Receive
      <4> QED
        BY <1>2, <3>2, <4>1 DEF Promised
    <3>5. ASSUME NEW g \in Handlers, Commit(g, "conflict")
          PROVE  FALSE
      <4>1. handler' = [handler EXCEPT ![g] = handler'[g]]
            /\ handler'[g].reply = "conflict"
        BY <3>1, <3>5 DEF Commit
      <4> QED
        BY <1>2, <3>2, <4>1 DEF Promised
    <3>6. ASSUME NEW g \in Handlers, Storing(g) \/ Complete(g)
          PROVE  g = h
      BY <3>2, <3>6 DEF Storing, StoreNewEvent, Displace, Complete, Commit
    <3>7. CASE Restart
      BY <1>2, <3>7 DEF Restart, Promised, Idle
    <3>8. CASE Serve
      BY <3>3, <3>4, <3>5, <3>6, <3>8
         DEF Serve, Decide, NonceReused, NotAuthenticated, RecordCopied,
             GenerationRefused, EventConflict, Fail, Storing
    <3> QED
      BY <1>4, <3>7, <3>8 DEF Next, vars, Sign, RegisterCase, Tick
  <2> QED
    BY <1>1, <1>2, <2>1, PromiseIsKept
<1> QED
  BY <1>3, <1>4

(* Whatever other requests commit between the decision and the reply, and  *)
(* with any CA setting, what an "ok" to an authenticated submission says   *)
(* is stored is still there when it goes out.                              *)
THEOREM AcknowledgedStaysStored == Spec => []AcknowledgedIsStored
<1>1. Init => PromiseInv
  BY InitType DEF Init, PromiseInv, AssessedInv, AdmittedIsAssessed, Promised, Idle
<1>2. PromiseInv /\ [Next]_vars => PromiseInv'
  BY PromiseStep
<1>3. PromiseInv => AcknowledgedIsStored
  BY DEF PromiseInv, Promised, Kept, AcknowledgedIsStored
<1> QED
  BY <1>1, <1>2, <1>3, PTL DEF Spec
=============================================================================
