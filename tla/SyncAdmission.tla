---------------------------- MODULE SyncAdmission ----------------------------
(***************************************************************************)
(* The sync endpoint of the release host for one seal: POST                *)
(* /sync/upload-record (web/routes/sync.py), its submission authentication *)
(* (web/sync_auth.py) and the tables it writes (web/models).               *)
(*                                                                         *)
(* A request is verified before the seal's write lock is taken (Receive),  *)
(* decided and stored in one transaction under that lock (the actions of   *)
(* Decide, one per outcome), and answered after the commit, when expired   *)
(* nonces are pruned (Answer).  Several requests are in progress at once.  *)
(* The host may stop between any two of these steps and start again with   *)
(* another configured CA.                                                  *)
(***************************************************************************)
EXTENDS SealRecords

CONSTANTS
  Handlers,         \* requests the host works on at the same time
  Offers,           \* what may be submitted: event, type, body, wrapped s3
  Wraps,            \* wrapped-s3 ciphertexts
  Nonces,
  SigRequired,      \* SYNC_REQUIRE_SIGNATURE
  CaMayBeUnpinned,  \* a restart may find POLICY_CA_CERT_PATH removed
  Window,           \* SYNC_SIGNATURE_WINDOW_SECONDS
  Retention,        \* NONCE_RETENTION_SECONDS
  Skew,             \* how far a sender's clock is from the host's
  Patience,         \* the longest a request stays in progress
  MaxClock          \* bound: the clock stops here

Offer == [event : Events, type : EventTypes, record : Records,
          wrapped : Wraps \cup {None}]

Envelope == [nonce : Nonces, sentAt : Nat]

ASSUME SyncAssumption ==
  /\ Offers \subseteq Offer
  /\ \A o \in Offers : o.wrapped # None => o.type # "Unsealing"
  /\ None \notin Rows \cup Wraps \cup Envelope
  /\ SigRequired \in BOOLEAN
  /\ CaMayBeUnpinned \in BOOLEAN
  /\ {Window, Retention, Skew, Patience, MaxClock} \subseteq Nat

VARIABLES
  caPinned,  \* a CA is configured (POLICY_CA_CERT_PATH)
  caseRow,   \* the seal has a row in cases
  rows,      \* seal_records, by event
  wrapped,   \* wrapped_s3_shares, by event
  enrolled,  \* the seal is in policy_enrollment
  mark,      \* policy_high_water: the policy of the mark, or None
  claimed,   \* sync_nonces: the envelopes whose nonce is stored
  now,       \* the host's clock (seconds)
  sent,      \* the signed submissions ever made; the network may deliver
             \* each of them any number of times, or never
  handler,   \* the requests in progress
  claims     \* history: how many committed submissions claimed a nonce

tables == <<caseRow, rows, wrapped, enrolled, mark, claimed>>
vars == <<caPinned, tables, now, sent, handler, claims>>

Idle == [phase |-> "idle"]

Admitted ==
  [phase : {"admitted"}, offer : Offers, envelope : Envelope \cup {None},
   digest : Policies \cup {None}, since : Nat]

Decided ==
  [phase : {"decided"}, offer : Offers, envelope : Envelope \cup {None},
   digest : Policies \cup {None}, since : Nat,
   reply : {"ok", "conflict"}]

TypeOK ==
  /\ caPinned \in BOOLEAN
  /\ caseRow \in BOOLEAN
  /\ rows \in [Events -> Rows \cup {None}]
  /\ wrapped \in [Events -> Wraps \cup {None}]
  /\ enrolled \in BOOLEAN
  /\ mark \in Policies \cup {None}
  /\ claimed \subseteq Envelope
  /\ now \in Nat
  /\ sent \subseteq [offer : Offers, envelope : Envelope]
  /\ handler \in [Handlers -> {Idle} \cup Admitted \cup Decided]
  /\ claims \in [Nonces -> Nat]

Init ==
  /\ caPinned \in BOOLEAN
  /\ SigRequired => caPinned
  /\ caseRow \in BOOLEAN
  /\ rows = [e \in Events |-> None]
  /\ wrapped = [e \in Events |-> None]
  /\ enrolled = FALSE
  /\ mark = None
  /\ claimed = {}
  /\ now = 0
  /\ sent = {}
  /\ handler = [h \in Handlers |-> Idle]
  /\ claims = [n \in Nonces |-> 0]

-----------------------------------------------------------------------------
(* The environment of the endpoint. *)

(* The holder of the seal-policy key signs a submission: a fresh nonce and *)
(* the sender's own time for each attempt.                                 *)
Sign(o, n, at) ==
  /\ \A s \in sent : s.envelope.nonce # n
  /\ at - now <= Skew /\ now - at <= Skew
  /\ sent' = sent \cup {[offer |-> o, envelope |-> [nonce |-> n, sentAt |-> at]]}
  /\ UNCHANGED <<caPinned, tables, now, handler, claims>>

(* An investigator registers the case of the seal. *)
RegisterCase ==
  /\ ~caseRow
  /\ caseRow' = TRUE
  /\ UNCHANGED <<caPinned, rows, wrapped, enrolled, mark, claimed, now, sent,
                 handler, claims>>

Tick ==
  /\ now < MaxClock
  /\ \A h \in Handlers : handler[h] # Idle => now - handler[h].since < Patience
  /\ now' = now + 1
  /\ UNCHANGED <<caPinned, tables, sent, handler, claims>>

(* The host stops, losing the requests in progress, and starts with the    *)
(* configuration it then finds (validate_sync_config refuses required      *)
(* signatures without a CA).                                               *)
Restart ==
  /\ caPinned' \in BOOLEAN
  /\ SigRequired => caPinned'
  /\ caPinned => caPinned' \/ CaMayBeUnpinned
  /\ handler' = [h \in Handlers |-> Idle]
  /\ UNCHANGED <<tables, now, sent, claims>>

-----------------------------------------------------------------------------
(* Before the lock. *)

InWindow(envelope) ==
  /\ now - envelope.sentAt <= Window
  /\ envelope.sentAt - now <= Window

(* Only a signed submission with a currently valid policy creates a case. *)
MayCreateCase(o, envelope) ==
  /\ envelope # None
  /\ Assess(caPinned, o.record) # None
  /\ Standing[PolicyOf[o.record]] = "verified"

(* A request that passes every check made before the lock.  One that fails *)
(* is refused and changes nothing.                                         *)
Receive(h, o, envelope) ==
  /\ handler[h] = Idle
  /\ \/ envelope = None /\ ~SigRequired
     \/ /\ [offer |-> o, envelope |-> envelope] \in sent
        /\ caPinned
        /\ InWindow(envelope)
  /\ ~FailsVerification(caPinned, o.record)
  /\ caseRow \/ MayCreateCase(o, envelope)
  /\ handler' = [handler EXCEPT ![h] =
       [phase |-> "admitted", offer |-> o, envelope |-> envelope,
        digest |-> Assess(caPinned, o.record), since |-> now]]
  /\ UNCHANGED <<caPinned, tables, now, sent, claims>>

-----------------------------------------------------------------------------
(* Under the lock.  Each outcome below is one committed transaction, or    *)
(* one that is rolled back.                                                *)

NonceUsed(envelope) == \E c \in claimed : c.nonce = envelope.nonce

(* The transaction goes past the nonce claim. *)
Claiming(h) ==
  /\ handler[h].phase = "admitted"
  /\ handler[h].envelope # None => ~NonceUsed(handler[h].envelope)

(* Mutant of Deciding: the enrollment check is left out. *)
DecidingUnenrolled(h) == Claiming(h)

(* ... and past the refusal of a record without an authenticated policy *)
(* for an enrolled seal.                                                *)
Deciding(h) ==
  /\ Claiming(h)
  /\ handler[h].digest = None => ~enrolled

(* The mark the decision is made on: a missing one is first set from the *)
(* stored records, if the submission carries a verified policy.          *)
BootstrappedMark(h) ==
  IF handler[h].digest # None /\ mark = None THEN StoredMaximum(rows) ELSE mark

Identical(o) == rows[o.event] = [type |-> o.type, record |-> o.record]

(* Mutant of Displaces: the stored record is not assessed. *)
DisplacesAny(h) ==
  LET o == handler[h].offer
  IN  /\ rows[o.event] # None
      /\ ~Identical(o)
      /\ handler[h].digest # None

(* An authenticated record arrives for an event held by one that is not. *)
Displaces(h) ==
  LET o == handler[h].offer
  IN  /\ rows[o.event] # None
      /\ ~Identical(o)
      /\ handler[h].digest # None
      /\ Assess(caPinned, rows[o.event].record) = None

IsNew(h) == rows[handler[h].offer.event] = None

(* Mutant of Copied: only later events are searched. *)
CopiedLater(h) ==
  LET o == handler[h].offer
  IN  /\ handler[h].digest # None
      /\ \E e \in Events :
           e > o.event /\ rows[e] # None /\ rows[e].record = o.record

(* The body of an authenticated record is stored under another event. *)
Copied(h) ==
  LET o == handler[h].offer
  IN  /\ handler[h].digest # None
      /\ \E e \in Events \ {o.event} : rows[e] # None /\ rows[e].record = o.record

(* A verified policy below the mark, or another one at it. *)
BelowMark(h) ==
  LET d == handler[h].digest
      m == BootstrappedMark(h)
  IN  /\ d # None
      /\ m # None
      /\ \/ Generation[d] < Generation[m]
         \/ Generation[d] = Generation[m] /\ d # m

(* Mutant of RaisedMark: the generation is written where the digest goes. *)
MarkOfGeneration(h) ==
  IF handler[h].digest # None THEN Generation[handler[h].digest]
                              ELSE BootstrappedMark(h)

(* raise_high_water: inserted when missing, raised by a higher generation. *)
RaisedMark(h) ==
  LET d == handler[h].digest
      m == BootstrappedMark(h)
  IN  IF d # None /\ (m = None \/ Generation[m] < Generation[d]) THEN d ELSE m

(* The transaction commits: the nonce stays claimed, a reply is on its way. *)
Commit(h, reply) ==
  LET envelope == handler[h].envelope
  IN  /\ claimed' = claimed \cup ({envelope} \ {None})
      /\ claims' = [n \in Nonces |->
           IF envelope # None /\ envelope.nonce = n THEN claims[n] + 1
                                                    ELSE claims[n]]
      /\ handler' = [handler EXCEPT ![h] =
           [phase |-> "decided", offer |-> @.offer, envelope |-> @.envelope,
            digest |-> @.digest, since |-> @.since, reply |-> reply]]
      /\ UNCHANGED <<caPinned, now, sent>>

(* The transaction rolls back and the request is refused. *)
Rollback(h) ==
  /\ handler' = [handler EXCEPT ![h] = Idle]
  /\ UNCHANGED <<caPinned, tables, now, sent, claims>>

(* The envelope was used before (409). *)
NonceReused(h) ==
  /\ handler[h].phase = "admitted"
  /\ handler[h].envelope # None /\ NonceUsed(handler[h].envelope)
  /\ Rollback(h)

(* An enrolled seal takes no record without an authenticated policy (409). *)
NotAuthenticated(h) ==
  /\ Claiming(h)
  /\ handler[h].digest = None /\ enrolled
  /\ Commit(h, "conflict")
  /\ UNCHANGED <<caseRow, rows, wrapped, enrolled, mark>>

(* An authenticated copy of a record stored under another event (409). *)
RecordCopied(h) ==
  /\ Deciding(h)
  /\ IsNew(h) \/ Displaces(h)
  /\ Copied(h)
  /\ Rollback(h)

(* A policy generation the seal has left behind (409). *)
GenerationRefused(h) ==
  /\ Deciding(h)
  /\ IsNew(h) \/ Displaces(h)
  /\ ~Copied(h) /\ BelowMark(h)
  /\ mark' = BootstrappedMark(h)
  /\ Commit(h, "conflict")
  /\ UNCHANGED <<caseRow, rows, wrapped, enrolled>>

(* The record of a new event, with its case when that is missing. *)
StoreNewEvent(h) ==
  LET o == handler[h].offer
  IN  /\ Deciding(h)
      /\ IsNew(h)
      /\ ~Copied(h) /\ ~BelowMark(h)
      /\ caseRow' = TRUE
      /\ rows' = [rows EXCEPT ![o.event] = [type |-> o.type, record |-> o.record]]
      /\ wrapped' = [wrapped EXCEPT ![o.event] = o.wrapped]
      /\ enrolled' = (enrolled \/ handler[h].digest # None)
      /\ mark' = RaisedMark(h)
      /\ Commit(h, "ok")

(* Mutant of Displace: the wrapped s3 of the displaced record is not deleted *)
(* before the insert that ignores an existing row.                           *)
DisplaceRecordOnly(h) ==
  LET o == handler[h].offer
  IN  /\ Deciding(h)
      /\ Displaces(h)
      /\ ~Copied(h) /\ ~BelowMark(h)
      /\ rows' = [rows EXCEPT ![o.event] = [type |-> o.type, record |-> o.record]]
      /\ wrapped' = [wrapped EXCEPT ![o.event] = IF @ = None THEN o.wrapped ELSE @]
      /\ enrolled' = TRUE
      /\ mark' = RaisedMark(h)
      /\ Commit(h, "ok")
      /\ UNCHANGED caseRow

(* The record and the wrapped s3 of the event are replaced. *)
Displace(h) ==
  LET o == handler[h].offer
  IN  /\ Deciding(h)
      /\ Displaces(h)
      /\ ~Copied(h) /\ ~BelowMark(h)
      /\ rows' = [rows EXCEPT ![o.event] = [type |-> o.type, record |-> o.record]]
      /\ wrapped' = [wrapped EXCEPT ![o.event] = o.wrapped]
      /\ enrolled' = TRUE
      /\ mark' = RaisedMark(h)
      /\ Commit(h, "ok")
      /\ UNCHANGED caseRow

(* Mutant of WrapConflict: only a missing wrapped s3 is refused, another   *)
(* one replaces what is stored.                                            *)
WrapMissing(o) == o.wrapped = None /\ wrapped[o.event] # None

WrapConflict(o) ==
  o.wrapped # None /\ wrapped[o.event] \notin {None, o.wrapped}

(* An identical resubmission adds a missing wrapped s3 or enrollment. *)
Complete(h) ==
  LET o == handler[h].offer
  IN  /\ Deciding(h)
      /\ Identical(o) /\ ~WrapConflict(o)
      /\ wrapped' = IF o.wrapped = None THEN wrapped
                    ELSE [wrapped EXCEPT ![o.event] = o.wrapped]
      /\ enrolled' = (enrolled \/ handler[h].digest # None)
      /\ mark' = RaisedMark(h)
      /\ Commit(h, "ok")
      /\ UNCHANGED <<caseRow, rows>>

(* Another wrapped s3 for it, or another record where none may be      *)
(* replaced, is refused (409); a mark bootstrapped on the way is kept. *)
EventConflict(h) ==
  LET o == handler[h].offer
  IN  /\ Deciding(h)
      /\ ~IsNew(h) /\ ~Displaces(h)
      /\ Identical(o) => WrapConflict(o)
      /\ mark' = BootstrappedMark(h)
      /\ Commit(h, "conflict")
      /\ UNCHANGED <<caseRow, rows, wrapped, enrolled>>

(* The transaction fails for a reason outside this model (a lost key, an   *)
(* unconverted row, values that cannot create the case, the database) and  *)
(* the request is refused (4xx, 5xx).                                      *)
Fail(h) ==
  /\ handler[h].phase = "admitted"
  /\ Rollback(h)

Decide(h) ==
  \/ NonceReused(h)
  \/ NotAuthenticated(h)
  \/ RecordCopied(h)
  \/ GenerationRefused(h)
  \/ StoreNewEvent(h)
  \/ Displace(h)
  \/ Complete(h)
  \/ EventConflict(h)
  \/ Fail(h)

-----------------------------------------------------------------------------
(* After the commit. *)

(* Mutant of Unexpired: nonces are kept for the window only. *)
UnexpiredInWindow == {c \in claimed : now <= c.sentAt + Window}

Unexpired == {c \in claimed : now <= c.sentAt + Retention}

(* The reply goes out.  A signed submission first prunes expired nonces, *)
(* best effort.                                                          *)
Answer(h) ==
  /\ handler[h].phase = "decided"
  /\ claimed' \in IF handler[h].envelope = None THEN {claimed}
                                                ELSE {claimed, Unexpired}
  /\ handler' = [handler EXCEPT ![h] = Idle]
  /\ UNCHANGED <<caPinned, caseRow, rows, wrapped, enrolled, mark, now, sent,
                 claims>>

Serve ==
  \E h \in Handlers :
     \/ \E o \in Offers : Receive(h, o, None)
     \/ \E s \in sent : Receive(h, s.offer, s.envelope)
     \/ Decide(h)
     \/ Answer(h)

Next ==
  \/ \E o \in Offers, n \in Nonces, at \in 0 .. MaxClock : Sign(o, n, at)
  \/ RegisterCase
  \/ Tick
  \/ Restart
  \/ Serve

Spec == Init /\ [][Next]_vars
-----------------------------------------------------------------------------
(* Properties. *)

(* The seal's mark is the policy of a stored authenticated record, and no  *)
(* stored authenticated record is of a higher generation                   *)
(* (release_selection.py, "The mark equals the highest generation ...").   *)
MarkIsStoredMaximum == mark # None => IsMaximum(mark, rows)

(* The authenticated records of the seal, and whether a CA guards them,    *)
(* behave as SealHistory says: a verified submission never lowers the      *)
(* seal's generation, never brings a second policy of the current one, and *)
(* never repeats a stored record, also when records were stored before the *)
(* CA was pinned (sync.py, "Policy generations" and "Copies").             *)
AuthenticRecords ==
  [e \in Events |-> IF e \in AuthenticEvents(rows) THEN rows[e].record ELSE None]
History == INSTANCE SealHistory
  WITH guarded <- caPinned, accepted <- AuthenticRecords
HistoryIsKept == History!Spec

(* Nothing that arrives later replaces an authenticated record, or the     *)
(* wrapped s3 stored with it: whatever was submitted for its event, signed *)
(* or not, before or after a restart with another CA setting.              *)
AuthenticRecordsStayStep ==
  \A e \in AuthenticEvents(rows) :
    /\ rows'[e] = rows[e]
    /\ wrapped[e] # None => wrapped'[e] = wrapped[e]
AuthenticRecordsStay == [][AuthenticRecordsStayStep]_vars

(* Once a seal is enrolled, only authenticated records enter its history,  *)
(* even while the CA is unpinned.                                          *)
EnrolledStep ==
  enrolled =>
    /\ enrolled'
    /\ \A e \in Events : rows'[e] # rows[e] => Authentic(rows'[e].record)
EnrolledSealStaysAuthenticated == [][EnrolledStep]_vars

(* A signed envelope is admitted at most once, however often the network   *)
(* delivers it and whenever expired nonces are pruned (sync_auth.py,       *)
(* "pruning can never re-admit an envelope inside any window").            *)
EnvelopeAdmittedOnce == \A n \in Nonces : claims[n] <= 1

(* When the reply "ok" to an authenticated submission goes out, the seal   *)
(* still holds that record at that event, with the wrapped s3 that came    *)
(* with it, is enrolled, and its mark is not below the record's policy.    *)
AcknowledgedIsStored ==
  \A h \in Handlers :
    LET q == handler[h] IN
    q.phase = "decided" /\ q.digest # None /\ q.reply = "ok" =>
        /\ Identical(q.offer)
        /\ q.offer.wrapped \in {None, wrapped[q.offer.event]}
        /\ enrolled
        /\ mark # None /\ Generation[q.digest] <= Generation[mark]
=============================================================================
