---------------------------- MODULE CaseRegistration ----------------------------
(***************************************************************************)
(* How a seal gets its case: by the form of a signed-in administrator      *)
(* (web/routes/investigator.py), or by the first signed record that        *)
(* reaches the sync route (web/sync_registration.py), several of them at   *)
(* once, under SQLite, whose write lock excludes every other writer, and   *)
(* under MariaDB, where a seal without a case row has a gap lock that      *)
(* several transactions share and that all of them wait for to insert.     *)
(*                                                                         *)
(* A case row carries an identity under a data key of its own; row, key,   *)
(* record and nonce of one submission commit together or not at all.  A    *)
(* submission is here past its authentication; the decisions on policies   *)
(* are those of SyncAdmission, the attempt budget that of AdminLogin.      *)
(***************************************************************************)
EXTENDS Naturals, FiniteSets

CONSTANTS
  CaseSeals,      \* seals, all in one gap of the index of cases
  CaseEvents,
  Applicants,     \* requests in progress at one time
  Applications,   \* what may be submitted
  Dialects,       \* the databases to run on: "sqlite", "mariadb"
  MaxAttempts     \* bound: data keys made for registrations

(* A form registers a person; a submission brings the record of an event.  *)
(* "creates" is whether it may create a case (an envelope that verified    *)
(* and a verified policy), "fits" whether its values keep the rules.       *)
FormRequest == [kind : {"form"}, seal : CaseSeals, person : STRING]
SyncRequest == [kind : {"sync"}, seal : CaseSeals, person : STRING,
                event : CaseEvents, nonce : Nat, creates : BOOLEAN,
                fits : BOOLEAN]

ASSUME RegistrationAssumption ==
  /\ Applications \subseteq FormRequest \cup SyncRequest
  /\ Dialects \subseteq {"sqlite", "mariadb"}
  /\ MaxAttempts \in Nat

(* A client draws a new nonce for each submission (portal_client.py).      *)
ASSUME NoncesAreDrawn ==
  \A r, t \in Applications :
    r.kind = "sync" /\ t.kind = "sync" /\ r.nonce = t.nonce =>
      r.seal = t.seal /\ r.event = t.event

VARIABLES
  dialect,
  cases,       \* the case rows: who is registered, by what, under which key
  dataKeys,    \* seal_data_keys
  caseRecords,      \* seal_records
  nonces,      \* sync_nonces
  attempts,    \* data keys made
  applying     \* the requests in progress

caseTables == <<cases, dataKeys, caseRecords, nonces>>
caseVars == <<dialect, caseTables, attempts, applying>>

NoCase == [by |-> "nobody"]
NoRow == [person |-> "no record", key |-> 0]
Waiting == [at |-> "idle"]

RegistrationInit ==
  /\ dialect \in Dialects
  /\ cases = [s \in CaseSeals |-> NoCase]
  /\ dataKeys = [s \in CaseSeals |-> 0]
  /\ caseRecords = [s \in CaseSeals |-> [e \in CaseEvents |-> NoRow]]
  /\ nonces = {}
  /\ attempts = 0
  /\ applying = [a \in Applicants |-> Waiting]

-----------------------------------------------------------------------------
(* A request in progress: what it asks for, the locks its transaction      *)
(* holds and the key of the case row it has inserted, if any.              *)

Is(a, place) == applying[a].at = place
Asked(a) == applying[a].asked
SealOf(a) == applying[a].asked.seal
CaseExists(s) == cases[s] # NoCase

Proceeds(a, place) == applying' = [applying EXCEPT ![a].at = place]
Progress(place, r) == [at |-> place, asked |-> r, locks |-> {}, key |-> 0]
Replied(r, reply) == [at |-> "answered", asked |-> r, reply |-> reply]

(* The transaction, if one is open, rolls back. *)
Refuse(a, reply) ==
  /\ applying' = [applying EXCEPT ![a] = Replied(Asked(a), reply)]
  /\ UNCHANGED <<dialect, caseTables, attempts>>

Others(a) == {b \in Applicants \ {a} : applying[b].at \notin {"idle", "answered"}}

Holds(b, lock) == lock \in applying[b].locks

(* What the lock of a seal's case row waits for ... *)
RowIsHeld(a) ==
  \E b \in Others(a) :
    \/ Holds(b, "database")
    \/ Holds(b, "row") /\ SealOf(b) = SealOf(a)

(* ... and the insert of a missing one, which also waits for the gap. *)
InsertIsBlocked(a) == RowIsHeld(a) \/ \E b \in Others(a) : Holds(b, "gap")

-----------------------------------------------------------------------------
(* Before any transaction.  The form asks whether the seal has a case; a   *)
(* submission that cannot create the missing one is refused.               *)

ReceiveForm(a, r) ==
  /\ Is(a, "idle") /\ r.kind = "form"
  /\ applying' = [applying EXCEPT ![a] =
       IF CaseExists(r.seal) THEN Replied(r, "exists") ELSE Progress("insert", r)]
  /\ UNCHANGED <<dialect, caseTables, attempts>>

ReceiveSubmission(a, r) ==
  /\ Is(a, "idle") /\ r.kind = "sync"
  /\ applying' = [applying EXCEPT ![a] =
       IF r.creates \/ CaseExists(r.seal) THEN Progress("lock", r)
       ELSE Replied(r, "no case")]
  /\ UNCHANGED <<dialect, caseTables, attempts>>

(* seal_write_transaction. *)
LockCaseRow(a) ==
  /\ Is(a, "lock") /\ ~RowIsHeld(a)
  /\ applying' = [applying EXCEPT ![a].at = "decide", ![a].locks =
       IF dialect = "sqlite" THEN {"database"}
       ELSE IF CaseExists(SealOf(a)) THEN {"row"} ELSE {"gap"}]
  /\ UNCHANGED <<dialect, caseTables, attempts>>

(* An insert of the same nonce waits until the other transaction ends. *)
NonceIsHeld(a) ==
  \E b \in Others(a) :
    applying[b].at \in {"insert", "store"} /\ Asked(b).kind = "sync"
      /\ Asked(b).nonce = Asked(a).nonce

NonceIsUsed(a) ==
  /\ Is(a, "decide") /\ Asked(a).nonce \in nonces
  /\ Refuse(a, "nonce used")

Decides(a) ==
  /\ Is(a, "decide") /\ ~NonceIsHeld(a)
  /\ Asked(a).nonce \notin nonces

RowAt(r) == caseRecords[r.seal][r.event]

(* The event has a record: the nonce is claimed, nothing is created. *)
Resubmitted(a) ==
  /\ Decides(a) /\ RowAt(Asked(a)) # NoRow
  /\ nonces' = nonces \cup {Asked(a).nonce}
  /\ applying' = [applying EXCEPT ![a] = Replied(Asked(a),
       IF RowAt(Asked(a)).person = Asked(a).person THEN "ok" ELSE "conflict")]
  /\ UNCHANGED <<dialect, cases, dataKeys, caseRecords, attempts>>

ValuesRefused(a) ==
  /\ Decides(a) /\ RowAt(Asked(a)) = NoRow
  /\ Asked(a).creates /\ ~CaseExists(SealOf(a)) /\ ~Asked(a).fits
  /\ Refuse(a, "unfit")

NextStage(a) ==
  \/ CaseExists(SealOf(a)) /\ Proceeds(a, "store")
  \/ /\ ~CaseExists(SealOf(a)) /\ Asked(a).creates /\ Asked(a).fits
     /\ Proceeds(a, "insert")

(* Mutant of DecideNew: the claim of the nonce commits by itself. *)
DecideNewClaimed(a) ==
  /\ Decides(a) /\ RowAt(Asked(a)) = NoRow
  /\ NextStage(a)
  /\ nonces' = nonces \cup {Asked(a).nonce}
  /\ UNCHANGED <<dialect, cases, dataKeys, caseRecords, attempts>>

(* create_case_from_record: a missing case is inserted first. *)
DecideNew(a) ==
  /\ Decides(a) /\ RowAt(Asked(a)) = NoRow
  /\ NextStage(a)
  /\ UNCHANGED <<dialect, caseTables, attempts>>

-----------------------------------------------------------------------------
(* The case row's own insert, by a form or in a submission's transaction;  *)
(* the form's transaction begins with it.                                  *)

InsertCase(a) ==
  /\ Is(a, "insert") /\ ~InsertIsBlocked(a) /\ ~CaseExists(SealOf(a))
  /\ attempts < MaxAttempts
  /\ attempts' = attempts + 1
  /\ applying' = [applying EXCEPT
       ![a].at = "store", ![a].key = attempts + 1,
       ![a].locks = @ \cup {IF dialect = "sqlite" THEN "database" ELSE "row"}]
  /\ UNCHANGED <<dialect, caseTables>>

(* A duplicate key, or a wait that ends in a deadlock or in the time-out;  *)
(* the form then asks again whether the seal has a case.                   *)
InsertLost(a) ==
  /\ Is(a, "insert") /\ (InsertIsBlocked(a) \/ CaseExists(SealOf(a)))
  /\ CASE Asked(a).kind = "form" ->
            Refuse(a, IF CaseExists(SealOf(a)) THEN "exists" ELSE "fault")
       [] OTHER -> Refuse(a, IF dialect = "mariadb" THEN "race" ELSE "fault")

(* The privacy keys cannot be read, or the database fails: rolled back. *)
Fails(a) ==
  /\ applying[a].at \in {"lock", "decide", "insert", "store"}
  /\ \E reply \in {"keys unreadable", "fault"} : Refuse(a, reply)

(* data_key_for_write: the key of the case just inserted, or the stored one. *)
KeyFor(a) == IF applying[a].key # 0 THEN applying[a].key ELSE dataKeys[SealOf(a)]

CommitKey(a) == dataKeys' = [dataKeys EXCEPT ![SealOf(a)] = KeyFor(a)]

CommitCase(a) ==
  cases' = IF applying[a].key = 0 THEN cases
           ELSE [cases EXCEPT ![SealOf(a)] =
                  [by |-> Asked(a).kind, person |-> Asked(a).person,
                   key |-> applying[a].key]]

(* Everything the transaction wrote appears at once. *)
CommitForm(a) ==
  /\ Is(a, "store") /\ Asked(a).kind = "form"
  /\ CommitCase(a) /\ CommitKey(a)
  /\ applying' = [applying EXCEPT ![a] = Replied(Asked(a), "ok")]
  /\ UNCHANGED <<dialect, caseRecords, nonces, attempts>>

CommitRecord(a) ==
  /\ Is(a, "store") /\ Asked(a).kind = "sync"
  /\ CommitCase(a) /\ CommitKey(a)
  /\ caseRecords' = [caseRecords EXCEPT ![SealOf(a)][Asked(a).event] =
       [person |-> Asked(a).person, key |-> KeyFor(a)]]
  /\ nonces' = nonces \cup {Asked(a).nonce}
  /\ applying' = [applying EXCEPT ![a] = Replied(Asked(a), "ok")]
  /\ UNCHANGED <<dialect, attempts>>

(* The answer is received, or the worker stops: an open transaction is gone. *)
End(a) ==
  /\ ~Is(a, "idle")
  /\ applying' = [applying EXCEPT ![a] = Waiting]
  /\ UNCHANGED <<dialect, caseTables, attempts>>

RegistrationNext ==
  \E a \in Applicants :
    \/ \E r \in Applications : ReceiveForm(a, r) \/ ReceiveSubmission(a, r)
    \/ LockCaseRow(a) \/ NonceIsUsed(a) \/ Resubmitted(a) \/ ValuesRefused(a)
    \/ DecideNew(a) \/ InsertCase(a) \/ InsertLost(a) \/ Fails(a)
    \/ CommitForm(a) \/ CommitRecord(a) \/ End(a)

RegistrationSpec == RegistrationInit /\ [][RegistrationNext]_caseVars

-----------------------------------------------------------------------------
(* Properties. *)

RegistrationTypeOK ==
  /\ \A s \in CaseSeals : cases[s] # NoCase => cases[s].by \in {"form", "sync"}
  /\ dataKeys \in [CaseSeals -> 0 .. MaxAttempts]
  /\ caseRecords \in [CaseSeals -> [CaseEvents ->
       {NoRow} \cup [person : STRING, key : 1 .. MaxAttempts]]]
  /\ attempts \in 0 .. MaxAttempts
  /\ \A a \in Applicants : ~Is(a, "idle") => Asked(a) \in Applications
  /\ dialect = "sqlite" =>
       Cardinality({a \in Applicants : applying[a].at \notin {"idle", "answered"}
                                         /\ Holds(a, "database")}) <= 1

(* The identity of a case and every record of its seal open with the one   *)
(* data key stored for it, and a case that a record created has that       *)
(* record, however the registrations raced (web/sync_registration.py).     *)
CaseIsOneRegistration ==
  \A s \in CaseSeals :
    LET rows == {caseRecords[s][e] : e \in CaseEvents} \ {NoRow} IN
    /\ CaseExists(s) <=> dataKeys[s] # 0
    /\ CaseExists(s) => cases[s].key = dataKeys[s]
    /\ \A row \in rows : row.key = dataKeys[s] /\ row.key # 0
    /\ cases[s].by = "sync" => \E row \in rows : row.person = cases[s].person

(* A nonce is used up only once its event is stored: a submission that     *)
(* lost the race, or failed in any other way, may be sent again as it is.  *)
NonceMeansStored ==
  \A r \in Applications :
    r.kind = "sync" /\ r.nonce \in nonces => RowAt(r) # NoRow

(* What an answer says holds when it is received: the person registered    *)
(* is the form's, "already registered" names a case, a stored record is    *)
(* the one submitted.                                                      *)
AnswersHold ==
  \A a \in Applicants :
    Is(a, "answered") =>
      LET r == Asked(a) IN
      /\ applying[a].reply \in {"ok", "exists", "conflict"} => CaseExists(r.seal)
      /\ applying[a].reply = "ok" =>
           IF r.kind = "form" THEN cases[r.seal].person = r.person
           ELSE RowAt(r).person = r.person

(* One registration per seal, with a lock on SQLite that one transaction   *)
(* holds, and answers that are true of it.                                 *)
SealsAreRegisteredOnce ==
  RegistrationTypeOK /\ CaseIsOneRegistration /\ NonceMeansStored /\ AnswersHold

=============================================================================
