---------------------------- MODULE RecordProtection ----------------------------
(***************************************************************************)
(* The protected identity and records of one seal and their data key       *)
(* (web/privacy/record_store.py, case_identity.py, record_access.py,       *)
(* migrate.py, record_migration.py, web/models/privacy_models.py): record  *)
(* writers, conversions of rows stored before the protection, readers and  *)
(* the removal of old copies, beside each other and stopped at any point.  *)
(*                                                                         *)
(* A write transaction is three steps, the seal's lock, the data key and   *)
(* the commit of everything written; a rollback leaves nothing.            *)
(***************************************************************************)
EXTENDS Naturals, FiniteSets

CONSTANTS
  Events,       \* events of the seal that have a record
  Texts,        \* record texts
  Writers,      \* record submissions in progress at one time
  Migrations,   \* runs of the conversion command at one time
  Readers,      \* persons who are shown a record
  MaxKeys       \* bound: data keys ever made for the seal

ASSUME ProtectionConstants ==
  /\ Events \subseteq Nat \ {0} /\ IsFiniteSet(Events)
  /\ MaxKeys \in Nat \ {0}
  /\ Writers \cap Migrations = {}
  /\ "free" \notin Writers \cup Migrations

VARIABLES
  identity,   \* the case's identity: no case, plain or sealed, and its key
  dataKey,    \* seal_data_keys: the seal's key, or 0
  record,     \* seal_records: each event's row
  holder,     \* who holds the seal's write lock, or "free"
  job,        \* submissions and conversions in progress
  view,       \* persons' reads in progress
  residue,    \* old copies of plaintext remain in the file or its log
  snapshot,   \* another connection keeps an older snapshot open
  lastKey,    \* the last key made
  received    \* history: the text last received for each event

protectionVars == <<identity, dataKey, record, holder, job, view, residue,
                    snapshot, lastKey, received>>
stored == <<identity, dataKey, record, residue, lastKey, received>>

Processes == Writers \cup Migrations
KeyIds == 0..MaxKeys
NoText == "none"
Garbled == "ciphertext"           \* what encrypting a ciphertext leaves

Nothing == [form |-> "none", key |-> 0, text |-> NoText]
Plain(text) == [form |-> "plain", key |-> 0, text |-> text]
Sealed(key, text) == [form |-> "sealed", key |-> key, text |-> text]
Values == {Nothing} \cup {Plain(t) : t \in Texts}
            \cup {Sealed(k, t) : k \in KeyIds, t \in Texts \cup {Garbled}}
Identity == 0                     \* the task of the identity conversion

NoJob == [at |-> "idle", task |-> Identity, text |-> NoText, key |-> 0,
          todo |-> {}, failed |-> FALSE]
NoView == [at |-> "idle", row |-> Nothing]

ProtectionTypeOK ==
  /\ identity \in [form : {"none", "plain", "sealed"}, key : KeyIds]
  /\ dataKey \in KeyIds /\ lastKey \in KeyIds
  /\ record \in [Events -> Values]
  /\ holder \in Processes \cup {"free"}
  /\ job \in [Processes ->
       [at : {"idle", "lock", "key", "commit", "survey", "checkpoint",
              "vacuum", "truncate", "count", "done", "refused"},
        task : Events \cup {Identity}, text : Texts \cup {NoText, Garbled},
        key : KeyIds, todo : SUBSET Events, failed : BOOLEAN]]
  /\ view \in [Readers -> [at : {"idle", "key", "audit", "answer"},
                           row : Values]]
  /\ residue \in BOOLEAN /\ snapshot \in BOOLEAN
  /\ received \in [Events -> Texts \cup {NoText}]

(* Something of the seal needs its key (find_data_key_use). *)
Use == identity.form = "sealed" \/ \E e \in Events : record[e].form = "sealed"
PlainEvents == {e \in Events : record[e].form = "plain"}

(* Databases of any age: before the protection, partly converted, without  *)
(* a case, or with the key row lost although something needs it.           *)
ProtectionInit ==
  /\ identity \in {[form |-> "none", key |-> 0], [form |-> "plain", key |-> 0],
                   [form |-> "sealed", key |-> 1]}
  /\ record \in [Events -> {Nothing} \cup {Plain(t) : t \in Texts}
                             \cup {Sealed(1, t) : t \in Texts}]
  /\ identity.form = "none" => \A e \in Events : record[e].form # "sealed"
  /\ dataKey \in IF Use THEN {0, 1} ELSE {0}
  /\ lastKey = IF Use THEN 1 ELSE 0
  /\ holder = "free"
  /\ job = [p \in Processes |-> NoJob]
  /\ view = [r \in Readers |-> NoView]
  /\ residue = (identity.form = "plain" \/ PlainEvents # {})
  /\ snapshot = FALSE
  /\ received = [e \in Events |-> record[e].text]

-------------------------------------------------------------------------------
(* A write transaction of the seal. *)

InStep(p, step) == job[p].at = step
StepTo(p, step) == job' = [job EXCEPT ![p].at = step]

LockIsFree(p) == holder = "free"

LockForWrite(p) ==
  /\ InStep(p, "lock") /\ LockIsFree(p)
  /\ holder' = p
  /\ StepTo(p, "key")
  /\ UNCHANGED <<stored, view, snapshot>>

(* Mutant of StillPlain: the row is converted as the survey found it. *)
PlainWhenSurveyed(m) == TRUE

(* The row is read again under the lock. *)
StillPlain(m) ==
  IF job[m].task = Identity THEN identity.form = "plain"
  ELSE record[job[m].task].form = "plain"

(* Mutant of MayMakeKey: a lost key is replaced. *)
MayAlwaysMakeKey == identity.form # "none"

(* A new key only for a case with nothing that needs the old one. *)
MayMakeKey == identity.form # "none" /\ ~Use

(* data_key_for_write: the stored key, or a new one, stored at the commit. *)
ObtainKey(p) ==
  /\ InStep(p, "key")
  /\ p \in Migrations => StillPlain(p)
  /\ dataKey # 0 \/ (MayMakeKey /\ lastKey < MaxKeys)
  /\ job' = [job EXCEPT ![p].at = "commit",
                        ![p].key = IF dataKey # 0 THEN dataKey ELSE lastKey + 1]
  /\ lastKey' = IF dataKey # 0 THEN lastKey ELSE lastKey + 1
  /\ UNCHANGED <<identity, dataKey, record, residue, received, holder, view,
                 snapshot>>

FreeLock(p) == holder' = IF holder = p THEN "free" ELSE holder

(* What a conversion does after a task: the records are listed once the    *)
(* identity is done, and the old copies are removed after the last record. *)
AfterTask(m, failed) ==
  LET j == job[m] IN
  [j EXCEPT !.key = 0, !.failed = @ \/ failed,
            !.at = IF j.task = Identity THEN "survey"
                   ELSE IF j.todo = {} THEN "checkpoint" ELSE "lock",
            !.task = IF j.task # Identity /\ j.todo # {}
                     THEN CHOOSE e \in j.todo : TRUE ELSE Identity,
            !.todo = IF j.task # Identity /\ j.todo # {}
                     THEN @ \ {CHOOSE e \in @ : TRUE} ELSE @]

(* CaseNotRegistered, DataKeyMissing, keys or database unavailable, a round *)
(* trip that does not match: rolled back and, by a conversion, counted.    *)
RollBack(p) ==
  /\ job[p].at \in {"lock", "key", "commit"}
  /\ FreeLock(p)
  /\ job' = [job EXCEPT ![p] = IF p \in Migrations THEN AfterTask(p, TRUE)
                               ELSE NoJob]
  /\ UNCHANGED <<stored, view, snapshot>>

-------------------------------------------------------------------------------
(* The submissions. *)

BeginSubmission(w, e, text) ==
  /\ InStep(w, "idle")
  /\ job' = [job EXCEPT ![w] = [NoJob EXCEPT !.at = "lock", !.task = e,
                                             !.text = text]]
  /\ UNCHANGED <<stored, holder, view, snapshot>>

(* A row of before the protection is never read, so nor replaced. *)
CommitSubmission(w) ==
  LET e == job[w].task IN
  /\ InStep(w, "commit") /\ w \in Writers
  /\ record[e].form # "plain"
  /\ record' = [record EXCEPT ![e] = Sealed(job[w].key, job[w].text)]
  /\ received' = [received EXCEPT ![e] = job[w].text]
  /\ dataKey' = job[w].key
  /\ FreeLock(w)
  /\ job' = [job EXCEPT ![w] = NoJob]
  /\ UNCHANGED <<identity, residue, lastKey, view, snapshot>>

(* insert_protected_case: the case and its first key in one transaction,   *)
(* by the administrator's form or with the case's first signed record.     *)
RegisterCase ==
  /\ identity.form = "none" /\ holder = "free" /\ lastKey < MaxKeys
  /\ identity' = [form |-> "sealed", key |-> lastKey + 1]
  /\ dataKey' = lastKey + 1
  /\ lastKey' = lastKey + 1
  /\ UNCHANGED <<record, residue, received, holder, job, view, snapshot>>

-------------------------------------------------------------------------------
(* The conversion command. *)

BeginMigration(m) ==
  /\ InStep(m, "idle") /\ m \in Migrations
  /\ StepTo(m, IF identity.form = "plain" THEN "lock" ELSE "survey")
  /\ UNCHANGED <<stored, holder, view, snapshot>>

SurveyRecords(m) ==
  /\ InStep(m, "survey")
  /\ job' = [job EXCEPT ![m] =
       IF PlainEvents = {} THEN [job[m] EXCEPT !.at = "checkpoint"]
       ELSE LET e == CHOOSE e \in PlainEvents : TRUE IN
            [job[m] EXCEPT !.at = "lock", !.task = e, !.todo = PlainEvents \ {e}]]
  /\ UNCHANGED <<stored, holder, view, snapshot>>

SkipConverted(m) ==
  /\ InStep(m, "key") /\ m \in Migrations
  /\ ~StillPlain(m)
  /\ FreeLock(m)
  /\ job' = [job EXCEPT ![m] = AfterTask(m, FALSE)]
  /\ UNCHANGED <<stored, view, snapshot>>

TextOf(row) == IF row.form = "plain" THEN row.text ELSE Garbled

(* Digests and ciphertexts written, read back and compared, the plaintext  *)
(* blanked; a record's ciphertext in place of its text. What was there     *)
(* stays in freed pages and the log.                                       *)
CommitConversion(m) ==
  LET e == job[m].task IN
  /\ InStep(m, "commit") /\ m \in Migrations
  /\ identity' = IF e = Identity THEN [form |-> "sealed", key |-> job[m].key]
                 ELSE identity
  /\ record' = IF e = Identity THEN record
               ELSE [record EXCEPT ![e] = Sealed(job[m].key, TextOf(@))]
  /\ dataKey' = job[m].key
  /\ FreeLock(m)
  /\ job' = [job EXCEPT ![m] = AfterTask(m, FALSE)]
  /\ UNCHANGED <<residue, lastKey, received, view, snapshot>>

-------------------------------------------------------------------------------
(* Removal of old copies (SQLite), and the exit status. *)

(* Mutant of CheckpointComplete: its result is not looked at. *)
CheckpointAnyway == TRUE
CheckpointComplete == ~snapshot

(* _scrub_freed_pages: two checkpoints that must copy and truncate the     *)
(* log, with a VACUUM between; one that cannot complete ends the scrub.    *)
Checkpoint(m) ==
  /\ InStep(m, "checkpoint")
  /\ StepTo(m, IF CheckpointComplete THEN "vacuum" ELSE "refused")
  /\ UNCHANGED <<stored, holder, view, snapshot>>

Vacuum(m) ==
  /\ InStep(m, "vacuum") /\ holder = "free"
  /\ StepTo(m, "truncate")
  /\ UNCHANGED <<stored, holder, view, snapshot>>

Truncate(m) ==
  /\ InStep(m, "truncate")
  /\ StepTo(m, IF CheckpointComplete THEN "count" ELSE "refused")
  /\ residue' = IF ~snapshot THEN identity.form = "plain" \/ PlainEvents # {}
                ELSE residue
  /\ UNCHANGED <<identity, dataKey, record, lastKey, received, holder, view,
                 snapshot>>

ScrubFails(m) ==
  /\ job[m].at \in {"checkpoint", "vacuum", "truncate"}
  /\ StepTo(m, "refused")
  /\ UNCHANGED <<stored, holder, view, snapshot>>

NothingRemains(m) ==
  ~job[m].failed /\ identity.form # "plain" /\ PlainEvents = {}

CountPlaintext(m) ==
  /\ InStep(m, "count")
  /\ StepTo(m, IF NothingRemains(m) THEN "done" ELSE "refused")
  /\ UNCHANGED <<stored, holder, view, snapshot>>

EndMigration(m) ==
  /\ job[m].at \in {"done", "refused"}
  /\ job' = [job EXCEPT ![m] = NoJob]
  /\ UNCHANGED <<stored, holder, view, snapshot>>

-------------------------------------------------------------------------------
(* A person's read: the row, the key, the audit row, the answer. *)

ReadRow(r, e) ==
  /\ view[r].at = "idle" /\ record[e].form = "sealed"
  /\ view' = [view EXCEPT ![r].at = "key", ![r].row = record[e]]
  /\ UNCHANGED <<stored, holder, job, snapshot>>

OpenRow(r) ==
  /\ view[r].at = "key"
  /\ view' = [view EXCEPT ![r] = IF dataKey = view[r].row.key
                                 THEN [NoView EXCEPT !.at = "audit"] ELSE NoView]
  /\ UNCHANGED <<stored, holder, job, snapshot>>

AuditView(r) ==
  /\ view[r].at = "audit"
  /\ view' = [view EXCEPT ![r].at = "answer"]
  /\ UNCHANGED <<stored, holder, job, snapshot>>

(* Answered, or the audit row was not written and the content is withheld. *)
EndView(r) ==
  /\ view[r].at \in {"audit", "answer"}
  /\ view' = [view EXCEPT ![r] = NoView]
  /\ UNCHANGED <<stored, holder, job, snapshot>>

-------------------------------------------------------------------------------
(* Stops, other connections, and the key row restored from a backup. *)

(* Mutant of Crash: the lock outlives its process. *)
CrashHolding(p) ==
  /\ ~InStep(p, "idle")
  /\ holder' = IF holder = p THEN "gone" ELSE holder
  /\ job' = [job EXCEPT ![p] = NoJob]
  /\ UNCHANGED <<stored, view, snapshot>>

Crash(p) ==
  /\ ~InStep(p, "idle")
  /\ FreeLock(p)
  /\ job' = [job EXCEPT ![p] = NoJob]
  /\ UNCHANGED <<stored, view, snapshot>>

Snapshot ==
  /\ snapshot' = ~snapshot
  /\ UNCHANGED <<stored, holder, job, view>>

RestoreKey ==
  /\ dataKey = 0 /\ Use /\ holder = "free"
  /\ dataKey' = 1
  /\ UNCHANGED <<identity, record, residue, lastKey, received, holder, job,
                 view, snapshot>>

ProtectionNext ==
  \/ \E p \in Processes :
       LockForWrite(p) \/ ObtainKey(p) \/ RollBack(p) \/ Crash(p)
  \/ \E w \in Writers :
       \/ \E e \in Events, text \in Texts : BeginSubmission(w, e, text)
       \/ CommitSubmission(w)
  \/ RegisterCase
  \/ \E m \in Migrations :
       \/ BeginMigration(m) \/ SurveyRecords(m) \/ SkipConverted(m)
       \/ CommitConversion(m) \/ Checkpoint(m) \/ Vacuum(m) \/ Truncate(m)
       \/ ScrubFails(m) \/ CountPlaintext(m) \/ EndMigration(m)
  \/ \E r \in Readers :
       \/ \E e \in Events : ReadRow(r, e)
       \/ OpenRow(r) \/ AuditView(r) \/ EndView(r)
  \/ Snapshot \/ RestoreKey

ProtectionSpec == ProtectionInit /\ [][ProtectionNext]_protectionVars

-------------------------------------------------------------------------------
(* Properties. *)

(* A seal's data key is never replaced while something needs it: every     *)
(* ciphertext is under the key that is stored, whatever writers race for   *)
(* the first key, and a lost key row can be restored from a backup.  Also  *)
(* a record read before a conversion opens with the key read after it.     *)
OneKeyPerSeal ==
  dataKey # 0 =>
    /\ identity.form = "sealed" => identity.key = dataKey
    /\ \A e \in Events : record[e].form = "sealed" => record[e].key = dataKey
    /\ \A r \in Readers : view[r].at = "key" => view[r].row.key = dataKey

(* Each record is, in plaintext or under its key, the text last received   *)
(* for its event, through conversions and replacements in any order.       *)
StoredIsReceived == \A e \in Events : record[e].text = received[e]

(* A conversion that ends with status 0 leaves no plaintext: in no row, no *)
(* freed page and no log, then and afterwards.                             *)
DoneIsClean ==
  \A m \in Migrations : InStep(m, "done") =>
    identity.form # "plain" /\ PlainEvents = {} /\ ~residue
===============================================================================
