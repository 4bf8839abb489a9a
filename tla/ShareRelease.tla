------------------------------ MODULE ShareRelease ------------------------------
(***************************************************************************)
(* The stored key shares of one seal and the releases that use them        *)
(* (web/share_upload.py, web/models/share_models.py, web/share_removal.py, *)
(* web/release_gate.py, web/release_shares.py).  Uploads, removals and     *)
(* releases run beside sync admission, which raises the generation.        *)
(*                                                                         *)
(* Uploads and removals decide under the seal's write lock.  A release     *)
(* takes no lock: its policy, its shares and its envelopes are read one    *)
(* after the other.  The selection of the policy is one step here; its     *)
(* own steps are those of ReleaseSelection.                                *)
(***************************************************************************)
EXTENDS Integers, FiniteSets

CONSTANTS
  TopGeneration,     \* bound: policy generations
  Slots,             \* share slots in use, with 1 (owner) and 4 (administrator)
  Strict,            \* whether the seal's mode is strict
  Unlock,            \* unlock time of each generation's policy
  Accuracy,          \* accuracy of the time-stamp authority
  Uploads,           \* uploads in progress at one time
  MaxRows,           \* bound: ids of key_shares
  ReleaseMaxClock    \* bound: the time of a time stamp

Generations == 0..TopGeneration
Keys == 0..TopGeneration + 1
Another == TopGeneration + 1    \* a key that belongs to no generation

ASSUME ReleaseConstants ==
  /\ {TopGeneration, Accuracy, MaxRows, ReleaseMaxClock} \subseteq Nat
  /\ Slots \subseteq 1..4
  /\ Strict \in BOOLEAN
  /\ Unlock \in [Generations -> Nat]
  /\ "free" \notin Uploads

VARIABLES
  pinned,     \* POLICY_CA_CERT_PATH is configured
  records,    \* generations of the stored records whose policy verifies
  highWater,  \* the high-water mark: a generation, or none
  shares,     \* key_shares: rows of id, slot, generation tag and split
  lastId,     \* the last id given out
  writing,    \* the upload that holds the seal's lock, or "free"
  upload,     \* uploads in progress
  shown,      \* the row an administrator is about to remove, as a page showed it
  removals,   \* share_removal_audit: ids of rows removed
  release     \* the release in progress

recordVars == <<pinned, records, highWater>>
shareVars == <<shares, lastId, removals>>
uploadVars == <<writing, upload>>
shareReleaseVars ==
  <<recordVars, shareVars, uploadVars, shown, release>>

(* What a share is: the share of its slot in the split of one generation's *)
(* key. One of another seal's key is, to a release of this seal, no        *)
(* different from one of another generation.                               *)
Row == [id : 1..MaxRows, slot : Slots, tag : Generations, of : Generations]
NoUpload == [at |-> "none", stored |-> 0]
NoRelease == [at |-> "none", path |-> "standard", status |-> "unknown",
              policy |-> 0, rows |-> {}, before |-> {}, key |-> {},
              missed |-> FALSE, audited |-> FALSE, time |-> 0]

ReleaseTypeOK ==
  /\ pinned \in BOOLEAN
  /\ records \subseteq Generations
  /\ highWater \in {{}} \cup {{g} : g \in Generations}
  /\ shares \subseteq Row /\ lastId \in 0..MaxRows
  /\ writing \in Uploads \cup {"free"}
  /\ upload \in [Uploads ->
       [at : {"none", "mark", "scan", "lock", "store"},
        stored : Generations]]
  /\ shown \subseteq Row
  /\ removals \subseteq 1..MaxRows
  /\ release \in
       [at : {"none", "resolve", "seed", "owner", "decide", "stamp", "unwrap",
              "audit", "answer"},
        path : {"standard", "timelock", "admin"},
        status : {"unknown", "verified", "expired", "unauthenticated",
                  "blocked"},
        policy : Generations, rows : SUBSET Row, before : SUBSET Row,
        key : SUBSET Keys, missed : BOOLEAN, audited : BOOLEAN,
        time : 0..ReleaseMaxClock]

Top(S) == IF S = {} THEN 0 ELSE CHOOSE g \in S : \A h \in S : h <= g
Readable == IF pinned THEN records ELSE {}

(* current_generation: the mark decides, else the stored maximum.          *)
CurrentGeneration == IF highWater # {} THEN Top(highWater) ELSE Top(Readable)

(* A seal may have records of before the mark, or of a time without a CA. *)
ShareReleaseInit ==
  /\ pinned \in BOOLEAN
  /\ records \in SUBSET Generations
  /\ highWater \in {{}} \cup {{Top(records)} : g \in records}
  /\ shares = {} /\ lastId = 0
  /\ writing = "free"
  /\ upload = [u \in Uploads |-> NoUpload]
  /\ shown = {} /\ removals = {}
  /\ release = NoRelease

-------------------------------------------------------------------------------
(* Sync admission, as far as shares and releases see it. *)

(* A record whose policy verifies: in one transaction under the lock.      *)
AdmitPolicy(g) ==
  /\ pinned /\ writing = "free"
  /\ g >= CurrentGeneration
  /\ records' = records \cup {g}
  /\ highWater' = {g}
  /\ UNCHANGED <<pinned, shareVars, uploadVars, shown, release>>

-------------------------------------------------------------------------------
(* Upload of a share. *)

(* checked_share; the share itself is not looked at before it is stored.   *)
BeginUpload(u) ==
  /\ upload[u].at = "none"
  /\ upload' = [upload EXCEPT ![u].at = "mark"]
  /\ UNCHANGED <<recordVars, shareVars, writing, shown, release>>

(* _stored_generation_unless_marked, before the lock. *)
ReadMark(u) ==
  /\ upload[u].at = "mark"
  /\ upload' = [upload EXCEPT ![u].at = IF highWater = {} THEN "scan" ELSE "lock"]
  /\ UNCHANGED <<recordVars, shareVars, writing, shown, release>>

ReadStored(u) ==
  /\ upload[u].at = "scan"
  /\ upload' = [upload EXCEPT ![u].at = "lock", ![u].stored = Top(Readable)]
  /\ UNCHANGED <<recordVars, shareVars, writing, shown, release>>

(* Mutant of TagUnderLock: a value read before the lock is used unchanged. *)
TagAsRead(u) == upload[u].stored

(* The generation, resolved again under the lock. *)
TagUnderLock(u) ==
  IF highWater # {} THEN Top(highWater) ELSE upload[u].stored

LockUpload(u) ==
  /\ upload[u].at = "lock"
  /\ writing = "free"
  /\ writing' = u
  /\ upload' = [upload EXCEPT ![u].at = "store", ![u].stored = TagUnderLock(u)]
  /\ UNCHANGED <<recordVars, shareVars, shown, release>>

(* store_key_share: stored, or left as it is (identical, conflict). *)
StoreShare(u, slot, of) ==
  LET tag == upload[u].stored
      taken == \E row \in shares : row.slot = slot /\ row.tag = tag
  IN
  /\ upload[u].at = "store"
  /\ taken \/ lastId < MaxRows
  /\ lastId' = IF taken THEN lastId ELSE lastId + 1
  /\ shares' = IF taken THEN shares ELSE shares \cup
       {[id |-> lastId + 1, slot |-> slot, tag |-> tag, of |-> of]}
  /\ writing' = "free"
  /\ upload' = [upload EXCEPT ![u] = NoUpload]
  /\ UNCHANGED <<recordVars, removals, shown, release>>

(* Keys missing, a lock timeout, an error: rolled back. *)
FailUpload(u) ==
  /\ upload[u].at \in {"scan", "lock", "store"}
  /\ writing' = IF writing = u THEN "free" ELSE writing
  /\ upload' = [upload EXCEPT ![u] = NoUpload]
  /\ UNCHANGED <<recordVars, shareVars, shown, release>>

-------------------------------------------------------------------------------
(* Removal by an administrator. *)

ShowShare(row) ==
  /\ shown' = {row}
  /\ UNCHANGED <<recordVars, shareVars, uploadVars, release>>

(* Mutant of SameRow: the slot and generation of the page are trusted. *)
SamePlace(row, seen) == row.slot = seen.slot /\ row.tag = seen.tag

(* remove_key_share deletes the row of that place if it has the shown id. *)
SameRow(row, seen) ==
  row.slot = seen.slot /\ row.tag = seen.tag /\ row.id = seen.id

(* The row and its audit entry, in one transaction. A place found empty or *)
(* changed, and any failure, leaves everything as it was.                  *)
RemoveShare(seen) ==
  /\ seen \in shown /\ writing = "free"
  /\ \E row \in shares :
       /\ SameRow(row, seen)
       /\ shares' = shares \ {row}
       /\ removals' = removals \cup {row.id}
  /\ UNCHANGED <<recordVars, lastId, uploadVars, shown, release>>

-------------------------------------------------------------------------------
(* The release. *)

OwnerRows(rows) == {row \in rows : row.slot = 1}
AdminRows(rows) == {row \in rows : row.slot = 4}

(* The key that shares of one split give; a strict one needs the owner's.  *)
(* Shares of different splits give another key, or none.                   *)
KeyOf(used) ==
  IF Strict /\ ~\E s \in used : s.slot = 1 THEN {}
  ELSE IF \E g \in Generations : \A s \in used : s.of = g
  THEN {s.of : s \in used} ELSE {Another}

Presented(slot, of) == [slot |-> slot, of |-> of]

(* A request; a share that is not well-formed is refused and audited. The  *)
(* administrator's page reads the shares before the gate reads the policy. *)
BeginRelease(path) ==
  /\ release.at = "none"
  /\ release' = [NoRelease EXCEPT
       !.at = "resolve", !.path = path,
       !.rows = IF path = "admin" THEN shares ELSE {},
       !.before = IF path = "standard" THEN OwnerRows(shares) ELSE {}]
  /\ UNCHANGED <<recordVars, shareVars, uploadVars, shown>>

NextAfterPolicy == IF release.path = "admin" THEN "decide" ELSE "owner"

(* _resolve_policy: an authenticated policy is the one of the current      *)
(* generation; a seal enrolled before never falls back. A policy that does *)
(* not verify and a record that cannot be read block every path.           *)
ResolvePolicy ==
  /\ release.at = "resolve"
  /\ \E status \in {"verified", "expired", "unauthenticated", "blocked"} :
       /\ (status \in {"verified", "expired"}) <=>
            (Readable # {} /\ CurrentGeneration \in Readable)
       /\ status = "unauthenticated" => highWater = {}
       /\ release' = [release EXCEPT
            !.status = status,
            !.policy = IF status \in {"verified", "expired"}
                       THEN CurrentGeneration ELSE 0,
            !.at = IF status \in {"verified", "expired"} THEN "seed"
                   ELSE NextAfterPolicy]
  /\ UNCHANGED <<recordVars, shareVars, uploadVars, shown>>

(* _backfill_mark: a write of its own, outside the lock; it may fail.      *)
SeedMark ==
  /\ release.at = "seed"
  /\ highWater' \in {highWater, IF highWater = {} THEN {release.policy}
                                ELSE highWater}
  /\ release' = [release EXCEPT !.at = NextAfterPolicy]
  /\ UNCHANGED <<pinned, records, shareVars, uploadVars, shown>>

PolicyVerified == release.status \in {"verified", "expired"}

(* Any path may end in a denial: shares missing or malformed, operator or  *)
(* reason missing, configuration incomplete, an exception, a policy that   *)
(* RELEASE_REQUIRE_POLICY asks for; and before the unlock time, by the     *)
(* host's clock, which may be set to anything and can only deny here.      *)
DenyRelease ==
  /\ release.at \in {"resolve", "owner", "decide", "stamp", "unwrap"}
  /\ release' = [NoRelease EXCEPT !.at = "audit"]
  /\ UNCHANGED <<recordVars, shareVars, uploadVars, shown>>

(* The owner's shares, all generations of slot 1. The time-locked path     *)
(* needs a policy that is verified, and the shares only in strict mode.    *)
ReadOwner ==
  /\ release.at = "owner"
  /\ release.status # "blocked"
  /\ release.path = "timelock" => release.status = "verified"
  /\ release.path = "standard" \/ Strict => OwnerRows(shares) # {}
  /\ release' = [release EXCEPT
       !.rows = OwnerRows(shares),
       !.at = IF release.path = "timelock" THEN "stamp" ELSE "decide"]
  /\ UNCHANGED <<recordVars, shareVars, uploadVars, shown>>

(* Mutant of NotBefore: the accuracy of the token is left out. *)
NotBeforeStated(genTime) == genTime >= Unlock[release.policy]

NotBefore(genTime) == genTime - Accuracy >= Unlock[release.policy]

(* A fresh token, from an authority whose clock is within its accuracy.    *)
StampPolicy(time, genTime) ==
  /\ release.at = "stamp"
  /\ genTime - time \in (0 - Accuracy)..Accuracy
  /\ NotBefore(genTime)
  /\ release' = [release EXCEPT !.at = "unwrap", !.time = time]
  /\ UNCHANGED <<recordVars, shareVars, uploadVars, shown>>

(* Mutant of Matching: only shares of the policy's generation are tried. *)
MatchingTag(tries, policy) ==
  {used \in tries : /\ \A s \in used : "tag" \in DOMAIN s => s.tag = policy
                    /\ KeyOf(used) = {policy}}

(* Mutant of Matching: what recombines is taken without its commitment. *)
Recombining(tries, policy) == {used \in tries : KeyOf(used) # {}}

(* first_match: the order in which shares are tried does not change the    *)
(* outcome, since the commitment of the policy is the only arbiter.        *)
Matching(tries, policy) == {used \in tries : KeyOf(used) = {policy}}

(* What the paths recombine: sets of shares, each with its slot.           *)
OwnerTries(others) == {{row} \cup others : row \in release.rows}
AdminTries ==
  {{row, other} : row \in AdminRows(release.rows),
                  other \in release.rows \ AdminRows(release.rows)}

Combine(tries, genuine, policy) ==
  LET missed == genuine /\ Matching(tries, policy) = {} IN
  release' = [release EXCEPT
    !.at = "audit", !.rows = {},
    !.key = UNION {KeyOf(used) : used \in Matching(tries, policy)},
    !.missed = missed,
    !.before = IF missed THEN @ ELSE {}]

(* The newest envelope that authenticates under the policy's digest gives  *)
(* s3 of its split; all others are skipped, and none is a denial.          *)
UnwrapAndCombine(presented) ==
  LET s2 == Presented(2, presented)
      s3 == Presented(3, release.policy)
  IN
  /\ release.at = "unwrap"
  /\ Combine(IF Strict THEN OwnerTries({s2, s3}) ELSE {{s2, s3}},
             FALSE, release.policy)
  /\ UNCHANGED <<recordVars, shareVars, uploadVars, shown>>

(* Without a policy, the commitment is the one the newest record names.    *)
DecideStandard(presented, commitment) ==
  /\ release.at = "decide" /\ release.path = "standard"
  /\ PolicyVerified => commitment = release.policy
  /\ Combine(OwnerTries({Presented(2, presented)}),
             PolicyVerified /\ presented = commitment, commitment)
  /\ UNCHANGED <<recordVars, shareVars, uploadVars, shown>>

DecideAdmin ==
  /\ release.at = "decide" /\ release.path = "admin"
  /\ AdminTries # {} /\ PolicyVerified
  /\ Combine(AdminTries, FALSE, release.policy)
  /\ UNCHANGED <<recordVars, shareVars, uploadVars, shown>>

(* Without a policy: share 4 and the lowest other slot of generation 0,    *)
(* whatever they give, unless the recombination fails.                     *)
DecideUnauthenticated ==
  LET zero == {row \in release.rows : row.tag = 0} IN
  /\ release.at = "decide" /\ release.path = "admin"
  /\ release.status = "unauthenticated"
  /\ \E row \in AdminRows(zero), other \in zero \ AdminRows(zero) :
       /\ \A third \in zero \ AdminRows(zero) : other.slot <= third.slot
       /\ release' = [release EXCEPT !.at = "audit", !.rows = {},
                                       !.key = KeyOf({row, other})]
  /\ UNCHANGED <<recordVars, shareVars, uploadVars, shown>>

(* _finish: the audit row is committed, then the answer is made. *)
WriteAudit ==
  /\ release.at = "audit"
  /\ release' = [release EXCEPT !.at = "answer", !.audited = TRUE,
                                !.missed = FALSE, !.before = {}]
  /\ UNCHANGED <<recordVars, shareVars, uploadVars, shown>>

(* Mutant of WithoutAudit: the decision is returned as it was made. *)
AnswerUnaudited == release

(* audit_unavailable: what would have been released is withheld. *)
WithoutAudit == NoRelease

FailAudit ==
  /\ release.at = "audit"
  /\ release' = [WithoutAudit EXCEPT !.at = "answer", !.missed = FALSE,
                                     !.before = {}]
  /\ UNCHANGED <<recordVars, shareVars, uploadVars, shown>>

AnswerRelease ==
  /\ release.at = "answer"
  /\ release' = NoRelease
  /\ UNCHANGED <<recordVars, shareVars, uploadVars, shown>>

-------------------------------------------------------------------------------
(* The worker restarts, with or without a CA. *)

RestartHost ==
  /\ pinned' \in BOOLEAN
  /\ writing' = "free"
  /\ upload' = [u \in Uploads |-> NoUpload]
  /\ release' = NoRelease
  /\ UNCHANGED <<records, highWater, shareVars, shown>>

UploadStep(u) ==
  \/ BeginUpload(u) \/ ReadMark(u) \/ ReadStored(u) \/ LockUpload(u)
  \/ \E slot \in Slots, of \in Generations : StoreShare(u, slot, of)
  \/ FailUpload(u)

ReleaseStep ==
  \/ \E path \in {"standard", "timelock", "admin"} : BeginRelease(path)
  \/ ResolvePolicy \/ SeedMark \/ DenyRelease \/ ReadOwner
  \/ \E time \in 0..ReleaseMaxClock,
        genTime \in (0 - Accuracy)..(ReleaseMaxClock + Accuracy) :
       StampPolicy(time, genTime)
  \/ DecideAdmin \/ DecideUnauthenticated
  \/ \E s2 \in Generations :
       UnwrapAndCombine(s2) \/ \E g \in Generations : DecideStandard(s2, g)
  \/ WriteAudit \/ FailAudit \/ AnswerRelease

ShareReleaseNext ==
  \/ \E g \in Generations : AdmitPolicy(g)
  \/ \E u \in Uploads : UploadStep(u)
  \/ \E row \in shares : ShowShare(row)
  \/ \E seen \in shown : RemoveShare(seen)
  \/ ReleaseStep
  \/ RestartHost

ShareReleaseSpec == ShareReleaseInit /\ [][ShareReleaseNext]_shareReleaseVars

-------------------------------------------------------------------------------
(* Properties. *)

(* A share is stored under the seal's generation at that moment, although  *)
(* the records were read before the lock and a record may be admitted, or  *)
(* a release may seed the mark, in between (web/share_upload.py); and it   *)
(* leaves the store only as the very row an administrator's page showed,   *)
(* never one uploaded into the same place since, and not without its audit *)
(* entry (web/share_removal.py).                                           *)
TaggedCurrent == \A row \in shares' \ shares : row.tag = CurrentGeneration
TakenAsShown ==
  \A row \in shares \ shares' : row \in shown /\ row.id \in removals'

SharesChangeAsShown == [][TaggedCurrent /\ TakenAsShown]_shareReleaseVars

(* A key released on a policy is that policy's key, whichever shares of    *)
(* whichever generations and splits are stored and tried.                  *)
KeyOfThePolicy ==
  release.key # {} /\ PolicyVerified => release.key = {release.policy}

(* The genuine owner share, stored before the request and under whatever   *)
(* generation, is found with the genuine share of the requester: shares    *)
(* uploaded or removed meanwhile, wrong ones and those of other            *)
(* generations do not stand in its way.                                    *)
GenuineShareIsFound ==
  release.missed =>
    ~\E row \in release.before \cap shares :
       row.slot = 1 /\ row.of = release.policy

(* The policy's key, and whenever the stored shares allow it, in every     *)
(* state the tables and the request are well-formed in.                    *)
RightKeyIsReleased == ReleaseTypeOK /\ KeyOfThePolicy /\ GenuineShareIsFound

(* No key of the time-locked path before the unlock time of its policy,    *)
(* whatever the host's clock says and however inexact the token is.        *)
TimelockNeverEarly ==
  release.key # {} /\ release.path = "timelock" =>
    release.time >= Unlock[release.policy]

(* No key is in an answer whose audit row is not committed. *)
KeyIsAudited ==
  release.at = "answer" /\ release.key # {} => release.audited
===============================================================================
