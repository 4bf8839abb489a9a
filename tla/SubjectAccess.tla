----------------------------- MODULE SubjectAccess -----------------------------
(***************************************************************************)
(* The subject's authentication for one seal whose level includes the      *)
(* e-mail code (web/routes/suspect.py, web/auth/auth_chain.py,             *)
(* web/auth/otp_service.py, web/privacy/case_identity.py): logins and code *)
(* deliveries of one client address that run at the same time, the         *)
(* lockout, the delivery cap under the seal's write lock, the codes kept   *)
(* in the memory of one worker process, and the session cookie, which the  *)
(* client keeps.                                                           *)
(***************************************************************************)
EXTENDS Naturals, Sequences, FiniteSets

CONSTANTS
  Visits,            \* requests in progress at one time
  MaxFailures,       \* AUTH_MAX_FAILURES
  LockoutWindow,     \* AUTH_LOCKOUT_SECONDS
  DeliveryCap,       \* OTP_MAX_DELIVERIES_PER_SEAL
  DeliveryWindow,    \* OTP_DELIVERY_WINDOW_SECONDS
  CodeExpiry,        \* OTP_EXPIRY_SECONDS
  MaxReveals,        \* bound: deliveries
  MaxFailed,         \* bound: recorded failures
  SubjectMaxClock    \* bound of the clock

ASSUME SubjectConstants ==
  /\ {MaxFailures, LockoutWindow, DeliveryCap, DeliveryWindow, CodeExpiry,
      MaxReveals, MaxFailed, SubjectMaxClock} \subseteq Nat
  /\ IsFiniteSet(Visits) /\ Visits # {} /\ "free" \notin Visits

VARIABLES
  failures,   \* auth_failures of this seal and address: the times
  reveals,    \* identity_access_audit, code deliveries revealed: the times
  codes,      \* OTPService._store: deliveries whose code can be tried
  storedAt,   \* created_at of each delivery's code
  cookie,     \* otp_session_ of the browser: a delivery, or 0 for another id
  sealLock,   \* the visit that holds the seal's write lock, or "free"
  visit,      \* what each request in progress has done so far
  subjectNow, \* the clock
  mailed,     \* history: deliveries whose e-mail went out
  tried,      \* history: how often each delivery's code was compared
  lost        \* history: deliveries whose code was lost with the process

subjectVars == <<failures, reveals, codes, storedAt, cookie, sealLock, visit,
                 subjectNow, mailed, tried, lost>>
otp == <<codes, storedAt, tried, lost>>
tables == <<failures, reveals>>

Deliveries == 1..MaxReveals
Away == [at |-> "away", kind |-> "login", presented |-> 0, stamp |-> 0,
         delivery |-> 0]
VisitStages == {"away", "lockout", "factors", "otp", "fail", "lock", "count",
                "reveal", "store", "send", "respond"}

SubjectTypeOK ==
  /\ failures \in Seq(Nat)
  /\ reveals \in Seq(Nat)
  /\ codes \subseteq Deliveries
  /\ storedAt \in [Deliveries -> Nat]
  /\ cookie \in Deliveries \cup {0}
  /\ sealLock \in Visits \cup {"free"}
  /\ visit \in [Visits -> [at : VisitStages, kind : {"login", "send"},
                           presented : Deliveries \cup {0}, stamp : Nat,
                           delivery : Deliveries \cup {0}]]
  /\ subjectNow \in Nat
  /\ mailed \subseteq Deliveries
  /\ tried \in [Deliveries -> Nat]
  /\ lost \subseteq Deliveries

SubjectInit ==
  /\ failures = <<>> /\ reveals = <<>>
  /\ codes = {}
  /\ storedAt = [d \in Deliveries |-> 0]
  /\ cookie = 0
  /\ sealLock = "free"
  /\ visit = [v \in Visits |-> Away]
  /\ subjectNow = 0
  /\ mailed = {}
  /\ tried = [d \in Deliveries |-> 0]
  /\ lost = {}

Stage(v, stage) == visit[v].at = stage
MoveTo(v, stage) == visit' = [visit EXCEPT ![v].at = stage]
Leave(v) == visit' = [visit EXCEPT ![v] = Away]

RecentFailures ==
  {i \in DOMAIN failures : failures[i] + LockoutWindow > subjectNow}
RecentReveals ==
  {i \in DOMAIN reveals : reveals[i] + DeliveryWindow >= subjectNow}

-------------------------------------------------------------------------------
(* The lockout and the factors, for a login and for a delivery.            *)

(* A POST of the login form or of the delivery request. The browser sends  *)
(* its cookie; a response that arrived late may have set an older one.     *)
Submit(v, kind, presented) ==
  /\ Stage(v, "away")
  /\ presented \in mailed \cup {cookie}
  /\ visit' = [visit EXCEPT ![v] = [Away EXCEPT !.at = "lockout",
                                     !.kind = kind, !.presented = presented]]
  /\ UNCHANGED <<tables, otp, cookie, sealLock, subjectNow, mailed>>

(* Mutant: the attempt that reaches the limit is let through again. *)
PassAtLimit(v) ==
  /\ Stage(v, "lockout")
  /\ Cardinality(RecentFailures) <= MaxFailures
  /\ MoveTo(v, "factors")
  /\ UNCHANGED <<tables, otp, cookie, sealLock, subjectNow, mailed>>

(* _locked: one count of recorded failures. *)
PassLockout(v) ==
  /\ Stage(v, "lockout")
  /\ Cardinality(RecentFailures) < MaxFailures
  /\ MoveTo(v, "factors")
  /\ UNCHANGED <<tables, otp, cookie, sealLock, subjectNow, mailed>>

RefuseLocked(v) ==
  /\ Stage(v, "lockout")
  /\ Cardinality(RecentFailures) >= MaxFailures
  /\ Leave(v)
  /\ UNCHANGED <<tables, otp, cookie, sealLock, subjectNow, mailed>>

(* AuthChain.run up to the e-mail code: name, birth date and phone, then   *)
(* the password. A login goes on to the code, a delivery to the seal's     *)
(* lock. A code left empty fails without a comparison.                     *)
PassFactors(v) ==
  /\ Stage(v, "factors")
  /\ MoveTo(v, IF visit[v].kind = "login" THEN "otp" ELSE "lock")
  /\ UNCHANGED <<tables, otp, cookie, sealLock, subjectNow, mailed>>

FailFactors(v) ==
  /\ Stage(v, "factors")
  /\ MoveTo(v, "fail")
  /\ UNCHANGED <<tables, otp, cookie, sealLock, subjectNow, mailed>>

(* Keys missing or the derivation pool full (503): not a failed attempt.   *)
RefuseUnavailable(v) ==
  /\ Stage(v, "factors")
  /\ Leave(v)
  /\ UNCHANGED <<tables, otp, cookie, sealLock, subjectNow, mailed>>

RecordFailure(v) ==
  /\ Stage(v, "fail")
  /\ Len(failures) < MaxFailed
  /\ failures' = Append(failures, subjectNow)
  /\ Leave(v)
  /\ UNCHANGED <<reveals, otp, cookie, sealLock, subjectNow, mailed>>

-------------------------------------------------------------------------------
(* The code. *)

(* verify_otp takes the entry out before it looks at it, whatever follows. *)
TakeCode(d) == codes' = codes \ {d}

Valid(d) == d \in codes /\ subjectNow <= storedAt[d] + CodeExpiry

(* The last factor of a login: the entry of the presented session id.      *)
VerifyCode(v, right) ==
  LET d == visit[v].presented IN
  /\ Stage(v, "otp")
  /\ TakeCode(d)
  /\ tried' = IF Valid(d) THEN [tried EXCEPT ![d] = @ + 1] ELSE tried
  /\ IF Valid(d) /\ right THEN Leave(v) ELSE MoveTo(v, "fail")
  /\ UNCHANGED <<tables, storedAt, lost, cookie, sealLock, subjectNow, mailed>>

-------------------------------------------------------------------------------
(* The delivery. *)

(* Mutant: the transaction begins as a reader. *)
BeginUnlocked(v) ==
  /\ Stage(v, "lock")
  /\ sealLock' = v
  /\ MoveTo(v, "count")
  /\ UNCHANGED <<tables, otp, cookie, subjectNow, mailed>>

(* seal_write_transaction; a lock timeout ends the request (503). *)
LockSeal(v) ==
  /\ Stage(v, "lock")
  /\ sealLock = "free"
  /\ sealLock' = v
  /\ MoveTo(v, "count")
  /\ UNCHANGED <<tables, otp, cookie, subjectNow, mailed>>

GiveUpLock(v) ==
  /\ Stage(v, "lock")
  /\ sealLock # "free"
  /\ Leave(v)
  /\ UNCHANGED <<tables, otp, cookie, sealLock, subjectNow, mailed>>

(* recent_reveals, then the time of the audit entry. *)
CountReveals(v) ==
  /\ Stage(v, "count")
  /\ Cardinality(RecentReveals) < DeliveryCap
  /\ visit' = [visit EXCEPT ![v].at = "reveal", ![v].stamp = subjectNow]
  /\ UNCHANGED <<tables, otp, cookie, sealLock, subjectNow, mailed>>

RefuseDelivery(v) ==
  /\ Stage(v, "count")
  /\ Cardinality(RecentReveals) >= DeliveryCap
  /\ sealLock' = "free"
  /\ Leave(v)
  /\ UNCHANGED <<tables, otp, cookie, subjectNow, mailed>>

(* reveal_case_field: the insert of the audit row commits, and that ends   *)
(* the transaction and its lock.                                           *)
AuditReveal(v) ==
  /\ Stage(v, "reveal")
  /\ Len(reveals) < MaxReveals
  /\ reveals' = Append(reveals, visit[v].stamp)
  /\ sealLock' = "free"
  /\ visit' = [visit EXCEPT ![v].at = "store", ![v].delivery = Len(reveals) + 1]
  /\ UNCHANGED <<failures, otp, cookie, subjectNow, mailed>>

(* No e-mail stored, a value that does not decrypt, an audit row that      *)
(* cannot be written: rolled back, nothing revealed, nothing counted.      *)
FailReveal(v) ==
  /\ Stage(v, "reveal")
  /\ sealLock' = "free"
  /\ Leave(v)
  /\ UNCHANGED <<tables, otp, cookie, subjectNow, mailed>>

Expired(d) == subjectNow > storedAt[d] + CodeExpiry

(* Mutant: one code for each seal. *)
ReplaceCodes(v) ==
  LET d == visit[v].delivery IN
  /\ Stage(v, "store")
  /\ codes' = {d}
  /\ storedAt' = [storedAt EXCEPT ![d] = subjectNow]
  /\ MoveTo(v, "send")
  /\ UNCHANGED <<tables, tried, lost, cookie, sealLock, subjectNow, mailed>>

(* store_otp under the store's own lock. *)
StoreCode(v) ==
  LET d == visit[v].delivery IN
  /\ Stage(v, "store")
  /\ codes' = {c \in codes : ~Expired(c)} \cup {d}
  /\ storedAt' = [storedAt EXCEPT ![d] = subjectNow]
  /\ MoveTo(v, "send")
  /\ UNCHANGED <<tables, tried, lost, cookie, sealLock, subjectNow, mailed>>

(* SMTP may fail; the session then still names the new id. *)
SendMail(v) ==
  /\ Stage(v, "send")
  /\ mailed' \in {mailed, mailed \cup {visit[v].delivery}}
  /\ MoveTo(v, "respond")
  /\ UNCHANGED <<tables, otp, cookie, sealLock, subjectNow>>

(* The response sets the cookie (fetch), in whatever order responses come. *)
Respond(v) ==
  /\ Stage(v, "respond")
  /\ cookie' = visit[v].delivery
  /\ Leave(v)
  /\ UNCHANGED <<tables, otp, sealLock, subjectNow, mailed>>

(* GET /suspect/auth: the page names an id of its own, with no code.       *)
OpenPage ==
  /\ cookie' = 0
  /\ UNCHANGED <<tables, otp, sealLock, visit, subjectNow, mailed>>

-------------------------------------------------------------------------------

(* The worker process ends: its codes, its requests and their locks go.    *)
StopWorker ==
  /\ codes' = {}
  /\ lost' = lost \cup codes \cup ({visit[v].delivery : v \in Visits} \ {0})
  /\ visit' = [v \in Visits |-> Away]
  /\ sealLock' = "free"
  /\ UNCHANGED <<tables, storedAt, tried, cookie, subjectNow, mailed>>

SubjectTick ==
  /\ subjectNow < SubjectMaxClock
  /\ subjectNow' = subjectNow + 1
  /\ UNCHANGED <<tables, otp, cookie, sealLock, visit, mailed>>

VisitStep(v) ==
  \/ \E kind \in {"login", "send"}, d \in Deliveries \cup {0} :
       Submit(v, kind, d)
  \/ PassLockout(v) \/ RefuseLocked(v)
  \/ PassFactors(v) \/ FailFactors(v) \/ RefuseUnavailable(v)
  \/ RecordFailure(v)
  \/ \E right \in BOOLEAN : VerifyCode(v, right)
  \/ LockSeal(v) \/ GiveUpLock(v) \/ CountReveals(v) \/ RefuseDelivery(v)
  \/ AuditReveal(v) \/ FailReveal(v) \/ StoreCode(v) \/ SendMail(v) \/ Respond(v)

SubjectNext ==
  \/ \E v \in Visits : VisitStep(v)
  \/ OpenPage \/ StopWorker \/ SubjectTick

SubjectSpec == SubjectInit /\ [][SubjectNext]_subjectVars

-------------------------------------------------------------------------------
(* Properties. *)

(* E-mails decrypted for a delivery within any window: never more than the *)
(* cap, whatever requests run at the same time, fail half-way or stop.     *)
(* The check and the audit row count as one step only because the commit   *)
(* of that row is what ends the lock (_reveal_email_within_cap).           *)
DeliveriesWithinCap == Cardinality(RecentReveals) <= DeliveryCap

(* Requests that pass the lockout together may each record a failure: the  *)
(* limit is exceeded by at most the requests in progress less one.         *)
FailuresNearLimit ==
  Cardinality(RecentFailures) < MaxFailures + Cardinality(Visits)

(* Each delivered code is compared at most once, right or wrong, also by   *)
(* two logins at the same time: guesses are bounded by deliveries.  And a  *)
(* code that was mailed, whose session the browser still names, that has   *)
(* not expired, was not compared and not lost with its process can be      *)
(* tried: neither a second delivery nor its pruning takes it away.         *)
CodeCanBeTriedOnce ==
  /\ \A d \in Deliveries : tried[d] <= 1
  /\ \A d \in mailed \cap {cookie} :
       ~Expired(d) /\ tried[d] = 0 /\ d \notin lost => d \in codes
===============================================================================
