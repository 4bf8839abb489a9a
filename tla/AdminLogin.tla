------------------------------ MODULE AdminLogin ------------------------------
(***************************************************************************)
(* Administrator logins and sessions of the release host, and the case     *)
(* registrations they open (web/routes/admin.py, web/auth/admin_auth.py,   *)
(* web/models/admin_models.py, web/routes/investigator.py): one client     *)
(* address, one worker process that may stop at any point, requests that   *)
(* may end with an error at any statement, and the rows of auth_failures   *)
(* that make up the budgets of both.                                       *)
(*                                                                         *)
(* Every statement on the database is an action of its own, since neither  *)
(* route takes a lock: a row is inserted and committed first and counted   *)
(* afterwards.                                                             *)
(***************************************************************************)
EXTENDS Naturals, FiniteSets

CONSTANTS
  Accounts,         \* names of administrator accounts
  Requests,         \* requests in progress at one time
  Rows,             \* ids of auth_failures, in the order of insertion
  Limit,            \* AUTH_MAX_FAILURES
  RegistrationLimit,\* CASE_REGISTRATION_MAX_PER_ADDRESS
  AdminWindow,      \* AUTH_LOCKOUT_SECONDS, CASE_REGISTRATION_WINDOW_SECONDS
  LoginSlots,       \* ADMIN_LOGIN_MAX_CONCURRENT
  HashSlots,        \* CASE_PASSWORD_MAX_CONCURRENT
  AdminMaxClock     \* bound of the clock

ASSUME AdminConstants ==
  /\ Rows \subseteq Nat \ {0}
  /\ IsFiniteSet(Rows)
  /\ {Limit, RegistrationLimit, AdminWindow, LoginSlots, HashSlots,
      AdminMaxClock} \subseteq Nat

VARIABLES
  account,   \* admin_accounts: "none", "enabled" or "disabled" for each name
  cookies,   \* accounts for which a session cookie was issued, kept by clients
  key,       \* auth_failures.seal_id of each row, "none" where there is no row
  failedAt,  \* auth_failures.failed_at of each row
  lastRow,   \* the last id given out (AUTOINCREMENT: never reused)
  request,   \* what each request in progress has read and decided
  adminNow,  \* the clock, in seconds
  granted,   \* history: rows that passed a budget and were not withdrawn
  counted,   \* history: for a granted login, the rows its counts saw
  orphaned   \* history: rows whose request ended with an error or its process

adminVars == <<account, cookies, key, failedAt, lastRow, request, adminNow,
               granted, counted, orphaned>>
budget == <<key, failedAt, lastRow, granted, counted, orphaned>>
people == <<account, cookies>>

Pending == "@admin-login-pending"
Failure == "@admin-login"
Registration == "@case-registration"
Stages == {"idle", "count pending", "count failed", "derive", "check", "fail",
           "succeed", "withdraw", "session", "serve", "count registrations",
           "hash", "hashing"}

Idle == [at |-> "idle", row |-> 0, name |-> "", right |-> FALSE,
         pending |-> {}, read |-> "none"]

AdminTypeOK ==
  /\ account \in [Accounts -> {"none", "enabled", "disabled"}]
  /\ cookies \subseteq Accounts
  /\ key \in [Rows -> {"none", Pending, Failure, Registration}]
  /\ failedAt \in [Rows -> Nat]
  /\ lastRow \in Nat
  /\ request \in [Requests ->
       [at : Stages, row : Nat, name : Accounts \cup {""}, right : BOOLEAN,
        pending : SUBSET Rows, read : {"none", "enabled", "disabled"}]]
  /\ adminNow \in Nat
  /\ granted \subseteq Rows
  /\ counted \in [Rows -> SUBSET Rows]
  /\ orphaned \subseteq Rows

AdminInit ==
  /\ account = [a \in Accounts |-> "none"]
  /\ cookies = {}
  /\ key = [r \in Rows |-> "none"]
  /\ failedAt = [r \in Rows |-> 0]
  /\ lastRow = 0
  /\ request = [q \in Requests |-> Idle]
  /\ adminNow = 0
  /\ granted = {}
  /\ counted = [r \in Rows |-> {}]
  /\ orphaned = {}

-------------------------------------------------------------------------------
(* The rows of the budget. *)

Recent(r) == failedAt[r] + AdminWindow > adminNow

(* count_recent_auth_failures: the rows one SELECT COUNT( * ) counts.      *)
RecentRows(k) == {r \in Rows : key[r] = k /\ Recent(r)}

(* record_auth_failure, committed before anything is counted. *)
InsertRow(k) ==
  /\ lastRow + 1 \in Rows
  /\ lastRow' = lastRow + 1
  /\ key' = [key EXCEPT ![lastRow + 1] = k]
  /\ failedAt' = [failedAt EXCEPT ![lastRow + 1] = adminNow]
  /\ UNCHANGED <<granted, counted, orphaned>>

GoTo(q, stage) == request' = [request EXCEPT ![q].at = stage]
Finish(q) == request' = [request EXCEPT ![q] = Idle]
At(q, stage) == request[q].at = stage

-------------------------------------------------------------------------------
(* The login. *)

(* POST /admin/login: the reservation. *)
Reserve(q, a, right) ==
  /\ At(q, "idle")
  /\ InsertRow(Pending)
  /\ request' = [request EXCEPT
       ![q] = [Idle EXCEPT !.at = "count pending", !.row = lastRow + 1,
                           !.name = a, !.right = right]]
  /\ UNCHANGED <<people, adminNow>>

CountPending(q) ==
  /\ At(q, "count pending")
  /\ request' = [request EXCEPT ![q].at = "count failed",
                                ![q].pending = RecentRows(Pending)]
  /\ UNCHANGED <<people, budget, adminNow>>

(* Mutant: attempts in progress do not count. *)
WithinFailures(q) == Cardinality(RecentRows(Failure)) + 1 <= Limit

(* The second count and the decision. *)
WithinBudget(q) ==
  Cardinality(request[q].pending) + Cardinality(RecentRows(Failure)) <= Limit

Grant(q) ==
  /\ At(q, "count failed")
  /\ WithinBudget(q)
  /\ GoTo(q, "derive")
  /\ granted' = granted \cup {request[q].row}
  /\ counted' = [counted EXCEPT
       ![request[q].row] = request[q].pending \cup RecentRows(Failure)]
  /\ UNCHANGED <<people, key, failedAt, lastRow, adminNow, orphaned>>

RefuseLogin(q) ==
  /\ At(q, "count failed")
  /\ ~WithinBudget(q)
  /\ GoTo(q, "withdraw")
  /\ UNCHANGED <<people, budget, adminNow>>

(* The process-wide semaphores are tried without waiting. *)
Holding(stage) == {q \in Requests : At(q, stage)}

(* authenticate_admin: a slot, then the account as it is now. *)
BeginCheck(q) ==
  /\ At(q, "derive")
  /\ Cardinality(Holding("check")) < LoginSlots
  /\ request' = [request EXCEPT ![q].at = "check",
                                ![q].read = account[request[q].name]]
  /\ UNCHANGED <<people, budget, adminNow>>

(* Mutant of RefuseBusy: the refusal does not withdraw the reservation. *)
RefuseBusyAtOnce(q) ==
  /\ At(q, "derive")
  /\ Cardinality(Holding("check")) >= LoginSlots
  /\ Finish(q)
  /\ UNCHANGED <<people, budget, adminNow>>

RefuseBusy(q) ==
  /\ At(q, "derive")
  /\ Cardinality(Holding("check")) >= LoginSlots
  /\ GoTo(q, "withdraw")
  /\ UNCHANGED <<people, budget, adminNow>>

(* The derivation ends; the account may have changed since it was read. *)
EndCheck(q) ==
  /\ At(q, "check")
  /\ GoTo(q, IF request[q].read = "enabled" /\ request[q].right
             THEN "succeed" ELSE "fail")
  /\ UNCHANGED <<people, budget, adminNow>>

(* relabel_auth_failure: the row keeps its time. *)
RecordLoginFailure(q) ==
  /\ At(q, "fail")
  /\ key' = [key EXCEPT ![request[q].row] = Failure]
  /\ Finish(q)
  /\ UNCHANGED <<people, failedAt, lastRow, adminNow, granted, counted,
                 orphaned>>

(* delete_auth_failure and the session of a login that succeeded. *)
DeleteRow(r) ==
  /\ key' = [key EXCEPT ![r] = "none"]
  /\ granted' = granted \ {r}
  /\ UNCHANGED <<failedAt, lastRow, counted, orphaned>>

OpenSession(q) ==
  /\ At(q, "succeed")
  /\ DeleteRow(request[q].row)
  /\ cookies' = cookies \cup {request[q].name}
  /\ Finish(q)
  /\ UNCHANGED <<account, adminNow>>

(* A refused attempt withdraws its row: locked, burst, busy, registration. *)
Withdraw(q) ==
  /\ At(q, "withdraw")
  /\ DeleteRow(request[q].row)
  /\ Finish(q)
  /\ UNCHANGED <<people, adminNow>>

-------------------------------------------------------------------------------
(* Requests under a session, and the registration of a case. *)

(* A request arrives with a cookie that was issued at some time. *)
Present(q, a) ==
  /\ At(q, "idle")
  /\ a \in cookies
  /\ request' = [request EXCEPT
       ![q] = [Idle EXCEPT !.at = "session", !.name = a]]
  /\ UNCHANGED <<people, budget, adminNow>>

(* _require_admin reads the account again. *)
ResolveSession(q) ==
  /\ At(q, "session")
  /\ account[request[q].name] = "enabled"
  /\ GoTo(q, "serve")
  /\ UNCHANGED <<people, budget, adminNow>>

EndSession(q) ==
  /\ At(q, "session")
  /\ account[request[q].name] # "enabled"
  /\ Finish(q)
  /\ UNCHANGED <<people, budget, adminNow>>

(* Pages, removals and releases take place without a budget. *)
Serve(q) ==
  /\ At(q, "serve")
  /\ Finish(q)
  /\ UNCHANGED <<people, budget, adminNow>>

(* register_case with a password: _reserve_registration. *)
ReserveRegistration(q) ==
  /\ At(q, "serve")
  /\ InsertRow(Registration)
  /\ request' = [request EXCEPT ![q].at = "count registrations",
                                ![q].row = lastRow + 1]
  /\ UNCHANGED <<people, adminNow>>

WithinRegistrations ==
  Cardinality(RecentRows(Registration)) <= RegistrationLimit

GrantRegistration(q) ==
  /\ At(q, "count registrations")
  /\ WithinRegistrations
  /\ GoTo(q, "hash")
  /\ granted' = granted \cup {request[q].row}
  /\ UNCHANGED <<people, key, failedAt, lastRow, adminNow, counted, orphaned>>

RefuseRegistration(q) ==
  /\ At(q, "count registrations")
  /\ ~WithinRegistrations
  /\ GoTo(q, "withdraw")
  /\ UNCHANGED <<people, budget, adminNow>>

(* hash_case_password holds a slot, and the row stays whatever happens     *)
(* afterwards; DerivationBusy withdraws it.                                *)
BeginHash(q) ==
  /\ At(q, "hash")
  /\ Cardinality(Holding("hashing")) < HashSlots
  /\ GoTo(q, "hashing")
  /\ UNCHANGED <<people, budget, adminNow>>

EndHash(q) ==
  /\ At(q, "hashing")
  /\ Finish(q)
  /\ UNCHANGED <<people, budget, adminNow>>

RefuseHash(q) ==
  /\ At(q, "hash")
  /\ Cardinality(Holding("hashing")) >= HashSlots
  /\ GoTo(q, "withdraw")
  /\ UNCHANGED <<people, budget, adminNow>>

-------------------------------------------------------------------------------
(* The account commands, the clock, the process. *)

CreateAccount(a) ==
  /\ account[a] = "none"
  /\ account' = [account EXCEPT ![a] = "enabled"]
  /\ UNCHANGED <<cookies, budget, request, adminNow>>

DisableAccount(a) ==
  /\ account[a] = "enabled"
  /\ account' = [account EXCEPT ![a] = "disabled"]
  /\ UNCHANGED <<cookies, budget, request, adminNow>>

(* These requests are gone; what their statements committed stays. *)
Abandon(Q) ==
  /\ \E q \in Q : ~At(q, "idle")
  /\ orphaned' = orphaned \cup {r \in Rows : \E q \in Q : request[q].row = r}
  /\ request' = [q \in Requests |-> IF q \in Q THEN Idle ELSE request[q]]
  /\ UNCHANGED <<people, key, failedAt, lastRow, adminNow, granted, counted>>

(* A statement of a request raises: a count, the account read, the relabel *)
(* or the delete.  The slot of a check is released by its finally; nothing *)
(* handles the row, and the process serves on.                             *)
RaiseError(q) == Abandon({q})

(* The worker process ends. *)
StopProcess == Abandon(Requests)

AdminTick ==
  /\ adminNow < AdminMaxClock
  /\ adminNow' = adminNow + 1
  /\ UNCHANGED <<people, budget, request>>

LoginStep(q) ==
  \/ \E a \in Accounts, right \in BOOLEAN : Reserve(q, a, right)
  \/ CountPending(q) \/ Grant(q) \/ RefuseLogin(q)
  \/ BeginCheck(q) \/ RefuseBusy(q) \/ EndCheck(q)
  \/ RecordLoginFailure(q) \/ OpenSession(q) \/ Withdraw(q)

SessionStep(q) ==
  \/ \E a \in Accounts : Present(q, a)
  \/ ResolveSession(q) \/ EndSession(q) \/ Serve(q)
  \/ ReserveRegistration(q) \/ GrantRegistration(q) \/ RefuseRegistration(q)
  \/ BeginHash(q) \/ EndHash(q) \/ RefuseHash(q)

AdminNext ==
  \/ \E q \in Requests : LoginStep(q) \/ SessionStep(q) \/ RaiseError(q)
  \/ \E a \in Accounts : CreateAccount(a) \/ DisableAccount(a)
  \/ StopProcess
  \/ AdminTick

AdminSpec == AdminInit /\ [][AdminNext]_adminVars

-------------------------------------------------------------------------------
(* Properties. *)

LoginBudget ==
  Cardinality({r \in granted : key[r] # Registration /\ Recent(r)}) <= Limit

RegistrationBudget ==
  Cardinality({r \in granted : key[r] = Registration /\ Recent(r)})
    <= RegistrationLimit

Budgets == LoginBudget /\ RegistrationBudget

(* A pending row is that of a request in progress, or of one that ended    *)
(* with an error or with its process.                                      *)
PlacesAreGivenBack ==
  \A r \in Rows : key[r] = Pending =>
    r \in orphaned \/ \E q \in Requests : ~At(q, "idle") /\ request[q].row = r

(* Login attempts that were let through to the password check and did not  *)
(* succeed, and registrations that were let through to hash a password,    *)
(* are within any window never more than their limits, whatever requests   *)
(* run at the same time, whichever end with an error and whenever a        *)
(* process stops: "A burst may be refused early, never late"               *)
(* (web/routes/admin.py).  And every answer gives the place back: refused, *)
(* busy, failed or signed in, the reservation is deleted or has become a   *)
(* failure when the request ends.  Only an error or a stop of the process  *)
(* leaves it, to count as an attempt in progress until its window is over. *)
AttemptsAreCounted == Budgets /\ PlacesAreGivenBack
===============================================================================
