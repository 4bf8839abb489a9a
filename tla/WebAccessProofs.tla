---------------------------- MODULE WebAccessProofs ----------------------------
(***************************************************************************)
(* The components of the release host that share no state, each proved     *)
(* about under its own specification, for every number of requests, visits, *)
(* writers, migrations, applications, processes and rows: the budgets of a *)
(* login, the lockout and the codes of a subject, the one key of a seal and *)
(* what a migration leaves, the one case per seal, the shares an upgrade   *)
(* keeps.                                                                  *)
(***************************************************************************)
EXTENDS MCWebAccess, FiniteSetTheorems, SequenceTheorems, NaturalFacts, TLAPS

-----------------------------------------------------------------------------
(* AdminLogin: the budgets of one address.                                 *)

AdminRequests ==
  [at : Stages, row : Nat, name : Accounts \cup {""}, right : BOOLEAN,
   pending : SUBSET Rows, read : {"none", "enabled", "disabled"}]

(* Which row a request stands on. *)
LoginPlaces == {"count pending", "count failed", "derive", "check", "fail", "succeed"}
RegistrationPlaces == {"count registrations", "hash", "hashing"}
PlaceInv ==
  \A q \in Requests :
    /\ request[q].at # "idle" => request[q].name \in Accounts
    /\ request[q].at \in {"idle", "session", "serve"} => request[q].row = 0
    /\ request[q].at \in LoginPlaces \cup RegistrationPlaces \cup {"withdraw"} =>
         request[q].row \in Rows /\ request[q].row <= lastRow
    /\ request[q].at \in LoginPlaces => key[request[q].row] = Pending
    /\ request[q].at \in RegistrationPlaces => key[request[q].row] = Registration
OwnRows ==
  \A q, w \in Requests : q # w /\ request[q].row # 0 => request[q].row # request[w].row

(* One step of a request, by the row it works on. *)
StillEdges ==
  {<<"count failed", "withdraw">>, <<"derive", "check">>, <<"derive", "withdraw">>,
   <<"check", "succeed">>, <<"check", "fail">>, <<"session", "serve">>,
   <<"count registrations", "withdraw">>, <<"hash", "hashing">>, <<"hash", "withdraw">>}
Still(q, p) ==
  /\ UNCHANGED budget
  /\ \/ p = Idle /\ request[q].at \in {"session", "serve", "hashing"}
     \/ p.at = "session" /\ p.row = 0 /\ request[q].at = "idle" /\ p.name \in Accounts
     \/ /\ p.at = "count failed" /\ request[q].at = "count pending"
        /\ p.row = request[q].row /\ p.name = request[q].name
        /\ p.pending = RecentRows(Pending)
     \/ /\ <<request[q].at, p.at>> \in StillEdges
        /\ p.row = request[q].row /\ p.name = request[q].name
Inserts(q, p) ==
  /\ p.row = lastRow + 1 /\ p.name \in Accounts
  /\ \/ InsertRow(Pending) /\ request[q].at = "idle" /\ p.at = "count pending"
     \/ InsertRow(Registration) /\ request[q].at = "serve" /\ p.at = "count registrations"
Grants(q, p) ==
  /\ p.row = request[q].row /\ p.name = request[q].name
  /\ UNCHANGED <<key, failedAt, lastRow, orphaned>>
  /\ granted' = granted \cup {request[q].row}
  /\ \/ /\ request[q].at = "count failed" /\ p.at = "derive" /\ WithinBudget(q)
        /\ counted' = [counted EXCEPT
             ![request[q].row] = request[q].pending \cup RecentRows(Failure)]
     \/ /\ request[q].at = "count registrations" /\ p.at = "hash" /\ WithinRegistrations
        /\ counted' = counted
FailsOnce(q, p) ==
  /\ p = Idle /\ request[q].at = "fail"
  /\ key' = [key EXCEPT ![request[q].row] = Failure]
  /\ UNCHANGED <<failedAt, lastRow, granted, counted, orphaned>>
Deletes(q, p) ==
  /\ p = Idle /\ request[q].at \in {"succeed", "withdraw"}
  /\ DeleteRow(request[q].row)
Turn(q, p) ==
  /\ request' = [request EXCEPT ![q] = p]
  /\ adminNow' = adminNow /\ account' = account
  /\ \/ cookies' = cookies
     \/ request[q].at = "succeed" /\ cookies' = cookies \cup {request[q].name}
  /\ Still(q, p) \/ Inserts(q, p) \/ Grants(q, p) \/ FailsOnce(q, p) \/ Deletes(q, p)

LEMMA IdleIsRequest ==
  Idle \in AdminRequests /\ Idle.at = "idle" /\ Idle.row = 0
<1>1. Idle.at \in Stages /\ Idle.right \in BOOLEAN
  BY DEF Idle, Stages
<1> QED
  BY <1>1 DEF Idle, AdminRequests

LEMMA RequestTurns ==
  ASSUME AdminTypeOK, PlaceInv, NEW q \in Requests, LoginStep(q) \/ SessionStep(q)
  PROVE  \E p \in AdminRequests : Turn(q, p)
<1> DEFINE o == request[q]
<1>1. request \in [Requests -> AdminRequests] /\ o \in AdminRequests
  BY DEF AdminTypeOK, AdminRequests
<1>2. RecentRows(Pending) \subseteq Rows /\ lastRow + 1 \in Nat
  <2>1. lastRow \in Nat
    BY DEF AdminTypeOK
  <2>2. RecentRows(Pending) \subseteq Rows
    BY DEF RecentRows
  <2> QED
    BY <2>1, <2>2
<1>3. ASSUME Finish(q)
      PROVE  request' = [request EXCEPT ![q] = Idle]
  BY <1>3 DEF Finish
<1>4. ASSUME NEW at \in Stages, GoTo(q, at)
      PROVE  \E p \in AdminRequests :
               /\ request' = [request EXCEPT ![q] = p]
               /\ p.at = at /\ p.row = o.row /\ p.name = o.name
  <2> DEFINE p == [o EXCEPT !.at = at]
  <2>1. p \in AdminRequests /\ p.at = at /\ p.row = o.row /\ p.name = o.name
    BY <1>1 DEF AdminRequests
  <2>2. request' = [request EXCEPT ![q] = p]
    BY <1>1, <1>4 DEF GoTo
  <2> QED
    BY <2>1, <2>2
<1>5. ASSUME NEW at \in Stages, GoTo(q, at), <<o.at, at>> \in StillEdges,
             UNCHANGED <<people, budget, adminNow>>
      PROVE  \E p \in AdminRequests : Turn(q, p)
  BY <1>4, <1>5 DEF Turn, Still, people
<1>6. ASSUME NEW a \in Accounts, NEW right \in BOOLEAN, Reserve(q, a, right)
      PROVE  \E p \in AdminRequests : Turn(q, p)
  <2> DEFINE p == [Idle EXCEPT !.at = "count pending", !.row = lastRow + 1,
                               !.name = a, !.right = right]
  <2>1. p \in AdminRequests /\ p.at = "count pending" /\ p.row = lastRow + 1 /\ p.name = a
    <3>1. PICK n \in Nat : n = lastRow + 1
      BY <1>2
    <3>2. p = [Idle EXCEPT !.at = "count pending", !.row = n, !.name = a, !.right = right]
      BY <3>1
    <3> HIDE DEF p
    <3>3. p.at = "count pending" /\ p.row = n /\ p.name = a
      BY <3>2, IdleIsRequest DEF AdminRequests
    <3>4. p \in AdminRequests
      BY <3>2, IdleIsRequest DEF AdminRequests, Stages
    <3> QED
      BY <3>1, <3>3, <3>4
  <2>2. request' = [request EXCEPT ![q] = p] /\ o.at = "idle" /\ InsertRow(Pending)
        /\ UNCHANGED <<people, adminNow>>
    BY <1>6 DEF Reserve, At
  <2> HIDE DEF p
  <2> QED
    BY <2>1, <2>2 DEF Turn, Inserts, people
<1>7. CASE CountPending(q)
  <2> DEFINE p == [o EXCEPT !.at = "count failed", !.pending = RecentRows(Pending)]
  <2>1. p \in AdminRequests /\ p.at = "count failed" /\ p.row = o.row /\ p.name = o.name
        /\ p.pending = RecentRows(Pending)
    BY <1>1, <1>2 DEF AdminRequests, Stages
  <2>2. request' = [request EXCEPT ![q] = p] /\ o.at = "count pending"
        /\ UNCHANGED <<people, budget, adminNow>>
    BY <1>1, <1>7 DEF CountPending, At
  <2> HIDE DEF p
  <2> QED
    BY <2>1, <2>2 DEF Turn, Still, people
<1>8. CASE Grant(q)
  <2>1. PICK p \in AdminRequests : /\ request' = [request EXCEPT ![q] = p]
                                   /\ p.at = "derive" /\ p.row = o.row /\ p.name = o.name
    BY <1>4, <1>8 DEF Grant, Stages
  <2> QED
    BY <1>8, <2>1 DEF Grant, At, Turn, Grants, people
<1>9. CASE GrantRegistration(q)
  <2>1. PICK p \in AdminRequests : /\ request' = [request EXCEPT ![q] = p]
                                   /\ p.at = "hash" /\ p.row = o.row /\ p.name = o.name
    BY <1>4, <1>9 DEF GrantRegistration, Stages
  <2> QED
    BY <1>9, <2>1 DEF GrantRegistration, At, Turn, Grants, people
<1>10. CASE RefuseLogin(q) \/ RefuseBusy(q) \/ ResolveSession(q) \/ RefuseRegistration(q)
            \/ BeginHash(q) \/ RefuseHash(q)
  BY <1>5, <1>10 DEF RefuseLogin, RefuseBusy, ResolveSession, RefuseRegistration, BeginHash,
     RefuseHash, At, StillEdges, Stages
<1>11. CASE EndCheck(q)
  <2>1. CASE o.read = "enabled" /\ o.right
    BY <1>5, <1>11, <2>1 DEF EndCheck, At, StillEdges, Stages
  <2>2. CASE ~(o.read = "enabled" /\ o.right)
    BY <1>5, <1>11, <2>2 DEF EndCheck, At, StillEdges, Stages
  <2> QED
    BY <2>1, <2>2
<1>12. CASE BeginCheck(q)
  <2> DEFINE p == [o EXCEPT !.at = "check", !.read = account[o.name]]
  <2>1. o.at = "derive" /\ o.name \in Accounts
    BY <1>12 DEF BeginCheck, At, PlaceInv
  <2>2. account[o.name] \in {"none", "enabled", "disabled"}
    BY <2>1 DEF AdminTypeOK
  <2>3. p \in AdminRequests /\ p.at = "check" /\ p.row = o.row /\ p.name = o.name
    BY <1>1, <2>2 DEF AdminRequests, Stages
  <2>4. request' = [request EXCEPT ![q] = p] /\ UNCHANGED <<people, budget, adminNow>>
    BY <1>1, <1>12 DEF BeginCheck
  <2> HIDE DEF p
  <2> QED
    BY <2>1, <2>3, <2>4 DEF Turn, Still, StillEdges, people
<1>13. CASE RecordLoginFailure(q)
  BY <1>13, IdleIsRequest DEF RecordLoginFailure, Finish, At, Turn, FailsOnce, people
<1>14. CASE OpenSession(q)
  BY <1>14, IdleIsRequest DEF OpenSession, Finish, At, Turn, Deletes
<1>15. CASE Withdraw(q)
  BY <1>15, IdleIsRequest DEF Withdraw, Finish, At, Turn, Deletes, people
<1>16. ASSUME NEW a \in Accounts, Present(q, a)
       PROVE  \E p \in AdminRequests : Turn(q, p)
  <2> DEFINE p == [Idle EXCEPT !.at = "session", !.name = a]
  <2>1. p \in AdminRequests /\ p.at = "session" /\ p.row = 0 /\ p.name = a
    BY IdleIsRequest DEF AdminRequests, Stages
  <2>2. request' = [request EXCEPT ![q] = p] /\ o.at = "idle"
        /\ UNCHANGED <<people, budget, adminNow>>
    BY <1>16 DEF Present, At
  <2> HIDE DEF p
  <2> QED
    BY <2>1, <2>2 DEF Turn, Still, people
<1>17. CASE EndSession(q) \/ Serve(q) \/ EndHash(q)
  BY <1>17, IdleIsRequest DEF EndSession, Serve, EndHash, Finish, At, Turn, Still, people
<1>18. CASE ReserveRegistration(q)
  <2> DEFINE p == [o EXCEPT !.at = "count registrations", !.row = lastRow + 1]
  <2>1. o.name \in Accounts
    BY <1>18 DEF ReserveRegistration, At, PlaceInv
  <2>2. p \in AdminRequests /\ p.at = "count registrations" /\ p.row = lastRow + 1
        /\ p.name \in Accounts
    <3>1. PICK n \in Nat : n = lastRow + 1
      BY <1>2
    <3>2. p = [o EXCEPT !.at = "count registrations", !.row = n]
      BY <3>1
    <3>3. p \in AdminRequests /\ p.at = "count registrations" /\ p.row = n /\ p.name = o.name
      BY <1>1, <3>2 DEF AdminRequests, Stages
    <3> QED
      BY <2>1, <3>1, <3>3
  <2>3. request' = [request EXCEPT ![q] = p] /\ o.at = "serve" /\ InsertRow(Registration)
        /\ UNCHANGED <<people, adminNow>>
    BY <1>1, <1>18 DEF ReserveRegistration, At
  <2> HIDE DEF p
  <2> QED
    BY <2>2, <2>3 DEF Turn, Inserts, people
<1> QED
  BY <1>6, <1>7, <1>8, <1>9, <1>10, <1>11, <1>12, <1>13, <1>14, <1>15, <1>16, <1>17, <1>18
     DEF LoginStep, SessionStep

-----------------------------------------------------------------------------
(* Types and places. *)

(* What may happen to a row that is there. *)
RowsSettle ==
  /\ lastRow' \in Nat /\ lastRow <= lastRow' /\ adminNow <= adminNow'
  /\ \A s \in Rows : s <= lastRow =>
       /\ failedAt'[s] = failedAt[s]
       /\ key'[s] \in {key[s], "none"} \/ (key[s] = Pending /\ key'[s] = Failure)

LEMMA RowNumbers ==
  /\ \A r \in Rows : r \in Nat /\ r # 0
  /\ Limit \in Nat /\ RegistrationLimit \in Nat /\ AdminWindow \in Nat
BY AdminConstants

LEMMA KeysDiffer ==
  /\ Pending # Failure /\ Pending # Registration /\ Failure # Registration
  /\ Pending # "none" /\ Failure # "none" /\ Registration # "none"
BY DEF Pending, Failure, Registration

LEMMA TurnsSettle ==
  ASSUME AdminTypeOK, PlaceInv, NEW q \in Requests, NEW p \in AdminRequests, Turn(q, p)
  PROVE  RowsSettle
<1>1. /\ key \in [Rows -> {"none", Pending, Failure, Registration}]
      /\ failedAt \in [Rows -> Nat] /\ lastRow \in Nat /\ adminNow \in Nat
  BY DEF AdminTypeOK
<1>2. adminNow' = adminNow
  BY DEF Turn
<1>3. CASE Still(q, p) \/ Grants(q, p)
  <2>1. key' = key /\ failedAt' = failedAt /\ lastRow' = lastRow
    BY <1>3 DEF Still, Grants, budget
  <2> QED
    BY <1>1, <1>2, <2>1 DEF RowsSettle
<1>4. CASE Inserts(q, p)
  <2>1. PICK k : InsertRow(k)
    BY <1>4 DEF Inserts
  <2>2. \A s \in Rows : s <= lastRow => s # lastRow + 1
    BY <1>1, RowNumbers
  <2> QED
    BY <1>1, <1>2, <2>1, <2>2 DEF InsertRow, RowsSettle
<1>5. CASE FailsOnce(q, p)
  <2>1. key[request[q].row] = Pending
    BY <1>5 DEF FailsOnce, PlaceInv, LoginPlaces
  <2>2. /\ key' = [key EXCEPT ![request[q].row] = Failure]
        /\ failedAt' = failedAt /\ lastRow' = lastRow
    BY <1>5 DEF FailsOnce
  <2> QED
    BY <1>1, <1>2, <2>1, <2>2 DEF RowsSettle
<1>6. CASE Deletes(q, p)
  BY <1>1, <1>2, <1>6 DEF Deletes, DeleteRow, RowsSettle
<1> QED
  BY <1>3, <1>4, <1>5, <1>6 DEF Turn

LEMMA AdminTypes ==
  ASSUME AdminTypeOK, PlaceInv, AdminNext
  PROVE  AdminTypeOK'
<1>0. /\ account \in [Accounts -> {"none", "enabled", "disabled"}]
      /\ cookies \subseteq Accounts
      /\ key \in [Rows -> {"none", Pending, Failure, Registration}]
      /\ failedAt \in [Rows -> Nat] /\ lastRow \in Nat /\ adminNow \in Nat
      /\ request \in [Requests -> AdminRequests]
      /\ granted \subseteq Rows /\ orphaned \subseteq Rows
      /\ counted \in [Rows -> SUBSET Rows]
  BY DEF AdminTypeOK, AdminRequests
<1>1. ASSUME NEW q \in Requests, LoginStep(q) \/ SessionStep(q)
      PROVE  AdminTypeOK'
  <2>1. PICK p \in AdminRequests : Turn(q, p)
    BY <1>1, RequestTurns
  <2>2. request' \in [Requests -> AdminRequests]
    BY <1>0, <2>1 DEF Turn
  <2>3. account' = account /\ adminNow' = adminNow /\ cookies' \subseteq Accounts
    BY <1>0, <2>1 DEF Turn, PlaceInv
  <2>4. request[q].pending \subseteq Rows
    BY <1>0 DEF AdminRequests
  <2>5. /\ key' \in [Rows -> {"none", Pending, Failure, Registration}]
        /\ failedAt' \in [Rows -> Nat] /\ lastRow' \in Nat
        /\ orphaned' \subseteq Rows /\ counted' \in [Rows -> SUBSET Rows]
        /\ granted' \subseteq Rows
    <3>1. CASE Still(q, p)
      BY <1>0, <3>1 DEF Still, budget
    <3>2. CASE Inserts(q, p)
      <4>1. PICK k \in {Pending, Registration} : InsertRow(k)
        BY <3>2 DEF Inserts
      <4>2. PICK n : n = lastRow + 1
        OBVIOUS
      <4>3. /\ key' = [key EXCEPT ![n] = k] /\ failedAt' = [failedAt EXCEPT ![n] = adminNow]
            /\ lastRow' = n /\ n \in Rows
            /\ granted' = granted /\ counted' = counted /\ orphaned' = orphaned
        BY <4>1, <4>2 DEF InsertRow
      <4> QED
        BY <1>0, <4>3, RowNumbers
    <3>3. CASE Grants(q, p)
      <4>1. RecentRows(Failure) \subseteq Rows
        BY DEF RecentRows
      <4>2. counted' \in [Rows -> SUBSET Rows]
        <5>1. PICK S \in SUBSET Rows : S = request[q].pending \cup RecentRows(Failure)
          BY <2>4, <4>1
        <5>2. counted' = counted \/ counted' = [counted EXCEPT ![request[q].row] = S]
          BY <3>3, <5>1 DEF Grants
        <5> QED
          BY <1>0, <5>2
      <4>3. request[q].row \in Rows
        BY <3>3 DEF Grants, PlaceInv, LoginPlaces, RegistrationPlaces
      <4> QED
        BY <1>0, <3>3, <4>2, <4>3 DEF Grants
    <3>4. CASE FailsOnce(q, p)
      BY <1>0, <3>4 DEF FailsOnce
    <3>5. CASE Deletes(q, p)
      BY <1>0, <3>5 DEF Deletes, DeleteRow
    <3> QED
      BY <2>1, <3>1, <3>2, <3>3, <3>4, <3>5 DEF Turn
  <2> QED
    BY <1>0, <2>2, <2>3, <2>5 DEF AdminTypeOK, AdminRequests
<1>2. ASSUME NEW a \in Accounts, CreateAccount(a) \/ DisableAccount(a)
      PROVE  AdminTypeOK'
  <2>1. /\ account' \in [Accounts -> {"none", "enabled", "disabled"}]
        /\ UNCHANGED <<cookies, budget, request, adminNow>>
    BY <1>0, <1>2 DEF CreateAccount, DisableAccount
  <2> QED
    BY <1>0, <2>1 DEF AdminTypeOK, AdminRequests, budget
<1>3. ASSUME NEW Q, Abandon(Q)
      PROVE  AdminTypeOK'
  <2>1. request' \in [Requests -> AdminRequests]
    BY <1>0, <1>3, IdleIsRequest DEF Abandon
  <2>2. orphaned' \subseteq Rows
    BY <1>0, <1>3 DEF Abandon
  <2>3. UNCHANGED <<people, key, failedAt, lastRow, adminNow, granted, counted>>
    BY <1>3 DEF Abandon
  <2> QED
    BY <1>0, <2>1, <2>2, <2>3 DEF AdminTypeOK, AdminRequests, people
<1>4. CASE AdminTick
  <2>1. adminNow' \in Nat /\ UNCHANGED <<people, budget, request>>
    BY <1>0, <1>4 DEF AdminTick
  <2> QED
    BY <1>0, <2>1 DEF AdminTypeOK, AdminRequests, people, budget
<1> QED
  BY <1>1, <1>2, <1>3, <1>4 DEF AdminNext, RaiseError, StopProcess

LEMMA StepsSettle ==
  ASSUME AdminTypeOK, PlaceInv, AdminNext
  PROVE  RowsSettle
<1>0. /\ key \in [Rows -> {"none", Pending, Failure, Registration}]
      /\ failedAt \in [Rows -> Nat] /\ lastRow \in Nat /\ adminNow \in Nat
  BY DEF AdminTypeOK
<1>1. ASSUME NEW q \in Requests, LoginStep(q) \/ SessionStep(q)
      PROVE  RowsSettle
  BY <1>1, RequestTurns, TurnsSettle
<1>2. ASSUME NEW a \in Accounts, CreateAccount(a) \/ DisableAccount(a)
      PROVE  RowsSettle
  BY <1>0, <1>2 DEF CreateAccount, DisableAccount, budget, RowsSettle
<1>3. ASSUME NEW Q, Abandon(Q)
      PROVE  RowsSettle
  BY <1>0, <1>3 DEF Abandon, RowsSettle
<1>4. CASE AdminTick
  BY <1>0, <1>4 DEF AdminTick, budget, RowsSettle
<1> QED
  BY <1>1, <1>2, <1>3, <1>4 DEF AdminNext, RaiseError, StopProcess

LEMMA PlacesKept ==
  ASSUME AdminTypeOK, PlaceInv, OwnRows, AdminNext
  PROVE  PlaceInv' /\ OwnRows'
<1>0. /\ key \in [Rows -> {"none", Pending, Failure, Registration}]
      /\ lastRow \in Nat
      /\ request \in [Requests -> AdminRequests]
  BY DEF AdminTypeOK, AdminRequests
<1>1. ASSUME NEW q \in Requests, LoginStep(q) \/ SessionStep(q)
      PROVE  PlaceInv' /\ OwnRows'
  <2>1. PICK p \in AdminRequests : Turn(q, p)
    BY <1>1, RequestTurns
  <2>2. request'[q] = p /\ \A w \in Requests : w # q => request'[w] = request[w]
    BY <1>0, <2>1 DEF Turn
  <2>3. \A w \in Requests : request[w].row \in Nat /\ request[w].at \in Stages
    BY <1>0 DEF AdminRequests
  <2>4. \A w \in Requests : request[w].row = 0
                            \/ (request[w].row \in Rows /\ request[w].row <= lastRow)
    BY <2>3 DEF PlaceInv, Stages, LoginPlaces, RegistrationPlaces
  <2>5. \/ p.row \in {0, request[q].row}
        \/ p.row = lastRow + 1 /\ lastRow' = lastRow + 1
    BY <2>1, IdleIsRequest DEF Turn, Still, Inserts, InsertRow, Grants, FailsOnce, Deletes
  <2>6. OwnRows'
    BY <1>0, <2>2, <2>3, <2>4, <2>5 DEF OwnRows
  <2>7. lastRow <= lastRow' /\ lastRow' \in Nat
    BY <2>1, TurnsSettle DEF RowsSettle
  <2>8. ASSUME NEW w \in Requests, w # q, request[w].row # 0
        PROVE  key'[request[w].row] = key[request[w].row]
    <3>1. request[w].row \in Rows /\ request[w].row <= lastRow
          /\ request[w].row # request[q].row
      BY <2>4, <2>8 DEF OwnRows
    <3>2. request[w].row # lastRow + 1
      BY <1>0, <2>3, <3>1
    <3> QED
      BY <1>0, <2>1, <3>1, <3>2 DEF Turn, Still, Inserts, InsertRow, Grants, FailsOnce, Deletes,
         DeleteRow, budget
  <2>9. /\ p.at # "idle" => p.name \in Accounts
        /\ p.at \in {"idle", "session", "serve"} => p.row = 0
        /\ p.at \in LoginPlaces \cup RegistrationPlaces \cup {"withdraw"} =>
             p.row \in Rows /\ p.row <= lastRow'
        /\ p.at \in LoginPlaces => key'[p.row] = Pending
        /\ p.at \in RegistrationPlaces => key'[p.row] = Registration
    <3> DEFINE o == request[q]
    <3>0. /\ o.at # "idle" => o.name \in Accounts
          /\ o.at \in {"idle", "session", "serve"} => o.row = 0
          /\ o.at \in LoginPlaces \cup RegistrationPlaces \cup {"withdraw"} =>
               o.row \in Rows /\ o.row <= lastRow
          /\ o.at \in LoginPlaces => key[o.row] = Pending
          /\ o.at \in RegistrationPlaces => key[o.row] = Registration
      BY DEF PlaceInv
    <3>1. CASE Still(q, p)
      <4>1. key' = key /\ lastRow' = lastRow
        BY <3>1 DEF Still, budget
      <4>2. CASE p = Idle
        BY <4>2, IdleIsRequest DEF LoginPlaces, RegistrationPlaces
      <4>3. CASE p # Idle
        BY <3>0, <3>1, <4>1, <4>3 DEF Still, StillEdges, LoginPlaces, RegistrationPlaces
      <4> QED
        BY <4>2, <4>3
    <3>2. CASE Inserts(q, p)
      <4>1. p.row = lastRow + 1 /\ lastRow' = lastRow + 1 /\ p.row \in Rows /\ p.name \in Accounts
        BY <3>2 DEF Inserts, InsertRow
      <4>2. \/ p.at = "count pending" /\ key'[p.row] = Pending
            \/ p.at = "count registrations" /\ key'[p.row] = Registration
        BY <1>0, <3>2, <4>1 DEF Inserts, InsertRow
      <4> QED
        <5>1. p.row <= lastRow' /\ p.at \notin {"idle", "session", "serve"}
          <6>1. lastRow + 1 \in Nat
            BY <1>0
          <6>2. p.row <= lastRow'
            BY <4>1, <6>1
          <6>3. p.at \notin {"idle", "session", "serve"}
            BY <4>2
          <6> QED
            BY <6>2, <6>3
        <5> QED
          BY <4>1, <4>2, <5>1 DEF LoginPlaces, RegistrationPlaces
    <3>3. CASE Grants(q, p)
      <4>1. key' = key /\ lastRow' = lastRow
        BY <3>3 DEF Grants
      <4> QED
        BY <3>0, <3>3, <4>1 DEF Grants, LoginPlaces, RegistrationPlaces
    <3>4. CASE FailsOnce(q, p) \/ Deletes(q, p)
      BY <3>4, IdleIsRequest DEF FailsOnce, Deletes, LoginPlaces, RegistrationPlaces
    <3> QED
      BY <2>1, <3>1, <3>2, <3>3, <3>4 DEF Turn
  <2>10. ASSUME NEW w \in Requests, w # q
         PROVE  /\ request[w].at \in LoginPlaces \cup RegistrationPlaces \cup {"withdraw"} =>
                     request[w].row \in Rows /\ request[w].row <= lastRow'
                /\ request[w].at \in LoginPlaces => key'[request[w].row] = Pending
                /\ request[w].at \in RegistrationPlaces => key'[request[w].row] = Registration
    <3>1. request[w].at \in LoginPlaces \cup RegistrationPlaces \cup {"withdraw"} =>
            request[w].row # 0
      BY RowNumbers DEF PlaceInv
    <3> QED
      BY <1>0, <2>3, <2>7, <2>8, <2>10, <3>1 DEF PlaceInv
  <2>11. PlaceInv'
    BY <2>2, <2>9, <2>10 DEF PlaceInv
  <2> QED
    BY <2>6, <2>11
<1>2. CASE \/ \E a \in Accounts : CreateAccount(a) \/ DisableAccount(a)
           \/ AdminTick
  BY <1>2 DEF CreateAccount, DisableAccount, AdminTick, budget, PlaceInv, OwnRows
<1>3. ASSUME NEW Q, Abandon(Q)
      PROVE  PlaceInv' /\ OwnRows'
  BY <1>3, IdleIsRequest DEF Abandon, PlaceInv, OwnRows, LoginPlaces, RegistrationPlaces
<1> QED
  BY <1>1, <1>2, <1>3 DEF AdminNext, RaiseError, StopProcess

-----------------------------------------------------------------------------
(* The budgets. *)

(* The rows that were there when row r was: what the counts for r see.     *)
Upto(r, K) == {s \in Rows : s <= r /\ key[s] \in K /\ Recent(s)}
LoginKeys == {Pending, Failure}

CountInv ==
  \A q \in Requests : request[q].at = "count failed" =>
    Upto(request[q].row, {Pending}) \subseteq request[q].pending
GrantInv ==
  \A r \in granted :
    /\ r <= lastRow /\ key[r] # "none"
    /\ key[r] \in LoginKeys => Cardinality(Upto(r, LoginKeys)) <= Limit
    /\ key[r] = Registration => Cardinality(Upto(r, {Registration})) <= RegistrationLimit

(* No row comes to those before an older one. *)
LEMMA UptoShrinks ==
  ASSUME AdminTypeOK, AdminTypeOK', RowsSettle, NEW r \in Rows, r <= lastRow,
         NEW K, K \in {LoginKeys, {Pending}, {Registration}}
  PROVE  Upto(r, K)' \subseteq Upto(r, K)
<1>0. /\ failedAt \in [Rows -> Nat] /\ adminNow \in Nat /\ adminNow' \in Nat
      /\ failedAt' \in [Rows -> Nat] /\ lastRow \in Nat
  BY DEF AdminTypeOK
<1>1. ASSUME NEW s \in Rows, s <= r, key'[s] \in K, Recent(s)'
      PROVE  key[s] \in K /\ Recent(s)
  <2>1. s <= lastRow
    BY <1>0, <1>1, RowNumbers
  <2>2. failedAt'[s] = failedAt[s] /\ adminNow <= adminNow'
        /\ (key'[s] \in {key[s], "none"} \/ (key[s] = Pending /\ key'[s] = Failure))
    BY <2>1 DEF RowsSettle
  <2>3. Recent(s)
    BY <1>0, <1>1, <2>2, RowNumbers DEF Recent
  <2>4. key[s] \in K
    BY <1>1, <2>2, KeysDiffer DEF LoginKeys
  <2> QED
    BY <2>3, <2>4
<1> QED
  BY <1>1 DEF Upto, Recent

LEMMA UptoIsFinite ==
  ASSUME NEW r, NEW K
  PROVE  IsFiniteSet(Upto(r, K)) /\ Cardinality(Upto(r, K)) \in Nat
BY AdminConstants, FS_Subset, FS_CardinalityType DEF Upto

LEMMA CountsKept ==
  ASSUME AdminTypeOK, AdminTypeOK', PlaceInv, CountInv, AdminNext
  PROVE  CountInv'
<1>0. request \in [Requests -> AdminRequests]
  BY DEF AdminTypeOK, AdminRequests
<1>1. RowsSettle
  BY StepsSettle
<1>2. ASSUME NEW w \in Requests, request'[w] = request[w], request[w].at = "count failed"
      PROVE  Upto(request[w].row, {Pending})' \subseteq request'[w].pending
  <2>1. PICK r \in Rows : r = request[w].row /\ r <= lastRow
    BY <1>2 DEF PlaceInv, LoginPlaces
  <2>2. Upto(r, {Pending})' \subseteq Upto(r, {Pending})
    BY <1>1, <2>1, UptoShrinks
  <2>3. Upto(r, {Pending}) \subseteq request[w].pending
    BY <1>2, <2>1 DEF CountInv
  <2> QED
    BY <1>2, <2>1, <2>2, <2>3 DEF Upto
<1>3. ASSUME NEW q \in Requests, LoginStep(q) \/ SessionStep(q)
      PROVE  CountInv'
  <2>1. PICK p \in AdminRequests : Turn(q, p)
    BY <1>3, RequestTurns
  <2>2. request'[q] = p /\ \A w \in Requests : w # q => request'[w] = request[w]
    BY <1>0, <2>1 DEF Turn
  <2>3. ASSUME p.at = "count failed"
        PROVE  Upto(p.row, {Pending})' \subseteq p.pending
    <3>1. Still(q, p) /\ request[q].at = "count pending" /\ p.pending = RecentRows(Pending)
      BY <2>1, <2>3, IdleIsRequest DEF Turn, Still, StillEdges, Inserts, Grants, FailsOnce, Deletes
    <3>2. key' = key /\ failedAt' = failedAt /\ adminNow' = adminNow
      BY <2>1, <3>1 DEF Turn, Still, budget
    <3> QED
      BY <3>1, <3>2 DEF Upto, RecentRows, Recent
  <2>4. ASSUME NEW w \in Requests, request'[w].at = "count failed"
        PROVE  Upto(request[w].row, {Pending})' \subseteq request'[w].pending
    BY <1>2, <2>2, <2>3, <2>4 DEF Upto
  <2> QED
    BY <2>4 DEF CountInv
<1>4. CASE \/ \E a \in Accounts : CreateAccount(a) \/ DisableAccount(a)
           \/ AdminTick
  <2>1. request' = request
    BY <1>4 DEF CreateAccount, DisableAccount, AdminTick
  <2> QED
    BY <1>2, <2>1 DEF CountInv
<1>5. ASSUME NEW Q, Abandon(Q)
      PROVE  CountInv'
  <2>1. \A w \in Requests : request'[w] = request[w] \/ request'[w] = Idle
    BY <1>5 DEF Abandon
  <2>2. ASSUME NEW w \in Requests, request'[w].at = "count failed"
        PROVE  request'[w] = request[w]
    BY <2>1, <2>2, IdleIsRequest
  <2>3. ASSUME NEW w \in Requests, request'[w].at = "count failed"
        PROVE  Upto(request[w].row, {Pending})' \subseteq request'[w].pending
    BY <1>2, <2>2, <2>3
  <2> QED
    BY <2>3 DEF CountInv
<1> QED
  BY <1>3, <1>4, <1>5 DEF AdminNext, RaiseError, StopProcess

LEMMA GrantsKept ==
  ASSUME AdminTypeOK, AdminTypeOK', PlaceInv, CountInv, GrantInv, AdminNext
  PROVE  GrantInv'
<1>0. /\ request \in [Requests -> AdminRequests] /\ granted \subseteq Rows
      /\ key \in [Rows -> {"none", Pending, Failure, Registration}]
      /\ lastRow \in Nat /\ lastRow' \in Nat /\ granted' \subseteq Rows
  BY DEF AdminTypeOK, AdminRequests
<1>1. RowsSettle
  BY StepsSettle
<1>2. ASSUME NEW r \in granted, key'[r] # "none"
      PROVE  /\ r <= lastRow' /\ key'[r] # "none"
             /\ key'[r] \in LoginKeys => Cardinality(Upto(r, LoginKeys)') <= Limit
             /\ key'[r] = Registration =>
                  Cardinality(Upto(r, {Registration})') <= RegistrationLimit
  <2>1. r \in Rows /\ r \in Nat /\ r <= lastRow
    BY <1>0, RowNumbers DEF GrantInv
  <2>2. r <= lastRow'
    BY <1>0, <1>1, <2>1 DEF RowsSettle
  <2>3. key'[r] = key[r] \/ (key[r] = Pending /\ key'[r] = Failure)
    BY <1>1, <1>2, <2>1 DEF RowsSettle
  <2>4. ASSUME NEW K, K \in {LoginKeys, {Registration}}
        PROVE  Cardinality(Upto(r, K)') \in Nat
               /\ Cardinality(Upto(r, K)') <= Cardinality(Upto(r, K))
    <3>1. Upto(r, K)' \subseteq Upto(r, K)
      BY <1>1, <2>1, <2>4, UptoShrinks
    <3> QED
      BY <3>1, UptoIsFinite, FS_Subset, FS_CardinalityType
  <2>5. ASSUME key'[r] \in LoginKeys
        PROVE  Cardinality(Upto(r, LoginKeys)') <= Limit
    <3>1. Cardinality(Upto(r, LoginKeys)) <= Limit
      BY <2>3, <2>5, KeysDiffer DEF GrantInv, LoginKeys
    <3> QED
      BY <2>4, <3>1, UptoIsFinite, RowNumbers
  <2>6. ASSUME key'[r] = Registration
        PROVE  Cardinality(Upto(r, {Registration})') <= RegistrationLimit
    <3>1. Cardinality(Upto(r, {Registration})) <= RegistrationLimit
      BY <2>3, <2>6, KeysDiffer DEF GrantInv
    <3> QED
      BY <2>4, <3>1, UptoIsFinite, RowNumbers
  <2> QED
    BY <1>2, <2>2, <2>5, <2>6
<1>3. ASSUME \A r \in granted' : r \in granted /\ key'[r] # "none"
      PROVE  GrantInv'
  BY <1>2, <1>3 DEF GrantInv, Upto, Recent
<1>4. ASSUME NEW q \in Requests, LoginStep(q) \/ SessionStep(q)
      PROVE  GrantInv'
  <2>1. PICK p \in AdminRequests : Turn(q, p)
    BY <1>4, RequestTurns
  <2>2. CASE Still(q, p) \/ FailsOnce(q, p)
    <3>1. granted' = granted
      BY <2>2 DEF Still, FailsOnce, budget
    <3>2. \A r \in granted : key[r] # "none"
      BY DEF GrantInv
    <3>3. \A r \in Rows : key'[r] = key[r] \/ key'[r] = Failure
      BY <1>0, <2>2 DEF Still, FailsOnce, budget
    <3> QED
      BY <1>0, <1>3, <3>1, <3>2, <3>3, KeysDiffer
  <2>3. CASE Inserts(q, p)
    <3>1. granted' = granted
      BY <2>3 DEF Inserts, InsertRow
    <3>2. \A r \in granted : key'[r] = key[r] /\ key[r] # "none"
      <4>1. \A r \in granted : r \in Nat /\ r <= lastRow /\ key[r] # "none"
        BY <1>0, RowNumbers DEF GrantInv
      <4>2. \A r \in granted : r # lastRow + 1
        BY <1>0, <4>1
      <4> QED
        BY <1>0, <2>3, <4>1, <4>2 DEF Inserts, InsertRow
    <3> QED
      BY <1>3, <3>1, <3>2
  <2>4. CASE Deletes(q, p)
    BY <1>0, <1>3, <2>4 DEF Deletes, DeleteRow, GrantInv
  <2>5. CASE Grants(q, p)
    <3>1. PICK x \in Rows : x = request[q].row /\ x <= lastRow
      BY <2>5 DEF Grants, PlaceInv, LoginPlaces, RegistrationPlaces
    <3>2. /\ key' = key /\ failedAt' = failedAt /\ lastRow' = lastRow /\ adminNow' = adminNow
          /\ granted' = granted \cup {x}
      BY <2>1, <2>5, <3>1 DEF Turn, Grants
    <3>3. \A K : Upto(x, K)' = Upto(x, K)
      BY <3>2 DEF Upto, Recent
    <3>4. CASE request[q].at = "count failed" /\ WithinBudget(q)
      <4>1. key[x] = Pending
        BY <3>1, <3>4 DEF PlaceInv, LoginPlaces
      <4> DEFINE P == request[q].pending
                 F == RecentRows(Failure)
      <4>2. P \subseteq Rows /\ F \subseteq Rows
        BY <1>0 DEF AdminRequests, RecentRows
      <4>3. IsFiniteSet(P) /\ IsFiniteSet(F)
        BY <4>2, AdminConstants, FS_Subset
      <4>4. Upto(x, LoginKeys) \subseteq P \cup F
        <5>1. Upto(x, {Pending}) \subseteq P
          BY <3>1, <3>4 DEF CountInv
        <5> QED
          BY <5>1 DEF Upto, RecentRows, LoginKeys
      <4>5. Cardinality(P) + Cardinality(F) <= Limit
        BY <3>4 DEF WithinBudget
      <4> HIDE DEF P, F
      <4>6. /\ IsFiniteSet(P \cup F)
            /\ Cardinality(P \cup F) =
                 Cardinality(P) + Cardinality(F) - Cardinality(P \cap F)
        BY <4>3, FS_Union
      <4>7. IsFiniteSet(P \cap F)
        BY <4>3, FS_Intersection
      <4>8. /\ Cardinality(P) \in Nat /\ Cardinality(F) \in Nat /\ Cardinality(P \cap F) \in Nat
            /\ Cardinality(P \cup F) \in Nat
        BY <4>3, <4>6, <4>7, FS_CardinalityType
      <4>9. Cardinality(Upto(x, LoginKeys)) <= Cardinality(P \cup F)
        BY <4>4, <4>6, FS_Subset
      <4>10. Cardinality(Upto(x, LoginKeys)) <= Limit
        BY <4>5, <4>6, <4>8, <4>9, UptoIsFinite, RowNumbers
      <4>11. \A r \in granted : key'[r] # "none"
        BY <3>2 DEF GrantInv
      <4> QED
        BY <1>2, <3>1, <3>2, <3>3, <4>1, <4>10, <4>11, KeysDiffer DEF GrantInv, Upto, Recent
    <3>5. CASE request[q].at = "count registrations" /\ WithinRegistrations
      <4>1. key[x] = Registration
        BY <3>1, <3>5 DEF PlaceInv, RegistrationPlaces
      <4>2. Upto(x, {Registration}) \subseteq RecentRows(Registration)
            /\ RecentRows(Registration) \subseteq Rows
        BY DEF Upto, RecentRows
      <4>3. IsFiniteSet(RecentRows(Registration))
        BY <4>2, AdminConstants, FS_Subset
      <4>4. Cardinality(RecentRows(Registration)) <= RegistrationLimit
        BY <3>5 DEF WithinRegistrations
      <4>5. /\ Cardinality(RecentRows(Registration)) \in Nat
            /\ Cardinality(Upto(x, {Registration})) <= Cardinality(RecentRows(Registration))
        BY <4>2, <4>3, FS_Subset, FS_CardinalityType
      <4>6. Cardinality(Upto(x, {Registration})) <= RegistrationLimit
        BY <4>4, <4>5, UptoIsFinite, RowNumbers
      <4>7. \A r \in granted : key'[r] # "none"
        BY <3>2 DEF GrantInv
      <4> QED
        BY <1>2, <3>1, <3>2, <3>3, <4>1, <4>6, <4>7, KeysDiffer
           DEF GrantInv, Upto, Recent, LoginKeys
    <3> QED
      BY <2>5, <3>4, <3>5 DEF Grants
  <2> QED
    BY <2>1, <2>2, <2>3, <2>4, <2>5 DEF Turn
<1>5. CASE \/ \E a \in Accounts : CreateAccount(a) \/ DisableAccount(a)
           \/ \E Q : Abandon(Q)
           \/ AdminTick
  <2>1. granted' = granted /\ key' = key
    BY <1>5 DEF CreateAccount, DisableAccount, Abandon, AdminTick, budget
  <2> QED
    BY <1>3, <2>1 DEF GrantInv
<1> QED
  BY <1>4, <1>5 DEF AdminNext, RaiseError, StopProcess

LEMMA PlacesGivenBack ==
  ASSUME AdminTypeOK, PlaceInv, OwnRows, PlacesAreGivenBack, AdminNext
  PROVE  PlacesAreGivenBack'
<1>0. /\ request \in [Requests -> AdminRequests]
      /\ key \in [Rows -> {"none", Pending, Failure, Registration}]
  BY DEF AdminTypeOK, AdminRequests
<1>1. ASSUME NEW q \in Requests, LoginStep(q) \/ SessionStep(q)
      PROVE  PlacesAreGivenBack'
  <2>1. PICK p \in AdminRequests : Turn(q, p)
    BY <1>1, RequestTurns
  <2>2. request'[q] = p /\ \A w \in Requests : w # q => request'[w] = request[w]
    BY <1>0, <2>1 DEF Turn
  <2>3. orphaned' = orphaned
    BY <2>1 DEF Turn, Still, Inserts, InsertRow, Grants, FailsOnce, Deletes, DeleteRow, budget
  <2>4. ASSUME NEW r \in Rows, key'[r] = Pending, r # request[q].row, r # p.row
        PROVE  key[r] = Pending
    BY <1>0, <2>1, <2>4 DEF Turn, Still, Inserts, InsertRow, Grants, FailsOnce, Deletes, DeleteRow,
       budget
  <2>5. ASSUME NEW r \in Rows, key'[r] = Pending, r = request[q].row
        PROVE  p.at # "idle" /\ p.row = r
    <3>1. CASE Still(q, p)
      <4>1. key[r] = Pending
        BY <2>5, <3>1 DEF Still, budget
      <4>2. request[q].at \notin RegistrationPlaces /\ request[q].at \notin {"idle", "session", "serve"}
        BY <2>5, <4>1, KeysDiffer, RowNumbers DEF PlaceInv
      <4> QED
        BY <2>5, <3>1, <4>2 DEF Still, StillEdges, RegistrationPlaces
    <3>2. CASE Inserts(q, p)
      BY <2>5, <3>2, RowNumbers DEF Inserts, PlaceInv
    <3>3. CASE Grants(q, p)
      BY <2>5, <3>3 DEF Grants
    <3>4. CASE FailsOnce(q, p) \/ Deletes(q, p)
      BY <1>0, <2>5, <3>4, KeysDiffer DEF FailsOnce, Deletes, DeleteRow
    <3> QED
      BY <2>1, <3>1, <3>2, <3>3, <3>4 DEF Turn
  <2>6. ASSUME NEW r \in Rows, key'[r] = Pending, r = p.row
        PROVE  p.at # "idle"
    <3>1. p = Idle \/ p.at # "idle"
      BY <2>1 DEF Turn, Still, StillEdges, Inserts, Grants, FailsOnce, Deletes
    <3> QED
      BY <2>6, <3>1, IdleIsRequest, RowNumbers
  <2>7. ASSUME NEW r \in Rows, key'[r] = Pending
        PROVE  r \in orphaned' \/ \E w \in Requests : request'[w].at # "idle" /\ request'[w].row = r
    <3>1. CASE r # request[q].row /\ r # p.row
      <4>1. key[r] = Pending
        BY <2>4, <2>7, <3>1
      <4>2. r \in orphaned \/ \E w \in Requests : request[w].at # "idle" /\ request[w].row = r
        BY <4>1 DEF PlacesAreGivenBack, At
      <4> QED
        BY <2>2, <2>3, <3>1, <4>2
    <3>2. CASE r = request[q].row \/ r = p.row
      BY <2>2, <2>5, <2>6, <2>7, <3>2
    <3> QED
      BY <3>1, <3>2
  <2> QED
    BY <2>7 DEF PlacesAreGivenBack, At
<1>2. CASE \/ \E a \in Accounts : CreateAccount(a) \/ DisableAccount(a)
           \/ AdminTick
  BY <1>2 DEF CreateAccount, DisableAccount, AdminTick, budget, PlacesAreGivenBack, At
<1>3. ASSUME NEW Q, Abandon(Q)
      PROVE  PlacesAreGivenBack'
  <2>1. /\ key' = key
        /\ orphaned' = orphaned \cup {r \in Rows : \E q \in Q : request[q].row = r}
        /\ \A w \in Requests : w \notin Q => request'[w] = request[w]
    BY <1>3 DEF Abandon
  <2> QED
    BY <2>1 DEF PlacesAreGivenBack, At
<1> QED
  BY <1>1, <1>2, <1>3 DEF AdminNext, RaiseError, StopProcess

-----------------------------------------------------------------------------

AdminInv ==
  AdminTypeOK /\ PlaceInv /\ OwnRows /\ CountInv /\ GrantInv /\ PlacesAreGivenBack

LEMMA AdminInvHolds == AdminSpec => []AdminInv
<1>1. ASSUME AdminInit
      PROVE  AdminInv
  <2>1. /\ account = [a \in Accounts |-> "none"] /\ cookies = {}
        /\ key = [r \in Rows |-> "none"] /\ failedAt = [r \in Rows |-> 0]
        /\ lastRow = 0 /\ request = [q \in Requests |-> Idle] /\ adminNow = 0
        /\ granted = {} /\ counted = [r \in Rows |-> {}] /\ orphaned = {}
    BY <1>1 DEF AdminInit
  <2>2. request \in [Requests -> AdminRequests]
        /\ \A q \in Requests : request[q].at = "idle" /\ request[q].row = 0
    BY <2>1, IdleIsRequest
  <2>3. AdminTypeOK
    BY <2>1, <2>2 DEF AdminTypeOK, AdminRequests
  <2>4. PlaceInv /\ OwnRows /\ CountInv
    BY <2>2 DEF PlaceInv, OwnRows, CountInv, LoginPlaces, RegistrationPlaces
  <2>5. GrantInv /\ PlacesAreGivenBack
    BY <2>1, KeysDiffer DEF GrantInv, PlacesAreGivenBack
  <2> QED
    BY <2>3, <2>4, <2>5 DEF AdminInv
<1>2. ASSUME AdminInv, AdminNext
      PROVE  AdminInv'
  <2>1. AdminTypeOK'
    BY <1>2, AdminTypes DEF AdminInv
  <2> QED
    BY <1>2, <2>1, PlacesKept, CountsKept, GrantsKept, PlacesGivenBack DEF AdminInv
<1>3. ASSUME AdminInv, UNCHANGED adminVars
      PROVE  AdminInv'
  <2>1. /\ account' = account /\ cookies' = cookies /\ key' = key /\ failedAt' = failedAt
        /\ lastRow' = lastRow /\ request' = request /\ adminNow' = adminNow
        /\ granted' = granted /\ counted' = counted /\ orphaned' = orphaned
    BY <1>3 DEF adminVars
  <2>2. AdminTypeOK' /\ PlaceInv' /\ OwnRows' /\ PlacesAreGivenBack'
    BY <1>3, <2>1 DEF AdminInv, AdminTypeOK, PlaceInv, OwnRows, PlacesAreGivenBack, At
  <2>3. CountInv' /\ GrantInv'
    BY <1>3, <2>1 DEF AdminInv, CountInv, GrantInv, Upto, Recent
  <2> QED
    BY <2>2, <2>3 DEF AdminInv
<1> QED
  BY <1>1, <1>2, <1>3, PTL DEF AdminSpec

(* Of the rows let through, the last counted all the others: no window has *)
(* more login attempts or registrations than the limits, in any order of   *)
(* the statements, and a pending row without its request is that of one    *)
(* that ended with an error or its process.                                *)
THEOREM AttemptsAreAllCounted == AdminSpec => []AttemptsAreCounted
<1>1. ASSUME AdminInv
      PROVE  AttemptsAreCounted
  <2>0. /\ granted \subseteq Rows /\ lastRow \in Nat
        /\ key \in [Rows -> {"none", Pending, Failure, Registration}]
    BY <1>1 DEF AdminInv, AdminTypeOK
  <2>1. \A r \in granted : r \in Nat /\ r <= lastRow /\ key[r] # "none"
    BY <1>1, <2>0, RowNumbers DEF AdminInv, GrantInv
  <2>2. ASSUME NEW G, G \subseteq granted, NEW K, NEW n \in Nat,
               \A x \in G : G \subseteq Upto(x, K) \/ \E y \in G : y > x,
               \A x \in G : Cardinality(Upto(x, K)) <= n
        PROVE  Cardinality(G) <= n
    <3>1. CASE G = {}
      BY <3>1, FS_EmptySet
    <3>2. CASE G # {}
      <4>1. G \subseteq 0 .. lastRow
        BY <2>0, <2>1, <2>2
      <4>2. PICK x \in G : \A y \in G : y <= x
        BY <2>0, <3>2, <4>1, GreatestNatural
      <4>3. \A y \in G : ~(y > x)
        BY <2>1, <2>2, <4>2
      <4>4. G \subseteq Upto(x, K)
        BY <2>2, <4>3
      <4>5. Cardinality(G) \in Nat /\ Cardinality(G) <= Cardinality(Upto(x, K))
        BY <4>4, UptoIsFinite, FS_Subset, FS_CardinalityType
      <4> QED
        BY <2>2, <4>5, UptoIsFinite
    <3> QED
      BY <3>1, <3>2
  <2>3. LoginBudget
    <3> DEFINE G == {r \in granted : key[r] # Registration /\ Recent(r)}
    <3>1. \A x \in G : key[x] \in LoginKeys /\ x \in Rows /\ x \in Nat /\ Recent(x)
      BY <2>0, <2>1 DEF LoginKeys
    <3>2. ASSUME NEW x \in G
          PROVE  G \subseteq Upto(x, LoginKeys) \/ \E y \in G : y > x
      BY <3>1 DEF Upto
    <3>3. \A x \in G : Cardinality(Upto(x, LoginKeys)) <= Limit
      BY <1>1, <3>1 DEF AdminInv, GrantInv
    <3>4. G \subseteq granted
      OBVIOUS
    <3> HIDE DEF G
    <3>5. Cardinality(G) <= Limit
      BY <2>2, <3>2, <3>3, <3>4, RowNumbers
    <3> QED
      BY <3>5 DEF G, LoginBudget
  <2>4. RegistrationBudget
    <3> DEFINE G == {r \in granted : key[r] = Registration /\ Recent(r)}
    <3>1. \A x \in G : key[x] = Registration /\ x \in Rows /\ x \in Nat /\ Recent(x)
      BY <2>0, <2>1
    <3>2. ASSUME NEW x \in G
          PROVE  G \subseteq Upto(x, {Registration}) \/ \E y \in G : y > x
      BY <3>1 DEF Upto
    <3>3. \A x \in G : Cardinality(Upto(x, {Registration})) <= RegistrationLimit
      BY <1>1, <3>1 DEF AdminInv, GrantInv
    <3>4. G \subseteq granted
      OBVIOUS
    <3> HIDE DEF G
    <3>5. Cardinality(G) <= RegistrationLimit
      BY <2>2, <3>2, <3>3, <3>4, RowNumbers
    <3> QED
      BY <3>5 DEF G, RegistrationBudget
  <2> QED
    BY <1>1, <2>3, <2>4 DEF AdminInv, AttemptsAreCounted, Budgets
<1> QED
  BY <1>1, AdminInvHolds, PTL

-----------------------------------------------------------------------------
(* SubjectAccess: the lockout, the delivery cap and the codes of a seal.   *)

VisitRecords ==
  [at : VisitStages, kind : {"login", "send"}, presented : Deliveries \cup {0},
   stamp : Nat, delivery : Deliveries \cup {0}]

(* How one visit goes on: it leaves, or takes one step of its handler.     *)
VisitEdges ==
  {<<"away", "lockout">>, <<"lockout", "factors">>, <<"factors", "otp">>,
   <<"factors", "lock">>, <<"factors", "fail">>, <<"otp", "fail">>, <<"lock", "count">>,
   <<"count", "reveal">>, <<"reveal", "store">>, <<"store", "send">>, <<"send", "respond">>}
GoesOn(v, p) ==
  /\ visit' = [visit EXCEPT ![v] = p]
  /\ \/ p = Away /\ visit[v].at # "store"
     \/ /\ <<visit[v].at, p.at>> \in VisitEdges
        /\ p.at = "lockout" => p.delivery = 0
        /\ p.at = "store" => p.delivery = Len(reveals) + 1 /\ Len(reveals) < MaxReveals
        /\ p.at \notin {"lockout", "store"} => p.delivery = visit[v].delivery

(* Constants, and what is away. *)
LEMMA SubjectNumbers ==
  /\ MaxFailures \in Nat /\ LockoutWindow \in Nat /\ DeliveryCap \in Nat
  /\ DeliveryWindow \in Nat /\ CodeExpiry \in Nat /\ MaxReveals \in Nat
BY SubjectConstants

LEMMA AwayIsRecord ==
  Away \in VisitRecords /\ Away.at = "away" /\ Away.delivery = 0
BY DEF Away, VisitRecords, VisitStages

LEMMA VisitsGoOn ==
  ASSUME SubjectTypeOK, NEW v \in Visits, VisitStep(v)
  PROVE  \E p \in VisitRecords : GoesOn(v, p)
<1> DEFINE o == visit[v]
<1>1. visit \in [Visits -> VisitRecords] /\ o \in VisitRecords
  BY DEF SubjectTypeOK, VisitRecords
<1>2. ASSUME Leave(v), o.at # "store"
      PROVE  \E p \in VisitRecords : GoesOn(v, p)
  BY <1>2, AwayIsRecord DEF Leave, GoesOn
<1>3. ASSUME NEW at \in VisitStages, MoveTo(v, at), <<o.at, at>> \in VisitEdges,
             at \notin {"lockout", "store"}
      PROVE  \E p \in VisitRecords : GoesOn(v, p)
  <2> DEFINE p == [o EXCEPT !.at = at]
  <2>1. p \in VisitRecords /\ p.at = at /\ p.delivery = o.delivery
    BY <1>1 DEF VisitRecords
  <2>2. visit' = [visit EXCEPT ![v] = p]
    BY <1>1, <1>3 DEF MoveTo
  <2> HIDE DEF p
  <2> QED
    BY <1>3, <2>1, <2>2 DEF GoesOn
<1>4. ASSUME NEW kind \in {"login", "send"}, NEW d \in Deliveries \cup {0}, Submit(v, kind, d)
      PROVE  \E p \in VisitRecords : GoesOn(v, p)
  <2> DEFINE p == [Away EXCEPT !.at = "lockout", !.kind = kind, !.presented = d]
  <2>1. p \in VisitRecords /\ p.at = "lockout" /\ p.delivery = 0
    BY AwayIsRecord DEF VisitRecords, VisitStages
  <2>2. visit' = [visit EXCEPT ![v] = p] /\ o.at = "away"
    BY <1>4 DEF Submit, Stage
  <2> HIDE DEF p
  <2> QED
    BY <2>1, <2>2 DEF GoesOn, VisitEdges
<1>5. CASE \/ PassLockout(v) \/ RefuseLocked(v) \/ FailFactors(v) \/ RefuseUnavailable(v)
           \/ RecordFailure(v) \/ LockSeal(v) \/ GiveUpLock(v) \/ RefuseDelivery(v)
           \/ FailReveal(v) \/ StoreCode(v) \/ SendMail(v) \/ Respond(v)
  BY <1>2, <1>3, <1>5 DEF PassLockout, RefuseLocked, FailFactors, RefuseUnavailable,
     RecordFailure, LockSeal, GiveUpLock, RefuseDelivery, FailReveal, StoreCode, SendMail,
     Respond, Stage, VisitEdges, VisitStages
<1>6. CASE PassFactors(v)
  <2>1. CASE visit[v].kind = "login"
    BY <1>3, <1>6, <2>1 DEF PassFactors, Stage, VisitEdges, VisitStages
  <2>2. CASE visit[v].kind # "login"
    BY <1>3, <1>6, <2>2 DEF PassFactors, Stage, VisitEdges, VisitStages
  <2> QED
    BY <2>1, <2>2
<1>7. ASSUME NEW right \in BOOLEAN, VerifyCode(v, right)
      PROVE  \E p \in VisitRecords : GoesOn(v, p)
  <2>1. o.at = "otp" /\ (Leave(v) \/ MoveTo(v, "fail"))
    BY <1>7 DEF VerifyCode, Stage
  <2> QED
    BY <1>2, <1>3, <2>1 DEF VisitEdges, VisitStages
<1>8. CASE CountReveals(v)
  <2> DEFINE p == [o EXCEPT !.at = "reveal", !.stamp = subjectNow]
  <2>1. p \in VisitRecords /\ p.at = "reveal" /\ p.delivery = o.delivery
    BY <1>1 DEF VisitRecords, VisitStages, SubjectTypeOK
  <2>2. visit' = [visit EXCEPT ![v] = p] /\ o.at = "count"
    BY <1>1, <1>8 DEF CountReveals, Stage
  <2> HIDE DEF p
  <2> QED
    BY <2>1, <2>2 DEF GoesOn, VisitEdges
<1>9. CASE AuditReveal(v)
  <2> DEFINE p == [o EXCEPT !.at = "store", !.delivery = Len(reveals) + 1]
  <2>1. Len(reveals) + 1 \in Deliveries /\ Len(reveals) < MaxReveals
    BY <1>9, SubjectNumbers DEF AuditReveal, Deliveries, SubjectTypeOK
  <2>2. p \in VisitRecords /\ p.at = "store" /\ p.delivery = Len(reveals) + 1
    BY <1>1, <2>1 DEF VisitRecords, VisitStages
  <2>3. visit' = [visit EXCEPT ![v] = p] /\ o.at = "reveal"
    BY <1>1, <1>9 DEF AuditReveal, Stage
  <2> HIDE DEF p
  <2> QED
    BY <2>1, <2>2, <2>3 DEF GoesOn, VisitEdges
<1> QED
  BY <1>4, <1>5, <1>6, <1>7, <1>8, <1>9 DEF VisitStep

(* What a step writes besides. *)
Writes(v) ==
  /\ \/ failures' = failures
     \/ failures' = Append(failures, subjectNow) /\ visit[v].at = "fail" /\ visit'[v].at = "away"
  /\ \/ reveals' = reveals /\ visit'[v].at # "store"
     \/ /\ reveals' = Append(reveals, visit[v].stamp)
        /\ visit[v].at = "reveal" /\ visit'[v].at = "store"
  /\ \/ sealLock' = sealLock
        /\ visit[v].at \notin {"count", "reveal"} /\ visit'[v].at \notin {"count", "reveal"}
     \/ sealLock' = sealLock /\ visit[v].at = "count" /\ visit'[v].at = "reveal"
     \/ sealLock = "free" /\ sealLock' = v /\ visit'[v].at = "count"
     \/ /\ sealLock' = "free"
        /\ visit[v].at \in {"count", "reveal"} /\ visit'[v].at \notin {"count", "reveal"}
  /\ visit'[v].at = "factors" => Cardinality(RecentFailures) < MaxFailures
  /\ visit'[v].at = "reveal" => Cardinality(RecentReveals) < DeliveryCap
  /\ subjectNow' = subjectNow
  /\ cookie' \in {cookie, visit[v].delivery}

LEMMA VisitWrites ==
  ASSUME SubjectTypeOK, NEW v \in Visits, VisitStep(v)
  PROVE  Writes(v)
<1>1. v \in DOMAIN visit
  BY DEF SubjectTypeOK
<1>2. ASSUME NEW kind \in {"login", "send"}, NEW d \in Deliveries \cup {0}, Submit(v, kind, d)
      PROVE  Writes(v)
  BY <1>1, <1>2 DEF Submit, Stage, Writes, tables, Away
<1>3. CASE \/ PassLockout(v) \/ RefuseLocked(v) \/ PassFactors(v) \/ FailFactors(v)
           \/ RefuseUnavailable(v)
  BY <1>1, <1>3 DEF PassLockout, RefuseLocked, PassFactors, FailFactors, RefuseUnavailable,
     Stage, MoveTo, Leave, Away, Writes, tables, SubjectTypeOK
<1>4. CASE RecordFailure(v)
  BY <1>1, <1>4 DEF RecordFailure, Stage, Leave, Away, Writes, SubjectTypeOK
<1>5. ASSUME NEW right \in BOOLEAN, VerifyCode(v, right)
      PROVE  Writes(v)
  <2>1. visit[v].at = "otp" /\ (Leave(v) \/ MoveTo(v, "fail"))
    BY <1>5 DEF VerifyCode, Stage
  <2>2. visit'[v].at \in {"away", "fail"}
    BY <1>1, <2>1 DEF Leave, MoveTo, Away, SubjectTypeOK
  <2> QED
    BY <1>5, <2>1, <2>2 DEF VerifyCode, Writes, tables
<1>6. CASE LockSeal(v) \/ GiveUpLock(v) \/ CountReveals(v) \/ RefuseDelivery(v) \/ FailReveal(v)
  BY <1>1, <1>6 DEF LockSeal, GiveUpLock, CountReveals, RefuseDelivery, FailReveal,
     Stage, MoveTo, Leave, Away, Writes, tables, SubjectTypeOK
<1>7. CASE AuditReveal(v)
  BY <1>1, <1>7 DEF AuditReveal, Stage, Writes, SubjectTypeOK
<1>8. CASE StoreCode(v) \/ SendMail(v) \/ Respond(v)
  BY <1>1, <1>8 DEF StoreCode, SendMail, Respond, Stage, MoveTo, Leave, Away, Writes, tables,
     SubjectTypeOK
<1> QED
  BY <1>2, <1>3, <1>4, <1>5, <1>6, <1>7, <1>8 DEF VisitStep

(* What happens to the codes and the e-mails. *)
Handles(v) ==
  \/ UNCHANGED <<otp, mailed>> /\ visit'[v].at \notin {"send", "respond"}
  \/ \E right \in BOOLEAN : VerifyCode(v, right)
  \/ StoreCode(v)
  \/ SendMail(v)

LEMMA VisitHandles ==
  ASSUME SubjectTypeOK, NEW v \in Visits, VisitStep(v)
  PROVE  Handles(v)
<1>1. v \in DOMAIN visit
  BY DEF SubjectTypeOK
<1>2. ASSUME NEW kind \in {"login", "send"}, NEW d \in Deliveries \cup {0}, Submit(v, kind, d)
      PROVE  Handles(v)
  BY <1>1, <1>2 DEF Submit, Handles, Away
<1>3. CASE \/ PassLockout(v) \/ RefuseLocked(v) \/ PassFactors(v) \/ FailFactors(v)
           \/ RefuseUnavailable(v) \/ RecordFailure(v)
           \/ LockSeal(v) \/ GiveUpLock(v) \/ CountReveals(v) \/ RefuseDelivery(v)
           \/ FailReveal(v) \/ AuditReveal(v)
  BY <1>1, <1>3 DEF PassLockout, RefuseLocked, PassFactors, FailFactors, RefuseUnavailable,
     RecordFailure, LockSeal, GiveUpLock, CountReveals, RefuseDelivery, FailReveal, AuditReveal,
     MoveTo, Leave, Away, Handles, SubjectTypeOK
<1>4. CASE Respond(v)
  BY <1>1, <1>4 DEF Respond, Leave, Away, Handles
<1> QED
  BY <1>2, <1>3, <1>4 DEF VisitStep, Handles

-----------------------------------------------------------------------------
(* Types. *)

(* A request has a delivery from its audit row to its end. *)
OwnInv ==
  \A v \in Visits : /\ visit[v].at \in {"store", "send", "respond"} <=> visit[v].delivery # 0
                    /\ visit[v].delivery <= Len(reveals)

LEMMA SubjectTypes ==
  ASSUME SubjectTypeOK, OwnInv, SubjectNext
  PROVE  SubjectTypeOK'
<1>1. ASSUME NEW v \in Visits, VisitStep(v)
      PROVE  SubjectTypeOK'
  <2>1. PICK p \in VisitRecords : GoesOn(v, p)
    BY <1>1, VisitsGoOn
  <2>2. visit \in [Visits -> VisitRecords]
    BY DEF SubjectTypeOK, VisitRecords
  <2>3. visit' \in [Visits -> VisitRecords]
    BY <2>1, <2>2 DEF GoesOn
  <2>4. visit[v].stamp \in Nat /\ visit[v].presented \in Deliveries \cup {0}
        /\ visit[v].delivery \in Deliveries \cup {0}
    BY <2>2 DEF VisitRecords
  <2>5. failures' \in Seq(Nat) /\ reveals' \in Seq(Nat) /\ subjectNow' \in Nat
    <3>1. failures' = failures \/ failures' = Append(failures, subjectNow)
      BY <1>1, VisitWrites DEF Writes
    <3>2. reveals' = reveals \/ reveals' = Append(reveals, visit[v].stamp)
      BY <1>1, VisitWrites DEF Writes
    <3>3. subjectNow' = subjectNow
      BY <1>1, VisitWrites DEF Writes
    <3>4. failures \in Seq(Nat) /\ reveals \in Seq(Nat) /\ subjectNow \in Nat
      BY DEF SubjectTypeOK
    <3>5. failures' \in Seq(Nat)
      <4>1. Append(failures, subjectNow) \in Seq(Nat)
        BY <3>4, AppendProperties
      <4> QED
        BY <3>1, <3>4, <4>1
    <3>6. reveals' \in Seq(Nat)
      <4>1. Append(reveals, visit[v].stamp) \in Seq(Nat)
        BY <2>4, <3>4, AppendProperties
      <4> QED
        BY <3>2, <3>4, <4>1
    <3> QED
      BY <3>3, <3>4, <3>5, <3>6
  <2>6. sealLock' \in Visits \cup {"free"}
    BY <1>1, VisitWrites DEF Writes, SubjectTypeOK
  <2>7. /\ codes' \subseteq Deliveries /\ storedAt' \in [Deliveries -> Nat]
        /\ mailed' \subseteq Deliveries /\ tried' \in [Deliveries -> Nat]
        /\ lost' \subseteq Deliveries
    <3>1. CASE UNCHANGED <<otp, mailed>>
      BY <3>1 DEF otp, SubjectTypeOK
    <3>2. ASSUME NEW right \in BOOLEAN, VerifyCode(v, right)
          PROVE  /\ codes' \subseteq Deliveries /\ storedAt' \in [Deliveries -> Nat]
                 /\ mailed' \subseteq Deliveries /\ tried' \in [Deliveries -> Nat]
                 /\ lost' \subseteq Deliveries
      BY <2>4, <3>2 DEF VerifyCode, TakeCode, Valid, SubjectTypeOK
    <3>3. CASE StoreCode(v)
      <4>1. visit[v].delivery \in Deliveries
        BY <2>4, <3>3 DEF StoreCode, Stage, OwnInv
      <4> QED
        BY <3>3, <4>1 DEF StoreCode, SubjectTypeOK
    <3>4. CASE SendMail(v)
      <4>1. visit[v].delivery \in Deliveries
        BY <2>4, <3>4 DEF SendMail, Stage, OwnInv
      <4>2. mailed' \subseteq Deliveries
        BY <3>4, <4>1 DEF SendMail, SubjectTypeOK
      <4>3. UNCHANGED otp
        BY <3>4 DEF SendMail
      <4> QED
        BY <4>2, <4>3 DEF otp, SubjectTypeOK
    <3> QED
      BY <1>1, VisitHandles, <3>1, <3>2, <3>3, <3>4 DEF Handles
  <2>8. cookie' \in Deliveries \cup {0}
    BY <1>1, <2>4, VisitWrites DEF Writes, SubjectTypeOK
  <2> QED
    BY <2>3, <2>5, <2>6, <2>7, <2>8 DEF SubjectTypeOK, VisitRecords
<1>2. CASE OpenPage \/ SubjectTick
  BY <1>2 DEF OpenPage, SubjectTick, SubjectTypeOK, tables, otp
<1>3. CASE StopWorker
  <2>1. visit' \in [Visits -> VisitRecords]
    BY <1>3, AwayIsRecord DEF StopWorker
  <2>2. \A v \in Visits : visit[v].delivery \in Deliveries \cup {0}
    BY DEF SubjectTypeOK
  <2>3. lost' \subseteq Deliveries
    BY <1>3, <2>2 DEF StopWorker, SubjectTypeOK
  <2> QED
    BY <1>3, <2>1, <2>3 DEF StopWorker, SubjectTypeOK, VisitRecords, tables
<1> QED
  BY <1>1, <1>2, <1>3 DEF SubjectNext

LEMMA OwnsKept ==
  ASSUME SubjectTypeOK, OwnInv, SubjectNext
  PROVE  OwnInv'
<1>1. ASSUME NEW v \in Visits, VisitStep(v)
      PROVE  OwnInv'
  <2>1. PICK p \in VisitRecords : GoesOn(v, p)
    BY <1>1, VisitsGoOn
  <2>2. visit \in [Visits -> VisitRecords]
    BY DEF SubjectTypeOK, VisitRecords
  <2>3. visit' = [visit EXCEPT ![v] = p]
    BY <2>1 DEF GoesOn
  <2>4. Len(reveals') \in Nat /\ Len(reveals) \in Nat /\ Len(reveals) <= Len(reveals')
    <3>1. reveals' = reveals \/ reveals' = Append(reveals, visit[v].stamp)
      BY <1>1, VisitWrites DEF Writes
    <3> QED
      BY <3>1, <2>2 DEF SubjectTypeOK, VisitRecords
  <2>5. p.at = "store" => Len(reveals') = Len(reveals) + 1
    <3>1. ASSUME p.at = "store"
          PROVE  reveals' = Append(reveals, visit[v].stamp)
      BY <1>1, <2>2, <2>3, <3>1, VisitWrites DEF Writes
    <3> QED
      BY <3>1, <2>2 DEF SubjectTypeOK, VisitRecords
  <2>6. \/ p = Away
        \/ p.at = "lockout" /\ p.delivery = 0
        \/ p.at = "store" /\ p.delivery = Len(reveals) + 1
        \/ /\ p.delivery = visit[v].delivery
           /\ p.at \in {"send", "respond"} <=> visit[v].at \in {"store", "send", "respond"}
           /\ p.at # "store"
    BY <2>1 DEF GoesOn, VisitEdges
  <2>7. /\ p.at \in {"store", "send", "respond"} <=> p.delivery # 0
        /\ p.delivery <= Len(reveals')
    BY <2>2, <2>4, <2>5, <2>6, AwayIsRecord DEF OwnInv, VisitRecords, Deliveries
  <2>8. ASSUME NEW w \in Visits, w # v
        PROVE  /\ visit'[w].at \in {"store", "send", "respond"} <=> visit'[w].delivery # 0
               /\ visit'[w].delivery <= Len(reveals')
    BY <2>2, <2>3, <2>4, <2>8 DEF OwnInv, VisitRecords, Deliveries
  <2> QED
    BY <2>2, <2>3, <2>7, <2>8 DEF OwnInv
<1>2. CASE OpenPage \/ SubjectTick
  BY <1>2 DEF OpenPage, SubjectTick, OwnInv, tables
<1>3. CASE StopWorker
  BY <1>3, AwayIsRecord DEF StopWorker, OwnInv, tables, SubjectTypeOK
<1> QED
  BY <1>1, <1>2, <1>3 DEF SubjectNext

-----------------------------------------------------------------------------
(* The lock, the cap and the lockout. *)

SealLockInv ==
  \A v \in Visits : visit[v].at \in {"count", "reveal"} <=> sealLock = v
CapInv ==
  /\ Cardinality(RecentReveals) <= DeliveryCap
  /\ \A v \in Visits : visit[v].at = "reveal" => Cardinality(RecentReveals) < DeliveryCap
Passed == {v \in Visits : visit[v].at \in {"factors", "otp", "fail"}}
FailInv ==
  Cardinality(RecentFailures) + Cardinality(Passed) < MaxFailures + Cardinality(Visits)

LEMMA LocksKept ==
  ASSUME SubjectTypeOK, SealLockInv, SubjectNext
  PROVE  SealLockInv'
<1>1. ASSUME NEW v \in Visits, VisitStep(v)
      PROVE  SealLockInv'
  <2>1. PICK p \in VisitRecords : GoesOn(v, p)
    BY <1>1, VisitsGoOn
  <2>2. visit \in [Visits -> VisitRecords] /\ visit' = [visit EXCEPT ![v] = p]
    BY <2>1 DEF SubjectTypeOK, VisitRecords, GoesOn
  <2>3. visit'[v] = p /\ \A w \in Visits : w # v => visit'[w] = visit[w]
    BY <2>2
  <2>4. \/ /\ sealLock' = sealLock
           /\ visit[v].at \notin {"count", "reveal"} /\ p.at \notin {"count", "reveal"}
        \/ sealLock' = sealLock /\ visit[v].at = "count" /\ p.at = "reveal"
        \/ sealLock = "free" /\ sealLock' = v /\ p.at = "count"
        \/ /\ sealLock' = "free"
           /\ visit[v].at \in {"count", "reveal"} /\ p.at \notin {"count", "reveal"}
    BY <1>1, <2>3, VisitWrites DEF Writes
  <2> QED
    BY <2>3, <2>4, SubjectConstants DEF SealLockInv
<1>2. CASE OpenPage \/ SubjectTick
  BY <1>2 DEF OpenPage, SubjectTick, SealLockInv
<1>3. CASE StopWorker
  BY <1>3, AwayIsRecord, SubjectConstants DEF StopWorker, SealLockInv
<1> QED
  BY <1>1, <1>2, <1>3 DEF SubjectNext

(* What counts is finite; an entry adds at most one to it, time only takes away. *)
LEMMA RecentIsFinite ==
  ASSUME SubjectTypeOK
  PROVE  /\ IsFiniteSet(RecentFailures) /\ Cardinality(RecentFailures) \in Nat
         /\ IsFiniteSet(RecentReveals) /\ Cardinality(RecentReveals) \in Nat
<1>1. /\ DOMAIN failures = 1 .. Len(failures) /\ Len(failures) \in Nat
      /\ DOMAIN reveals = 1 .. Len(reveals) /\ Len(reveals) \in Nat
  BY DEF SubjectTypeOK
<1>2. IsFiniteSet(DOMAIN failures) /\ IsFiniteSet(DOMAIN reveals)
  BY <1>1, FS_Interval
<1>3. RecentFailures \subseteq DOMAIN failures /\ RecentReveals \subseteq DOMAIN reveals
  BY DEF RecentFailures, RecentReveals
<1>4. IsFiniteSet(RecentFailures) /\ IsFiniteSet(RecentReveals)
  BY <1>2, <1>3, FS_Subset
<1> QED
  BY <1>4, FS_CardinalityType

LEMMA OneMore ==
  ASSUME NEW S, NEW T, NEW e, IsFiniteSet(S), T \subseteq S \cup {e}
  PROVE  IsFiniteSet(T) /\ Cardinality(T) \in Nat /\ Cardinality(T) <= Cardinality(S) + 1
<1>1. /\ IsFiniteSet(S \cup {e})
      /\ Cardinality(S \cup {e}) \in {Cardinality(S), Cardinality(S) + 1}
  BY FS_AddElement
<1>2. IsFiniteSet(T) /\ Cardinality(T) <= Cardinality(S \cup {e})
  BY <1>1, FS_Subset
<1>3. Cardinality(T) \in Nat /\ Cardinality(S) \in Nat
  BY <1>2, FS_CardinalityType
<1> QED
  BY <1>1, <1>2, <1>3

LEMMA RecentGrows ==
  ASSUME SubjectTypeOK, SubjectTypeOK', subjectNow <= subjectNow'
  PROVE  /\ reveals' = reveals => RecentReveals' \subseteq RecentReveals
         /\ failures' = failures => RecentFailures' \subseteq RecentFailures
         /\ \A t \in Nat : reveals' = Append(reveals, t)
              => RecentReveals' \subseteq RecentReveals \cup {Len(reveals) + 1}
         /\ \A t \in Nat : failures' = Append(failures, t)
              => RecentFailures' \subseteq RecentFailures \cup {Len(failures) + 1}
<1>0. /\ failures \in Seq(Nat) /\ reveals \in Seq(Nat) /\ subjectNow \in Nat
      /\ failures' \in Seq(Nat) /\ reveals' \in Seq(Nat) /\ subjectNow' \in Nat
  BY DEF SubjectTypeOK
<1>1. \A i \in DOMAIN failures : failures[i] \in Nat
  BY <1>0
<1>2. \A i \in DOMAIN reveals : reveals[i] \in Nat
  BY <1>0
<1>3. ASSUME reveals' = reveals
      PROVE  RecentReveals' \subseteq RecentReveals
  BY <1>0, <1>2, <1>3, SubjectNumbers DEF RecentReveals
<1>4. ASSUME failures' = failures
      PROVE  RecentFailures' \subseteq RecentFailures
  BY <1>0, <1>1, <1>4, SubjectNumbers DEF RecentFailures
<1>5. ASSUME NEW t \in Nat, reveals' = Append(reveals, t)
      PROVE  RecentReveals' \subseteq RecentReveals \cup {Len(reveals) + 1}
  <2>0. /\ Len(reveals') = Len(reveals) + 1 /\ Len(reveals) \in Nat
        /\ DOMAIN reveals = 1 .. Len(reveals) /\ DOMAIN reveals' = 1 .. Len(reveals')
        /\ \A i \in 1 .. Len(reveals) : reveals'[i] = reveals[i]
    BY <1>0, <1>5, AppendProperties
  <2>1. /\ DOMAIN reveals' = DOMAIN reveals \cup {Len(reveals) + 1}
        /\ \A i \in DOMAIN reveals : reveals'[i] = reveals[i]
    BY <2>0
  <2> QED
    BY <1>0, <1>2, <2>1, SubjectNumbers DEF RecentReveals
<1>6. ASSUME NEW t \in Nat, failures' = Append(failures, t)
      PROVE  RecentFailures' \subseteq RecentFailures \cup {Len(failures) + 1}
  <2>0. /\ Len(failures') = Len(failures) + 1 /\ Len(failures) \in Nat
        /\ DOMAIN failures = 1 .. Len(failures) /\ DOMAIN failures' = 1 .. Len(failures')
        /\ \A i \in 1 .. Len(failures) : failures'[i] = failures[i]
    BY <1>0, <1>6, AppendProperties
  <2>1. /\ DOMAIN failures' = DOMAIN failures \cup {Len(failures) + 1}
        /\ \A i \in DOMAIN failures : failures'[i] = failures[i]
    BY <2>0
  <2> QED
    BY <1>0, <1>1, <2>1, SubjectNumbers DEF RecentFailures
<1> QED
  BY <1>3, <1>4, <1>5, <1>6

LEMMA CapKept ==
  ASSUME SubjectTypeOK, SubjectTypeOK', SealLockInv, SealLockInv', CapInv, SubjectNext
  PROVE  CapInv'
<1>0. Cardinality(RecentReveals) \in Nat /\ IsFiniteSet(RecentReveals)
  BY RecentIsFinite
<1>a. ASSUME RecentReveals' \subseteq RecentReveals
      PROVE  Cardinality(RecentReveals') \in Nat
             /\ Cardinality(RecentReveals') <= Cardinality(RecentReveals)
  BY <1>0, <1>a, FS_Subset, FS_CardinalityType
<1>b. Cardinality(RecentReveals)' = Cardinality(RecentReveals')
  OBVIOUS
<1>1. ASSUME NEW v \in Visits, VisitStep(v)
      PROVE  CapInv'
  <2>1. PICK p \in VisitRecords : GoesOn(v, p)
    BY <1>1, VisitsGoOn
  <2>2. visit \in [Visits -> VisitRecords] /\ visit' = [visit EXCEPT ![v] = p]
    BY <2>1 DEF SubjectTypeOK, VisitRecords, GoesOn
  <2>3. visit'[v] = p /\ \A w \in Visits : w # v => visit'[w] = visit[w]
    BY <2>2
  <2>4. subjectNow' = subjectNow /\ subjectNow \in Nat /\ visit[v].stamp \in Nat
    BY <1>1, <2>2, VisitWrites DEF Writes, SubjectTypeOK, VisitRecords
  <2>5. CASE reveals' = reveals
    <3>1. RecentReveals' = RecentReveals
      BY <2>4, <2>5 DEF RecentReveals
    <3>2. p.at = "reveal" => Cardinality(RecentReveals) < DeliveryCap
      BY <1>1, <2>3, VisitWrites DEF Writes
    <3> QED
      BY <2>3, <3>1, <3>2 DEF CapInv
  <2>6. CASE reveals' # reveals
    <3>1. reveals' = Append(reveals, visit[v].stamp) /\ visit[v].at = "reveal" /\ p.at = "store"
      BY <1>1, <2>3, <2>6, VisitWrites DEF Writes
    <3>2. RecentReveals' \subseteq RecentReveals \cup {Len(reveals) + 1}
      BY <2>4, <3>1, RecentGrows
    <3>3. Cardinality(RecentReveals') \in Nat
          /\ Cardinality(RecentReveals') <= Cardinality(RecentReveals) + 1
      BY <1>0, <3>2, OneMore
    <3>4. Cardinality(RecentReveals) < DeliveryCap
      BY <3>1 DEF CapInv
    <3>5. \A w \in Visits : visit'[w].at # "reveal"
      BY <2>3, <3>1 DEF SealLockInv
    <3> QED
      BY <1>0, <3>3, <3>4, <3>5, SubjectNumbers DEF CapInv
  <2> QED
    BY <2>5, <2>6
<1>2. CASE OpenPage
  <2>1. RecentReveals' = RecentReveals /\ visit' = visit
    BY <1>2 DEF OpenPage, tables, RecentReveals
  <2> QED
    BY <2>1 DEF CapInv
<1>3. CASE SubjectTick
  <2>1. visit' = visit /\ reveals' = reveals /\ subjectNow <= subjectNow'
    BY <1>3 DEF SubjectTick, tables, SubjectTypeOK
  <2>2. RecentReveals' \subseteq RecentReveals
    BY <2>1, RecentGrows
  <2>3. Cardinality(RecentReveals') \in Nat
        /\ Cardinality(RecentReveals') <= Cardinality(RecentReveals)
    BY <1>a, <2>2
  <2> QED
    BY <1>0, <2>1, <2>3, SubjectNumbers DEF CapInv
<1>4. CASE StopWorker
  <2>1. RecentReveals' = RecentReveals
    BY <1>4 DEF StopWorker, tables, RecentReveals
  <2>2. \A v \in Visits : visit'[v].at = "away"
    BY <1>4, AwayIsRecord DEF StopWorker
  <2> QED
    BY <2>1, <2>2 DEF CapInv
<1> QED
  BY <1>1, <1>2, <1>3, <1>4 DEF SubjectNext

LEMMA FailuresBounded ==
  ASSUME SubjectTypeOK, SubjectTypeOK', FailInv, SubjectNext
  PROVE  FailInv'
<1>0. Cardinality(RecentFailures) \in Nat /\ IsFiniteSet(RecentFailures)
  BY RecentIsFinite
<1>1. /\ IsFiniteSet(Visits) /\ Cardinality(Visits) \in Nat
      /\ IsFiniteSet(Passed) /\ Cardinality(Passed) \in Nat
      /\ IsFiniteSet(Passed') /\ Cardinality(Passed') \in Nat
      /\ Cardinality(Passed') <= Cardinality(Visits)
  <2>1. IsFiniteSet(Visits) /\ Passed \subseteq Visits /\ Passed' \subseteq Visits
    BY SubjectConstants DEF Passed
  <2>2. IsFiniteSet(Passed) /\ IsFiniteSet(Passed')
        /\ Cardinality(Passed') <= Cardinality(Visits)
    BY <2>1, FS_Subset
  <2> QED
    BY <2>1, <2>2, FS_CardinalityType
<1>2. ASSUME RecentFailures' \subseteq RecentFailures, Passed' \subseteq Passed
      PROVE  FailInv'
  <2>1. /\ Cardinality(RecentFailures') \in Nat
        /\ Cardinality(RecentFailures') <= Cardinality(RecentFailures)
    BY <1>0, <1>2, FS_Subset, FS_CardinalityType
  <2>2. Cardinality(Passed') <= Cardinality(Passed)
    BY <1>1, <1>2, FS_Subset
  <2> QED
    BY <1>0, <1>1, <2>1, <2>2, SubjectNumbers DEF FailInv
<1>3. ASSUME NEW v \in Visits, VisitStep(v)
      PROVE  FailInv'
  <2>1. PICK p \in VisitRecords : GoesOn(v, p)
    BY <1>3, VisitsGoOn
  <2>2. visit \in [Visits -> VisitRecords] /\ visit' = [visit EXCEPT ![v] = p]
    BY <2>1 DEF SubjectTypeOK, VisitRecords, GoesOn
  <2>3. visit'[v] = p /\ \A w \in Visits : w # v => visit'[w] = visit[w]
    BY <2>2
  <2>4. subjectNow' = subjectNow /\ subjectNow \in Nat
    BY <1>3, VisitWrites DEF Writes, SubjectTypeOK
  <2>5. CASE p.at = "factors"
    <3>1. Cardinality(RecentFailures) < MaxFailures
      BY <1>3, <2>3, <2>5, VisitWrites DEF Writes
    <3>2. failures' = failures
      BY <1>3, <2>3, <2>5, VisitWrites DEF Writes
    <3>3. RecentFailures' = RecentFailures
      BY <2>4, <3>2 DEF RecentFailures
    <3> QED
      BY <1>0, <1>1, <3>1, <3>3, SubjectNumbers DEF FailInv
  <2>6. CASE p.at # "factors" /\ failures' = failures
    <3>1. visit[v].at \in {"factors", "otp", "fail"} \/ p.at \notin {"factors", "otp", "fail"}
      BY <2>1, <2>6, AwayIsRecord DEF GoesOn, VisitEdges
    <3>2. Passed' \subseteq Passed
      BY <2>3, <3>1 DEF Passed
    <3>3. RecentFailures' \subseteq RecentFailures
      BY <2>4, <2>6 DEF RecentFailures
    <3> QED
      BY <1>2, <3>2, <3>3
  <2>7. CASE failures' # failures
    <3>1. failures' = Append(failures, subjectNow) /\ visit[v].at = "fail" /\ p.at = "away"
      BY <1>3, <2>3, <2>7, VisitWrites DEF Writes
    <3>2. RecentFailures' \subseteq RecentFailures \cup {Len(failures) + 1}
      BY <2>4, <3>1, RecentGrows
    <3>3. Cardinality(RecentFailures') \in Nat
          /\ Cardinality(RecentFailures') <= Cardinality(RecentFailures) + 1
      BY <1>0, <3>2, OneMore
    <3>4. v \in Passed /\ Passed' \subseteq Passed \ {v}
      BY <2>3, <3>1 DEF Passed
    <3>5. IsFiniteSet(Passed \ {v}) /\ Cardinality(Passed \ {v}) = Cardinality(Passed) - 1
      BY <1>1, <3>4, FS_RemoveElement
    <3>6. Cardinality(Passed') <= Cardinality(Passed) - 1
      BY <3>4, <3>5, FS_Subset
    <3> QED
      BY <1>0, <1>1, <3>3, <3>6, SubjectNumbers DEF FailInv
  <2> QED
    BY <2>5, <2>6, <2>7
<1>4. CASE OpenPage
  <2>1. RecentFailures' = RecentFailures /\ Passed' = Passed
    BY <1>4 DEF OpenPage, tables, RecentFailures, Passed
  <2> QED
    BY <1>2, <2>1
<1>5. CASE SubjectTick
  <2>1. visit' = visit /\ failures' = failures /\ subjectNow <= subjectNow'
    BY <1>5 DEF SubjectTick, tables, SubjectTypeOK
  <2>2. RecentFailures' \subseteq RecentFailures /\ Passed' = Passed
    BY <2>1, RecentGrows DEF Passed
  <2> QED
    BY <1>2, <2>2
<1>6. CASE StopWorker
  <2>1. RecentFailures' = RecentFailures
    BY <1>6 DEF StopWorker, tables, RecentFailures
  <2>2. Passed' \subseteq Passed
    BY <1>6, AwayIsRecord DEF StopWorker, Passed
  <2> QED
    BY <1>2, <2>1, <2>2
<1> QED
  BY <1>3, <1>4, <1>5, <1>6 DEF SubjectNext

-----------------------------------------------------------------------------
(* The codes. *)

(* No two requests have one delivery.  A delivery has nothing before its   *)
(* code is stored, and from then on its code is there, was compared, was   *)
(* lost or has expired.                                                    *)
Apart ==
  \A v, w \in Visits : v # w /\ visit[v].delivery # 0 => visit[v].delivery # visit[w].delivery
Used(d) == d \in codes \/ d \in mailed \/ tried[d] # 0
Unstored ==
  /\ \A d \in Deliveries : Used(d) => d <= Len(reveals)
  /\ \A v \in Visits : visit[v].at = "store" => ~Used(visit[v].delivery)
Accounted(d) == d \in codes \/ tried[d] # 0 \/ d \in lost \/ Expired(d)
TriedOnce == \A d \in Deliveries : tried[d] <= 1 /\ (d \in codes => tried[d] = 0)
NoneMissing ==
  /\ \A d \in mailed : Accounted(d)
  /\ \A v \in Visits : visit[v].at \in {"send", "respond"} => Accounted(visit[v].delivery)

LEMMA ApartKept ==
  ASSUME SubjectTypeOK, OwnInv, Apart, SubjectNext
  PROVE  Apart'
<1>1. ASSUME NEW v \in Visits, VisitStep(v)
      PROVE  Apart'
  <2>1. PICK p \in VisitRecords : GoesOn(v, p)
    BY <1>1, VisitsGoOn
  <2>2. visit \in [Visits -> VisitRecords] /\ visit' = [visit EXCEPT ![v] = p]
    BY <2>1 DEF SubjectTypeOK, VisitRecords, GoesOn
  <2>3. visit'[v] = p /\ \A w \in Visits : w # v => visit'[w] = visit[w]
    BY <2>2
  <2>4. p.delivery \in {0, visit[v].delivery, Len(reveals) + 1}
    BY <2>1, AwayIsRecord DEF GoesOn
  <2>5. Len(reveals) \in Nat
    BY DEF SubjectTypeOK
  <2>6. \A w \in Visits : visit[w].delivery \in Nat /\ visit[w].delivery <= Len(reveals)
    BY <2>2 DEF OwnInv, VisitRecords, Deliveries
  <2>7. \A w \in Visits : visit[w].delivery # Len(reveals) + 1
    BY <2>5, <2>6
  <2> QED
    BY <2>3, <2>4, <2>7 DEF Apart
<1>2. CASE OpenPage \/ SubjectTick
  BY <1>2 DEF OpenPage, SubjectTick, Apart
<1>3. CASE StopWorker
  BY <1>3, AwayIsRecord DEF StopWorker, Apart
<1> QED
  BY <1>1, <1>2, <1>3 DEF SubjectNext

LEMMA Moved ==
  ASSUME SubjectTypeOK, NEW v \in Visits, NEW at, MoveTo(v, at)
  PROVE  visit'[v].at = at /\ visit'[v].delivery = visit[v].delivery
<1>1. v \in DOMAIN visit /\ visit[v] \in VisitRecords
  BY DEF SubjectTypeOK, VisitRecords
<1>2. visit'[v] = [visit[v] EXCEPT !.at = at]
  BY <1>1 DEF MoveTo
<1> QED
  BY <1>1, <1>2 DEF VisitRecords

LEMMA TriedKept ==
  ASSUME SubjectTypeOK, OwnInv, Unstored, TriedOnce, SubjectNext
  PROVE  TriedOnce'
<1>0. tried \in [Deliveries -> Nat] /\ codes \subseteq Deliveries
  BY DEF SubjectTypeOK
<1>1. ASSUME UNCHANGED <<codes, tried>>
      PROVE  TriedOnce'
  BY <1>1 DEF TriedOnce
<1>2. ASSUME NEW v \in Visits, NEW right \in BOOLEAN, VerifyCode(v, right)
      PROVE  TriedOnce'
  <2> DEFINE d == visit[v].presented
  <2>1. codes' = codes \ {d}
        /\ tried' = IF d \in codes /\ Valid(d) THEN [tried EXCEPT ![d] = @ + 1] ELSE tried
    BY <1>2 DEF VerifyCode, TakeCode, Valid
  <2> HIDE DEF d
  <2>2. CASE d \in codes /\ Valid(d)
    <3>0. d \in Deliveries /\ tried[d] = 0
      BY <1>0, <2>2 DEF TriedOnce
    <3>1. tried' = [tried EXCEPT ![d] = 1]
      BY <2>1, <2>2, <3>0
    <3> QED
      BY <1>0, <2>1, <3>1 DEF TriedOnce
  <2>3. CASE ~(d \in codes /\ Valid(d))
    BY <2>1, <2>3 DEF TriedOnce
  <2> QED
    BY <2>2, <2>3
<1>3. ASSUME NEW v \in Visits, StoreCode(v)
      PROVE  TriedOnce'
  <2>1. codes' \subseteq codes \cup {visit[v].delivery} /\ tried' = tried
    BY <1>3 DEF StoreCode
  <2>2. tried[visit[v].delivery] = 0
    BY <1>3 DEF StoreCode, Stage, Unstored, Used
  <2> QED
    BY <2>1, <2>2 DEF TriedOnce
<1>4. CASE StopWorker
  BY <1>4 DEF StopWorker, TriedOnce
<1>5. CASE OpenPage \/ SubjectTick
  BY <1>1, <1>5 DEF OpenPage, SubjectTick, otp
<1>6. ASSUME NEW v \in Visits, VisitStep(v)
      PROVE  TriedOnce'
  BY <1>1, <1>2, <1>3, <1>6, VisitHandles DEF Handles, SendMail, otp
<1> QED
  BY <1>4, <1>5, <1>6 DEF SubjectNext

LEMMA UnstoredKept ==
  ASSUME SubjectTypeOK, OwnInv, Apart, Unstored, SubjectNext
  PROVE  Unstored'
<1>0. /\ tried \in [Deliveries -> Nat] /\ codes \subseteq Deliveries
      /\ mailed \subseteq Deliveries /\ Len(reveals) \in Nat
      /\ visit \in [Visits -> VisitRecords]
  BY DEF SubjectTypeOK, VisitRecords
<1>1. ASSUME NEW v \in Visits, VisitStep(v)
      PROVE  Unstored'
  <2>1. PICK p \in VisitRecords : GoesOn(v, p)
    BY <1>1, VisitsGoOn
  <2>2. visit' = [visit EXCEPT ![v] = p]
    BY <2>1 DEF GoesOn
  <2>3. visit'[v] = p /\ \A w \in Visits : w # v => visit'[w] = visit[w]
    BY <1>0, <2>2
  <2>4. \A w \in Visits : visit[w].delivery \in Nat /\ visit[w].delivery <= Len(reveals)
    BY <1>0 DEF OwnInv, VisitRecords, Deliveries
  <2>5. Len(reveals') \in Nat /\ Len(reveals) <= Len(reveals')
    <3>1. reveals' = reveals \/ reveals' = Append(reveals, visit[v].stamp)
      BY <1>1, VisitWrites DEF Writes
    <3> QED
      BY <1>0, <3>1 DEF SubjectTypeOK, VisitRecords
  <2>6. \A d \in Deliveries : Used(d)' => Used(d) \/ (d = visit[v].delivery /\ p.at # "store")
    <3>1. CASE UNCHANGED <<otp, mailed>>
      BY <3>1 DEF otp, Used
    <3>2. ASSUME NEW right \in BOOLEAN, VerifyCode(v, right)
          PROVE  \A d \in Deliveries : Used(d)' => Used(d)
      BY <1>0, <3>2 DEF VerifyCode, TakeCode, Valid, Used
    <3>3. CASE StoreCode(v)
      <4>1. p.at # "store"
        BY <2>3, <3>3, Moved DEF StoreCode
      <4> QED
        BY <3>3, <4>1 DEF StoreCode, Used
    <3>4. CASE SendMail(v)
      <4>1. p.at # "store"
        BY <2>3, <3>4, Moved DEF SendMail
      <4> QED
        BY <3>4, <4>1 DEF SendMail, Used, otp
    <3> QED
      BY <1>1, VisitHandles, <3>1, <3>2, <3>3, <3>4 DEF Handles
  <2>7. ASSUME NEW d \in Deliveries, Used(d)'
        PROVE  d <= Len(reveals')
    <3>1. d \in Nat
      BY SubjectNumbers DEF Deliveries
    <3>2. d <= Len(reveals)
      BY <2>4, <2>6, <2>7 DEF Unstored
    <3> QED
      BY <1>0, <2>5, <3>1, <3>2
  <2>8. ASSUME NEW w \in Visits, visit'[w].at = "store"
        PROVE  ~Used(visit[w].delivery)'
    <3>1. CASE w # v
      <4>1. visit'[w] = visit[w] /\ visit[w].at = "store"
        BY <2>3, <2>8, <3>1
      <4>2. visit[w].delivery \in Deliveries /\ ~Used(visit[w].delivery)
            /\ visit[w].delivery # visit[v].delivery
        BY <1>0, <3>1, <4>1 DEF OwnInv, Unstored, Apart, VisitRecords
      <4>3. PICK d \in Deliveries : d = visit[w].delivery
        BY <4>2
      <4>4. ~Used(d)'
        BY <2>6, <4>2, <4>3
      <4> QED
        BY <4>1, <4>3, <4>4 DEF Used
    <3>2. CASE w = v
      <4>1. p.at = "store"
        BY <2>3, <2>8, <3>2
      <4>2. p.delivery = Len(reveals) + 1 /\ Len(reveals) < MaxReveals
        BY <2>1, <4>1, AwayIsRecord DEF GoesOn
      <4>3. PICK d \in Deliveries : d = p.delivery
        BY <1>0, <4>2, SubjectNumbers DEF Deliveries
      <4>4. ~Used(d)
        BY <1>0, <4>2, <4>3 DEF Unstored
      <4>5. ~Used(d)'
        BY <2>6, <4>1, <4>4
      <4> QED
        BY <2>3, <3>2, <4>3, <4>5 DEF Used
    <3> QED
      BY <3>1, <3>2
  <2> QED
    BY <2>7, <2>8 DEF Unstored, Used
<1>2. CASE OpenPage \/ SubjectTick
  BY <1>2 DEF OpenPage, SubjectTick, Unstored, Used, otp, tables
<1>3. CASE StopWorker
  <2>1. \A w \in Visits : visit'[w].at # "store"
    BY <1>3, AwayIsRecord DEF StopWorker
  <2>2. reveals' = reveals
    BY <1>3 DEF StopWorker, tables
  <2>3. \A d \in Deliveries : Used(d)' => Used(d)
    BY <1>3 DEF StopWorker, Used
  <2> QED
    BY <2>1, <2>2, <2>3 DEF Unstored
<1> QED
  BY <1>1, <1>2, <1>3 DEF SubjectNext

LEMMA NoneGoesMissing ==
  ASSUME SubjectTypeOK, SubjectTypeOK', OwnInv, Apart, Unstored, NoneMissing, SubjectNext
  PROVE  NoneMissing'
<1>0. /\ tried \in [Deliveries -> Nat] /\ codes \subseteq Deliveries
      /\ mailed \subseteq Deliveries /\ storedAt \in [Deliveries -> Nat]
      /\ visit \in [Visits -> VisitRecords] /\ subjectNow \in Nat
  BY DEF SubjectTypeOK, VisitRecords
<1>1. ASSUME NEW v \in Visits, VisitStep(v)
      PROVE  NoneMissing'
  <2>1. PICK p \in VisitRecords : GoesOn(v, p)
    BY <1>1, VisitsGoOn
  <2>2. visit' = [visit EXCEPT ![v] = p]
    BY <2>1 DEF GoesOn
  <2>3. visit'[v] = p /\ \A w \in Visits : w # v => visit'[w] = visit[w]
    BY <1>0, <2>2
  <2>4. subjectNow' = subjectNow
    BY <1>1, VisitWrites DEF Writes
  <2>5. ASSUME \A d \in Deliveries : Accounted(d) => Accounted(d)',
               mailed' = mailed, p.at \notin {"send", "respond"}
        PROVE  NoneMissing'
    <3>1. ASSUME NEW w \in Visits, visit'[w].at \in {"send", "respond"}
          PROVE  Accounted(visit[w].delivery)' /\ visit'[w] = visit[w]
      <4>1. visit'[w] = visit[w] /\ visit[w].at \in {"send", "respond"}
        BY <2>3, <2>5, <3>1
      <4>2. PICK d \in Deliveries : d = visit[w].delivery
        BY <1>0, <4>1 DEF OwnInv, VisitRecords
      <4>3. Accounted(d)'
        BY <2>5, <4>1, <4>2 DEF NoneMissing
      <4> QED
        BY <4>1, <4>2, <4>3 DEF Accounted, Expired
    <3> QED
      BY <1>0, <2>5, <3>1 DEF NoneMissing, Accounted, Expired
  <2>6. CASE UNCHANGED <<otp, mailed>> /\ visit'[v].at \notin {"send", "respond"}
    <3>1. \A d \in Deliveries : Accounted(d) => Accounted(d)'
      BY <2>4, <2>6 DEF Accounted, Expired, otp
    <3> QED
      BY <2>3, <2>5, <2>6, <3>1
  <2>7. ASSUME NEW right \in BOOLEAN, VerifyCode(v, right)
        PROVE  NoneMissing'
    <3>1. p.at \notin {"send", "respond"}
      <4>1. Leave(v) \/ MoveTo(v, "fail")
        BY <2>7 DEF VerifyCode
      <4>2. CASE Leave(v)
        BY <1>0, <2>3, <4>2, AwayIsRecord DEF Leave
      <4> QED
        BY <2>3, <4>1, <4>2, Moved
    <3>2. \A d \in Deliveries : Accounted(d) => Accounted(d)'
      <4> DEFINE x == visit[v].presented
      <4>1. /\ codes' = codes \ {x} /\ lost' = lost /\ storedAt' = storedAt
            /\ tried' = IF Valid(x) THEN [tried EXCEPT ![x] = @ + 1] ELSE tried
        BY <2>7 DEF VerifyCode, TakeCode
      <4> HIDE DEF x
      <4>2. CASE Valid(x)
        <5>1. tried' = [tried EXCEPT ![x] = tried[x] + 1] /\ x \in Deliveries
          BY <1>0, <4>1, <4>2 DEF Valid
        <5>2. tried'[x] # 0 /\ \A d \in Deliveries : d # x => tried'[d] = tried[d]
          BY <1>0, <5>1
        <5> QED
          BY <2>4, <4>1, <5>2 DEF Accounted, Expired
      <4>3. CASE ~Valid(x)
        <5>1. x \in codes => Expired(x)
          BY <1>0, <4>3, SubjectNumbers DEF Valid, Expired
        <5> QED
          BY <2>4, <4>1, <4>3, <5>1 DEF Accounted, Expired
      <4> QED
        BY <4>2, <4>3
    <3> QED
      BY <2>5, <2>7, <3>1, <3>2 DEF VerifyCode
  <2>8. CASE StoreCode(v)
    <3>1. PICK x \in Deliveries : x = visit[v].delivery
      BY <1>0, <2>8 DEF StoreCode, Stage, OwnInv, VisitRecords
    <3>2. /\ codes' = {c \in codes : ~Expired(c)} \cup {x}
          /\ storedAt' = [storedAt EXCEPT ![x] = subjectNow]
          /\ tried' = tried /\ lost' = lost /\ mailed' = mailed
      BY <2>8, <3>1 DEF StoreCode
    <3>3. \A d \in Deliveries : d # x /\ Accounted(d) => Accounted(d)'
      BY <1>0, <2>4, <3>2 DEF Accounted, Expired
    <3>4. Accounted(x)'
      BY <3>2 DEF Accounted
    <3>5. \A d \in Deliveries : Accounted(d) => Accounted(d)'
      BY <3>3, <3>4
    <3>6. p.delivery = x
      BY <2>3, <2>8, <3>1, Moved DEF StoreCode
    <3>7. ASSUME NEW w \in Visits, visit'[w].at \in {"send", "respond"}
          PROVE  Accounted(visit[w].delivery)'
      <4>1. PICK d \in Deliveries : d = visit'[w].delivery /\ (d = x \/ Accounted(d))
        BY <1>0, <2>3, <3>6, <3>7 DEF OwnInv, NoneMissing, VisitRecords
      <4>2. Accounted(d)'
        BY <3>4, <3>5, <4>1
      <4> QED
        BY <4>1, <4>2 DEF Accounted, Expired
    <3> QED
      BY <1>0, <3>2, <3>5, <3>7 DEF NoneMissing, Accounted, Expired
  <2>9. CASE SendMail(v)
    <3>1. \A d \in Deliveries : Accounted(d) => Accounted(d)'
      BY <2>4, <2>9 DEF Accounted, Expired, otp, SendMail
    <3>2. PICK x \in Deliveries : x = visit[v].delivery /\ Accounted(x)
      BY <1>0, <2>9 DEF SendMail, Stage, OwnInv, NoneMissing, VisitRecords
    <3>3. p.delivery = x
      BY <2>3, <2>9, <3>2, Moved DEF SendMail
    <3>4. mailed' \subseteq mailed \cup {x}
      BY <2>9, <3>2 DEF SendMail
    <3>5. \A d \in mailed' : Accounted(d)'
      BY <1>0, <3>1, <3>2, <3>4 DEF NoneMissing
    <3>6. ASSUME NEW w \in Visits, visit'[w].at \in {"send", "respond"}
          PROVE  Accounted(visit[w].delivery)'
      <4>1. PICK d \in Deliveries : d = visit'[w].delivery /\ Accounted(d)
        BY <1>0, <2>3, <3>2, <3>3, <3>6 DEF OwnInv, NoneMissing, VisitRecords
      <4>2. Accounted(d)'
        BY <3>1, <4>1
      <4> QED
        BY <4>1, <4>2 DEF Accounted, Expired
    <3> QED
      BY <3>5, <3>6 DEF NoneMissing, Accounted, Expired
  <2> QED
    BY <1>1, VisitHandles, <2>6, <2>7, <2>8, <2>9 DEF Handles
<1>2. CASE OpenPage
  BY <1>2 DEF OpenPage, NoneMissing, Accounted, Expired, otp
<1>3. CASE SubjectTick
  <2>1. subjectNow' = subjectNow + 1 /\ UNCHANGED <<codes, storedAt, tried, lost, visit, mailed>>
    BY <1>3 DEF SubjectTick, otp
  <2>2. \A d \in Deliveries : Expired(d) => Expired(d)'
    BY <1>0, <2>1, SubjectNumbers DEF Expired
  <2>3. \A d \in Deliveries : Accounted(d) => Accounted(d)'
    BY <2>1, <2>2 DEF Accounted
  <2>4. ASSUME NEW w \in Visits, visit'[w].at \in {"send", "respond"}
        PROVE  Accounted(visit[w].delivery)'
    <3>1. PICK d \in Deliveries : d = visit'[w].delivery /\ Accounted(d)
      BY <1>0, <2>1, <2>4 DEF OwnInv, NoneMissing, VisitRecords
    <3>2. Accounted(d)'
      BY <2>3, <3>1
    <3> QED
      BY <3>1, <3>2 DEF Accounted, Expired
  <2> QED
    BY <1>0, <2>1, <2>3, <2>4 DEF NoneMissing, Accounted, Expired
<1>4. CASE StopWorker
  <2>1. \A w \in Visits : visit'[w].at = "away"
    BY <1>4, AwayIsRecord DEF StopWorker
  <2>2. \A d \in Deliveries : Accounted(d) => Accounted(d)'
    BY <1>4 DEF StopWorker, Accounted, Expired
  <2>3. mailed' = mailed
    BY <1>4 DEF StopWorker
  <2> QED
    BY <1>0, <2>1, <2>2, <2>3 DEF NoneMissing, Accounted, Expired
<1> QED
  BY <1>1, <1>2, <1>3, <1>4 DEF SubjectNext

-----------------------------------------------------------------------------
(* The invariant. *)

SubjectInv ==
  /\ SubjectTypeOK /\ OwnInv
  /\ SealLockInv /\ CapInv /\ FailInv
  /\ Apart /\ TriedOnce /\ Unstored /\ NoneMissing

LEMMA SubjectInvHolds == SubjectSpec => []SubjectInv
<1>1. ASSUME SubjectInit
      PROVE  SubjectInv
  <2>1. /\ failures = <<>> /\ reveals = <<>> /\ codes = {} /\ mailed = {} /\ lost = {}
        /\ storedAt = [d \in Deliveries |-> 0] /\ tried = [d \in Deliveries |-> 0]
        /\ cookie = 0 /\ sealLock = "free" /\ subjectNow = 0
        /\ visit = [v \in Visits |-> Away]
    BY <1>1 DEF SubjectInit
  <2>2. visit \in [Visits -> VisitRecords]
        /\ \A v \in Visits : visit[v].at = "away" /\ visit[v].delivery = 0
    BY <2>1, AwayIsRecord
  <2>3. SubjectTypeOK
    BY <2>1, <2>2 DEF SubjectTypeOK, VisitRecords
  <2>4. OwnInv /\ Apart /\ NoneMissing
    BY <2>1, <2>2 DEF OwnInv, Apart, NoneMissing
  <2>5. SealLockInv
    BY <2>1, <2>2, SubjectConstants DEF SealLockInv
  <2>6. TriedOnce /\ Unstored
    BY <2>1, <2>2 DEF TriedOnce, Unstored, Used
  <2>7. RecentReveals = {} /\ RecentFailures = {} /\ Passed = {}
    BY <2>1, <2>2 DEF RecentReveals, RecentFailures, Passed
  <2>8. CapInv
    BY <2>2, <2>7, FS_EmptySet, SubjectNumbers DEF CapInv
  <2>9. Cardinality(Visits) \in Nat /\ Cardinality(Visits) # 0
    BY SubjectConstants, FS_CardinalityType, FS_EmptySet
  <2>10. FailInv
    BY <2>7, <2>9, FS_EmptySet, SubjectNumbers DEF FailInv
  <2> QED
    BY <2>3, <2>4, <2>5, <2>6, <2>8, <2>10 DEF SubjectInv
<1>2. ASSUME SubjectInv, SubjectNext
      PROVE  SubjectInv'
  <2>1. SubjectTypeOK' /\ OwnInv' /\ SealLockInv'
    BY <1>2, SubjectTypes, OwnsKept, LocksKept DEF SubjectInv
  <2>2. CapInv' /\ FailInv'
    BY <1>2, <2>1, CapKept, FailuresBounded DEF SubjectInv
  <2>3. Apart' /\ TriedOnce' /\ Unstored' /\ NoneMissing'
    BY <1>2, <2>1, ApartKept, TriedKept, UnstoredKept, NoneGoesMissing DEF SubjectInv
  <2> QED
    BY <2>1, <2>2, <2>3 DEF SubjectInv
<1>3. ASSUME SubjectInv, UNCHANGED subjectVars
      PROVE  SubjectInv'
  <2>1. /\ failures' = failures /\ reveals' = reveals /\ codes' = codes /\ mailed' = mailed
        /\ lost' = lost /\ storedAt' = storedAt /\ tried' = tried /\ cookie' = cookie
        /\ sealLock' = sealLock /\ subjectNow' = subjectNow /\ visit' = visit
    BY <1>3 DEF subjectVars
  <2>2. RecentReveals' = RecentReveals /\ RecentFailures' = RecentFailures /\ Passed' = Passed
    BY <2>1 DEF RecentReveals, RecentFailures, Passed
  <2>3. CapInv' /\ FailInv'
    BY <1>3, <2>1, <2>2 DEF SubjectInv, CapInv, FailInv
  <2>4. SubjectTypeOK' /\ OwnInv' /\ SealLockInv'
    BY <1>3, <2>1 DEF SubjectInv, SubjectTypeOK, OwnInv, SealLockInv
  <2>5. Apart' /\ TriedOnce' /\ Unstored' /\ NoneMissing'
    BY <1>3, <2>1 DEF SubjectInv, Apart, TriedOnce, Unstored, NoneMissing, Used,
       Accounted, Expired
  <2> QED
    BY <2>3, <2>4, <2>5 DEF SubjectInv
<1> QED
  BY <1>1, <1>2, <1>3, PTL DEF SubjectSpec

(* Within any window no more e-mail addresses are decrypted for deliveries *)
(* than the cap: the row that is counted commits under the seal's lock.    *)
THEOREM DeliveriesStayWithinCap == SubjectSpec => []DeliveriesWithinCap
<1>1. SubjectInv => DeliveriesWithinCap
  BY DEF SubjectInv, CapInv, DeliveriesWithinCap
<1> QED
  BY <1>1, SubjectInvHolds, PTL

(* The lockout is exceeded by fewer failures than requests run at once:    *)
(* failures and requests past the check are together below both numbers.   *)
THEOREM FailuresStayNearLimit == SubjectSpec => []FailuresNearLimit
<1>1. ASSUME SubjectInv
      PROVE  FailuresNearLimit
  <2>1. IsFiniteSet(Passed)
    BY SubjectConstants, FS_Subset DEF Passed
  <2>2. Cardinality(Passed) \in Nat /\ Cardinality(RecentFailures) \in Nat
        /\ Cardinality(Visits) \in Nat
    BY <1>1, <2>1, RecentIsFinite, SubjectConstants, FS_CardinalityType DEF SubjectInv
  <2> QED
    BY <1>1, <2>2, SubjectNumbers DEF SubjectInv, FailInv, FailuresNearLimit
<1> QED
  BY <1>1, SubjectInvHolds, PTL

(* A code is compared at most once, and a mailed code the browser names    *)
(* that has not expired, was not compared and not lost is still there.     *)
THEOREM CodesAreTriedOnce == SubjectSpec => []CodeCanBeTriedOnce
<1>1. SubjectInv => CodeCanBeTriedOnce
  BY DEF SubjectInv, TriedOnce, NoneMissing, Accounted, CodeCanBeTriedOnce
<1> QED
  BY <1>1, SubjectInvHolds, PTL

-----------------------------------------------------------------------------
(* RecordProtection: the protected identity and records of a seal.         *)
(*                                                                         *)
(* Everything rests on the seal's write lock, which a process holds from   *)
(* the choice of the data key to the commit.                               *)

Job ==
  [at : {"idle", "lock", "key", "commit", "survey", "checkpoint",
         "vacuum", "truncate", "count", "done", "refused"},
   task : Events \cup {Identity}, text : Texts \cup {NoText, Garbled},
   key : KeyIds, todo : SUBSET Events, failed : BOOLEAN]

(* The lock is held by the process that is in its transaction, and a       *)
(* process at rest has nothing in progress.                                *)
WriteLockInv ==
  /\ \A p \in Processes : job[p].at \in {"key", "commit"} <=> holder = p
  /\ \A p \in Processes : job[p].at = "idle" => job[p] = NoJob
  /\ \A w \in Writers :
       /\ job[w].at \in {"idle", "lock", "key", "commit"}
       /\ job[w].at # "idle" => job[w].task \in Events /\ job[w].text \in Texts

(* The key everything is under; a lost key row held the first one made. *)
TheKey == IF dataKey # 0 THEN dataKey ELSE 1

KeyInv ==
  /\ identity.form = "sealed" => identity.key = TheKey
  /\ \A e \in Events : record[e].form = "sealed" => record[e].key = TheKey
  /\ \A r \in Readers : view[r].at = "key" => view[r].row.key = TheKey /\ Use
  /\ identity.form = "none" => dataKey = 0 /\ ~Use

(* What a transaction found under the lock is so until it commits. *)
CommitInv ==
  \A p \in Processes : job[p].at = "commit" =>
    /\ job[p].key # 0 /\ identity.form # "none"
    /\ job[p].key = dataKey \/ (dataKey = 0 /\ ~Use)
    /\ p \in Migrations => StillPlain(p)

RecordInv ==
  /\ ProtectionTypeOK
  /\ WriteLockInv
  /\ KeyInv
  /\ CommitInv
  /\ StoredIsReceived

(* A stored value by its form. *)
LEMMA ValueForms ==
  ASSUME NEW v \in Values
  PROVE  /\ v.form \in {"none", "plain", "sealed"} /\ v.key \in KeyIds
         /\ v.text \in Texts \cup {NoText, Garbled}
         /\ v.form = "plain" => v.text \in Texts
BY ProtectionConstants DEF Values, Nothing, Plain, Sealed, KeyIds

(* A task taken from the list. *)
LEMMA TakenTask ==
  ASSUME NEW S, S # {}
  PROVE  (CHOOSE e \in S : TRUE) \in S
OBVIOUS

(* What follows a task: the survey, the next record or the end, by what is *)
(* left to do.                                                             *)
LEMMA AfterTaskGives ==
  ASSUME ProtectionTypeOK, NEW m \in Processes, NEW failed \in BOOLEAN
  PROVE  LET j == job[m]
             n == AfterTask(m, failed)
         IN  /\ n \in Job
             /\ n.failed = (j.failed \/ failed)
             /\ j.task = Identity => n.at = "survey"
             /\ j.task # Identity /\ j.todo = {} => n.at = "checkpoint"
             /\ j.task # Identity /\ j.todo # {} =>
                  /\ n.at = "lock" /\ n.task \in j.todo
                  /\ n.todo = j.todo \ {n.task}
<1> DEFINE j == job[m]
           more == j.task # Identity /\ j.todo # {}
           chosen == CHOOSE e \in j.todo : TRUE
           at == IF j.task = Identity THEN "survey"
                 ELSE IF j.todo = {} THEN "checkpoint" ELSE "lock"
           task == IF more THEN chosen ELSE Identity
           todo == IF more THEN j.todo \ {chosen} ELSE j.todo
           fail == j.failed \/ failed
<1>1. j \in Job
  BY DEF ProtectionTypeOK, Job
<1>2. AfterTask(m, failed) = [j EXCEPT !.key = 0, !.failed = fail, !.at = at,
                                       !.task = task, !.todo = todo]
  BY DEF AfterTask
<1>3. more => chosen \in j.todo
  BY TakenTask
<1>4. j.todo \subseteq Events
  BY <1>1 DEF Job
<1>5. task \in Events \cup {Identity} /\ todo \in SUBSET Events
  BY <1>3, <1>4
<1>6. fail \in BOOLEAN
  OBVIOUS
<1>7. at \in {"survey", "checkpoint", "lock"}
  OBVIOUS
<1>8. 0 \in KeyIds
  BY ProtectionConstants DEF KeyIds
<1> DEFINE n == AfterTask(m, failed)
<1>9. n \in Job /\ n.failed = fail /\ n.at = at /\ n.task = task /\ n.todo = todo
  <2> HIDE DEF at, task, todo, fail, j
  <2> QED
    BY <1>1, <1>2, <1>5, <1>6, <1>7, <1>8 DEF Job
<1> HIDE DEF n, chosen
<1> QED
  BY <1>3, <1>9 DEF n

(* A step that only moves one job, and takes or leaves the lock with it. *)
Moves(p, q) ==
  /\ job' = [job EXCEPT ![p] = q]
  /\ UNCHANGED <<stored, view, snapshot>>

(* How the lock goes with it. *)
LockGoes(p, q) ==
  \/ /\ holder' = holder
     /\ q.at \in {"key", "commit"} <=> job[p].at \in {"key", "commit"}
  \/ /\ holder' = IF holder = p THEN "free" ELSE holder
     /\ q.at \notin {"key", "commit"}
  \/ /\ holder = "free" /\ holder' = p
     /\ q.at \in {"key", "commit"}

(* What the job then is. *)
Fits(p, q) ==
  /\ q \in Job
  /\ q.at = "idle" => q = NoJob
  /\ p \in Writers =>
       /\ q.at \in {"idle", "lock", "key", "commit"}
       /\ q.at # "idle" => q.task \in Events /\ q.text \in Texts

(* The steps that write nothing to the tables. *)
MigrationMoves(m) ==
  \/ BeginMigration(m) \/ SurveyRecords(m) \/ SkipConverted(m) \/ Checkpoint(m)
  \/ Vacuum(m) \/ ScrubFails(m) \/ CountPlaintext(m) \/ EndMigration(m)

LEMMA NoJobFits ==
  ASSUME NEW p
  PROVE  Fits(p, NoJob) /\ NoJob.at = "idle"
BY ProtectionConstants DEF NoJob, Fits, Job, KeyIds

(* The jobs of the invariant. *)
LEMMA JobType ==
  ASSUME RecordInv, NEW p \in Processes
  PROVE  job[p] \in Job /\ Fits(p, job[p])
<1>1. job[p] \in Job
  BY DEF RecordInv, ProtectionTypeOK, Job
<1> QED
  BY <1>1 DEF RecordInv, WriteLockInv, Fits

LEMMA LockForWriteMoves ==
  ASSUME RecordInv, NEW p \in Processes, LockForWrite(p)
  PROVE  \E q : Moves(p, q) /\ LockGoes(p, q) /\ Fits(p, q) /\ q.at = "key"
<1> DEFINE q == [job[p] EXCEPT !.at = "key"]
<1>1. Moves(p, q)
  BY DEF LockForWrite, StepTo, Moves, RecordInv, ProtectionTypeOK
<1>2. q \in Job /\ q.at = "key" /\ q.task = job[p].task /\ q.text = job[p].text
  BY JobType DEF Job
<1>3. LockGoes(p, q)
  BY <1>2 DEF LockForWrite, LockIsFree, LockGoes
<1>4. Fits(p, q)
  BY <1>2, JobType DEF Fits, LockForWrite, InStep
<1> QED
  BY <1>1, <1>2, <1>3, <1>4

LEMMA EndingMoves ==
  ASSUME RecordInv, NEW p \in Processes, RollBack(p) \/ Crash(p)
  PROVE  \E q : Moves(p, q) /\ LockGoes(p, q) /\ Fits(p, q) /\ q.at # "commit"
<1>1. PICK q \in {NoJob, AfterTask(p, TRUE)} :
        Moves(p, q) /\ (q = NoJob \/ (p \in Migrations /\ p \notin Writers))
  BY ProtectionConstants DEF RollBack, Crash, Moves
<1>2. holder' = IF holder = p THEN "free" ELSE holder
  BY DEF RollBack, Crash, FreeLock
<1>3. CASE q = NoJob
  BY <1>1, <1>2, <1>3, NoJobFits DEF LockGoes
<1>4. CASE q = AfterTask(p, TRUE) /\ p \notin Writers
  <2>1. q \in Job /\ q.at \in {"survey", "checkpoint", "lock"}
    BY <1>4, AfterTaskGives DEF RecordInv
  <2> QED
    BY <1>1, <1>2, <1>4, <2>1 DEF LockGoes, Fits
<1> QED
  BY <1>1, <1>3, <1>4

LEMMA BeginSubmissionMoves ==
  ASSUME RecordInv, NEW w \in Writers, NEW e \in Events, NEW text \in Texts,
         BeginSubmission(w, e, text)
  PROVE  \E q : Moves(w, q) /\ LockGoes(w, q) /\ Fits(w, q) /\ q.at # "commit"
<1> DEFINE q == [NoJob EXCEPT !.at = "lock", !.task = e, !.text = text]
<1>1. Moves(w, q)
  BY DEF BeginSubmission, Moves
<1>2. q \in Job /\ q.at = "lock" /\ q.task = e /\ q.text = text
  <2>1. NoJob \in Job
    BY NoJobFits DEF Fits
  <2> QED
    BY <2>1 DEF Job
<1> HIDE DEF q
<1>4. Fits(w, q)
  BY <1>2 DEF Fits
<1>3. LockGoes(w, q)
  BY <1>2 DEF BeginSubmission, LockGoes, InStep
<1> QED
  BY <1>1, <1>2, <1>3, <1>4

LEMMA MigrationMovesGive ==
  ASSUME RecordInv, NEW m \in Migrations, MigrationMoves(m)
  PROVE  \E q : Moves(m, q) /\ LockGoes(m, q) /\ Fits(m, q) /\ q.at # "commit"
<1>1. m \in Processes /\ m \notin Writers /\ job[m] \in Job
  BY ProtectionConstants, JobType DEF Processes
<1>2. ASSUME NEW at \in {"lock", "survey", "checkpoint", "vacuum", "truncate",
                         "done", "refused"},
             StepTo(m, at), UNCHANGED <<stored, holder, view, snapshot>>,
             job[m].at \notin {"key", "commit"}
      PROVE  \E q : Moves(m, q) /\ LockGoes(m, q) /\ Fits(m, q) /\ q.at # "commit"
  <2> DEFINE q == [job[m] EXCEPT !.at = at]
  <2>1. q \in Job /\ q.at = at
    BY <1>1 DEF Job
  <2>2. Moves(m, q)
    BY <1>1, <1>2 DEF Moves, StepTo, RecordInv, ProtectionTypeOK
  <2> HIDE DEF q
  <2> QED
    BY <1>1, <1>2, <2>1, <2>2 DEF LockGoes, Fits
<1>3. CASE SurveyRecords(m)
  <2> DEFINE e == CHOOSE e \in PlainEvents : TRUE
             q == IF PlainEvents = {} THEN [job[m] EXCEPT !.at = "checkpoint"]
                  ELSE [job[m] EXCEPT !.at = "lock", !.task = e, !.todo = PlainEvents \ {e}]
  <2>1. Moves(m, q) /\ holder' = holder /\ job[m].at = "survey"
    BY <1>3 DEF SurveyRecords, Moves, InStep
  <2>2. PlainEvents \subseteq Events /\ (PlainEvents # {} => e \in PlainEvents)
    BY TakenTask DEF PlainEvents
  <2>3. q \in Job /\ q.at \in {"checkpoint", "lock"}
    <3> HIDE DEF e
    <3> QED
      BY <1>1, <2>2 DEF Job
  <2> HIDE DEF q
  <2> QED
    BY <1>1, <2>1, <2>3 DEF LockGoes, Fits
<1>4. CASE SkipConverted(m)
  <2> DEFINE q == AfterTask(m, FALSE)
  <2>1. Moves(m, q) /\ holder' = IF holder = m THEN "free" ELSE holder
    BY <1>4 DEF SkipConverted, Moves, FreeLock
  <2>2. q \in Job /\ q.at \in {"survey", "checkpoint", "lock"}
    BY <1>1, AfterTaskGives DEF RecordInv
  <2> HIDE DEF q
  <2> QED
    BY <1>1, <2>1, <2>2 DEF LockGoes, Fits
<1>5. CASE EndMigration(m)
  <2>1. Moves(m, NoJob) /\ holder' = holder /\ job[m].at \notin {"key", "commit"}
    BY <1>5 DEF EndMigration, Moves
  <2> QED
    BY <2>1, NoJobFits DEF LockGoes
<1>6. CASE \/ BeginMigration(m) \/ Checkpoint(m) \/ Vacuum(m) \/ ScrubFails(m)
           \/ CountPlaintext(m)
  BY <1>2, <1>6 DEF BeginMigration, Checkpoint, Vacuum, ScrubFails, CountPlaintext,
                    InStep
<1> QED
  BY <1>3, <1>4, <1>5, <1>6 DEF MigrationMoves

(* Such a step keeps the invariant. *)
LEMMA MovingKeeps ==
  ASSUME RecordInv, NEW p \in Processes, NEW q, Moves(p, q), LockGoes(p, q),
         Fits(p, q), q.at # "commit"
  PROVE  RecordInv'
<1>1. /\ job \in [Processes -> Job] /\ holder \in Processes \cup {"free"}
      /\ job' = [job EXCEPT ![p] = q] /\ q \in Job /\ "free" \notin Processes
      /\ UNCHANGED <<identity, dataKey, record, residue, lastKey, received, view,
                     snapshot>>
  BY ProtectionConstants
     DEF RecordInv, ProtectionTypeOK, Job, Moves, Fits, stored, Processes
<1>2. job' \in [Processes -> Job] /\ holder' \in Processes \cup {"free"}
  BY <1>1 DEF LockGoes
<1>3. ProtectionTypeOK'
  BY <1>1, <1>2 DEF RecordInv, ProtectionTypeOK, Job
<1>4. \A r \in Processes : job'[r].at \in {"key", "commit"} <=> holder' = r
  BY <1>1 DEF RecordInv, WriteLockInv, LockGoes
<1>5. WriteLockInv'
  <2>1. \A r \in Processes : job'[r].at = "idle" => job'[r] = NoJob
    BY <1>1 DEF RecordInv, WriteLockInv, Fits
  <2>2. \A w \in Writers :
          /\ job'[w].at \in {"idle", "lock", "key", "commit"}
          /\ job'[w].at # "idle" => job'[w].task \in Events /\ job'[w].text \in Texts
    BY <1>1 DEF RecordInv, WriteLockInv, Fits, Processes
  <2> QED
    BY <1>4, <2>1, <2>2 DEF WriteLockInv
<1>6. KeyInv' /\ StoredIsReceived'
  BY <1>1 DEF RecordInv, KeyInv, TheKey, Use, StoredIsReceived
<1>7. CommitInv'
  <2>1. \A r \in Processes : job'[r].at = "commit" => job'[r] = job[r]
    BY <1>1
  <2> QED
    BY <1>1, <2>1 DEF RecordInv, CommitInv, StillPlain, Use
<1> QED
  BY <1>3, <1>5, <1>6, <1>7 DEF RecordInv

(* The data key is chosen under the lock: the stored one, or a new one for *)
(* a seal with nothing that needs a key.                                   *)
LEMMA ObtainKeyKeeps ==
  ASSUME RecordInv, NEW p \in Processes, ObtainKey(p)
  PROVE  RecordInv'
<1> DEFINE k == IF dataKey # 0 THEN dataKey ELSE lastKey + 1
           q == [job[p] EXCEPT !.at = "commit", !.key = k]
<1>1. /\ job \in [Processes -> Job] /\ job' = [job EXCEPT ![p] = q]
      /\ UNCHANGED <<identity, dataKey, record, residue, received, holder, view,
                     snapshot>>
      /\ lastKey' = IF dataKey # 0 THEN lastKey ELSE lastKey + 1
      /\ dataKey \in KeyIds /\ lastKey \in KeyIds
      /\ job[p].at = "key"
  BY DEF RecordInv, ProtectionTypeOK, Job, ObtainKey, InStep
<1>2. /\ dataKey # 0 \/ (MayMakeKey /\ lastKey < MaxKeys)
      /\ p \in Migrations => StillPlain(p)
  BY DEF ObtainKey
<1>3. k \in KeyIds /\ k # 0 /\ lastKey' \in KeyIds
  BY <1>1, <1>2, ProtectionConstants DEF KeyIds
<1>4. k = dataKey \/ (dataKey = 0 /\ ~Use)
  BY <1>2 DEF MayMakeKey
<1>5. identity.form # "none"
  BY <1>2 DEF MayMakeKey, RecordInv, KeyInv
<1> HIDE DEF k
<1>6. /\ q \in Job /\ q.at = "commit" /\ q.key = k
      /\ q.task = job[p].task /\ q.text = job[p].text
  BY <1>1, <1>3 DEF Job
<1> HIDE DEF q
<1>7. ProtectionTypeOK'
  <2>1. job' \in [Processes -> Job]
    BY <1>1, <1>6
  <2> QED
    BY <1>1, <1>3, <2>1 DEF RecordInv, ProtectionTypeOK, Job
<1>8. WriteLockInv'
  <2>1. \A r \in Processes : job'[r].at \in {"key", "commit"} <=> holder' = r
    BY <1>1, <1>6 DEF RecordInv, WriteLockInv
  <2>2. \A r \in Processes : job'[r].at = "idle" => job'[r] = NoJob
    BY <1>1, <1>6 DEF RecordInv, WriteLockInv
  <2>3. \A w \in Writers :
          /\ job'[w].at \in {"idle", "lock", "key", "commit"}
          /\ job'[w].at # "idle" => job'[w].task \in Events /\ job'[w].text \in Texts
    BY <1>1, <1>6 DEF RecordInv, WriteLockInv, Processes
  <2> QED
    BY <2>1, <2>2, <2>3 DEF WriteLockInv
<1>9. KeyInv' /\ StoredIsReceived'
  BY <1>1 DEF RecordInv, KeyInv, TheKey, Use, StoredIsReceived
<1>10. CommitInv'
  <2>1. \A r \in Processes \ {p} : job'[r] = job[r]
    BY <1>1
  <2>2. job'[p] = q
    BY <1>1
  <2>3. \A r \in Processes \ {p} : job'[r].at = "commit" =>
          /\ job'[r].key # 0 /\ identity'.form # "none"
          /\ job'[r].key = dataKey' \/ (dataKey' = 0 /\ ~Use')
          /\ r \in Migrations => StillPlain(r)'
    BY <1>1, <2>1 DEF RecordInv, CommitInv, StillPlain, Use
  <2>4. p \in Migrations => StillPlain(p)'
    BY <1>1, <1>2, <1>6, <2>2 DEF StillPlain
  <2>5. ~Use' <=> ~Use
    BY <1>1 DEF Use
  <2> QED
    BY <1>1, <1>3, <1>4, <1>5, <1>6, <2>2, <2>3, <2>4, <2>5 DEF CommitInv
<1> QED
  BY <1>7, <1>8, <1>9, <1>10 DEF RecordInv

(* A commit: the key, one value under it, and the lock given back. What    *)
(* else was read by then is under the same key.                            *)
LEMMA CommitKeeps ==
  ASSUME RecordInv, NEW p \in Processes, job[p].at = "commit",
         dataKey' = job[p].key, NEW q, Fits(p, q), q.at \notin {"key", "commit"},
         job' = [job EXCEPT ![p] = q],
         holder' = IF holder = p THEN "free" ELSE holder,
         UNCHANGED <<residue, lastKey, view, snapshot>>,
         identity' = identity \/ identity' = [form |-> "sealed", key |-> job[p].key],
         record' \in [Events -> Values], received' \in [Events -> Texts \cup {NoText}],
         \A e \in Events :
           \/ record'[e] = record[e] /\ received'[e] = received[e]
           \/ /\ record'[e].form = "sealed" /\ record'[e].key = job[p].key
              /\ record'[e].text = received'[e]
  PROVE  RecordInv'
<1> DEFINE k == job[p].key
<1>1. /\ job \in [Processes -> Job] /\ holder = p
      /\ q \in Job /\ "free" \notin Processes
      /\ dataKey \in KeyIds /\ k \in KeyIds /\ k # 0
      /\ identity \in [form : {"none", "plain", "sealed"}, key : KeyIds]
      /\ view \in [Readers -> [at : {"idle", "key", "audit", "answer"}, row : Values]]
  BY ProtectionConstants
     DEF RecordInv, ProtectionTypeOK, Job, Fits, Processes, WriteLockInv, CommitInv
<1>2. identity.form # "none" /\ (k = dataKey \/ (dataKey = 0 /\ ~Use))
  BY DEF RecordInv, CommitInv
<1>3. TheKey' = k /\ (k = dataKey => TheKey = k)
  BY <1>1 DEF TheKey
<1>4. ProtectionTypeOK'
  <2>1. job' \in [Processes -> Job] /\ holder' = "free"
    BY <1>1
  <2>2. identity' \in [form : {"none", "plain", "sealed"}, key : KeyIds]
    BY <1>1
  <2> QED
    BY <1>1, <2>1, <2>2 DEF RecordInv, ProtectionTypeOK, Job
<1>5. WriteLockInv'
  <2>1. \A r \in Processes : job'[r].at \in {"key", "commit"} <=> holder' = r
    BY <1>1 DEF RecordInv, WriteLockInv
  <2>2. \A r \in Processes : job'[r].at = "idle" => job'[r] = NoJob
    BY <1>1 DEF RecordInv, WriteLockInv, Fits
  <2>3. \A w \in Writers :
          /\ job'[w].at \in {"idle", "lock", "key", "commit"}
          /\ job'[w].at # "idle" => job'[w].task \in Events /\ job'[w].text \in Texts
    BY <1>1 DEF RecordInv, WriteLockInv, Fits, Processes
  <2> QED
    BY <2>1, <2>2, <2>3 DEF WriteLockInv
<1>6. KeyInv'
  <2>1. identity'.form = "sealed" => identity'.key = k
    BY <1>2, <1>3 DEF RecordInv, KeyInv, Use
  <2>2. \A e \in Events : record'[e].form = "sealed" => record'[e].key = k
    BY <1>2, <1>3 DEF RecordInv, KeyInv, Use
  <2>3. Use => Use'
    BY DEF Use
  <2>4. \A r \in Readers : view[r].at = "key" => view[r].row.key = k /\ Use'
    BY <1>2, <1>3, <2>3 DEF RecordInv, KeyInv
  <2>5. identity'.form # "none"
    BY <1>2
  <2> QED
    BY <1>3, <2>1, <2>2, <2>4, <2>5 DEF KeyInv
<1>7. CommitInv'
  <2>1. \A r \in Processes : job'[r].at # "commit"
    BY <1>1, <1>5 DEF WriteLockInv
  <2> QED
    BY <2>1 DEF CommitInv
<1>8. StoredIsReceived'
  BY DEF RecordInv, StoredIsReceived
<1> QED
  BY <1>4, <1>5, <1>6, <1>7, <1>8 DEF RecordInv

(* A submission commits its own text. *)
LEMMA SubmissionKeeps ==
  ASSUME RecordInv, NEW w \in Writers, CommitSubmission(w)
  PROVE  RecordInv'
<1> DEFINE e == job[w].task
           t == job[w].text
           k == job[w].key
<1>1. /\ w \in Processes /\ job[w].at = "commit" /\ e \in Events /\ t \in Texts
      /\ k \in KeyIds
      /\ record \in [Events -> Values] /\ received \in [Events -> Texts \cup {NoText}]
  BY DEF CommitSubmission, InStep, Processes, RecordInv, WriteLockInv, ProtectionTypeOK
<1>2. /\ record' = [record EXCEPT ![e] = Sealed(k, t)]
      /\ received' = [received EXCEPT ![e] = t]
      /\ dataKey' = k /\ identity' = identity
      /\ job' = [job EXCEPT ![w] = NoJob]
      /\ holder' = IF holder = w THEN "free" ELSE holder
      /\ UNCHANGED <<residue, lastKey, view, snapshot>>
  BY DEF CommitSubmission, FreeLock
<1> HIDE DEF e, t, k
<1>3. Sealed(k, t) \in Values
  BY <1>1 DEF Values
<1>4. /\ Sealed(k, t).form = "sealed" /\ Sealed(k, t).key = k /\ Sealed(k, t).text = t
  BY DEF Sealed
<1>5. /\ record' \in [Events -> Values]
      /\ received' \in [Events -> Texts \cup {NoText}]
  BY <1>1, <1>2, <1>3
<1>6. \A f \in Events :
        \/ record'[f] = record[f] /\ received'[f] = received[f]
        \/ /\ record'[f].form = "sealed" /\ record'[f].key = k
           /\ record'[f].text = received'[f]
  BY <1>1, <1>2, <1>4
<1>7. Fits(w, NoJob) /\ NoJob.at \notin {"key", "commit"}
  BY NoJobFits
<1> QED
  BY <1>1, <1>2, <1>5, <1>6, <1>7, CommitKeeps DEF k

(* A conversion commits the text it found in plaintext under the lock. *)
LEMMA ConversionKeeps ==
  ASSUME RecordInv, NEW m \in Migrations, CommitConversion(m)
  PROVE  RecordInv'
<1> DEFINE e == job[m].task
           k == job[m].key
           new == Sealed(k, TextOf(record[e]))
           q == AfterTask(m, FALSE)
<1>1. /\ m \in Processes /\ m \notin Writers /\ job[m].at = "commit"
      /\ e \in Events \cup {Identity} /\ k \in KeyIds
      /\ record \in [Events -> Values] /\ received \in [Events -> Texts \cup {NoText}]
  BY ProtectionConstants
     DEF CommitConversion, InStep, Processes, RecordInv, ProtectionTypeOK
<1>2. /\ identity' = IF e = Identity THEN [form |-> "sealed", key |-> k] ELSE identity
      /\ record' = IF e = Identity THEN record ELSE [record EXCEPT ![e] = new]
      /\ dataKey' = k /\ received' = received
      /\ job' = [job EXCEPT ![m] = q]
      /\ holder' = IF holder = m THEN "free" ELSE holder
      /\ UNCHANGED <<residue, lastKey, view, snapshot>>
  BY DEF CommitConversion, FreeLock
<1>3. e # Identity =>
        /\ e \in Events /\ new \in Values
        /\ new.form = "sealed" /\ new.key = k /\ new.text = received[e]
  <2> SUFFICES ASSUME e # Identity
               PROVE  /\ e \in Events /\ new \in Values
                      /\ new.form = "sealed" /\ new.key = k /\ new.text = received[e]
    OBVIOUS
  <2>1. record[e].form = "plain" /\ e \in Events
    BY <1>1 DEF RecordInv, CommitInv, StillPlain
  <2>2. record[e].text \in Texts
    BY <1>1, <2>1, ValueForms
  <2>3. TextOf(record[e]) = record[e].text /\ record[e].text = received[e]
    BY <2>1 DEF TextOf, RecordInv, StoredIsReceived
  <2> QED
    BY <1>1, <2>1, <2>2, <2>3 DEF Values, Sealed
<1>4. q.at \notin {"idle", "key", "commit"} /\ Fits(m, q)
  <2>1. q \in Job /\ q.at \in {"survey", "checkpoint", "lock"}
    BY <1>1, AfterTaskGives DEF RecordInv
  <2> QED
    BY <1>1, <2>1 DEF Fits
<1> HIDE DEF e, k, new, q
<1>5. record' \in [Events -> Values]
  BY <1>1, <1>2, <1>3
<1>6. \A f \in Events :
        \/ record'[f] = record[f] /\ received'[f] = received[f]
        \/ /\ record'[f].form = "sealed" /\ record'[f].key = k
           /\ record'[f].text = received'[f]
  BY <1>1, <1>2, <1>3
<1>7. identity' = identity \/ identity' = [form |-> "sealed", key |-> k]
  BY <1>2
<1> QED
  BY <1>1, <1>2, <1>4, <1>5, <1>6, <1>7, CommitKeeps DEF k

(* While the lock is free no transaction has chosen its key. *)
LEMMA NobodyCommits ==
  ASSUME RecordInv, holder = "free"
  PROVE  \A p \in Processes : job[p].at # "commit"
BY ProtectionConstants DEF RecordInv, WriteLockInv, Processes

(* The first key of a seal whose case is registered, and the key row that  *)
(* is restored, come with nothing under another key.                       *)
LEMMA KeyRowKeeps ==
  ASSUME RecordInv, RegisterCase \/ RestoreKey
  PROVE  RecordInv'
<1>1. /\ holder = "free"
      /\ UNCHANGED <<record, residue, received, holder, job, view, snapshot>>
  BY DEF RegisterCase, RestoreKey
<1>2. CommitInv'
  BY <1>1, NobodyCommits DEF CommitInv
<1>3. WriteLockInv' /\ StoredIsReceived'
  BY <1>1 DEF RecordInv, WriteLockInv, StoredIsReceived
<1>4. CASE RegisterCase
  <2>1. /\ identity.form = "none" /\ lastKey < MaxKeys /\ lastKey \in KeyIds
        /\ identity' = [form |-> "sealed", key |-> lastKey + 1]
        /\ dataKey' = lastKey + 1 /\ lastKey' = lastKey + 1
    BY <1>4 DEF RegisterCase, RecordInv, ProtectionTypeOK
  <2>2. lastKey + 1 \in KeyIds /\ lastKey + 1 # 0
    BY <2>1, ProtectionConstants DEF KeyIds
  <2>3. ~Use
    BY <2>1 DEF RecordInv, KeyInv
  <2>4. ProtectionTypeOK'
    BY <1>1, <2>1, <2>2 DEF RecordInv, ProtectionTypeOK
  <2>5. KeyInv'
    BY <1>1, <2>1, <2>2, <2>3 DEF RecordInv, KeyInv, TheKey, Use
  <2> QED
    BY <1>2, <1>3, <2>4, <2>5 DEF RecordInv
<1>5. CASE RestoreKey
  <2>1. dataKey = 0 /\ dataKey' = 1 /\ Use /\ identity' = identity /\ lastKey' = lastKey
    BY <1>5 DEF RestoreKey
  <2>2. ProtectionTypeOK'
    BY <1>1, <2>1, ProtectionConstants DEF RecordInv, ProtectionTypeOK, KeyIds
  <2>3. KeyInv'
    BY <1>1, <2>1 DEF RecordInv, KeyInv, TheKey, Use
  <2> QED
    BY <1>2, <1>3, <2>2, <2>3 DEF RecordInv
<1> QED
  BY <1>4, <1>5

(* The removal of old copies touches no row. *)
LEMMA TruncateKeeps ==
  ASSUME RecordInv, NEW m \in Migrations, Truncate(m)
  PROVE  RecordInv'
<1> DEFINE q == [job[m] EXCEPT !.at = IF CheckpointComplete THEN "count" ELSE "refused"]
<1>1. /\ m \in Processes /\ m \notin Writers /\ job[m] \in Job
      /\ job[m].at = "truncate"
  BY ProtectionConstants, JobType DEF Processes, Truncate, InStep
<1>2. /\ job \in [Processes -> Job] /\ job' = [job EXCEPT ![m] = q]
      /\ UNCHANGED <<identity, dataKey, record, lastKey, received, holder, view,
                     snapshot>>
      /\ residue' \in BOOLEAN
  BY DEF Truncate, StepTo, RecordInv, ProtectionTypeOK, Job
<1>3. q \in Job /\ q.at \in {"count", "refused"}
  BY <1>1 DEF Job
<1> HIDE DEF q
<1>4. ProtectionTypeOK'
  <2>1. job' \in [Processes -> Job]
    BY <1>2, <1>3
  <2> QED
    BY <1>2, <2>1 DEF RecordInv, ProtectionTypeOK, Job
<1>5. WriteLockInv'
  BY <1>1, <1>2, <1>3 DEF RecordInv, WriteLockInv, Processes
<1>6. KeyInv' /\ StoredIsReceived'
  BY <1>2 DEF RecordInv, KeyInv, TheKey, Use, StoredIsReceived
<1>7. CommitInv'
  <2>1. \A r \in Processes : job'[r].at = "commit" => job'[r] = job[r]
    BY <1>2, <1>3
  <2> QED
    BY <1>2, <2>1 DEF RecordInv, CommitInv, StillPlain, Use
<1> QED
  BY <1>4, <1>5, <1>6, <1>7 DEF RecordInv

(* A person's read, and what other connections do. *)
LEMMA ReadingKeeps ==
  ASSUME RecordInv,
         \/ Snapshot
         \/ \E r \in Readers : \/ \E e \in Events : ReadRow(r, e)
                               \/ OpenRow(r) \/ AuditView(r) \/ EndView(r)
  PROVE  RecordInv'
<1>1. /\ UNCHANGED <<stored, holder, job>>
      /\ snapshot' \in BOOLEAN
  BY DEF Snapshot, ReadRow, OpenRow, AuditView, EndView, RecordInv, ProtectionTypeOK
<1> DEFINE View == [at : {"idle", "key", "audit", "answer"}, row : Values]
<1>2. /\ view \in [Readers -> View] /\ NoView \in View /\ NoView.at = "idle"
  BY DEF RecordInv, ProtectionTypeOK, NoView, Values
<1>3. \/ UNCHANGED view
      \/ \E r \in Readers, n \in View :
           /\ view' = [view EXCEPT ![r] = n]
           /\ n.at = "key" => \E e \in Events : record[e].form = "sealed" /\ n.row = record[e]
  <2>1. CASE Snapshot
    BY <2>1 DEF Snapshot
  <2>2. ASSUME NEW r \in Readers, NEW e \in Events, ReadRow(r, e)
        PROVE  \E n \in View :
                 /\ view' = [view EXCEPT ![r] = n]
                 /\ n.row = record[e] /\ record[e].form = "sealed"
    <3> DEFINE n == [view[r] EXCEPT !.at = "key", !.row = record[e]]
    <3>1. view[r] \in View /\ record[e] \in Values
      BY <1>2 DEF RecordInv, ProtectionTypeOK
    <3>2. n \in View /\ n.row = record[e]
      BY <3>1
    <3>3. view' = [view EXCEPT ![r] = n] /\ record[e].form = "sealed"
      BY <1>2, <2>2 DEF ReadRow
    <3> QED
      BY <3>2, <3>3
  <2>3. ASSUME NEW r \in Readers, OpenRow(r) \/ AuditView(r) \/ EndView(r)
        PROVE  \E n \in View : view' = [view EXCEPT ![r] = n] /\ n.at # "key"
    <3>1. CASE OpenRow(r)
      <4>1. [NoView EXCEPT !.at = "audit"] \in View /\ [NoView EXCEPT !.at = "audit"].at = "audit"
        BY <1>2
      <4> QED
        BY <1>2, <3>1, <4>1 DEF OpenRow
    <3>2. CASE AuditView(r)
      <4> DEFINE n == [view[r] EXCEPT !.at = "answer"]
      <4>1. n \in View /\ n.at = "answer" /\ view' = [view EXCEPT ![r] = n]
        BY <1>2, <3>2 DEF AuditView
      <4> QED
        BY <4>1
    <3>3. CASE EndView(r)
      BY <1>2, <3>3 DEF EndView
    <3> QED
      BY <2>3, <3>1, <3>2, <3>3
  <2> QED
    BY <2>1, <2>2, <2>3
<1>4. /\ view' \in [Readers -> View]
      /\ \A r \in Readers : view'[r].at = "key" => view'[r].row.key = TheKey /\ Use
  <2>1. \A e \in Events : record[e].form = "sealed" => record[e].key = TheKey /\ Use
    BY DEF RecordInv, KeyInv, Use
  <2>2. \A r \in Readers : view[r].at = "key" => view[r].row.key = TheKey /\ Use
    BY DEF RecordInv, KeyInv
  <2> HIDE DEF View
  <2> QED
    BY <1>2, <1>3, <2>1, <2>2
<1>5. KeyInv'
  BY <1>1, <1>4 DEF RecordInv, KeyInv, TheKey, Use, stored
<1>6. ProtectionTypeOK'
  BY <1>1, <1>4 DEF RecordInv, ProtectionTypeOK, stored
<1>7. WriteLockInv' /\ CommitInv' /\ StoredIsReceived'
  BY <1>1 DEF RecordInv, WriteLockInv, CommitInv, StillPlain, Use, StoredIsReceived, stored
<1> QED
  BY <1>5, <1>6, <1>7 DEF RecordInv

LEMMA RecordInvStep ==
  ASSUME RecordInv, [ProtectionNext]_protectionVars
  PROVE  RecordInv'
<1>1. CASE UNCHANGED protectionVars
  BY <1>1 DEF protectionVars, RecordInv, ProtectionTypeOK, WriteLockInv, KeyInv, TheKey,
              Use, CommitInv, StillPlain, StoredIsReceived
<1>2. ASSUME NEW p \in Processes, LockForWrite(p) \/ RollBack(p) \/ Crash(p)
      PROVE  RecordInv'
  <2>1. PICK q : Moves(p, q) /\ LockGoes(p, q) /\ Fits(p, q) /\ q.at # "commit"
    BY <1>2, LockForWriteMoves, EndingMoves
  <2> QED
    BY <2>1, MovingKeeps
<1>3. ASSUME NEW w \in Writers, NEW e \in Events, NEW text \in Texts,
             BeginSubmission(w, e, text)
      PROVE  RecordInv'
  <2>1. PICK q : Moves(w, q) /\ LockGoes(w, q) /\ Fits(w, q) /\ q.at # "commit"
    BY <1>3, BeginSubmissionMoves
  <2> QED
    BY <2>1, MovingKeeps DEF Processes
<1>4. ASSUME NEW m \in Migrations, MigrationMoves(m)
      PROVE  RecordInv'
  <2>1. PICK q : Moves(m, q) /\ LockGoes(m, q) /\ Fits(m, q) /\ q.at # "commit"
    BY <1>4, MigrationMovesGive
  <2> QED
    BY <2>1, MovingKeeps DEF Processes
<1> QED
  BY <1>1, <1>2, <1>3, <1>4, ObtainKeyKeeps, SubmissionKeeps, ConversionKeeps,
     KeyRowKeeps, TruncateKeeps, ReadingKeeps
     DEF ProtectionNext, MigrationMoves

LEMMA RecordInvInit == ProtectionInit => RecordInv
<1> SUFFICES ASSUME ProtectionInit PROVE RecordInv
  OBVIOUS
<1>1. 0 \in KeyIds /\ 1 \in KeyIds /\ "free" \notin Processes
  BY ProtectionConstants DEF KeyIds, Processes
<1>2. /\ job = [p \in Processes |-> NoJob] /\ NoJob \in Job
      /\ view = [r \in Readers |-> NoView]
      /\ holder = "free" /\ lastKey \in {0, 1} /\ dataKey \in {0, 1}
      /\ dataKey # 0 => Use
      /\ snapshot = FALSE
  BY NoJobFits DEF ProtectionInit, Fits
<1>3. identity \in [form : {"none", "plain", "sealed"}, key : KeyIds]
      /\ (identity.form = "sealed" => identity.key = 1)
      /\ (identity.form = "none" => \A e \in Events : record[e].form # "sealed")
  BY <1>1 DEF ProtectionInit
<1>4. /\ record \in [Events -> Values]
      /\ \A e \in Events :
           /\ record[e].form = "sealed" => record[e].key = 1
           /\ record[e].text \in Texts \cup {NoText}
  BY <1>1 DEF ProtectionInit, Values, Nothing, Plain, Sealed
<1>5. received = [e \in Events |-> record[e].text]
  BY DEF ProtectionInit
<1>6. residue \in BOOLEAN
  BY Zenon DEF ProtectionInit
<1>7. NoView \in [at : {"idle", "key", "audit", "answer"}, row : Values] /\ NoView.at = "idle"
  BY DEF NoView, Values
<1>8. ProtectionTypeOK
  <2>1. received \in [Events -> Texts \cup {NoText}]
    BY <1>4, <1>5
  <2>2. job \in [Processes -> Job]
    BY <1>2
  <2>3. view \in [Readers -> [at : {"idle", "key", "audit", "answer"}, row : Values]]
    BY <1>2, <1>7
  <2> QED
    BY <1>1, <1>2, <1>3, <1>4, <1>6, <2>1, <2>2, <2>3 DEF ProtectionTypeOK, Job
<1>9. WriteLockInv
  BY <1>1, <1>2 DEF WriteLockInv, NoJob, Processes
<1>10. KeyInv
  BY <1>2, <1>3, <1>4, <1>7 DEF KeyInv, TheKey, Use
<1>11. CommitInv
  BY <1>2 DEF CommitInv, NoJob
<1>12. StoredIsReceived
  BY <1>5 DEF StoredIsReceived
<1> QED
  BY <1>8, <1>9, <1>10, <1>11, <1>12 DEF RecordInv

LEMMA RecordInvCorrect == ProtectionSpec => []RecordInv
<1>1. RecordInv /\ [ProtectionNext]_protectionVars => RecordInv'
  BY RecordInvStep
<1> QED
  BY <1>1, RecordInvInit, PTL DEF ProtectionSpec

(* Whoever races for the first key and wherever a process stops, every     *)
(* ciphertext of a seal is under the one key that is stored for it.        *)
THEOREM OneKeyIsKept == ProtectionSpec => []OneKeyPerSeal
<1>1. RecordInv => OneKeyPerSeal
  BY DEF RecordInv, KeyInv, TheKey, OneKeyPerSeal
<1> QED
  BY <1>1, RecordInvCorrect, PTL

(* Conversions and replacements in any order leave each event the text     *)
(* last received for it.                                                   *)
THEOREM StoredStaysReceived == ProtectionSpec => []StoredIsReceived
<1>1. RecordInv => StoredIsReceived
  BY DEF RecordInv
<1> QED
  BY <1>1, RecordInvCorrect, PTL

(* What a conversion that has met no failure has behind it: an identity in *)
(* no plaintext at its survey, and from then on no record in plaintext but *)
(* those it still has to convert.                                          *)
Clean == identity.form # "plain" /\ PlainEvents = {}

Scrubs(j) ==
  /\ ~j.failed =>
       /\ j.at = "survey" => identity.form # "plain"
       /\ j.at \in {"lock", "key", "commit"} /\ j.task # Identity =>
            identity.form # "plain" /\ PlainEvents \subseteq j.todo \cup {j.task}
       /\ j.at \in {"checkpoint", "vacuum", "truncate", "count"} => Clean
       /\ j.at = "count" => ~residue
  /\ j.at = "done" => Clean /\ ~residue

ScrubInv == \A m \in Migrations : Scrubs(job[m])

(* Nothing returns to plaintext, and no old copy of it comes back. *)
Recedes ==
  /\ identity'.form = "plain" => identity.form = "plain"
  /\ PlainEvents' \subseteq PlainEvents
  /\ Clean /\ ~residue => ~residue'

LEMMA PlaintextRecedes ==
  ASSUME RecordInv, ProtectionNext
  PROVE  Recedes
<1>1. CASE UNCHANGED <<identity, record, residue>>
  BY <1>1 DEF Recedes, PlainEvents, Clean
<1>2. ASSUME NEW w \in Writers, CommitSubmission(w)
      PROVE  Recedes
  <2>1. job[w].task \in Events /\ record \in [Events -> Values]
    BY <1>2 DEF CommitSubmission, InStep, RecordInv, WriteLockInv, ProtectionTypeOK
  <2>2. \A e \in Events : record'[e].form = "plain" => record[e].form = "plain"
    BY <1>2, <2>1 DEF CommitSubmission, Sealed
  <2> QED
    BY <1>2, <2>2 DEF CommitSubmission, Recedes, PlainEvents, Clean
<1>3. CASE RegisterCase
  BY <1>3 DEF RegisterCase, Recedes, PlainEvents, Clean
<1>4. ASSUME NEW m \in Migrations, CommitConversion(m)
      PROVE  Recedes
  <2>1. identity' = identity \/ identity'.form = "sealed"
    BY <1>4 DEF CommitConversion
  <2>2. \A e \in Events : record'[e].form = "plain" => record[e].form = "plain"
    BY <1>4 DEF CommitConversion, Sealed, RecordInv, ProtectionTypeOK
  <2> QED
    BY <1>4, <2>1, <2>2 DEF CommitConversion, Recedes, PlainEvents, Clean
<1>5. ASSUME NEW m \in Migrations, Truncate(m)
      PROVE  Recedes
  BY <1>5 DEF Truncate, Recedes, PlainEvents, Clean
<1>6. ASSUME NEW m \in Migrations, MigrationMoves(m)
      PROVE  UNCHANGED <<identity, record, residue>>
  BY <1>6 DEF MigrationMoves, BeginMigration, SurveyRecords, SkipConverted, Checkpoint,
              Vacuum, ScrubFails, CountPlaintext, EndMigration, stored
<1>7. ASSUME NEW p \in Processes, LockForWrite(p) \/ ObtainKey(p) \/ RollBack(p) \/ Crash(p)
      PROVE  UNCHANGED <<identity, record, residue>>
  BY <1>7 DEF LockForWrite, ObtainKey, RollBack, Crash, stored
<1>8. ASSUME NEW w \in Writers, NEW e \in Events, NEW text \in Texts,
             BeginSubmission(w, e, text)
      PROVE  UNCHANGED <<identity, record, residue>>
  BY <1>8 DEF BeginSubmission, stored
<1>9. CASE \/ Snapshot \/ RestoreKey
           \/ \E r \in Readers : \/ \E e \in Events : ReadRow(r, e)
                                 \/ OpenRow(r) \/ AuditView(r) \/ EndView(r)
  BY <1>1, <1>9 DEF Snapshot, RestoreKey, ReadRow, OpenRow, AuditView, EndView, stored
<1> QED
  BY <1>1, <1>2, <1>3, <1>4, <1>5, <1>6, <1>7, <1>8, <1>9 DEF ProtectionNext, MigrationMoves

LEMMA ProgressIsKept ==
  ASSUME Recedes, NEW j, Scrubs(j)
  PROVE  Scrubs(j)'
BY DEF Recedes, Scrubs, Clean

(* A conversion that goes on to its next task, without or after a failure. *)
LEMMA AfterTaskProgress ==
  ASSUME RecordInv, NEW m \in Migrations, Scrubs(job[m]),
         job[m].at \in {"lock", "key", "commit"}, NEW failed \in BOOLEAN, Recedes,
         ~failed => IF job[m].task = Identity THEN identity'.form # "plain"
                    ELSE record'[job[m].task].form # "plain",
         NEW n, n = AfterTask(m, failed)
  PROVE  Scrubs(n)'
<1> DEFINE j == job[m]
<1>1. m \in Processes
  BY DEF Processes
<1>2. /\ n \in Job
      /\ n.failed = (j.failed \/ failed)
      /\ j.task = Identity => n.at = "survey"
      /\ j.task # Identity /\ j.todo = {} => n.at = "checkpoint"
      /\ j.task # Identity /\ j.todo # {} =>
           n.at = "lock" /\ n.task \in j.todo /\ n.todo = j.todo \ {n.task}
  BY <1>1, AfterTaskGives DEF RecordInv
<1>3. n.at # "done" /\ n.at # "count"
  BY <1>2
<1>4. ASSUME ~n.failed
      PROVE  /\ n.at = "survey" => identity'.form # "plain"
             /\ n.at # "survey" => identity'.form # "plain" /\ PlainEvents' \subseteq j.todo
  <2>1. ~j.failed /\ ~failed
    BY <1>2, <1>4
  <2>2. CASE j.task = Identity
    BY <1>2, <2>1, <2>2
  <2>3. CASE j.task # Identity
    <3>1. identity.form # "plain" /\ PlainEvents \subseteq j.todo \cup {j.task}
      BY <2>1, <2>3 DEF Scrubs
    <3>2. j.task \notin PlainEvents'
      BY <2>1, <2>3 DEF PlainEvents
    <3> QED
      BY <1>2, <2>3, <3>1, <3>2 DEF Recedes
  <2> QED
    BY <2>2, <2>3
<1>5. CASE n.failed
  BY <1>3, <1>5 DEF Scrubs
<1>6. CASE ~n.failed
  <2>1. CASE j.task = Identity
    BY <1>2, <1>4, <1>6, <2>1 DEF Scrubs
  <2>2. CASE j.task # Identity /\ j.todo = {}
    BY <1>2, <1>4, <1>6, <2>2 DEF Scrubs, Clean
  <2>3. CASE j.task # Identity /\ j.todo # {}
    BY <1>2, <1>4, <1>6, <2>3 DEF Scrubs
  <2> QED
    BY <2>1, <2>2, <2>3
<1> QED
  BY <1>5, <1>6

(* The steps of a conversion itself. *)
LEMMA OwnProgress ==
  ASSUME RecordInv, NEW m \in Migrations, Scrubs(job[m]), Recedes,
         \/ LockForWrite(m) \/ ObtainKey(m) \/ RollBack(m) \/ Crash(m)
         \/ MigrationMoves(m) \/ CommitConversion(m) \/ Truncate(m)
  PROVE  Scrubs(job[m])'
<1>1. m \in Processes /\ job \in [Processes -> Job] /\ job[m] \in Job
  BY DEF Processes, RecordInv, ProtectionTypeOK, Job
<1>2. ASSUME NEW n, job' = [job EXCEPT ![m] = n], Scrubs(n)'
      PROVE  Scrubs(job[m])'
  <2>1. job'[m] = n
    BY <1>1, <1>2
  <2> QED
    BY <1>2, <2>1 DEF Scrubs
<1>3. ASSUME NEW failed \in BOOLEAN, job' = [job EXCEPT ![m] = AfterTask(m, failed)],
             job[m].at \in {"lock", "key", "commit"},
             ~failed => IF job[m].task = Identity THEN identity'.form # "plain"
                        ELSE record'[job[m].task].form # "plain"
      PROVE  Scrubs(job[m])'
  <2>1. PICK n : n = AfterTask(m, failed)
    OBVIOUS
  <2>2. Scrubs(n)'
    BY <1>3, <2>1, AfterTaskProgress
  <2> QED
    BY <1>2, <1>3, <2>1, <2>2
<1>4. ASSUME job' = [job EXCEPT ![m] = NoJob]
      PROVE  Scrubs(job[m])'
  BY <1>1, <1>4 DEF Scrubs, NoJob
<1>5. ASSUME NEW at, StepTo(m, at)
      PROVE  \E n : /\ job' = [job EXCEPT ![m] = n]
                    /\ n.at = at /\ n.task = job[m].task /\ n.todo = job[m].todo
                    /\ n.failed = job[m].failed
  <2> DEFINE n == [job[m] EXCEPT !.at = at]
  <2>1. job' = [job EXCEPT ![m] = n]
    BY <1>1, <1>5 DEF StepTo
  <2>2. n.at = at /\ n.task = job[m].task /\ n.todo = job[m].todo /\ n.failed = job[m].failed
    BY <1>1 DEF Job
  <2> QED
    BY <2>1, <2>2
<1>6. CASE LockForWrite(m)
  <2>1. PICK n : /\ job' = [job EXCEPT ![m] = n]
                 /\ n.at = "key" /\ n.task = job[m].task /\ n.todo = job[m].todo
                 /\ n.failed = job[m].failed
    BY <1>5, <1>6 DEF LockForWrite
  <2>2. Scrubs(n)
    BY <1>6, <2>1 DEF Scrubs, LockForWrite, InStep
  <2> QED
    BY <1>2, <2>1, <2>2, ProgressIsKept
<1>7. CASE ObtainKey(m)
  <2> DEFINE k == IF dataKey # 0 THEN dataKey ELSE lastKey + 1
             q == [job[m] EXCEPT !.at = "commit", !.key = k]
  <2>1. job' = [job EXCEPT ![m] = q] /\ job[m].at = "key"
    BY <1>1, <1>7 DEF ObtainKey, InStep
  <2>2. q.at = "commit" /\ q.task = job[m].task /\ q.todo = job[m].todo
        /\ q.failed = job[m].failed
    BY <1>1 DEF Job
  <2> HIDE DEF q
  <2>3. PICK n : n = q
    OBVIOUS
  <2>4. Scrubs(n)
    BY <2>1, <2>2, <2>3 DEF Scrubs
  <2> QED
    BY <1>2, <2>1, <2>3, <2>4, ProgressIsKept
<1>8. CASE RollBack(m)
  BY <1>3, <1>8 DEF RollBack
<1>9. CASE Crash(m) \/ EndMigration(m)
  BY <1>4, <1>9 DEF Crash, EndMigration
<1>10. CASE BeginMigration(m)
  <2>1. job[m] = NoJob /\ UNCHANGED stored
    BY <1>1, <1>10 DEF BeginMigration, InStep, RecordInv, WriteLockInv
  <2>2. PICK n : /\ job' = [job EXCEPT ![m] = n]
                 /\ n.at = IF identity.form = "plain" THEN "lock" ELSE "survey"
                 /\ n.task = job[m].task /\ n.todo = job[m].todo
                 /\ n.failed = job[m].failed
    BY <1>5, <1>10 DEF BeginMigration
  <2>3. n.task = Identity
    BY <2>1, <2>2 DEF NoJob
  <2>4. Scrubs(n)
    BY <2>2, <2>3 DEF Scrubs
  <2> QED
    BY <1>2, <2>2, <2>4, ProgressIsKept
<1>11. CASE SurveyRecords(m)
  <2> DEFINE e == CHOOSE e \in PlainEvents : TRUE
             q == IF PlainEvents = {} THEN [job[m] EXCEPT !.at = "checkpoint"]
                  ELSE [job[m] EXCEPT !.at = "lock", !.task = e, !.todo = PlainEvents \ {e}]
  <2>1. job' = [job EXCEPT ![m] = q] /\ job[m].at = "survey"
    BY <1>11 DEF SurveyRecords, InStep
  <2>2. PlainEvents # {} => e \in PlainEvents
    BY TakenTask
  <2> HIDE DEF e
  <2>3. /\ q.failed = job[m].failed
        /\ PlainEvents = {} => q.at = "checkpoint"
        /\ PlainEvents # {} => q.at = "lock" /\ q.task = e /\ q.todo = PlainEvents \ {e}
    BY <1>1 DEF Job
  <2> HIDE DEF q
  <2>4. PICK n : n = q
    OBVIOUS
  <2>5. Scrubs(n)
    BY <2>1, <2>2, <2>3, <2>4 DEF Scrubs, Clean
  <2> QED
    BY <1>2, <2>1, <2>4, <2>5, ProgressIsKept
<1>12. CASE SkipConverted(m)
  <2>1. ~StillPlain(m) /\ identity' = identity /\ record' = record
    BY <1>12 DEF SkipConverted, stored
  <2>2. IF job[m].task = Identity THEN identity'.form # "plain"
        ELSE record'[job[m].task].form # "plain"
    BY <2>1 DEF StillPlain
  <2>3. job[m].at = "key" /\ job' = [job EXCEPT ![m] = AfterTask(m, FALSE)]
    BY <1>12 DEF SkipConverted, InStep
  <2> QED
    BY <1>3, <2>2, <2>3
<1>13. CASE CommitConversion(m)
  <2>1. IF job[m].task = Identity THEN identity'.form # "plain"
        ELSE record'[job[m].task].form # "plain"
    BY <1>1, <1>13 DEF CommitConversion, Sealed, RecordInv, ProtectionTypeOK, Job
  <2>2. job[m].at = "commit" /\ job' = [job EXCEPT ![m] = AfterTask(m, FALSE)]
    BY <1>13 DEF CommitConversion, InStep
  <2> QED
    BY <1>3, <2>1, <2>2
<1>14. CASE Checkpoint(m) \/ Vacuum(m) \/ ScrubFails(m)
  <2> DEFINE Passing(at) ==
               \/ at = "refused"
               \/ at = "vacuum" /\ job[m].at = "checkpoint"
               \/ at = "truncate" /\ job[m].at = "vacuum"
  <2>1. PICK at : StepTo(m, at) /\ Passing(at)
    <3>1. CASE Checkpoint(m)
      <4>1. CASE CheckpointComplete
        <5>1. StepTo(m, "vacuum") /\ Passing("vacuum")
          BY <3>1, <4>1 DEF Checkpoint, InStep
        <5> QED
          BY <5>1
      <4>2. CASE ~CheckpointComplete
        <5>1. StepTo(m, "refused") /\ Passing("refused")
          BY <3>1, <4>2 DEF Checkpoint
        <5> QED
          BY <5>1
      <4> QED
        BY <4>1, <4>2
    <3>2. CASE Vacuum(m)
      BY <3>2 DEF Vacuum, InStep
    <3>3. CASE ScrubFails(m)
      <4>1. StepTo(m, "refused") /\ Passing("refused")
        BY <3>3 DEF ScrubFails
      <4> QED
        BY <4>1
    <3> QED
      BY <1>14, <3>1, <3>2, <3>3
  <2>2. PICK n : /\ job' = [job EXCEPT ![m] = n]
                 /\ n.at = at /\ n.task = job[m].task /\ n.todo = job[m].todo
                 /\ n.failed = job[m].failed
    BY <1>5, <2>1
  <2>3. Scrubs(n)
    BY <2>1, <2>2 DEF Scrubs
  <2> QED
    BY <1>2, <2>2, <2>3, ProgressIsKept
<1>15. CASE Truncate(m)
  <2>1. PICK at : /\ StepTo(m, at) /\ job[m].at = "truncate"
                  /\ \/ at = "refused"
                     \/ at = "count" /\ ~snapshot
    BY <1>15 DEF Truncate, InStep, CheckpointComplete
  <2>2. PICK n : /\ job' = [job EXCEPT ![m] = n]
                 /\ n.at = at /\ n.task = job[m].task /\ n.todo = job[m].todo
                 /\ n.failed = job[m].failed
    BY <1>5, <2>1
  <2>3. ~n.failed => Clean /\ Clean'
    BY <2>1, <2>2 DEF Scrubs, Clean, Recedes
  <2>4. n.at = "count" => (residue' <=> ~Clean)
    BY <1>15, <2>1, <2>2 DEF Truncate, Clean
  <2>5. Scrubs(n)'
    BY <2>1, <2>2, <2>3, <2>4 DEF Scrubs
  <2> QED
    BY <1>2, <2>2, <2>5
<1>16. CASE CountPlaintext(m)
  <2>1. job[m].at = "count"
    BY <1>16 DEF CountPlaintext, InStep
  <2>2. PICK n : /\ job' = [job EXCEPT ![m] = n]
                 /\ n.at = IF NothingRemains(m) THEN "done" ELSE "refused"
                 /\ n.task = job[m].task /\ n.todo = job[m].todo
                 /\ n.failed = job[m].failed
    BY <1>5, <1>16 DEF CountPlaintext
  <2>3. Scrubs(n)
    BY <2>1, <2>2 DEF Scrubs, NothingRemains, Clean
  <2> QED
    BY <1>2, <2>2, <2>3, ProgressIsKept
<1> QED
  BY <1>6, <1>7, <1>8, <1>9, <1>10, <1>11, <1>12, <1>13, <1>14, <1>15, <1>16
     DEF MigrationMoves

(* A step of anyone else leaves the job of a conversion as it is. *)
LEMMA OthersLeaveJob ==
  ASSUME RecordInv, NEW m \in Migrations, ProtectionNext,
         ~(\/ LockForWrite(m) \/ ObtainKey(m) \/ RollBack(m) \/ Crash(m)
           \/ MigrationMoves(m) \/ CommitConversion(m) \/ Truncate(m))
  PROVE  job'[m] = job[m]
<1>1. m \in Processes /\ m \notin Writers /\ job \in [Processes -> Job]
  BY ProtectionConstants DEF Processes, RecordInv, ProtectionTypeOK, Job
<1>2. ASSUME NEW p \in Processes, LockForWrite(p) \/ ObtainKey(p) \/ RollBack(p) \/ Crash(p)
      PROVE  job'[m] = job[m]
  <2>1. p # m /\ \E q : job' = [job EXCEPT ![p] = q]
    <3>1. CASE LockForWrite(p)
      BY <1>1, <3>1 DEF LockForWrite, StepTo
    <3>2. CASE ObtainKey(p)
      BY <1>1, <3>2 DEF ObtainKey
    <3>3. CASE RollBack(p) \/ Crash(p)
      BY <1>1, <3>3 DEF RollBack, Crash
    <3> QED
      BY <1>2, <3>1, <3>2, <3>3
  <2> QED
    BY <1>1, <2>1
<1>3. ASSUME NEW w \in Writers, CommitSubmission(w) \/ \E e \in Events, text \in Texts :
                                                        BeginSubmission(w, e, text)
      PROVE  job'[m] = job[m]
  BY <1>1, <1>3 DEF CommitSubmission, BeginSubmission
<1>4. ASSUME NEW n \in Migrations, MigrationMoves(n) \/ CommitConversion(n) \/ Truncate(n)
      PROVE  job'[m] = job[m]
  <2>1. n # m /\ \E q : job' = [job EXCEPT ![n] = q]
    <3>1. CASE \/ BeginMigration(n) \/ Checkpoint(n) \/ Vacuum(n) \/ ScrubFails(n)
               \/ CountPlaintext(n) \/ Truncate(n)
      <4>1. \E at : StepTo(n, at)
        BY <3>1 DEF BeginMigration, Checkpoint, Vacuum, ScrubFails, CountPlaintext, Truncate
      <4> QED
        BY <1>1, <3>1, <4>1 DEF StepTo, MigrationMoves
    <3>2. CASE SurveyRecords(n) \/ SkipConverted(n) \/ EndMigration(n) \/ CommitConversion(n)
      BY <1>1, <3>2 DEF SurveyRecords, SkipConverted, EndMigration, CommitConversion,
                        MigrationMoves
    <3> QED
      BY <1>4, <3>1, <3>2 DEF MigrationMoves
  <2> QED
    BY <1>1, <2>1
<1>5. CASE \/ RegisterCase \/ Snapshot \/ RestoreKey
           \/ \E r \in Readers : \/ \E e \in Events : ReadRow(r, e)
                                 \/ OpenRow(r) \/ AuditView(r) \/ EndView(r)
  BY <1>5 DEF RegisterCase, Snapshot, RestoreKey, ReadRow, OpenRow, AuditView, EndView
<1> QED
  BY <1>2, <1>3, <1>4, <1>5 DEF ProtectionNext, MigrationMoves

LEMMA ScrubInvCorrect == ProtectionSpec => []ScrubInv
<1>1. ProtectionInit => ScrubInv
  BY DEF ProtectionInit, ScrubInv, Scrubs, NoJob, Processes
<1>2. RecordInv /\ ScrubInv /\ [ProtectionNext]_protectionVars => ScrubInv'
  <2> SUFFICES ASSUME RecordInv, ScrubInv, [ProtectionNext]_protectionVars
               PROVE  ScrubInv'
    OBVIOUS
  <2>1. CASE UNCHANGED protectionVars
    BY <2>1 DEF protectionVars, ScrubInv, Scrubs, Clean, PlainEvents
  <2>2. ASSUME ProtectionNext, NEW m \in Migrations
        PROVE  Scrubs(job[m])'
    <3>1. Recedes
      BY <2>2, PlaintextRecedes
    <3>2. Scrubs(job[m])
      BY DEF ScrubInv
    <3>3. CASE \/ LockForWrite(m) \/ ObtainKey(m) \/ RollBack(m) \/ Crash(m)
               \/ MigrationMoves(m) \/ CommitConversion(m) \/ Truncate(m)
      BY <3>1, <3>2, <3>3, OwnProgress
    <3>4. CASE job'[m] = job[m]
      <4>1. PICK j : j = job[m]
        OBVIOUS
      <4>2. Scrubs(j)'
        BY <3>1, <3>2, <4>1, ProgressIsKept
      <4> QED
        BY <3>4, <4>1, <4>2 DEF Scrubs
    <3> QED
      BY <2>2, <3>3, <3>4, OthersLeaveJob
  <2> QED
    BY <2>1, <2>2 DEF ScrubInv
<1> QED
  BY <1>1, <1>2, RecordInvCorrect, PTL DEF ProtectionSpec

(* A conversion that ends with status 0 has left no plaintext, in no row   *)
(* and no old copy, whoever writes, converts or stops beside it.           *)
THEOREM FinishedIsClean == ProtectionSpec => []DoneIsClean
<1>1. ScrubInv => DoneIsClean
  BY DEF ScrubInv, Scrubs, DoneIsClean, InStep, Clean
<1> QED
  BY <1>1, ScrubInvCorrect, PTL

-----------------------------------------------------------------------------
(* CaseRegistration: one case per seal, whoever registers it.              *)
(*                                                                         *)
(* A request in a transaction that holds the row (or the database) is the  *)
(* only one of its seal with any lock, so what it read under its lock is   *)
(* still so when it commits.                                               *)

Transaction ==
  [at : {"lock", "decide", "insert", "store"}, asked : Applications,
   locks : SUBSET {"database", "row", "gap"}, key : 0 .. MaxAttempts]
Replies == {"ok", "exists", "conflict", "no case", "nonce used", "unfit", "race", "fault",
            "keys unreadable"}
Answer == [at : {"answered"}, asked : Applications, reply : Replies]
CaseRows == {NoCase} \cup [by : {"form", "sync"}, person : STRING, key : 0 .. MaxAttempts]
RecordRows == {NoRow} \cup [person : STRING, key : 1 .. MaxAttempts]

(* What a request in a transaction has found and holds. *)
Founded(q) ==
  /\ q.locks \subseteq IF dialect = "sqlite" THEN {"database"} ELSE {"row", "gap"}
  /\ q.at = "lock" => q.asked.kind = "sync" /\ q.locks = {} /\ q.key = 0
  /\ q.at = "decide" => q.asked.kind = "sync" /\ q.locks # {} /\ q.key = 0
  /\ q.at = "insert" =>
       /\ q.key = 0
       /\ q.asked.kind = "form" => q.locks = {}
       /\ q.asked.kind = "sync" => q.locks # {} /\ RowAt(q.asked) = NoRow
  /\ q.at = "store" =>
       /\ q.locks \cap {"database", "row"} # {}
       /\ q.key = 0 <=> CaseExists(q.asked.seal)
       /\ q.asked.kind = "form" => q.key # 0
       /\ q.asked.kind = "sync" => RowAt(q.asked) = NoRow
  /\ "gap" \in q.locks => ~CaseExists(q.asked.seal)

(* What an answer told. *)
Told(q) ==
  /\ q.reply \in {"ok", "exists", "conflict"} => CaseExists(q.asked.seal)
  /\ q.reply = "ok" /\ q.asked.kind = "form" =>
       cases[q.asked.seal].person = q.asked.person
  /\ q.reply = "ok" /\ q.asked.kind = "sync" =>
       RowAt(q.asked) # NoRow /\ RowAt(q.asked).person = q.asked.person

Sound(q) ==
  \/ q = Waiting
  \/ q \in Transaction /\ Founded(q)
  \/ q \in Answer /\ Told(q)

(* Locks that exclude each other. *)
Excludes(p, q) ==
  p \in Transaction /\ q \in Transaction =>
    /\ "database" \in p.locks => q.locks = {}
    /\ "row" \in p.locks /\ p.asked.seal = q.asked.seal => q.locks = {}

TablesOK ==
  /\ dialect \in {"sqlite", "mariadb"}
  /\ cases \in [CaseSeals -> CaseRows]
  /\ dataKeys \in [CaseSeals -> 0 .. MaxAttempts]
  /\ caseRecords \in [CaseSeals -> [CaseEvents -> RecordRows]]
  /\ attempts \in 0 .. MaxAttempts

CaseInv ==
  /\ TablesOK
  /\ applying \in [Applicants -> {Waiting} \cup Transaction \cup Answer]
  /\ \A a \in Applicants : Sound(applying[a])
  /\ \A a, b \in Applicants : a # b => Excludes(applying[a], applying[b])
  /\ CaseIsOneRegistration
  /\ NonceMeansStored

(* What is asked for. *)
LEMMA AskedFor ==
  ASSUME NEW r \in Applications
  PROVE  /\ r.kind \in {"form", "sync"} /\ r.seal \in CaseSeals /\ r.person \in STRING
         /\ r.kind = "sync" => r.event \in CaseEvents
BY RegistrationAssumption DEF FormRequest, SyncRequest

(* A request by its place. *)
LEMMA Places ==
  ASSUME CaseInv, NEW a \in Applicants
  PROVE  /\ applying[a].at = "idle" => applying[a] = Waiting
         /\ applying[a].at = "answered" => applying[a] \in Answer /\ Told(applying[a])
         /\ applying[a].at \in {"lock", "decide", "insert", "store"} =>
              applying[a] \in Transaction /\ Founded(applying[a])
         /\ applying[a].at \in {"idle", "answered", "lock", "decide", "insert", "store"}
BY DEF CaseInv, Sound, Waiting, Transaction, Answer

(* Cases and records are never changed once they are there, and only by a  *)
(* request that has the row.                                               *)
Settles(a) ==
  /\ dialect' = dialect
  /\ \A s \in CaseSeals : CaseExists(s) => cases'[s] = cases[s]
  /\ \A s \in CaseSeals, e \in CaseEvents :
       caseRecords[s][e] # NoRow => caseRecords'[s][e] = caseRecords[s][e]
  /\ \A s \in CaseSeals :
       \/ cases'[s] = cases[s] /\ caseRecords'[s] = caseRecords[s]
       \/ /\ applying[a] \in Transaction /\ s = applying[a].asked.seal
          /\ applying[a].locks \cap {"database", "row"} # {}

(* What the others found stays so. *)
LEMMA OthersStaySound ==
  ASSUME CaseInv, NEW a \in Applicants, Settles(a), NEW b \in Applicants, b # a,
         NEW q, q = applying[b]
  PROVE  Sound(q)'
<1>1. Sound(q) /\ Excludes(applying[a], q)
  BY DEF CaseInv
<1>2. CASE q = Waiting
  BY <1>2 DEF Sound
<1>3. CASE q \in Answer /\ Told(q)
  <2>1. q.asked \in Applications
    BY <1>3 DEF Answer
  <2>2. Told(q)'
    BY <1>3, <2>1, AskedFor DEF Told, CaseExists, RowAt, Settles
  <2> QED
    BY <1>3, <2>2 DEF Sound, Answer
<1>4. CASE q \in Transaction /\ Founded(q)
  <2>1. q.asked \in Applications
    BY <1>4 DEF Transaction
  <2>2. CASE /\ cases'[q.asked.seal] = cases[q.asked.seal]
             /\ caseRecords'[q.asked.seal] = caseRecords[q.asked.seal]
    <3>1. Founded(q)'
      BY <1>4, <2>2 DEF Founded, CaseExists, RowAt, Settles
    <3> QED
      BY <1>4, <3>1 DEF Sound, Transaction
  <2>3. CASE q.locks = {}
    <3>1. Founded(q)'
      BY <1>4, <2>1, <2>3, AskedFor DEF Founded, Settles
    <3> QED
      BY <1>4, <3>1 DEF Sound, Transaction
  <2> QED
    BY <1>1, <1>4, <2>1, <2>2, <2>3, AskedFor DEF Settles, Excludes
<1> QED
  BY <1>1, <1>2, <1>3, <1>4 DEF Sound

(* A request's own step. *)
LEMMA RequestStep ==
  ASSUME CaseInv, NEW a \in Applicants, Settles(a), TablesOK',
         NEW q \in {Waiting} \cup Transaction \cup Answer,
         applying' = [applying EXCEPT ![a] = q],
         q = Waiting \/ (q \in Transaction /\ Founded(q)') \/ (q \in Answer /\ Told(q)'),
         \A b \in Applicants : b # a =>
           Excludes(q, applying[b]) /\ Excludes(applying[b], q),
         CaseIsOneRegistration', NonceMeansStored'
  PROVE  CaseInv'
<1>1. applying' \in [Applicants -> {Waiting} \cup Transaction \cup Answer]
  BY DEF CaseInv
<1>2. applying'[a] = q /\ \A b \in Applicants : b # a => applying'[b] = applying[b]
  BY DEF CaseInv
<1>3. ASSUME NEW b \in Applicants
      PROVE  Sound(applying[b])'
  <2>1. CASE b = a
    BY <1>2, <2>1 DEF Sound, Founded, Told
  <2>2. CASE b # a
    <3>1. PICK p : p = applying[b]
      OBVIOUS
    <3>2. Sound(p)'
      BY <2>2, <3>1, OthersStaySound
    <3> QED
      BY <1>2, <2>2, <3>1, <3>2
  <2> QED
    BY <2>1, <2>2
<1>4. \A b, c \in Applicants : b # c => Excludes(applying'[b], applying'[c])
  BY <1>2 DEF CaseInv
<1>5. (\A b, c \in Applicants : b # c => Excludes(applying[b], applying[c]))'
  BY <1>4 DEF Excludes, Transaction
<1> QED
  BY <1>1, <1>3, <1>5 DEF CaseInv

(* A step that writes no case and no record. *)
LEMMA ReadingStep ==
  ASSUME CaseInv, NEW a \in Applicants,
         UNCHANGED <<dialect, cases, dataKeys, caseRecords>>,
         attempts' \in 0 .. MaxAttempts, NonceMeansStored',
         NEW q, applying' = [applying EXCEPT ![a] = q],
         q = Waiting \/ (q \in Transaction /\ Founded(q)) \/ (q \in Answer /\ Told(q)),
         \A b \in Applicants : b # a =>
           Excludes(q, applying[b]) /\ Excludes(applying[b], q)
  PROVE  CaseInv'
<1>1. Settles(a)
  BY DEF Settles
<1>2. TablesOK'
  BY DEF CaseInv, TablesOK
<1>3. q = Waiting \/ (q \in Transaction /\ Founded(q)') \/ (q \in Answer /\ Told(q)')
  BY DEF Founded, Told, RowAt, CaseExists
<1>4. CaseIsOneRegistration'
  BY DEF CaseInv, CaseIsOneRegistration, CaseExists
<1> QED
  BY <1>1, <1>2, <1>3, <1>4, RequestStep

(* A request that waits or has its answer excludes nobody. *)
LEMMA RestExcludesNobody ==
  ASSUME NEW q \in {Waiting} \cup Answer, NEW p
  PROVE  Excludes(p, q) /\ Excludes(q, p)
BY DEF Excludes, Waiting, Answer, Transaction

LEMMA UnusedNonces ==
  ASSUME CaseInv, UNCHANGED <<nonces, caseRecords>>
  PROVE  NonceMeansStored'
BY DEF CaseInv, NonceMeansStored, RowAt

(* An answer without a change. *)
LEMMA AnswerKeeps ==
  ASSUME CaseInv, NEW a \in Applicants, NEW r \in Applications, NEW reply \in Replies,
         reply \notin {"ok", "conflict"}, reply = "exists" => CaseExists(r.seal),
         applying' = [applying EXCEPT ![a] = Replied(r, reply)],
         UNCHANGED <<dialect, caseTables, attempts>>
  PROVE  CaseInv'
<1> DEFINE q == Replied(r, reply)
<1>1. q \in Answer /\ q.asked = r /\ q.reply = reply
  BY DEF Replied, Answer
<1> HIDE DEF q
<1>2. Told(q)
  BY <1>1 DEF Told
<1>3. UNCHANGED <<dialect, cases, dataKeys, caseRecords, nonces>> /\ attempts' \in 0 .. MaxAttempts
  BY DEF caseTables, CaseInv, TablesOK
<1>4. applying' = [applying EXCEPT ![a] = q]
  BY DEF q
<1> QED
  BY <1>1, <1>2, <1>3, <1>4, UnusedNonces, RestExcludesNobody, ReadingStep

LEMMA RefusalKeeps ==
  ASSUME CaseInv, NEW a \in Applicants, NEW reply \in Replies,
         applying[a] \in Transaction,
         reply \notin {"ok", "conflict"}, reply = "exists" => CaseExists(SealOf(a)),
         Refuse(a, reply)
  PROVE  CaseInv'
<1>1. Asked(a) \in Applications
  BY DEF Asked, Transaction
<1> QED
  BY <1>1, AnswerKeeps DEF Refuse, Asked, SealOf

LEMMA RefusalsKeep ==
  ASSUME CaseInv, NEW a \in Applicants,
         NonceIsUsed(a) \/ ValuesRefused(a) \/ InsertLost(a) \/ Fails(a)
  PROVE  CaseInv'
<1>1. applying[a].at \in {"lock", "decide", "insert", "store"}
  BY DEF NonceIsUsed, ValuesRefused, InsertLost, Fails, Is, Decides
<1>2. applying[a] \in Transaction
  BY <1>1, Places
<1>3. PICK reply \in Replies :
        /\ reply \notin {"ok", "conflict"}
        /\ reply = "exists" => CaseExists(SealOf(a))
        /\ Refuse(a, reply)
  <2>1. CASE NonceIsUsed(a)
    BY <2>1 DEF NonceIsUsed, Replies
  <2>2. CASE ValuesRefused(a)
    BY <2>2 DEF ValuesRefused, Replies
  <2>3. CASE InsertLost(a)
    <3>1. CASE Asked(a).kind = "form"
      BY <2>3, <3>1 DEF InsertLost, Replies
    <3>2. CASE Asked(a).kind # "form"
      BY <2>3, <3>2 DEF InsertLost, Replies
    <3> QED
      BY <3>1, <3>2
  <2>4. CASE Fails(a)
    BY <2>4 DEF Fails, Replies
  <2> QED
    BY <2>1, <2>2, <2>3, <2>4
<1> QED
  BY <1>2, <1>3, RefusalKeeps

LEMMA EndKeeps ==
  ASSUME CaseInv, NEW a \in Applicants, End(a)
  PROVE  CaseInv'
<1>1. /\ UNCHANGED <<dialect, cases, dataKeys, caseRecords, nonces>>
      /\ attempts' \in 0 .. MaxAttempts
      /\ applying' = [applying EXCEPT ![a] = Waiting]
  BY DEF End, caseTables, CaseInv, TablesOK
<1> QED
  BY <1>1, UnusedNonces, RestExcludesNobody, ReadingStep

(* The requests are taken in without a lock. *)
LEMMA ReceivingKeeps ==
  ASSUME CaseInv, NEW a \in Applicants, NEW r \in Applications,
         ReceiveForm(a, r) \/ ReceiveSubmission(a, r)
  PROVE  CaseInv'
<1>1. UNCHANGED <<dialect, caseTables, attempts>>
  BY DEF ReceiveForm, ReceiveSubmission
<1>2. CASE applying' = [applying EXCEPT ![a] = Replied(r, "exists")] /\ CaseExists(r.seal)
  BY <1>1, <1>2, AnswerKeeps DEF Replies
<1>3. CASE applying' = [applying EXCEPT ![a] = Replied(r, "no case")]
  BY <1>1, <1>3, AnswerKeeps DEF Replies
<1>4. ASSUME NEW place \in {"insert", "lock"},
             place = IF r.kind = "form" THEN "insert" ELSE "lock",
             applying' = [applying EXCEPT ![a] = Progress(place, r)]
      PROVE  CaseInv'
  <2> DEFINE q == Progress(place, r)
  <2>1. q \in Transaction /\ q.at = place /\ q.asked = r /\ q.locks = {} /\ q.key = 0
    BY RegistrationAssumption DEF Progress, Transaction
  <2>2. applying' = [applying EXCEPT ![a] = q]
    BY <1>4
  <2> HIDE DEF q
  <2>3. Founded(q)
    BY <1>4, <2>1, AskedFor DEF Founded
  <2>4. \A b \in Applicants : Excludes(q, applying[b]) /\ Excludes(applying[b], q)
    BY <2>1 DEF Excludes
  <2>5. UNCHANGED <<dialect, cases, dataKeys, caseRecords, nonces>>
        /\ attempts' \in 0 .. MaxAttempts
    BY <1>1 DEF caseTables, CaseInv, TablesOK
  <2> QED
    BY <2>1, <2>2, <2>3, <2>4, <2>5, UnusedNonces, ReadingStep
<1> QED
  BY <1>2, <1>3, <1>4 DEF ReceiveForm, ReceiveSubmission

(* The others of a request are those in a transaction. *)
LEMMA OthersInTransaction ==
  ASSUME CaseInv, NEW a \in Applicants, NEW b \in Applicants, b # a
  PROVE  b \in Others(a) <=> applying[b] \in Transaction
<1>1. applying[b].at \in {"idle", "answered", "lock", "decide", "insert", "store"}
  BY Places
<1> QED
  BY <1>1, Places DEF Others, Transaction

(* A lock of the seal's row, or the gap of a seal without one. *)
LEMMA LockingKeeps ==
  ASSUME CaseInv, NEW a \in Applicants, LockCaseRow(a)
  PROVE  CaseInv'
<1> DEFINE p == applying[a]
           locks == IF dialect = "sqlite" THEN {"database"}
                    ELSE IF CaseExists(SealOf(a)) THEN {"row"} ELSE {"gap"}
           q == [p EXCEPT !.at = "decide", !.locks = locks]
<1>1. p \in Transaction /\ Founded(p) /\ p.at = "lock"
  BY Places DEF LockCaseRow, Is
<1>2. applying' = [applying EXCEPT ![a] = q] /\ ~RowIsHeld(a)
      /\ UNCHANGED <<dialect, caseTables, attempts>>
  BY DEF LockCaseRow, CaseInv
<1>3. SealOf(a) = p.asked.seal
  BY DEF SealOf
<1>4. /\ q \in Transaction /\ q.at = "decide" /\ q.asked = p.asked
      /\ q.locks = locks /\ q.key = p.key
  BY <1>1 DEF Transaction
<1> HIDE DEF q
<1>5. Founded(q)
  BY <1>1, <1>3, <1>4 DEF Founded
<1>6. ASSUME NEW b \in Applicants, b # a, applying[b] \in Transaction
      PROVE  Excludes(q, applying[b]) /\ Excludes(applying[b], q)
  <2>1. "database" \notin applying[b].locks
    BY <1>2, <1>6, OthersInTransaction DEF RowIsHeld, Holds
  <2>2. applying[b].asked.seal = p.asked.seal => "row" \notin applying[b].locks
    BY <1>2, <1>3, <1>6, OthersInTransaction DEF RowIsHeld, Holds, SealOf
  <2>3. Founded(applying[b])
    BY <1>6, Places DEF Transaction
  <2>4. CASE dialect = "sqlite"
    BY <1>4, <2>1, <2>3, <2>4 DEF Founded, Excludes
  <2>5. CASE dialect # "sqlite"
    BY <1>3, <1>4, <2>1, <2>2, <2>3, <2>5 DEF Founded, Excludes, Transaction
  <2> QED
    BY <2>4, <2>5
<1>7. \A b \in Applicants : b # a =>
        Excludes(q, applying[b]) /\ Excludes(applying[b], q)
  BY <1>6 DEF Excludes
<1>8. UNCHANGED <<dialect, cases, dataKeys, caseRecords, nonces>>
      /\ attempts' \in 0 .. MaxAttempts
  BY <1>2 DEF caseTables, CaseInv, TablesOK
<1> QED
  BY <1>2, <1>4, <1>5, <1>7, <1>8, UnusedNonces, ReadingStep

(* The event has its record: only the nonce is written. *)
LEMMA ResubmissionKeeps ==
  ASSUME CaseInv, NEW a \in Applicants, Resubmitted(a)
  PROVE  CaseInv'
<1> DEFINE r == Asked(a)
           reply == IF RowAt(r).person = r.person THEN "ok" ELSE "conflict"
           q == Replied(r, reply)
<1>1. applying[a] \in Transaction /\ Founded(applying[a]) /\ applying[a].at = "decide"
  BY Places DEF Resubmitted, Decides, Is
<1>2. r \in Applications /\ r.kind = "sync"
  BY <1>1 DEF Asked, Transaction, Founded
<1>3. /\ RowAt(r) # NoRow /\ nonces' = nonces \cup {r.nonce}
      /\ applying' = [applying EXCEPT ![a] = q]
      /\ UNCHANGED <<dialect, cases, dataKeys, caseRecords, attempts>>
  BY DEF Resubmitted, Decides
<1>4. q \in Answer /\ q.asked = r /\ q.reply = reply
  BY <1>2 DEF Replied, Answer, Replies
<1>5. CaseExists(r.seal)
  BY <1>2, <1>3, AskedFor DEF CaseInv, CaseIsOneRegistration, RowAt
<1> HIDE DEF q, r
<1>6. Told(q)
  BY <1>2, <1>3, <1>4, <1>5 DEF Told
<1>7. NonceMeansStored'
  <2> SUFFICES ASSUME NEW t \in Applications, t.kind = "sync", t.nonce \in nonces'
               PROVE  RowAt(t)' # NoRow
    BY DEF NonceMeansStored
  <2>1. CASE t.nonce \in nonces
    BY <1>3, <2>1 DEF CaseInv, NonceMeansStored, RowAt
  <2>2. CASE t.nonce = r.nonce
    BY <1>2, <1>3, <2>2, NoncesAreDrawn DEF RowAt
  <2> QED
    BY <1>3, <2>1, <2>2
<1>8. attempts' \in 0 .. MaxAttempts
  BY <1>3 DEF CaseInv, TablesOK
<1> QED
  BY <1>3, <1>4, <1>6, <1>7, <1>8, RestExcludesNobody, ReadingStep

LEMMA DecisionKeeps ==
  ASSUME CaseInv, NEW a \in Applicants, DecideNew(a)
  PROVE  CaseInv'
<1> DEFINE p == applying[a]
<1>1. p \in Transaction /\ Founded(p) /\ p.at = "decide"
  BY Places DEF DecideNew, Decides, Is
<1>2. RowAt(p.asked) = NoRow /\ UNCHANGED <<dialect, caseTables, attempts>>
  BY DEF DecideNew, Asked
<1>3. PICK place \in {"store", "insert"} :
        /\ place = "store" <=> CaseExists(p.asked.seal)
        /\ applying' = [applying EXCEPT ![a].at = place]
  <2>1. CASE CaseExists(p.asked.seal)
    BY <2>1 DEF DecideNew, NextStage, Proceeds, SealOf
  <2>2. CASE ~CaseExists(p.asked.seal)
    BY <2>2 DEF DecideNew, NextStage, Proceeds, SealOf
  <2> QED
    BY <2>1, <2>2
<1> DEFINE q == [p EXCEPT !.at = place]
<1>4. applying' = [applying EXCEPT ![a] = q]
  BY <1>3 DEF CaseInv
<1>5. /\ q \in Transaction /\ q.at = place /\ q.asked = p.asked
      /\ q.locks = p.locks /\ q.key = p.key
  BY <1>1 DEF Transaction
<1> HIDE DEF q
<1>6. Founded(q)
  <2>1. q.at = "store" => q.locks \cap {"database", "row"} # {}
    BY <1>1, <1>3, <1>5 DEF Founded, TablesOK
  <2> QED
    BY <1>1, <1>2, <1>3, <1>5, <2>1 DEF Founded
<1>7. \A b \in Applicants : b # a =>
        Excludes(q, applying[b]) /\ Excludes(applying[b], q)
  BY <1>1, <1>5 DEF CaseInv, Excludes
<1>8. UNCHANGED <<dialect, cases, dataKeys, caseRecords, nonces>>
      /\ attempts' \in 0 .. MaxAttempts
  BY <1>2 DEF caseTables, CaseInv, TablesOK
<1> QED
  BY <1>4, <1>5, <1>6, <1>7, <1>8, UnusedNonces, ReadingStep

(* Who inserts has the row to itself. *)
LEMMA InsertKeeps ==
  ASSUME CaseInv, NEW a \in Applicants, InsertCase(a)
  PROVE  CaseInv'
<1> DEFINE p == applying[a]
           lock == IF dialect = "sqlite" THEN "database" ELSE "row"
           q == [p EXCEPT !.at = "store", !.key = attempts + 1,
                          !.locks = p.locks \cup {lock}]
<1>1. p \in Transaction /\ Founded(p) /\ p.at = "insert"
  BY Places DEF InsertCase, Is
<1>2. /\ ~InsertIsBlocked(a) /\ ~CaseExists(p.asked.seal)
      /\ attempts < MaxAttempts /\ attempts' = attempts + 1
      /\ UNCHANGED <<dialect, caseTables>>
  BY DEF InsertCase, SealOf
<1>3. applying' = [applying EXCEPT ![a] = q]
  BY DEF InsertCase, CaseInv
<1>4. attempts + 1 \in 0 .. MaxAttempts /\ attempts + 1 # 0
  BY <1>2, RegistrationAssumption DEF CaseInv, TablesOK
<1>5. /\ q \in Transaction /\ q.at = "store" /\ q.asked = p.asked
      /\ q.locks = p.locks \cup {lock} /\ q.key # 0
  BY <1>1, <1>4 DEF Transaction
<1> HIDE DEF q
<1>6. Founded(q)
  <2>1. q.asked.kind = "sync" => RowAt(q.asked) = NoRow
    BY <1>1, <1>5 DEF Founded
  <2> QED
    BY <1>1, <1>2, <1>5, <2>1 DEF Founded
<1>7. ASSUME NEW b \in Applicants, b # a, applying[b] \in Transaction
      PROVE  Excludes(q, applying[b]) /\ Excludes(applying[b], q)
  <2>1. "database" \notin applying[b].locks /\ "gap" \notin applying[b].locks
    BY <1>2, <1>7, OthersInTransaction DEF InsertIsBlocked, RowIsHeld, Holds
  <2>2. applying[b].asked.seal = p.asked.seal => "row" \notin applying[b].locks
    BY <1>2, <1>7, OthersInTransaction DEF InsertIsBlocked, RowIsHeld, Holds, SealOf
  <2>3. Founded(applying[b])
    BY <1>7, Places DEF Transaction
  <2>4. CASE dialect = "sqlite"
    <3>1. applying[b].locks = {} /\ q.locks \subseteq {"database"}
      BY <1>1, <1>5, <2>1, <2>3, <2>4 DEF Founded
    <3> QED
      BY <3>1 DEF Excludes
  <2>5. CASE dialect # "sqlite"
    <3>1. applying[b].locks \subseteq {"row"} /\ "database" \notin q.locks
      BY <1>1, <1>5, <2>1, <2>3, <2>5 DEF Founded
    <3> QED
      BY <1>5, <2>2, <3>1 DEF Excludes
  <2> QED
    BY <2>4, <2>5
<1>8. \A b \in Applicants : b # a =>
        Excludes(q, applying[b]) /\ Excludes(applying[b], q)
  BY <1>7 DEF Excludes
<1>9. UNCHANGED <<dialect, cases, dataKeys, caseRecords, nonces>>
      /\ attempts' \in 0 .. MaxAttempts
  BY <1>2, <1>4 DEF caseTables
<1> QED
  BY <1>3, <1>5, <1>6, <1>8, <1>9, UnusedNonces, ReadingStep

(* The rows of a case that is there or created now. *)
LEMMA CommitWrites ==
  ASSUME CaseInv, NEW a \in Applicants, Is(a, "store"), CommitCase(a), CommitKey(a)
  PROVE  LET p == applying[a]
             s == p.asked.seal
         IN  /\ p \in Transaction /\ Founded(p) /\ p.at = "store"
             /\ p.asked \in Applications /\ s \in CaseSeals
             /\ KeyFor(a) \in 0 .. MaxAttempts /\ KeyFor(a) # 0
             /\ dataKeys' = [dataKeys EXCEPT ![s] = KeyFor(a)]
             /\ dataKeys' \in [CaseSeals -> 0 .. MaxAttempts]
             /\ cases' \in [CaseSeals -> CaseRows]
             /\ \A z \in CaseSeals : z # s => cases'[z] = cases[z]
             /\ CaseExists(s) => cases'[s] = cases[s] /\ KeyFor(a) = dataKeys[s]
             /\ ~CaseExists(s) =>
                  /\ cases'[s].by = p.asked.kind /\ cases'[s].person = p.asked.person
                  /\ cases'[s].key = KeyFor(a)
             /\ cases'[s] # NoCase /\ cases'[s].key = KeyFor(a)
<1> DEFINE p == applying[a]
           s == p.asked.seal
           row == [by |-> p.asked.kind, person |-> p.asked.person, key |-> p.key]
<1>1. p \in Transaction /\ Founded(p) /\ p.at = "store"
  BY Places DEF Is
<1>2. p.asked \in Applications /\ s \in CaseSeals /\ p.key \in 0 .. MaxAttempts
  BY <1>1, AskedFor DEF Transaction
<1>3. p.key = 0 <=> CaseExists(s)
  BY <1>1 DEF Founded
<1>4. cases \in [CaseSeals -> CaseRows] /\ dataKeys \in [CaseSeals -> 0 .. MaxAttempts]
  BY DEF CaseInv, TablesOK
<1>5. CaseExists(s) => dataKeys[s] # 0 /\ cases[s].key = dataKeys[s]
  BY <1>2 DEF CaseInv, CaseIsOneRegistration
<1>6. KeyFor(a) = IF p.key # 0 THEN p.key ELSE dataKeys[s]
  BY DEF KeyFor, SealOf
<1>7. KeyFor(a) \in 0 .. MaxAttempts /\ KeyFor(a) # 0
  BY <1>2, <1>3, <1>4, <1>5, <1>6
<1>8. dataKeys' = [dataKeys EXCEPT ![s] = KeyFor(a)]
  BY DEF CommitKey, SealOf
<1>9. cases' = IF p.key = 0 THEN cases ELSE [cases EXCEPT ![s] = row]
  BY DEF CommitCase, SealOf, Asked
<1>10. /\ row \in CaseRows /\ row.by = p.asked.kind /\ row.person = p.asked.person
       /\ row.key = p.key /\ row # NoCase
  BY <1>2, AskedFor DEF CaseRows, NoCase
<1> HIDE DEF row
<1>11. cases' \in [CaseSeals -> CaseRows]
  BY <1>4, <1>9, <1>10
<1>12. \A z \in CaseSeals : z # s => cases'[z] = cases[z]
  BY <1>4, <1>9
<1>13. CASE CaseExists(s)
  BY <1>1, <1>2, <1>3, <1>4, <1>5, <1>6, <1>7, <1>8, <1>9, <1>11, <1>12, <1>13 DEF CaseExists
<1>14. CASE ~CaseExists(s)
  BY <1>1, <1>2, <1>3, <1>4, <1>6, <1>7, <1>8, <1>9, <1>10, <1>11, <1>12, <1>14
<1> QED
  BY <1>13, <1>14

(* A seal without a case has no record. *)
LEMMA NoCaseNoRecord ==
  ASSUME CaseInv, NEW s \in CaseSeals, ~CaseExists(s), NEW e \in CaseEvents
  PROVE  caseRecords[s][e] = NoRow
BY DEF CaseInv, CaseIsOneRegistration

(* The registration of one seal after a commit: those of other seals stay, *)
(* its rows are the old ones and the one written now, if any.              *)
LEMMA OneRegistrationAfter ==
  ASSUME CaseInv, NEW s \in CaseSeals, NEW k, k # 0,
         \A z \in CaseSeals : z # s =>
           cases'[z] = cases[z] /\ dataKeys'[z] = dataKeys[z] /\ caseRecords'[z] = caseRecords[z],
         cases'[s] # NoCase, cases'[s].key = k, dataKeys'[s] = k,
         CaseExists(s) => cases'[s] = cases[s] /\ k = dataKeys[s],
         \A e \in CaseEvents :
           \/ caseRecords'[s][e] = caseRecords[s][e]
           \/ caseRecords[s][e] = NoRow /\ caseRecords'[s][e].key = k,
         ~CaseExists(s) /\ cases'[s].by = "sync" =>
           \E e \in CaseEvents :
             caseRecords'[s][e] # NoRow /\ caseRecords'[s][e].person = cases'[s].person
  PROVE  CaseIsOneRegistration'
<1> DEFINE rows(z) == {caseRecords[z][e] : e \in CaseEvents} \ {NoRow}
           OK(z) == /\ CaseExists(z) <=> dataKeys[z] # 0
                    /\ CaseExists(z) => cases[z].key = dataKeys[z]
                    /\ \A row \in rows(z) : row.key = dataKeys[z] /\ row.key # 0
                    /\ cases[z].by = "sync" => \E row \in rows(z) : row.person = cases[z].person
<1>1. \A z \in CaseSeals : OK(z)
  BY DEF CaseInv, CaseIsOneRegistration
<1>2. ASSUME NEW z \in CaseSeals, z # s
      PROVE  OK(z)'
  BY <1>1, <1>2 DEF CaseExists
<1>3. OK(s)'
  <2>1. CaseExists(s)' /\ dataKeys'[s] = k /\ cases'[s].key = k
    BY DEF CaseExists
  <2>2. \A row \in rows(s)' : row.key = k
    BY <1>1, NoCaseNoRecord
  <2>3. ASSUME cases'[s].by = "sync", CaseExists(s)
        PROVE  \E row \in rows(s)' : row.person = cases'[s].person
    <3>1. PICK row \in rows(s) : row.person = cases[s].person
      BY <1>1, <2>3
    <3>2. PICK e \in CaseEvents : row = caseRecords[s][e] /\ row # NoRow
      BY <3>1
    <3>3. caseRecords'[s][e] = row
      BY <3>2
    <3>4. row \in rows(s)'
      BY <3>2, <3>3
    <3> QED
      BY <2>3, <3>1, <3>4
  <2>4. ASSUME cases'[s].by = "sync", ~CaseExists(s)
        PROVE  \E row \in rows(s)' : row.person = cases'[s].person
    BY <2>4
  <2> QED
    BY <2>1, <2>2, <2>3, <2>4
<1> QED
  BY <1>2, <1>3 DEF CaseIsOneRegistration

LEMMA CommitFormKeeps ==
  ASSUME CaseInv, NEW a \in Applicants, CommitForm(a)
  PROVE  CaseInv'
<1> DEFINE p == applying[a]
           s == p.asked.seal
           k == KeyFor(a)
<1>1. /\ p \in Transaction /\ Founded(p) /\ p.at = "store"
      /\ p.asked \in Applications /\ s \in CaseSeals /\ k \in 0 .. MaxAttempts /\ k # 0
      /\ dataKeys' = [dataKeys EXCEPT ![s] = k]
      /\ dataKeys' \in [CaseSeals -> 0 .. MaxAttempts]
      /\ cases' \in [CaseSeals -> CaseRows]
      /\ \A z \in CaseSeals : z # s => cases'[z] = cases[z]
      /\ CaseExists(s) => cases'[s] = cases[s] /\ k = dataKeys[s]
      /\ ~CaseExists(s) =>
           /\ cases'[s].by = p.asked.kind /\ cases'[s].person = p.asked.person
           /\ cases'[s].key = k
      /\ cases'[s] # NoCase /\ cases'[s].key = k
  BY CommitWrites DEF CommitForm
<1>2. /\ p.asked.kind = "form" /\ applying' = [applying EXCEPT ![a] = Replied(p.asked, "ok")]
      /\ UNCHANGED <<dialect, caseRecords, nonces, attempts>>
  BY DEF CommitForm, Asked
<1>3. ~CaseExists(s)
  BY <1>1, <1>2 DEF Founded
<1>4. PICK q : q = Replied(p.asked, "ok") /\ q \in Answer /\ q.asked = p.asked /\ q.reply = "ok"
  <2> DEFINE z == Replied(p.asked, "ok")
  <2>1. z \in Answer /\ z.asked = p.asked /\ z.reply = "ok"
    BY <1>1 DEF Replied, Answer, Replies
  <2> QED
    BY <2>1
<1> HIDE DEF p, k
<1>5. Told(q)'
  BY <1>1, <1>2, <1>3, <1>4 DEF Told, CaseExists
<1>6. dataKeys \in [CaseSeals -> 0 .. MaxAttempts]
  BY DEF CaseInv, TablesOK
<1>7. TablesOK'
  BY <1>1, <1>2 DEF CaseInv, TablesOK
<1>8. Settles(a)
  BY <1>1, <1>2, <1>3 DEF Settles, Founded, p
<1>9. CaseIsOneRegistration'
  <2>1. dataKeys'[s] = k /\ \A z \in CaseSeals : z # s => dataKeys'[z] = dataKeys[z]
    BY <1>1, <1>6
  <2> QED
    BY <1>1, <1>2, <1>3, <2>1, OneRegistrationAfter
<1>10. NonceMeansStored'
  BY <1>2, UnusedNonces
<1>11. \A b \in Applicants : Excludes(q, applying[b]) /\ Excludes(applying[b], q)
  BY <1>4, RestExcludesNobody
<1>12. applying' = [applying EXCEPT ![a] = q] /\ q \in {Waiting} \cup Transaction \cup Answer
  BY <1>2, <1>4
<1> QED
  BY <1>4, <1>5, <1>7, <1>8, <1>9, <1>10, <1>11, <1>12, RequestStep

LEMMA CommitRecordKeeps ==
  ASSUME CaseInv, NEW a \in Applicants, CommitRecord(a)
  PROVE  CaseInv'
<1> DEFINE p == applying[a]
           s == p.asked.seal
           e == p.asked.event
           k == KeyFor(a)
           row == [person |-> p.asked.person, key |-> k]
<1>1. /\ p \in Transaction /\ Founded(p) /\ p.at = "store"
      /\ p.asked \in Applications /\ s \in CaseSeals /\ k \in 0 .. MaxAttempts /\ k # 0
      /\ dataKeys' = [dataKeys EXCEPT ![s] = k]
      /\ dataKeys' \in [CaseSeals -> 0 .. MaxAttempts]
      /\ cases' \in [CaseSeals -> CaseRows]
      /\ \A z \in CaseSeals : z # s => cases'[z] = cases[z]
      /\ CaseExists(s) => cases'[s] = cases[s] /\ k = dataKeys[s]
      /\ ~CaseExists(s) =>
           /\ cases'[s].by = p.asked.kind /\ cases'[s].person = p.asked.person
           /\ cases'[s].key = k
      /\ cases'[s] # NoCase /\ cases'[s].key = k
  BY CommitWrites DEF CommitRecord
<1>2. /\ p.asked.kind = "sync" /\ applying' = [applying EXCEPT ![a] = Replied(p.asked, "ok")]
      /\ caseRecords' = [caseRecords EXCEPT ![s][e] = row]
      /\ nonces' = nonces \cup {p.asked.nonce}
      /\ UNCHANGED <<dialect, attempts>>
  BY DEF CommitRecord, Asked, SealOf
<1>3. e \in CaseEvents /\ caseRecords[s][e] = NoRow
  BY <1>1, <1>2, AskedFor DEF Founded, RowAt
<1>4. PICK q : q = Replied(p.asked, "ok") /\ q \in Answer /\ q.asked = p.asked /\ q.reply = "ok"
  <2> DEFINE z == Replied(p.asked, "ok")
  <2>1. z \in Answer /\ z.asked = p.asked /\ z.reply = "ok"
    BY <1>1 DEF Replied, Answer, Replies
  <2> QED
    BY <2>1
<1>5. row \in RecordRows /\ row.person = p.asked.person /\ row.key = k /\ row # NoRow
  <2>1. k \in 1 .. MaxAttempts /\ p.asked.person \in STRING
    BY <1>1, AskedFor, RegistrationAssumption
  <2> HIDE DEF p, k
  <2>2. row \in RecordRows /\ row.person = p.asked.person /\ row.key = k
    BY <2>1 DEF RecordRows
  <2>3. NoRow.key = 0
    BY DEF NoRow
  <2> QED
    BY <1>1, <2>2, <2>3
<1> HIDE DEF p, k, row
<1>6. dataKeys \in [CaseSeals -> 0 .. MaxAttempts]
      /\ caseRecords \in [CaseSeals -> [CaseEvents -> RecordRows]]
  BY DEF CaseInv, TablesOK
<1>7. /\ caseRecords' \in [CaseSeals -> [CaseEvents -> RecordRows]]
      /\ caseRecords'[s][e] = row
      /\ \A f \in CaseEvents : f # e => caseRecords'[s][f] = caseRecords[s][f]
      /\ \A z \in CaseSeals : z # s => caseRecords'[z] = caseRecords[z]
  BY <1>1, <1>2, <1>3, <1>5, <1>6
<1>8. Told(q)'
  BY <1>1, <1>2, <1>4, <1>5, <1>7 DEF Told, CaseExists, RowAt
<1>9. TablesOK'
  BY <1>1, <1>2, <1>7 DEF CaseInv, TablesOK
<1>10. Settles(a)
  <2>1. \A z \in CaseSeals : CaseExists(z) => cases'[z] = cases[z]
    BY <1>1
  <2>2. \A z \in CaseSeals, f \in CaseEvents :
          caseRecords[z][f] # NoRow => caseRecords'[z][f] = caseRecords[z][f]
    BY <1>3, <1>7
  <2> QED
    BY <1>1, <1>2, <1>7, <2>1, <2>2 DEF Settles, Founded, p
<1>11. CaseIsOneRegistration'
  <2>1. dataKeys'[s] = k /\ \A z \in CaseSeals : z # s => dataKeys'[z] = dataKeys[z]
    BY <1>1, <1>6
  <2>2. \A f \in CaseEvents :
          \/ caseRecords'[s][f] = caseRecords[s][f]
          \/ caseRecords[s][f] = NoRow /\ caseRecords'[s][f].key = k
    BY <1>3, <1>5, <1>7
  <2>3. ~CaseExists(s) => caseRecords'[s][e] # NoRow
                          /\ caseRecords'[s][e].person = cases'[s].person
    BY <1>1, <1>5, <1>7
  <2> QED
    BY <1>1, <1>3, <1>7, <2>1, <2>2, <2>3, OneRegistrationAfter
<1>12. NonceMeansStored'
  <2> SUFFICES ASSUME NEW t \in Applications, t.kind = "sync", t.nonce \in nonces'
               PROVE  RowAt(t)' # NoRow
    BY DEF NonceMeansStored
  <2>1. CASE t.nonce \in nonces
    <3>1. RowAt(t) # NoRow /\ t.seal \in CaseSeals /\ t.event \in CaseEvents
      BY <2>1, AskedFor DEF CaseInv, NonceMeansStored
    <3> QED
      BY <1>10, <3>1 DEF Settles, RowAt
  <2>2. CASE t.nonce = p.asked.nonce
    <3>1. t.seal = s /\ t.event = e
      BY <1>1, <1>2, <2>2, NoncesAreDrawn
    <3> QED
      BY <1>5, <1>7, <3>1 DEF RowAt
  <2> QED
    BY <1>2, <2>1, <2>2
<1>13. \A b \in Applicants : Excludes(q, applying[b]) /\ Excludes(applying[b], q)
  BY <1>4, RestExcludesNobody
<1>14. applying' = [applying EXCEPT ![a] = q] /\ q \in {Waiting} \cup Transaction \cup Answer
  BY <1>2, <1>4
<1> QED
  BY <1>4, <1>8, <1>9, <1>10, <1>11, <1>12, <1>13, <1>14, RequestStep

LEMMA CaseInvCorrect == RegistrationSpec => []CaseInv
<1>1. RegistrationInit => CaseInv
  <2> SUFFICES ASSUME RegistrationInit PROVE CaseInv
    OBVIOUS
  <2>1. NoRow \in RecordRows /\ NoCase.by = "nobody"
    BY DEF RecordRows, NoCase
  <2>2. TablesOK
    BY <2>1, RegistrationAssumption DEF RegistrationInit, TablesOK, CaseRows
  <2>3. CaseIsOneRegistration
    BY <2>1 DEF RegistrationInit, CaseIsOneRegistration, CaseExists
  <2>4. \A a \in Applicants : applying[a] = Waiting
    BY DEF RegistrationInit
  <2>5. \A a \in Applicants : Sound(applying[a])
    BY <2>4 DEF Sound
  <2>6. \A a, b \in Applicants : Excludes(applying[a], applying[b])
    BY <2>4, RestExcludesNobody
  <2> QED
    BY <2>2, <2>3, <2>5, <2>6 DEF RegistrationInit, CaseInv, NonceMeansStored
<1>2. CaseInv /\ [RegistrationNext]_caseVars => CaseInv'
  <2> SUFFICES ASSUME CaseInv, [RegistrationNext]_caseVars PROVE CaseInv'
    OBVIOUS
  <2>1. CASE UNCHANGED caseVars
    BY <2>1 DEF caseVars, caseTables, CaseInv, TablesOK, Sound, Founded, Told, Excludes,
                Transaction, RowAt, CaseExists, CaseIsOneRegistration, NonceMeansStored
  <2>2. CASE RegistrationNext
    BY <2>2, RefusalsKeep, EndKeeps, ReceivingKeeps, LockingKeeps, ResubmissionKeeps,
       DecisionKeeps, InsertKeeps, CommitFormKeeps, CommitRecordKeeps DEF RegistrationNext
  <2> QED
    BY <2>1, <2>2
<1> QED
  BY <1>1, <1>2, PTL DEF RegistrationSpec

(* At most one request holds SQLite's write lock. *)
LEMMA DatabaseHasOneHolder ==
  ASSUME CaseInv
  PROVE  Cardinality({a \in Applicants : /\ applying[a].at \notin {"idle", "answered"}
                                         /\ Holds(a, "database")}) <= 1
<1> DEFINE S == {a \in Applicants : /\ applying[a].at \notin {"idle", "answered"}
                                    /\ Holds(a, "database")}
<1>1. \A a, b \in S : a = b
  BY Places DEF CaseInv, Excludes, Holds
<1>2. CASE S = {}
  BY <1>2, FS_EmptySet
<1>3. CASE S # {}
  <2>1. PICK a \in S : S = {a}
    BY <1>1, <1>3
  <2>2. Cardinality(S) = 1
    BY <2>1, FS_Singleton
  <2> QED
    BY <2>2
<1> QED
  BY <1>2, <1>3

(* However forms and submissions race for a seal, on either database, it   *)
(* gets one registration, one data key and no nonce used up in vain, and   *)
(* every answer is true of it.                                             *)
THEOREM SealsGetOneCase == RegistrationSpec => []SealsAreRegisteredOnce
<1>1. CaseInv => SealsAreRegisteredOnce
  <2> SUFFICES ASSUME CaseInv PROVE SealsAreRegisteredOnce
    OBVIOUS
  <2>1. \A s \in CaseSeals : cases[s] # NoCase => cases[s].by \in {"form", "sync"}
    BY DEF CaseInv, TablesOK, CaseRows
  <2>2. \A a \in Applicants : ~Is(a, "idle") => Asked(a) \in Applications
    BY DEF CaseInv, Is, Asked, Waiting, Transaction, Answer
  <2>3. RegistrationTypeOK
    BY <2>1, <2>2, DatabaseHasOneHolder DEF CaseInv, TablesOK, RecordRows, RegistrationTypeOK
  <2>4. AnswersHold
    <3> SUFFICES ASSUME NEW a \in Applicants, Is(a, "answered")
                 PROVE  LET r == Asked(a) IN
                        /\ applying[a].reply \in {"ok", "exists", "conflict"} => CaseExists(r.seal)
                        /\ applying[a].reply = "ok" =>
                             IF r.kind = "form" THEN cases[r.seal].person = r.person
                             ELSE RowAt(r).person = r.person
      BY DEF AnswersHold
    <3>1. applying[a] \in Answer /\ Told(applying[a])
      BY Places DEF Is
    <3>2. Asked(a).kind \in {"form", "sync"}
      BY <3>1, AskedFor DEF Answer, Asked
    <3> QED
      BY <3>1, <3>2 DEF Told, Asked
  <2> QED
    BY <2>3, <2>4 DEF CaseInv, SealsAreRegisteredOnce
<1> QED
  BY <1>1, CaseInvCorrect, PTL

-----------------------------------------------------------------------------
(* SchemaUpgrade: starts of several processes on an earlier database.      *)

ShareRows == [id : Nat, slot : ShareSlots, generation : ShareGenerations, number : Nat]
StartPlaces == {"down", "columns", "add column", "shares", "begin", "rebuild", "new key",
                "old key", "serving"}
StartPlace == [at : StartPlaces, todo : SUBSET AddedColumns]
ShareTables == [exists : BOOLEAN, versioned : BOOLEAN, keys : SUBSET {"slot", "generation"},
                rows : SUBSET ShareRows]

(* The shares: nothing that is stored is lost or told apart wrongly, and   *)
(* before the column there are only shares of generation 0.                *)
SharesInv ==
  /\ shareTable \in ShareTables /\ lastShareId \in Nat /\ lastShareId <= MaxShareIds
  /\ IsFiniteSet(everStored) /\ everStored \subseteq ShareRows
  /\ removed \subseteq everStored
  /\ shareTable.rows = everStored \ removed
  /\ \A s \in everStored : s.id <= lastShareId
  /\ \A s, t \in everStored : s.id = t.id => s = t
  /\ ~shareTable.versioned => \A s \in everStored : s.generation = 0

(* What is done by the time a process has come to its place. *)
ReachedBy(p) ==
  /\ p.at # "down" => shareTable.exists
  /\ p.at \in {"columns", "add column"} => AddedColumns \ columns \subseteq p.todo
  /\ p.at \notin {"down", "columns", "add column"} => columns = AddedColumns
  /\ p.at \in {"begin", "rebuild"} => engine = "sqlite"
  /\ p.at = "rebuild" => ~shareTable.versioned
  /\ p.at \in {"new key", "old key"} => engine = "mariadb"
  /\ p.at \in {"new key", "old key", "serving"} => shareTable.versioned
  /\ p.at \in {"old key", "serving"} => "generation" \in shareTable.keys
  /\ p.at = "serving" => "slot" \notin shareTable.keys

UpgradeInv ==
  /\ SharesInv
  /\ columns \subseteq AddedColumns
  /\ starter \in [Starters -> StartPlace]
  /\ rebuilder \in Starters \cup {NoStarter}
  /\ \A w \in Starters : starter[w].at = "rebuild" <=> rebuilder = w
  /\ \A w \in Starters : ReachedBy(starter[w])
  /\ engine = "sqlite" /\ shareTable.versioned => shareTable.keys = {"generation"}
  /\ ~shareTable.exists => shareTable.rows = {} /\ ~shareTable.versioned

(* The schema only goes forward, and the column of key_shares comes while  *)
(* nobody else rebuilds.                                                   *)
Forward(w) ==
  /\ engine' = engine
  /\ shareTable.exists => shareTable'.exists
  /\ columns \subseteq columns' /\ columns' \subseteq AddedColumns
  /\ shareTable.versioned => shareTable'.versioned
  /\ "generation" \in shareTable.keys => "generation" \in shareTable'.keys
  /\ shareTable.exists /\ "slot" \notin shareTable.keys => "slot" \notin shareTable'.keys
  /\ \/ shareTable'.versioned <=> shareTable.versioned
     \/ \A v \in Starters \ {w} : starter[v].at # "rebuild"

LEMMA ReachedIsKept ==
  ASSUME NEW w \in Starters, Forward(w), NEW v \in Starters, v # w,
         NEW p \in StartPlace, p = starter[v], ReachedBy(p)
  PROVE  ReachedBy(p)'
BY DEF Forward, ReachedBy, StartPlace, StartPlaces

(* A process's own step. *)
LEMMA StarterStep ==
  ASSUME UpgradeInv, NEW w \in Starters, Forward(w),
         NEW p \in StartPlace, starter' = [starter EXCEPT ![w] = p], ReachedBy(p)',
         rebuilder' \in Starters \cup {NoStarter},
         p.at = "rebuild" <=> rebuilder' = w,
         \A v \in Starters \ {w} : rebuilder' = v <=> rebuilder = v,
         SharesInv',
         engine' = "sqlite" /\ shareTable'.versioned => shareTable'.keys = {"generation"},
         ~shareTable'.exists => shareTable'.rows = {} /\ ~shareTable'.versioned
  PROVE  UpgradeInv'
<1>1. starter' \in [Starters -> StartPlace]
  BY DEF UpgradeInv
<1>2. starter'[w] = p /\ \A v \in Starters \ {w} : starter'[v] = starter[v]
  BY DEF UpgradeInv
<1>3. ASSUME NEW v \in Starters
      PROVE  ReachedBy(starter[v])'
  <2>1. CASE v = w
    BY <1>2, <2>1 DEF ReachedBy
  <2>2. CASE v # w
    <3>1. PICK q : q = starter[v] /\ q \in StartPlace
      BY DEF UpgradeInv
    <3>2. ReachedBy(q)'
      BY <2>2, <3>1, ReachedIsKept DEF UpgradeInv
    <3> QED
      BY <1>2, <2>2, <3>1, <3>2 DEF ReachedBy
  <2> QED
    BY <2>1, <2>2
<1>4. \A v \in Starters : starter'[v].at = "rebuild" <=> rebuilder' = v
  BY <1>2 DEF UpgradeInv
<1> QED
  BY <1>1, <1>3, <1>4 DEF UpgradeInv, Forward

(* Steps that leave key_shares as it is. *)
LEMMA UnchangedShares ==
  ASSUME UpgradeInv, UNCHANGED <<engine, shareTable, lastShareId, everStored, removed>>
  PROVE  /\ SharesInv'
         /\ engine' = "sqlite" /\ shareTable'.versioned => shareTable'.keys = {"generation"}
         /\ ~shareTable'.exists => shareTable'.rows = {} /\ ~shareTable'.versioned
BY DEF UpgradeInv, SharesInv

(* A process's place, and the one after a step that only moves it. *)
LEMMA PassingPlaces ==
  ASSUME UpgradeInv, NEW w \in Starters, NEW at \in StartPlaces, Passes(w, at)
  PROVE  \E p \in StartPlace :
           /\ starter' = [starter EXCEPT ![w] = p]
           /\ p.at = at /\ p.todo = starter[w].todo
<1> DEFINE p == [starter[w] EXCEPT !.at = at]
<1>1. starter' = [starter EXCEPT ![w] = p]
  BY DEF Passes, UpgradeInv
<1>2. p \in StartPlace /\ p.at = at /\ p.todo = starter[w].todo
  BY DEF UpgradeInv, StartPlace
<1> QED
  BY <1>1, <1>2

LEMMA CreateSchemaKeeps ==
  ASSUME UpgradeInv, NEW w \in Starters, CreateSchema(w)
  PROVE  UpgradeInv'
<1>1. PICK p : p = [at |-> "columns", todo |-> AddedColumns]
  OBVIOUS
<1>2. p \in StartPlace /\ p.at = "columns" /\ p.todo = AddedColumns
  BY <1>1 DEF StartPlace, StartPlaces
<1>3. /\ starter' = [starter EXCEPT ![w] = p] /\ rebuilder' = rebuilder
      /\ rebuilder = NoStarter /\ starter[w].at = "down"
      /\ UNCHANGED <<engine, lastShareId, everStored, removed>>
  BY <1>1 DEF CreateSchema, WriteLockIsFree, Stands
<1>4. \A v \in Starters : starter[v].at # "rebuild" /\ rebuilder # v
  BY <1>3, UpgradeAssumption DEF UpgradeInv, NoStarter
<1>5. CASE shareTable.exists
  <2>1. UNCHANGED <<columns, shareTable>>
    BY <1>5 DEF CreateSchema
  <2>2. Forward(w)
    BY <1>3, <2>1 DEF Forward, UpgradeInv
  <2>3. ReachedBy(p)'
    BY <1>2, <1>5, <2>1 DEF ReachedBy
  <2> QED
    BY <1>2, <1>3, <1>4, <2>1, <2>2, <2>3, UnchangedShares, StarterStep DEF UpgradeInv
<1>6. CASE ~shareTable.exists
  <2>1. columns' = AddedColumns /\ shareTable' = Table(TRUE, {"generation"}, {})
    BY <1>6 DEF CreateSchema
  <2>2. /\ shareTable' \in ShareTables /\ shareTable'.exists /\ shareTable'.versioned
        /\ shareTable'.keys = {"generation"} /\ shareTable'.rows = {}
    BY <2>1 DEF Table, ShareTables
  <2>3. shareTable.rows = {}
    BY <1>6 DEF UpgradeInv
  <2>4. SharesInv'
    BY <1>3, <2>2, <2>3 DEF UpgradeInv, SharesInv
  <2>5. Forward(w)
    BY <1>3, <1>4, <1>6, <2>1, <2>2 DEF Forward, UpgradeInv
  <2>6. ReachedBy(p)'
    BY <1>2, <2>2 DEF ReachedBy
  <2> QED
    BY <1>2, <1>3, <1>4, <2>2, <2>4, <2>5, <2>6, StarterStep DEF UpgradeInv
<1> QED
  BY <1>5, <1>6

LEMMA ColumnsKeep ==
  ASSUME UpgradeInv, NEW w \in Starters, NEW c \in AddedColumns,
         FindColumn(w, c) \/ AddColumn(w, c)
  PROVE  UpgradeInv'
<1>1. /\ UNCHANGED <<engine, shareTable, lastShareId, rebuilder, everStored, removed>>
      /\ c \in starter[w].todo /\ starter[w].at \in {"columns", "add column"}
      /\ starter[w] \in StartPlace
  BY DEF FindColumn, AddColumn, Stands, Database, UpgradeInv
<1>2. \E p \in StartPlace :
        /\ starter' = [starter EXCEPT ![w] = p]
        /\ p.at \in {"columns", "add column"}
        /\ columns \subseteq columns' /\ columns' \subseteq AddedColumns
        /\ AddedColumns \ columns' \subseteq p.todo
  <2>1. AddedColumns \ columns \subseteq starter[w].todo
    BY <1>1 DEF UpgradeInv, ReachedBy
  <2>2. CASE FindColumn(w, c) /\ c \in columns
    <3> DEFINE p == [starter[w] EXCEPT !.todo = starter[w].todo \ {c}]
    <3>1. starter' = [starter EXCEPT ![w] = p] /\ columns' = columns
      BY <2>2 DEF FindColumn, Database
    <3>2. p \in StartPlace /\ p.at = starter[w].at /\ p.todo = starter[w].todo \ {c}
      BY <1>1 DEF StartPlace
    <3> HIDE DEF p
    <3> QED
      BY <1>1, <2>1, <2>2, <3>1, <3>2 DEF UpgradeInv
  <2>3. CASE FindColumn(w, c) /\ c \notin columns
    <3> DEFINE p == [at |-> "add column", todo |-> starter[w].todo]
    <3>1. starter' = [starter EXCEPT ![w] = p] /\ columns' = columns
      BY <2>3 DEF FindColumn, Database, UpgradeInv
    <3>2. p \in StartPlace /\ p.at = "add column" /\ p.todo = starter[w].todo
      BY <1>1 DEF StartPlace, StartPlaces
    <3> HIDE DEF p
    <3> QED
      BY <2>1, <3>1, <3>2 DEF UpgradeInv
  <2>4. CASE AddColumn(w, c)
    <3> DEFINE p == [at |-> "columns", todo |-> starter[w].todo \ {c}]
    <3>1. starter' = [starter EXCEPT ![w] = p] /\ columns' = columns \cup {c}
      BY <2>4 DEF AddColumn, UpgradeInv
    <3>2. p \in StartPlace /\ p.at = "columns" /\ p.todo = starter[w].todo \ {c}
      BY <1>1 DEF StartPlace, StartPlaces
    <3> HIDE DEF p
    <3> QED
      BY <2>1, <3>1, <3>2 DEF UpgradeInv
  <2> QED
    BY <2>2, <2>3, <2>4
<1>3. PICK p \in StartPlace :
        /\ starter' = [starter EXCEPT ![w] = p]
        /\ p.at \in {"columns", "add column"}
        /\ columns \subseteq columns' /\ columns' \subseteq AddedColumns
        /\ AddedColumns \ columns' \subseteq p.todo
  BY <1>2
<1>4. Forward(w)
  BY <1>1, <1>3 DEF Forward
<1>5. ReachedBy(p)'
  BY <1>1, <1>3 DEF ReachedBy, UpgradeInv
<1>6. rebuilder' # w
  BY <1>1 DEF UpgradeInv
<1> QED
  BY <1>1, <1>3, <1>4, <1>5, <1>6, UnchangedShares, StarterStep DEF UpgradeInv

(* A process that goes on, or rebuilds nothing. *)
LEMMA PassingKeeps ==
  ASSUME UpgradeInv, NEW w \in Starters,
         ColumnsDone(w) \/ LooksAtShares(w) \/ BeginRebuild(w)
  PROVE  UpgradeInv'
<1>1. UNCHANGED <<engine, columns, shareTable, lastShareId, everStored, removed>>
  BY DEF ColumnsDone, LooksAtShares, BeginRebuild, Database
<1>2. PICK at \in StartPlaces :
        /\ Passes(w, at)
        /\ at \in {"shares", "begin", "rebuild", "serving"}
        /\ columns = AddedColumns
        /\ at \in {"begin", "rebuild"} => engine = "sqlite"
        /\ at = "rebuild" => ~shareTable.versioned
        /\ at = "serving" => shareTable.versioned /\ engine = "sqlite"
        /\ rebuilder' = IF at = "rebuild" THEN w ELSE rebuilder
        /\ at = "rebuild" => rebuilder = NoStarter
        /\ starter[w].at \notin {"down", "rebuild"}
  <2>1. CASE ColumnsDone(w)
    BY <2>1 DEF ColumnsDone, Stands, StartPlaces, UpgradeInv, ReachedBy, Database
  <2>2. CASE LooksAtShares(w)
    <3>1. CASE shareTable.versioned
      BY <2>2, <3>1 DEF LooksAtShares, HasGeneration, Stands, StartPlaces, UpgradeInv, ReachedBy,
                        Database
    <3>2. CASE ~shareTable.versioned
      BY <2>2, <3>2 DEF LooksAtShares, HasGeneration, Stands, StartPlaces, UpgradeInv, ReachedBy,
                        Database
    <3> QED
      BY <3>1, <3>2
  <2>3. CASE BeginRebuild(w)
    <3>1. CASE shareTable.versioned
      BY <2>3, <3>1 DEF BeginRebuild, NotRebuiltMeanwhile, HasGeneration, Stands, StartPlaces,
                        UpgradeInv, ReachedBy, WriteLockIsFree
    <3>2. CASE ~shareTable.versioned
      BY <2>3, <3>2 DEF BeginRebuild, NotRebuiltMeanwhile, HasGeneration, Stands, StartPlaces,
                        UpgradeInv, ReachedBy, WriteLockIsFree
    <3> QED
      BY <3>1, <3>2
  <2> QED
    BY <2>1, <2>2, <2>3
<1>3. PICK p \in StartPlace : starter' = [starter EXCEPT ![w] = p] /\ p.at = at
  BY <1>2, PassingPlaces
<1>4. Forward(w)
  BY <1>1 DEF Forward, UpgradeInv
<1>5. ReachedBy(p)'
  BY <1>1, <1>2, <1>3 DEF ReachedBy, UpgradeInv
<1>6. rebuilder' \in Starters \cup {NoStarter} /\ (p.at = "rebuild" <=> rebuilder' = w)
  BY <1>2, <1>3 DEF UpgradeInv
<1>7. \A v \in Starters \ {w} : rebuilder' = v <=> rebuilder = v
  BY <1>2, UpgradeAssumption DEF NoStarter
<1> QED
  BY <1>1, <1>3, <1>4, <1>5, <1>6, <1>7, UnchangedShares, StarterStep

(* The rebuild copies what is there, and no id is given out again. *)
LEMMA RebuildKeeps ==
  ASSUME UpgradeInv, NEW w \in Starters, CommitRebuild(w)
  PROVE  UpgradeInv'
<1> DEFINE rows == shareTable.rows
           ids == {row.id : row \in rows} \cup {lastShareId}
<1>1. /\ starter[w].at = "rebuild" /\ rebuilder = w /\ engine = "sqlite"
      /\ ~shareTable.versioned /\ columns = AddedColumns
  BY DEF CommitRebuild, Stands, UpgradeInv, ReachedBy
<1>2. /\ shareTable' = Table(TRUE, {"generation"}, Copied(rows))
      /\ lastShareId' = CarriedPosition(Copied(rows))
      /\ rebuilder' = NoStarter /\ Passes(w, "serving")
      /\ UNCHANGED <<engine, columns, everStored, removed>>
  BY DEF CommitRebuild
<1>3. rows \subseteq ShareRows /\ \A row \in rows : row.generation = 0 /\ row.id <= lastShareId
  BY <1>1 DEF UpgradeInv, SharesInv
<1>4. Copied(rows) = rows
  <2>1. \A row \in rows : [row EXCEPT !.generation = 0] = row
    BY <1>3 DEF ShareRows
  <2> QED
    BY <2>1 DEF Copied
<1>5. lastShareId' = lastShareId
  <2>1. lastShareId \in Nat /\ lastShareId \in ids /\ \A n \in ids : n \in Nat /\ n <= lastShareId
    BY <1>3 DEF UpgradeInv, SharesInv, ShareRows
  <2>2. lastShareId' = Max(ids)
    BY <1>2, <1>4 DEF CarriedPosition
  <2> HIDE DEF ids
  <2>3. PICK m : m = Max(ids)
    OBVIOUS
  <2>4. m \in ids /\ \A n \in ids : m >= n
    <3>1. \E x \in ids : \A y \in ids : x >= y
      BY <2>1
    <3> QED
      BY <2>3, <3>1 DEF Max
  <2>5. m = lastShareId
    BY <2>1, <2>4
  <2> QED
    BY <2>2, <2>3, <2>5
<1>6. /\ shareTable' \in ShareTables /\ shareTable'.exists /\ shareTable'.versioned
      /\ shareTable'.keys = {"generation"} /\ shareTable'.rows = rows
  BY <1>2, <1>3, <1>4 DEF Table, ShareTables
<1> HIDE DEF rows
<1>7. SharesInv'
  BY <1>2, <1>5, <1>6 DEF UpgradeInv, SharesInv, rows
<1>8. PICK p \in StartPlace : starter' = [starter EXCEPT ![w] = p] /\ p.at = "serving"
  BY <1>2, PassingPlaces DEF StartPlaces
<1>9. Forward(w)
  BY <1>1, <1>2, <1>6 DEF Forward, UpgradeInv
<1>10. ReachedBy(p)'
  BY <1>1, <1>2, <1>6, <1>8 DEF ReachedBy
<1>11. rebuilder' # w /\ \A v \in Starters \ {w} : rebuilder' = v <=> rebuilder = v
  BY <1>1, <1>2, UpgradeAssumption DEF NoStarter
<1> QED
  BY <1>2, <1>6, <1>7, <1>8, <1>9, <1>10, <1>11, StarterStep

(* MariaDB's statements. *)
LEMMA AlterKeeps ==
  ASSUME UpgradeInv, NEW w \in Starters,
         AddGeneration(w) \/ AddGenerationKey(w) \/ DropSlotKey(w)
  PROVE  UpgradeInv'
<1>1. /\ engine = "mariadb" /\ UNCHANGED <<engine, columns, lastShareId, rebuilder, everStored, removed>>
      /\ starter[w].at \in {"shares", "new key", "old key"}
  BY DEF AddGeneration, AddGenerationKey, DropSlotKey, Alters, Stands
<1>2. /\ shareTable \in ShareTables /\ shareTable.keys \subseteq {"slot", "generation"}
      /\ shareTable.exists /\ columns = AddedColumns
  BY <1>1 DEF UpgradeInv, SharesInv, ShareTables, ReachedBy
<1>3. ASSUME NEW at \in {"new key", "old key", "serving"}, Passes(w, at),
             NEW keys \in SUBSET {"slot", "generation"},
             shareTable' = [shareTable EXCEPT !.versioned = TRUE, !.keys = keys],
             at \in {"old key", "serving"} \/ "generation" \in shareTable.keys =>
               "generation" \in keys,
             at = "serving" \/ "slot" \notin shareTable.keys => "slot" \notin keys
      PROVE  UpgradeInv'
  <2>1. /\ shareTable' \in ShareTables /\ shareTable'.exists = shareTable.exists
        /\ shareTable'.versioned = TRUE /\ shareTable'.keys = keys
        /\ shareTable'.rows = shareTable.rows
    BY <1>2, <1>3 DEF ShareTables
  <2>2. shareTable'.exists /\ shareTable'.versioned
    BY <1>2, <2>1, Zenon
  <2>3. SharesInv'
    BY <1>1, <2>1, <2>2 DEF UpgradeInv, SharesInv
  <2>4. PICK p \in StartPlace : starter' = [starter EXCEPT ![w] = p] /\ p.at = at
    <3>1. at \in StartPlaces
      BY DEF StartPlaces
    <3>2. Passes(w, at)
      BY <1>3
    <3>3. PICK p \in StartPlace :
            /\ starter' = [starter EXCEPT ![w] = p]
            /\ p.at = at /\ p.todo = starter[w].todo
      BY <3>1, <3>2, PassingPlaces
    <3> QED
      BY <3>3
  <2>5. \A v \in Starters : starter[v].at # "rebuild"
    BY <1>1 DEF UpgradeInv, ReachedBy
  <2>6. Forward(w)
    BY <1>1, <1>3, <2>1, <2>2, <2>5 DEF Forward, UpgradeInv
  <2>7. ReachedBy(p)'
    BY <1>1, <1>2, <1>3, <2>1, <2>2, <2>4 DEF ReachedBy
  <2>8. engine' # "sqlite"
    BY <1>1
  <2>9. p.at # "rebuild" /\ rebuilder' # w
    BY <1>1, <1>3, <2>4 DEF UpgradeInv
  <2> QED
    BY <1>1, <2>2, <2>3, <2>4, <2>6, <2>7, <2>8, <2>9, StarterStep DEF UpgradeInv
<1>4. CASE AddGeneration(w)
  <2>1. shareTable' = [shareTable EXCEPT !.versioned = TRUE, !.keys = shareTable.keys]
    BY <1>2, <1>4 DEF AddGeneration, Alters, ShareTables
  <2> QED
    BY <1>2, <1>3, <1>4, <2>1 DEF AddGeneration, Alters
<1>5. ASSUME starter[w].at \in {"new key", "old key"}
      PROVE  shareTable.versioned = TRUE
  <2>1. shareTable.versioned
    BY <1>5 DEF UpgradeInv, ReachedBy
  <2>2. shareTable.versioned \in BOOLEAN
    BY <1>2 DEF ShareTables
  <2> QED
    BY <2>1, <2>2, Zenon
<1>6. CASE AddGenerationKey(w)
  <2> DEFINE keys == shareTable.keys \cup {"generation"}
  <2>1. shareTable' = [shareTable EXCEPT !.versioned = TRUE, !.keys = keys]
    BY <1>2, <1>5, <1>6 DEF AddGenerationKey, Alters, Stands, ShareTables
  <2>2. Passes(w, "old key")
    BY <1>6 DEF AddGenerationKey, Alters
  <2> QED
    BY <1>2, <1>3, <2>1, <2>2
<1>7. CASE DropSlotKey(w)
  <2> DEFINE keys == shareTable.keys \ {"slot"}
  <2>1. shareTable' = [shareTable EXCEPT !.versioned = TRUE, !.keys = keys]
    BY <1>2, <1>5, <1>7 DEF DropSlotKey, Alters, Stands, ShareTables
  <2>2. Passes(w, "serving") /\ "generation" \in keys
    BY <1>7 DEF DropSlotKey, Alters, Stands, UpgradeInv, ReachedBy
  <2> QED
    BY <1>2, <1>3, <2>1, <2>2
<1> QED
  BY <1>4, <1>6, <1>7

LEMMA StopHostKeeps ==
  ASSUME UpgradeInv, NEW w \in Starters, StopHost(w)
  PROVE  UpgradeInv'
<1>1. Down \in StartPlace /\ Down.at = "down"
  BY DEF Down, StartPlace, StartPlaces
<1>2. /\ starter' = [starter EXCEPT ![w] = Down]
      /\ rebuilder' = IF rebuilder = w THEN NoStarter ELSE rebuilder
      /\ UNCHANGED <<engine, columns, shareTable, lastShareId, everStored, removed>>
  BY DEF StopHost
<1>3. PICK p : p = Down
  OBVIOUS
<1>4. ReachedBy(p)'
  BY <1>1, <1>3 DEF ReachedBy
<1>5. Forward(w)
  BY <1>2 DEF Forward, UpgradeInv
<1>6. /\ rebuilder' # w /\ rebuilder' \in Starters \cup {NoStarter}
      /\ \A v \in Starters \ {w} : rebuilder' = v <=> rebuilder = v
  BY <1>2, UpgradeAssumption DEF UpgradeInv, NoStarter
<1> QED
  BY <1>1, <1>2, <1>3, <1>4, <1>5, <1>6, UnchangedShares, StarterStep

(* Uploads and removals, beside processes that still start. *)
LEMMA ServingKeeps ==
  ASSUME UpgradeInv, NEW w \in Starters, Serving(w)
  PROVE  UpgradeInv'
<1>1. /\ starter[w].at = "serving" /\ shareTable.versioned /\ shareTable.exists
      /\ UNCHANGED <<engine, columns, rebuilder, starter>>
  BY DEF Serving, StoreUpload, RemoveUpload, Stands, UpgradeInv, ReachedBy
<1>2. PICK rows : /\ shareTable' = [shareTable EXCEPT !.rows = rows]
                  /\ rows \subseteq ShareRows /\ rows = everStored' \ removed'
                  /\ lastShareId' \in Nat /\ lastShareId' <= MaxShareIds
                  /\ IsFiniteSet(everStored')
                  /\ everStored' \subseteq ShareRows /\ removed' \subseteq everStored'
                  /\ \A s \in everStored' : s.id <= lastShareId'
                  /\ \A s, t \in everStored' : s.id = t.id => s = t
  <2>1. ASSUME NEW slot \in ShareSlots, NEW generation \in ShareGenerations,
               StoreUpload(w, slot, generation)
        PROVE  \E rows : /\ shareTable' = [shareTable EXCEPT !.rows = rows]
                         /\ rows \subseteq ShareRows /\ rows = everStored' \ removed'
                         /\ lastShareId' \in Nat /\ lastShareId' <= MaxShareIds
                         /\ IsFiniteSet(everStored')
                         /\ everStored' \subseteq ShareRows /\ removed' \subseteq everStored'
                         /\ \A s \in everStored' : s.id <= lastShareId'
                         /\ \A s, t \in everStored' : s.id = t.id => s = t
    <3> DEFINE share == Share(lastShareId + 1, slot, generation, Cardinality(everStored) + 1)
    <3>1. /\ lastShareId \in Nat /\ Cardinality(everStored) \in Nat
          /\ IsFiniteSet(everStored \cup {share})
      BY FS_CardinalityType, FS_AddElement DEF UpgradeInv, SharesInv
    <3>2. share \in ShareRows /\ share.id = lastShareId + 1
      BY <3>1 DEF Share, ShareRows
    <3>3. /\ shareTable' = [shareTable EXCEPT !.rows = shareTable.rows \cup {share}]
          /\ lastShareId' = share.id /\ everStored' = everStored \cup {share}
          /\ removed' = removed
      BY <2>1 DEF StoreUpload
    <3> HIDE DEF share
    <3>4. \A s \in everStored : s \in ShareRows /\ s.id <= lastShareId /\ s.id \in Nat
      BY DEF UpgradeInv, SharesInv, ShareRows
    <3>5. share \notin everStored /\ share \notin removed
      BY <3>1, <3>2, <3>4 DEF UpgradeInv, SharesInv
    <3>6. shareTable.rows \cup {share} = everStored' \ removed'
      BY <3>3, <3>5 DEF UpgradeInv, SharesInv
    <3>7. \A s \in everStored' : s.id <= lastShareId'
      BY <3>1, <3>2, <3>3, <3>4
    <3>8. \A s, t \in everStored' : s.id = t.id => s = t
      BY <3>1, <3>2, <3>3, <3>4 DEF UpgradeInv, SharesInv
    <3>9. everStored' \subseteq ShareRows /\ removed' \subseteq everStored'
      BY <3>2, <3>3, <3>4 DEF UpgradeInv, SharesInv
    <3>10. lastShareId' \in Nat /\ lastShareId' <= MaxShareIds
      BY <2>1, <3>1, <3>2, <3>3, UpgradeAssumption DEF StoreUpload
    <3> QED
      BY <3>1, <3>3, <3>6, <3>7, <3>8, <3>9, <3>10
  <2>2. ASSUME NEW row \in shareTable.rows, RemoveUpload(w, row)
        PROVE  \E rows : /\ shareTable' = [shareTable EXCEPT !.rows = rows]
                         /\ rows \subseteq ShareRows /\ rows = everStored' \ removed'
                         /\ lastShareId' \in Nat /\ lastShareId' <= MaxShareIds
                         /\ IsFiniteSet(everStored')
                         /\ everStored' \subseteq ShareRows /\ removed' \subseteq everStored'
                         /\ \A s \in everStored' : s.id <= lastShareId'
                         /\ \A s, t \in everStored' : s.id = t.id => s = t
    <3> DEFINE rows == shareTable.rows \ {row}
    <3>1. /\ shareTable' = [shareTable EXCEPT !.rows = rows]
          /\ removed' = removed \cup {row} /\ UNCHANGED <<lastShareId, everStored>>
      BY <2>2 DEF RemoveUpload
    <3>2. rows \subseteq ShareRows /\ rows = everStored' \ removed' /\ removed' \subseteq everStored'
      BY <3>1 DEF UpgradeInv, SharesInv
    <3> QED
      BY <3>1, <3>2 DEF UpgradeInv, SharesInv
  <2> QED
    BY <2>1, <2>2 DEF Serving
<1>3. /\ shareTable' \in ShareTables /\ shareTable'.exists = shareTable.exists
      /\ shareTable'.versioned = shareTable.versioned /\ shareTable'.keys = shareTable.keys
      /\ shareTable'.rows = rows
  BY <1>2 DEF UpgradeInv, SharesInv, ShareTables
<1>4. shareTable'.exists /\ shareTable'.versioned
  BY <1>1, <1>3, Zenon
<1>5. SharesInv'
  BY <1>2, <1>3, <1>4 DEF SharesInv
<1>6. PICK p : p = starter[w] /\ p \in StartPlace /\ ReachedBy(p)
  BY DEF UpgradeInv
<1>7. starter' = [starter EXCEPT ![w] = p]
  BY <1>1, <1>6 DEF UpgradeInv
<1>8. Forward(w)
  BY <1>1, <1>3, <1>4 DEF Forward, UpgradeInv
<1>9. ReachedBy(p)'
  BY <1>1, <1>3, <1>4, <1>6 DEF ReachedBy
<1> QED
  BY <1>1, <1>3, <1>4, <1>5, <1>6, <1>7, <1>8, <1>9, StarterStep DEF UpgradeInv

(* An earlier database: distinct ids, generation 0. *)
LEMMA EarlierSharesOK ==
  ASSUME NEW f \in EarlierShares
  PROVE  LET S == {Share(f[s], s, 0, f[s]) : s \in ShareSlots}
             n == Cardinality(ShareSlots)
         IN  /\ n \in Nat /\ IsFiniteSet(S) /\ S \subseteq ShareRows
             /\ \A r \in S : r.id <= n /\ r.generation = 0
             /\ \A r, t \in S : r.id = t.id => r = t
<1> DEFINE S == {Share(f[s], s, 0, f[s]) : s \in ShareSlots}
           n == Cardinality(ShareSlots)
           g == [s \in ShareSlots |-> Share(f[s], s, 0, f[s])]
<1>1. n \in Nat
  BY UpgradeAssumption, FS_CardinalityType
<1>2. /\ f \in [ShareSlots -> 1 .. n]
      /\ \A s, t \in ShareSlots : f[s] = f[t] => s = t
  BY DEF EarlierShares
<1>3. g \in Surjection(ShareSlots, S)
  BY DEF Surjection
<1>4. IsFiniteSet(S)
  BY <1>3, UpgradeAssumption, FS_Surjection
<1>5. \A s \in ShareSlots : Share(f[s], s, 0, f[s]) \in ShareRows
                            /\ Share(f[s], s, 0, f[s]).id = f[s]
                            /\ Share(f[s], s, 0, f[s]).generation = 0
  BY <1>1, <1>2, UpgradeAssumption DEF Share, ShareRows
<1> HIDE DEF n
<1> QED
  BY <1>1, <1>2, <1>4, <1>5 DEF n

LEMMA UpgradeInvCorrect == UpgradeSpec => []UpgradeInv
<1>1. UpgradeInit => UpgradeInv
  <2> SUFFICES ASSUME UpgradeInit PROVE UpgradeInv
    OBVIOUS
  <2>1. /\ starter = [w \in Starters |-> Down] /\ columns = {} /\ rebuilder = NoStarter
        /\ Down \in StartPlace /\ Down.at = "down"
    BY DEF UpgradeInit, Down, StartPlace, StartPlaces
  <2>2. SharesInv /\ ~shareTable.versioned
        /\ (~shareTable.exists => shareTable.rows = {})
    <3>1. CASE shareTable = NoTable /\ lastShareId = 0 /\ everStored = {} /\ removed = {}
      BY <3>1, FS_EmptySet, UpgradeAssumption DEF NoTable, SharesInv, ShareTables
    <3>2. ASSUME NEW f \in EarlierShares,
                 everStored = {Share(f[s], s, 0, f[s]) : s \in ShareSlots},
                 lastShareId = Cardinality(ShareSlots), removed \in SUBSET everStored,
                 shareTable = Table(FALSE, {"slot"}, everStored \ removed)
          PROVE  SharesInv /\ ~shareTable.versioned /\ shareTable.exists
      <4>1. /\ lastShareId \in Nat /\ lastShareId <= MaxShareIds
            /\ IsFiniteSet(everStored) /\ everStored \subseteq ShareRows
            /\ \A r \in everStored : r.id <= lastShareId /\ r.generation = 0
            /\ \A r, t \in everStored : r.id = t.id => r = t
        BY <3>2, EarlierSharesOK, UpgradeAssumption
      <4>2. /\ shareTable \in ShareTables /\ shareTable.rows = everStored \ removed
            /\ ~shareTable.versioned /\ shareTable.exists
        BY <3>2, <4>1 DEF Table, ShareTables
      <4> QED
        BY <3>2, <4>1, <4>2 DEF SharesInv
    <3> QED
      BY <3>1, <3>2 DEF UpgradeInit, NoTable
  <2>3. \A w \in Starters : starter[w].at # "rebuild" /\ rebuilder # w
    BY <2>1, UpgradeAssumption DEF NoStarter
  <2>4. \A w \in Starters : ReachedBy(starter[w])
    BY <2>1 DEF ReachedBy
  <2> QED
    BY <2>1, <2>2, <2>3, <2>4 DEF UpgradeInv
<1>2. UpgradeInv /\ [UpgradeNext]_upgradeVars => UpgradeInv'
  <2> SUFFICES ASSUME UpgradeInv, [UpgradeNext]_upgradeVars PROVE UpgradeInv'
    OBVIOUS
  <2>1. CASE UNCHANGED upgradeVars
    BY <2>1 DEF upgradeVars, UpgradeInv, SharesInv, ReachedBy
  <2>2. ASSUME NEW w \in Starters, Upgrade(w) \/ Serving(w)
        PROVE  UpgradeInv'
    BY <2>2, CreateSchemaKeeps, ColumnsKeep, PassingKeeps, RebuildKeeps, AlterKeeps,
       StopHostKeeps, ServingKeeps DEF Upgrade
  <2> QED
    BY <2>1, <2>2 DEF UpgradeNext
<1> QED
  BY <1>1, <1>2, PTL DEF UpgradeSpec

(* Whichever processes start, fail, stop and serve beside each other, on   *)
(* either database: every share stored and not removed is there with the   *)
(* id it was given, and who serves finds today's schema.                   *)
THEOREM UpgradesKeepShares == UpgradeSpec => []SharesSurviveUpgrade
<1>1. UpgradeInv => SharesSurviveUpgrade
  <2> SUFFICES ASSUME UpgradeInv PROVE SharesSurviveUpgrade
    OBVIOUS
  <2>1. shareTable.keys \subseteq {"slot", "generation"}
    BY DEF UpgradeInv, SharesInv, ShareTables
  <2>2. ServesOnNewSchema
    BY <2>1 DEF UpgradeInv, ReachedBy, ServesOnNewSchema, Stands
  <2> QED
    BY <2>2 DEF UpgradeInv, SharesInv, SharesSurviveUpgrade
<1> QED
  BY <1>1, UpgradeInvCorrect, PTL

-----------------------------------------------------------------------------
(* The components beside each other: a behaviour of the host is one of     *)
(* each.                                                                   *)

LEMMA EachOnItsOwn ==
  Spec => AdminSpec /\ SubjectSpec /\ ProtectionSpec /\ UpgradeSpec
<1> DEFINE all == <<adminVars, subjectVars, protectionVars, caseVars, upgradeVars, part>>
<1>1. Init => AdminInit /\ SubjectInit /\ ProtectionInit /\ UpgradeInit
  BY DEF Init
<1>2. [Next]_all => /\ [AdminNext]_adminVars /\ [SubjectNext]_subjectVars
                    /\ [ProtectionNext]_protectionVars /\ [UpgradeNext]_upgradeVars
  BY DEF Next, LoginNext, VisitNext, RecordNext, CaseNext, StartNext
<1> QED
  BY <1>1, <1>2, PTL DEF Spec, AdminSpec, SubjectSpec, ProtectionSpec, UpgradeSpec

(* The variables hold what they are for: rows, codes and forms of their    *)
(* kinds, locks of one holder, and a rebuild only on SQLite.               *)
THEOREM WebTypeCorrect == Spec => []WebTypeOK
<1>1. AdminInv => AdminTypeOK
  BY DEF AdminInv
<1>2. SubjectInv => SubjectTypeOK
  BY DEF SubjectInv
<1>3. RecordInv => ProtectionTypeOK
  BY DEF RecordInv
<1>4. UpgradeInv => UpgradeTypeOK
  <2> SUFFICES ASSUME UpgradeInv PROVE UpgradeTypeOK
    OBVIOUS
  <2>1. /\ shareTable.keys \subseteq {"slot", "generation"}
        /\ lastShareId \in 0 .. MaxShareIds
    BY UpgradeAssumption DEF UpgradeInv, SharesInv, ShareTables
  <2>2. ASSUME rebuilder # NoStarter
        PROVE  engine = "sqlite"
    <3>1. rebuilder \in Starters /\ starter[rebuilder].at = "rebuild"
      BY <2>2 DEF UpgradeInv
    <3>2. ReachedBy(starter[rebuilder])
      BY <3>1 DEF UpgradeInv
    <3> QED
      BY <3>1, <3>2 DEF ReachedBy
  <2> QED
    BY <2>1, <2>2 DEF UpgradeInv, UpgradeTypeOK, Stands
<1> QED
  BY <1>1, <1>2, <1>3, <1>4, EachOnItsOwn, AdminInvHolds, SubjectInvHolds,
     RecordInvCorrect, UpgradeInvCorrect, PTL DEF WebTypeOK

===============================================================================
