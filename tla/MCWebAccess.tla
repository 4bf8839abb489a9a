----------------------------- MODULE MCWebAccess -----------------------------
(* Small instances, for TLC, of the components of the release host that    *)
(* share no state: each behaviour is one of them, the others stay as they  *)
(* begin.                                                                  *)
EXTENDS AdminLogin, SubjectAccess, RecordProtection, CaseRegistration,
        SchemaUpgrade, TLC

CONSTANTS p1, p2   \* what runs at the same time, in each component

VARIABLE part            \* the component of this behaviour

Submission(seal, person, event, creates, fits) ==
  [kind |-> "sync", seal |-> seal, person |-> person, event |-> event,
   nonce |-> 10 * seal + event + (IF creates THEN 0 ELSE 5),
   creates |-> creates, fits |-> fits]

(* A form and two submissions for one seal, one of them of the person the  *)
(* form does not name, and a record that may not create its case; another  *)
(* seal in the same gap, one of whose records does not fit.                *)
MCApplications ==
  {[kind |-> "form", seal |-> 1, person |-> "p"],
   Submission(1, "q", 1, TRUE, TRUE), Submission(1, "q", 2, TRUE, TRUE),
   Submission(1, "r", 1, FALSE, TRUE),
   Submission(2, "q", 1, TRUE, TRUE), Submission(2, "q", 2, TRUE, FALSE)}

Init ==
  /\ part \in {"login", "subject", "protection", "cases", "upgrade"}
  /\ AdminInit /\ SubjectInit /\ ProtectionInit
  /\ RegistrationInit /\ UpgradeInit
  /\ part # "protection" => \A e \in Events : identity.form = "none" /\ record[e] = Nothing
  /\ part # "cases" => dialect = "sqlite"
  /\ part # "upgrade" => engine = "sqlite" /\ ~shareTable.exists

LoginNext ==
  /\ part = "login" /\ AdminNext
  /\ UNCHANGED <<subjectVars, protectionVars, caseVars, upgradeVars, part>>
VisitNext ==
  /\ part = "subject" /\ SubjectNext
  /\ UNCHANGED <<adminVars, protectionVars, caseVars, upgradeVars, part>>
RecordNext ==
  /\ part = "protection" /\ ProtectionNext
  /\ UNCHANGED <<adminVars, subjectVars, caseVars, upgradeVars, part>>
CaseNext ==
  /\ part = "cases" /\ RegistrationNext
  /\ UNCHANGED <<adminVars, subjectVars, protectionVars, upgradeVars, part>>
StartNext ==
  /\ part = "upgrade" /\ UpgradeNext
  /\ UNCHANGED <<adminVars, subjectVars, protectionVars, caseVars, part>>

Next == LoginNext \/ VisitNext \/ RecordNext \/ CaseNext \/ StartNext

Spec ==
  Init /\ [][Next]_<<adminVars, subjectVars, protectionVars, caseVars,
                   upgradeVars, part>>

(* What the variables of each component hold: a reservation that keeps its *)
(* place has a row, a request waits where its stage says, a lock has one   *)
(* holder, a row is stored with what its form needs, a table is rebuilt    *)
(* by the one process that holds the lock.                                 *)
WebTypeOK ==
  AdminTypeOK /\ SubjectTypeOK /\ ProtectionTypeOK /\ UpgradeTypeOK

Symmetry == Permutations({p1, p2})
=============================================================================
