----------------------------- MODULE SealRecords -----------------------------
(***************************************************************************)
(* The records of one seal as the release host sees them: the bodies that  *)
(* may be submitted for its events, the signed policy each body carries,   *)
(* and the classification the host makes of it                             *)
(* (desktop/signature/seal_policy.py, web/release_selection.py).           *)
(*                                                                         *)
(* A record body is compared by its canonical JSON, so it is one value     *)
(* here; the policy inside it is identified by its digest.                 *)
(***************************************************************************)
EXTENDS Integers, FiniteSets

CONSTANTS
  MaxEvent,    \* event ids are 1 .. MaxEvent (_MAX_EVENT_ID in sync.py)
  Records,     \* canonical record bodies
  Policies,    \* policies, by digest
  None,        \* an absent row, policy, mark or envelope
  PolicyOf,    \* the policy a body carries, or None
  Generation,  \* the generation a policy names
  MaxGeneration, \* MAX_POLICY_GENERATION
  Standing     \* what verification against the pinned CA says of a policy

Events == 1 .. MaxEvent

ASSUME RecordsAssumption ==
  /\ MaxEvent \in Nat
  /\ MaxGeneration \in Nat
  /\ None \notin Records \cup Policies
  /\ PolicyOf \in [Records -> Policies \cup {None}]
  /\ Generation \in [Policies -> 0 .. MaxGeneration]
  /\ Standing \in [Policies -> {"verified", "expired", "invalid"}]

EventTypes == {"Sealing", "Unsealing", "Resealing"}

(* A stored row of seal_records: the event type and the decrypted body. *)
Rows == [type : EventTypes, record : Records]

(* The policy of the body verifies, or has only expired. *)
Authentic(r) ==
  /\ PolicyOf[r] # None
  /\ Standing[PolicyOf[r]] # "invalid"

(* The digest admission works with; None for a body without a policy and, *)
(* while no CA is pinned, for every body.                                 *)
Assess(pinned, r) == IF pinned /\ Authentic(r) THEN PolicyOf[r] ELSE None

(* The policy is there but fails verification against the pinned CA. *)
FailsVerification(pinned, r) == pinned /\ PolicyOf[r] # None /\ ~Authentic(r)

GenerationOf(r) == Generation[PolicyOf[r]]

(* The events of a table of rows that hold an authenticated record. *)
AuthenticEvents(rows) ==
  {e \in Events : rows[e] # None /\ Authentic(rows[e].record)}

(* ... and among them those of the highest generation. *)
TopEvents(rows) ==
  {e \in AuthenticEvents(rows) :
     \A f \in AuthenticEvents(rows) :
        GenerationOf(rows[f].record) <= GenerationOf(rows[e].record)}

(* A policy that a stored authenticated record carries and that none *)
(* outranks.                                                         *)
IsMaximum(policy, rows) ==
  /\ \E e \in AuthenticEvents(rows) : PolicyOf[rows[e].record] = policy
  /\ \A e \in AuthenticEvents(rows) :
       GenerationOf(rows[e].record) <= Generation[policy]

(* What a scan of every record, newest first, chooses: the policy of the   *)
(* highest authenticated generation, the newest event among equals.        *)
NewestTop(rows) ==
  CHOOSE e \in TopEvents(rows) : \A f \in TopEvents(rows) : f <= e

StoredMaximum(rows) ==
  IF AuthenticEvents(rows) = {} THEN None
                                ELSE PolicyOf[rows[NewestTop(rows)].record]
=============================================================================
