----------------------------- MODULE SealHistory -----------------------------
(***************************************************************************)
(* What the release host promises about the authenticated history of a     *)
(* seal: once a CA guards it, the history only grows, never repeats a      *)
(* record, and never falls back to an older policy.                        *)
(***************************************************************************)
EXTENDS SealRecords

VARIABLES
  guarded,   \* policies are verified on arrival
  accepted   \* the authenticated record of each event, or None

Accepted == {e \in Events : accepted[e] # None}

Init ==
  /\ guarded \in BOOLEAN
  /\ accepted = [e \in Events |-> None]

(* The policy of the record outranks every accepted one, or is already the *)
(* policy of an accepted record that nothing accepted outranks.            *)
Continues(r) ==
  \/ \A f \in Accepted : GenerationOf(accepted[f]) < GenerationOf(r)
  \/ \E f \in Accepted :
       /\ PolicyOf[accepted[f]] = PolicyOf[r]
       /\ \A g \in Accepted : GenerationOf(accepted[g]) <= GenerationOf(accepted[f])

Accept(e, r) ==
  /\ accepted[e] = None
  /\ Authentic(r)
  /\ guarded => Continues(r) /\ \A f \in Events : accepted[f] # r
  /\ accepted' = [accepted EXCEPT ![e] = r]
  /\ UNCHANGED guarded

(* A CA is pinned, for good. *)
Guard ==
  /\ guarded' = TRUE
  /\ UNCHANGED accepted

Next == Guard \/ \E e \in Events, r \in Records : Accept(e, r)

Spec == Init /\ [][Next]_<<guarded, accepted>>
=============================================================================
