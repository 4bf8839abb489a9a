--------------------------- MODULE MCSyncAdmission ---------------------------
(* Small instances of SyncAdmission for TLC.                               *)
EXTENDS SyncAdmission, TLC

CONSTANTS h1, h2, n1, n2, n3,
          first, firstB, second, plain, tampered,  \* record bodies
          P1, P1b, P2, PX,                         \* policies
          w1, w2

(* first and firstB carry two policies of generation 1 (the certificate of *)
(* the second has expired), second one of generation 2, tampered one that  *)
(* does not verify, plain none.                                            *)
MCPolicyOf == first :> P1 @@ firstB :> P1b @@ second :> P2
              @@ tampered :> PX @@ plain :> None
MCGeneration == P1 :> 1 @@ P1b :> 1 @@ P2 :> 2 @@ PX :> 2
MCStanding == P1 :> "verified" @@ P1b :> "expired" @@ P2 :> "verified"
              @@ PX :> "invalid"

Body(e, t, r, w) == [event |-> e, type |-> t, record |-> r, wrapped |-> w]

(* Every body for every event, and what tells the resubmission rules       *)
(* apart: another event type, different wrapped s3, and a wrapped s3 with  *)
(* a body that is stored only while no CA is pinned.                       *)
AllOffers ==
  [event : Events, type : {"Sealing"},
   record : {first, firstB, second, plain, tampered}, wrapped : {None}]
  \cup {Body(1, "Resealing", first, None), Body(1, "Sealing", first, w1),
        Body(1, "Sealing", first, w2), Body(1, "Sealing", tampered, w2)}

(* What a key holder signs for a seal of two events, and a third body that *)
(* competes for the second event.                                          *)
SignedOffers ==
  {Body(1, "Sealing", first, w1), Body(2, "Resealing", second, None),
   Body(2, "Unsealing", firstB, None)}

OneOffer == {Body(1, "Sealing", first, None)}

HandlerSymmetry == Permutations({h1, h2})
NonceSymmetry == Permutations({n1, n2, n3})
Symmetry == HandlerSymmetry \cup NonceSymmetry
=============================================================================
