-------------------------- MODULE MCReleaseSelection --------------------------
(* Small instances of ReleaseSelection for TLC.                            *)
EXTENDS ReleaseSelection, TLC

CONSTANTS h1, g1, g2, first, firstB, second, plain, P1, P1b, P2

(* first and firstB carry two policies of generation 1, second one of      *)
(* generation 2, plain none.                                               *)
MCPolicyOf == first :> P1 @@ firstB :> P1b @@ second :> P2 @@ plain :> None
MCGeneration == P1 :> 1 @@ P1b :> 1 @@ P2 :> 2
MCStanding == P1 :> "verified" @@ P1b :> "expired" @@ P2 :> "verified"

AllOffers ==
  [event : Events, type : {"Sealing"}, record : Records, wrapped : {None}]

ReaderSymmetry == Permutations({g1, g2})
=============================================================================
