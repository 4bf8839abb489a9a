------------------------------- MODULE MCRelease -------------------------------
(* Small instances, for TLC, of the selection of the record a release      *)
(* rests on, and of the shares and the release itself. The two share no    *)
(* state: each behaviour is one of them, the other stays as it begins.     *)
EXTENDS MCReleaseSelection, ShareRelease

VARIABLE part            \* what this behaviour is about

MCUnlock == [g \in Generations |-> g]

GateInit ==
  /\ part \in {"selection", "shares"}
  /\ SelectionInit /\ ShareReleaseInit
  /\ part # "selection" => caPinned /\ caseRow
  /\ part # "shares" => pinned /\ records = {}

(* The page of a share is opened between two releases. *)
GateNext ==
  \/ part = "selection" /\ SelectionNext /\ UNCHANGED <<shareReleaseVars, part>>
  \/ /\ part = "shares" /\ ShareReleaseNext
     /\ shown' # shown => release.at = "none"
     /\ UNCHANGED <<svars, part>>

GateSpec == GateInit /\ [][GateNext]_<<svars, shareReleaseVars, part>>
=============================================================================
