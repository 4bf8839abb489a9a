----------------------------- MODULE MCDesktop ------------------------------
(* Small instances, for TLC, of the components of the desktop and of its   *)
(* signatures that share no state: each behaviour is one of them, the      *)
(* others stay as they begin.                                              *)
EXTENDS MCContainerResume, SealWizard, ResealWizard, UnsealWizard, CaseStore,
        TimeStamping, PolicyAssessment, ShareHandout

VARIABLE part            \* the component of this behaviour

EachItsStem == [f \in Files |-> f]

(* Interpolation gives the secret back, in this field and in a larger one. *)
LargerField == INSTANCE ShareHandout WITH Prime <- 7
ASSUME LinesRecoveredInFields ==
  LinesAreRecovered /\ LargerField!LinesAreRecovered

(* An authority of the same policy, whose certificate is not one for stamps. *)
OneOther ==
  <<[ca |-> 1, timestamping |-> FALSE, from |-> 0, until |-> 3, caUntil |-> 3,
     policy |-> "local", accuracy |-> TRUE]>>

Init ==
  /\ part \in {"container", "seal", "reseal", "unseal", "cases", "stamps",
               "policies", "handout"}
  /\ ResumeInit /\ SealWizardInit /\ ResealInit /\ UnsealInit
  /\ CaseStoreInit /\ TsaInit /\ PolicyInit /\ HandoutInit

Wizards == <<sealVars, resealVars, unsealVars>>
Others == <<caseVars, tsaVars, policyVars, handoutVars>>

ContainerNext ==
  part = "container" /\ ResumeNext /\ UNCHANGED <<Wizards, Others, part>>
SealNext ==
  /\ part = "seal" /\ SealWizardNext
  /\ UNCHANGED <<resumeVars, resealVars, unsealVars, Others, part>>
ReNext ==
  /\ part = "reseal" /\ ResealNext
  /\ UNCHANGED <<resumeVars, sealVars, unsealVars, Others, part>>
UnNext ==
  /\ part = "unseal" /\ UnsealNext
  /\ UNCHANGED <<resumeVars, sealVars, resealVars, Others, part>>
CaseNext ==
  /\ part = "cases" /\ CaseStoreNext
  /\ UNCHANGED <<resumeVars, Wizards, tsaVars, policyVars, handoutVars, part>>
StampNext ==
  /\ part = "stamps" /\ TsaNext
  /\ UNCHANGED <<resumeVars, Wizards, caseVars, policyVars, handoutVars, part>>
SignNext ==
  /\ part = "policies" /\ PolicyNext
  /\ UNCHANGED <<resumeVars, Wizards, caseVars, tsaVars, handoutVars, part>>
ShareNext ==
  /\ part = "handout" /\ HandoutNext
  /\ UNCHANGED <<resumeVars, Wizards, caseVars, tsaVars, policyVars, part>>

Next ==
  \/ ContainerNext \/ SealNext \/ ReNext \/ UnNext
  \/ CaseNext \/ StampNext \/ SignNext \/ ShareNext

Spec == Init /\ [][Next]_<<resumeVars, Wizards, Others, part>>

(* What the variables of each component hold: the stage of a call and what *)
(* it has written, the page of a wizard and what earlier pages produced,   *)
(* the row of a case, the credentials of an authority, the files of a      *)
(* folder.                                                                 *)
DesktopTypeOK ==
  /\ ResumeTypeOK /\ SealWizardTypeOK /\ ResealWizardTypeOK
  /\ UnsealWizardTypeOK /\ CaseStoreTypeOK /\ TsaTypeOK /\ PolicyTypeOK
  /\ HandoutTypeOK

=============================================================================
