--------------------------- MODULE PolicyAssessment ---------------------------
(***************************************************************************)
(* Seal policies from the certificate that may sign them to the status a   *)
(* release host gives them (signature/ca_setup.py, seal_policy.py,         *)
(* policy_schema.py, sync_envelope.py).                                    *)
(*                                                                         *)
(* CAs are made and renewed with the same key; they issue certificates for *)
(* policies and for time stamps.  A desktop signs a record's policy with   *)
(* the key and the certificate its configuration names, and a release host *)
(* assesses what it is presented with against the CAs it has pinned, at a  *)
(* later time.  A certificate's number is also its key pair's.             *)
(***************************************************************************)
EXTENDS Integers, Sequences, FiniteSets

CONSTANTS
  CAKeys,            \* keys of CAs; the key gives the CA its name
  Seals, Unlocks,    \* seals, and the unlock times their policies may have
  AnchorLife, SignerLife,    \* validity given to a CA and to a signer
  Window,            \* DEFAULT_RELEASE_WINDOW
  MaxAnchors, MaxSigners, MaxPolicyClock    \* bounds

ASSUME PolicyAssumption ==
  /\ Unlocks \subseteq Nat
  /\ {AnchorLife, SignerLife, Window, MaxAnchors, MaxSigners, MaxPolicyClock}
       \subseteq Nat

VARIABLES
  policyClock,
  anchors,         \* CA certificates
  signers,         \* certificates issued by CAs
  configured,      \* numbers in the desktop's key and certificate paths
  policyRecords    \* records the desktop has made

policyVars == <<policyClock, anchors, signers, configured, policyRecords>>

Unset == 0

(* None of the three policy fields: a legacy record. *)
NoPolicy == [seal |-> "none", unlock |-> 0]
Unsigned == [by |-> 0, over |-> NoPolicy]

PolicyInit ==
  /\ policyClock = 0
  /\ anchors = {}
  /\ signers = <<>>
  /\ configured = [key |-> Unset, cert |-> Unset]
  /\ policyRecords = {}

PolicyTick ==
  /\ policyClock < MaxPolicyClock
  /\ policyClock' = policyClock + 1
  /\ UNCHANGED <<anchors, signers, configured, policyRecords>>

-----------------------------------------------------------------------------
(* Issuance. *)

IssueAnchor(key) ==
  /\ Cardinality(anchors) < MaxAnchors
  /\ anchors' = anchors \union {[key |-> key, from |-> policyClock,
                                 until |-> policyClock + AnchorLife]}
  /\ UNCHANGED <<policyClock, signers, configured, policyRecords>>

Earlier(a, b) == IF a < b THEN a ELSE b

(* The certificate does not outlive the CA certificate it is issued under.  *)
SignerUntil(anchor) == Earlier(policyClock + SignerLife, anchor.until)

(* A certificate for policies, or one for time stamps of the same CA.       *)
IssueSigner(anchor, purpose) ==
  /\ Len(signers) < MaxSigners
  /\ anchor \in anchors
  /\ signers' = Append(signers,
       [anchor |-> anchor, purpose |-> purpose, from |-> policyClock,
        until |-> SignerUntil(anchor)])
  /\ UNCHANGED <<policyClock, anchors, configured, policyRecords>>

(* The two paths in the environment are set each on its own. *)
Configure(key, cert) ==
  /\ configured' = [key |-> key, cert |-> cert]
  /\ UNCHANGED <<policyClock, anchors, signers, policyRecords>>

-----------------------------------------------------------------------------
(* Signing. *)

Incomplete == configured.key = Unset \/ configured.cert = Unset

Legacy == configured.key = Unset /\ configured.cert = Unset

LoadsSigner ==
  /\ ~Incomplete
  /\ configured.key = configured.cert
  /\ signers[configured.cert].purpose = "policy"

WithinWindow(unlock, cert) == unlock + Window <= signers[cert].until

Record(policy, signature, cert) ==
  [policy |-> policy, signature |-> signature, cert |-> cert]

(* The signer's certificate is not checked against the time. *)
SealSigned(seal, unlock) ==
  /\ LoadsSigner
  /\ WithinWindow(unlock, configured.cert)
  /\ LET policy == [seal |-> seal, unlock |-> unlock]
     IN  policyRecords' = policyRecords \union
           {Record(policy, [by |-> configured.key, over |-> policy],
                   configured.cert)}
  /\ UNCHANGED <<policyClock, anchors, signers, configured>>

(* A broken configuration aborts the seal; only none at all is legacy. *)
SealLegacy ==
  /\ Legacy
  /\ policyRecords' = policyRecords \union {Record(NoPolicy, Unsigned, Unset)}
  /\ UNCHANGED <<policyClock, anchors, signers, configured>>

PolicyNext ==
  \/ PolicyTick
  \/ \E k \in CAKeys : IssueAnchor(k)
  \/ \E a \in anchors, p \in {"policy", "timestamping"} : IssueSigner(a, p)
  \/ \E k, c \in {Unset} \union DOMAIN signers : Configure(k, c)
  \/ \E s \in Seals, u \in Unlocks : SealSigned(s, u)
  \/ SealLegacy

PolicySpec == PolicyInit /\ [][PolicyNext]_policyVars

-----------------------------------------------------------------------------
(* Verification, with the CAs of a bundle and at a time. *)

Within(certificate, time) ==
  certificate.from <= time /\ time <= certificate.until

(* A CA renewed with the same key issued the certificate as well. *)
IssuingAnchors(cert, bundle) ==
  {a \in bundle : a.key = signers[cert].anchor.key}

SignedBy(record) ==
  /\ record.signature.by = record.cert
  /\ record.signature.over = record.policy

(* verify_policy but for the validity: chain, purpose, signature, seal.     *)
Authentic(record, bundle, seal) ==
  /\ IssuingAnchors(record.cert, bundle) # {}
  /\ signers[record.cert].purpose = "policy"
  /\ SignedBy(record)
  /\ record.policy.seal = seal

CurrentAnchors(cert, bundle, time) ==
  {a \in IssuingAnchors(cert, bundle) : Within(a, time)}
LapsedAnchors(cert, bundle, time) ==
  {a \in IssuingAnchors(cert, bundle) : a.until < time}

NotYetValid(cert, bundle, time) ==
  \/ time < signers[cert].from
  \/ /\ CurrentAnchors(cert, bundle, time) = {}
     /\ LapsedAnchors(cert, bundle, time) = {}

EveryAnchorCurrent(cert, bundle, time) ==    \* mutant
  signers[cert].until < time
    \/ LapsedAnchors(cert, bundle, time) # {}

Lapsed(cert, bundle, time) ==
  signers[cert].until < time \/ CurrentAnchors(cert, bundle, time) = {}

(* assess_record_policy *)
PolicyStatus(record, bundle, seal, time) ==
  CASE record.policy = NoPolicy -> "legacy"
    [] record.policy # NoPolicy /\ bundle = {} -> "unverifiable"
    [] OTHER ->
         IF ~Authentic(record, bundle, seal)
              \/ NotYetValid(record.cert, bundle, time)
         THEN "invalid"
         ELSE IF Lapsed(record.cert, bundle, time) THEN "expired"
         ELSE "verified"

(* verify_sync_envelope: the policy's own checks, and no expired status.    *)
EnvelopeVerifies(cert, bundle, time) ==
  /\ signers[cert].purpose = "policy"
  /\ Within(signers[cert], time)
  /\ CurrentAnchors(cert, bundle, time) # {}

-----------------------------------------------------------------------------
(* What the certificates and the configuration name. *)
PolicyTypeOK ==
  /\ policyClock \in 0 .. MaxPolicyClock
  /\ \A i \in DOMAIN signers : signers[i].anchor \in anchors
  /\ {configured.key, configured.cert} \subseteq {Unset} \union DOMAIN signers
  /\ \A r \in policyRecords : r.cert \in {Unset} \union DOMAIN signers

(* A signed policy is verifiable until the release window after its unlock  *)
(* time has passed, for a release host that has pinned the CA certificate   *)
(* its signer was issued under, whatever else it has pinned, and so is an   *)
(* envelope of the same certificate (seal_policy.py, DEFAULT_RELEASE_WINDOW *)
(* and load_ca_certificates: the cap at issuance, the check at signing and  *)
(* the choice among the pinned CAs together).                               *)
StaysVerifiable ==
  \A r \in policyRecords : \A bundle \in SUBSET anchors :
    /\ r.policy # NoPolicy
    /\ signers[r.cert].anchor \in bundle
    /\ policyClock <= r.policy.unlock + Window
    => /\ PolicyStatus(r, bundle, r.policy.seal, policyClock) = "verified"
       /\ EnvelopeVerifies(r.cert, bundle, policyClock)

=============================================================================
