---------------------------- MODULE DesktopProofs -----------------------------
(***************************************************************************)
(* The desktop's signed policies, time stamps, containers and cases, each  *)
(* proved about under its own specification; and, from these and the       *)
(* wizards', what the variables of all of them hold.                       *)
(***************************************************************************)
EXTENDS MCDesktop, WizardProofs

-----------------------------------------------------------------------------
(* PolicyAssessment: a signed policy stays verifiable until its release    *)
(* window has passed, for every validity given to CAs and signers, every   *)
(* window, and every bundle of pinned CAs that has the signer's own.       *)
(*                                                                         *)
(* The invariant ties the three places together: the signer lies within    *)
(* its CA certificate, and the window of each policy within its signer.    *)

Anchor == [key : CAKeys, from : Nat, until : Nat]
Signer == [anchor : Anchor, purpose : {"policy", "timestamping"},
           from : Nat, until : Nat]

(* What the variables hold. *)
PolicyTypes ==
  /\ policyClock \in Nat
  /\ anchors \in SUBSET Anchor
  /\ signers \in Seq(Signer)
  /\ configured \in [key : {Unset} \union DOMAIN signers,
                     cert : {Unset} \union DOMAIN signers]

(* Every signer lies within the CA certificate it was issued under, which  *)
(* like the signer itself has begun.                                       *)
SignersWithinAnchors ==
  /\ \A a \in anchors : a.from <= policyClock
  /\ \A i \in DOMAIN signers :
       /\ signers[i].anchor \in anchors
       /\ signers[i].anchor.from <= signers[i].from
       /\ signers[i].from <= policyClock
       /\ signers[i].until <= signers[i].anchor.until

(* The release window of a signed policy lies within its signer. *)
Covered(record) ==
  /\ record.cert \in DOMAIN signers
  /\ signers[record.cert].purpose = "policy"
  /\ SignedBy(record)
  /\ record.policy.unlock \in Nat
  /\ record.policy.unlock + Window <= signers[record.cert].until

PoliciesWithinSigners ==
  \A r \in policyRecords : r.policy # NoPolicy => Covered(r)

PolicyInv == PolicyTypes /\ SignersWithinAnchors /\ PoliciesWithinSigners

-----------------------------------------------------------------------------
(* The invariant holds at first. *)
LEMMA PolicyInvInit == PolicyInit => PolicyInv
BY DEF PolicyInit, PolicyInv, PolicyTypes, SignersWithinAnchors,
       PoliciesWithinSigners, Anchor, Signer, Unset

(* Every step keeps what the variables hold. *)
LEMMA PolicyTypesStep ==
  ASSUME PolicyInv, [PolicyNext]_policyVars
  PROVE  PolicyTypes'
<1> USE PolicyAssumption DEF PolicyInv, PolicyTypes, Unset
<1>1. CASE PolicyTick
  BY <1>1 DEF PolicyTick
<1>2. ASSUME NEW k \in CAKeys, IssueAnchor(k) PROVE PolicyTypes'
  BY <1>2 DEF IssueAnchor, Anchor
<1>3. ASSUME NEW a \in anchors, NEW p \in {"policy", "timestamping"},
             IssueSigner(a, p)
      PROVE  PolicyTypes'
  <2>1. SignerUntil(a) \in Nat
    BY DEF SignerUntil, Earlier, Anchor
  <2>2. signers' \in Seq(Signer) /\ DOMAIN signers \subseteq DOMAIN signers'
    BY <1>3, <2>1 DEF IssueSigner, Signer
  <2> QED BY <1>3, <2>2 DEF IssueSigner
<1>4. ASSUME NEW k \in {Unset} \union DOMAIN signers,
             NEW c \in {Unset} \union DOMAIN signers, Configure(k, c)
      PROVE  PolicyTypes'
  BY <1>4 DEF Configure
<1>5. ASSUME NEW s \in Seals, NEW u \in Unlocks, SealSigned(s, u)
      PROVE  PolicyTypes'
  BY <1>5 DEF SealSigned
<1>6. CASE SealLegacy
  BY <1>6 DEF SealLegacy
<1>7. CASE UNCHANGED policyVars
  BY <1>7 DEF policyVars
<1> QED BY <1>1, <1>2, <1>3, <1>4, <1>5, <1>6, <1>7 DEF PolicyNext

(* A new signer ends with its CA certificate at the latest; nothing else    *)
(* touches one.                                                             *)
LEMMA SignersStep ==
  ASSUME PolicyInv, [PolicyNext]_policyVars
  PROVE  SignersWithinAnchors'
<1> USE PolicyAssumption DEF PolicyInv, PolicyTypes, SignersWithinAnchors
<1>1. CASE PolicyTick
  <2>1. \A a \in anchors : a.from \in Nat
    BY DEF Anchor
  <2>2. \A i \in DOMAIN signers : signers[i] \in Signer
    OBVIOUS
  <2>3. \A i \in DOMAIN signers : signers[i].from \in Nat
    BY <2>2 DEF Signer
  <2> QED BY <1>1, <2>1, <2>3 DEF PolicyTick
<1>2. ASSUME NEW k \in CAKeys, IssueAnchor(k) PROVE SignersWithinAnchors'
  BY <1>2 DEF IssueAnchor
<1>3. ASSUME NEW a \in anchors, NEW p \in {"policy", "timestamping"},
             IssueSigner(a, p)
      PROVE  SignersWithinAnchors'
  <2>1. SignerUntil(a) <= a.until
    BY DEF SignerUntil, Earlier, Anchor
  <2>2. ASSUME NEW i \in DOMAIN signers'
        PROVE  \/ i \in DOMAIN signers /\ signers'[i] = signers[i]
               \/ signers'[i] = [anchor |-> a, purpose |-> p,
                                 from |-> policyClock, until |-> SignerUntil(a)]
    BY <1>3, <2>2 DEF IssueSigner
  <2>3. UNCHANGED <<policyClock, anchors>>
    BY <1>3 DEF IssueSigner
  <2>4. ASSUME NEW i \in DOMAIN signers'
        PROVE  /\ signers'[i].anchor \in anchors
               /\ signers'[i].anchor.from <= signers'[i].from
               /\ signers'[i].from <= policyClock
               /\ signers'[i].until <= signers'[i].anchor.until
    BY <2>1, <2>2, <2>4 DEF Anchor
  <2> QED BY <2>3, <2>4
<1>4. ASSUME NEW k \in {Unset} \union DOMAIN signers,
             NEW c \in {Unset} \union DOMAIN signers, Configure(k, c)
      PROVE  SignersWithinAnchors'
  BY <1>4 DEF Configure
<1>5. ASSUME NEW s \in Seals, NEW u \in Unlocks, SealSigned(s, u)
      PROVE  SignersWithinAnchors'
  BY <1>5 DEF SealSigned
<1>6. CASE SealLegacy
  BY <1>6 DEF SealLegacy
<1>7. CASE UNCHANGED policyVars
  BY <1>7 DEF policyVars
<1> QED BY <1>1, <1>2, <1>3, <1>4, <1>5, <1>6, <1>7 DEF PolicyNext

(* A policy is signed only within its signer, and signers do not change.    *)
LEMMA PoliciesStep ==
  ASSUME PolicyInv, [PolicyNext]_policyVars
  PROVE  PoliciesWithinSigners'
<1> USE DEF PolicyInv, PoliciesWithinSigners, Covered, SignedBy
<1>1. ASSUME UNCHANGED <<signers, policyRecords>> PROVE PoliciesWithinSigners'
  BY <1>1
<1>2. ASSUME NEW a \in anchors, NEW p \in {"policy", "timestamping"},
             IssueSigner(a, p)
      PROVE  PoliciesWithinSigners'
  <2>1. \A i \in DOMAIN signers :
          i \in DOMAIN signers' /\ signers'[i] = signers[i]
    BY <1>2 DEF IssueSigner, PolicyTypes
  <2>2. policyRecords' = policyRecords
    BY <1>2 DEF IssueSigner
  <2> QED BY <2>1, <2>2
<1>3. ASSUME NEW s \in Seals, NEW u \in Unlocks, SealSigned(s, u)
      PROVE  PoliciesWithinSigners'
  <2> DEFINE policy == [seal |-> s, unlock |-> u]
             new == Record(policy, [by |-> configured.key, over |-> policy],
                           configured.cert)
  <2>1. policyRecords' = policyRecords \union {new} /\ UNCHANGED signers
    BY <1>3 DEF SealSigned
  <2>2. configured.cert \in DOMAIN signers
        /\ signers[configured.cert].purpose = "policy"
        /\ configured.key = configured.cert
    BY <1>3 DEF SealSigned, LoadsSigner, Incomplete, PolicyTypes
  <2>3. u \in Nat /\ u + Window <= signers[configured.cert].until
    BY <1>3, PolicyAssumption DEF SealSigned, WithinWindow
  <2>4. Covered(new)
    BY <2>2, <2>3 DEF Record
  <2> QED BY <2>1, <2>4
<1>4. CASE SealLegacy
  <2>1. UNCHANGED signers /\ \A r \in policyRecords' : r \in policyRecords \/ r.policy = NoPolicy
    BY <1>4 DEF SealLegacy, Record
  <2> QED BY <2>1
<1>5. CASE PolicyTick
  BY <1>1, <1>5 DEF PolicyTick
<1>6. ASSUME NEW k \in CAKeys, IssueAnchor(k) PROVE PoliciesWithinSigners'
  BY <1>1, <1>6 DEF IssueAnchor
<1>7. ASSUME NEW k \in {Unset} \union DOMAIN signers,
             NEW c \in {Unset} \union DOMAIN signers, Configure(k, c)
      PROVE  PoliciesWithinSigners'
  BY <1>1, <1>7 DEF Configure
<1>8. CASE UNCHANGED policyVars
  BY <1>1, <1>8 DEF policyVars
<1> QED BY <1>2, <1>3, <1>4, <1>5, <1>6, <1>7, <1>8 DEF PolicyNext

(* The invariant is inductive. *)
THEOREM PolicyInvariant == PolicySpec => []PolicyInv
<1>1. PolicyInit => PolicyInv
  BY PolicyInvInit
<1>2. PolicyInv /\ [PolicyNext]_policyVars => PolicyInv'
  BY PolicyTypesStep, SignersStep, PoliciesStep DEF PolicyInv
<1> QED BY <1>1, <1>2, PTL DEF PolicySpec

-----------------------------------------------------------------------------
(* Under the invariant the signer and its CA certificate are both current   *)
(* while the release window lasts, so the status is verified.               *)
LEMMA WithinWindowVerified ==
  ASSUME PolicyInv,
         NEW r \in policyRecords, NEW bundle \in SUBSET anchors,
         r.policy # NoPolicy,
         signers[r.cert].anchor \in bundle,
         policyClock <= r.policy.unlock + Window
  PROVE  /\ PolicyStatus(r, bundle, r.policy.seal, policyClock) = "verified"
         /\ EnvelopeVerifies(r.cert, bundle, policyClock)
<1> DEFINE cert == r.cert
           anchor == signers[cert].anchor
<1>1. Covered(r) /\ cert \in DOMAIN signers
  BY DEF PolicyInv, PoliciesWithinSigners, Covered
<1>2. signers[cert] \in Signer /\ anchor \in Anchor
  <2>1. signers[cert] \in Signer
    BY <1>1 DEF PolicyInv, PolicyTypes
  <2> QED BY <2>1 DEF Signer
<1>3. Within(signers[cert], policyClock) /\ Within(anchor, policyClock)
  <2>1. policyClock <= signers[cert].until
    <3>1. signers[cert].until \in Nat
      BY <1>2 DEF Signer
    <3>2. /\ r.policy.unlock \in Nat
          /\ r.policy.unlock + Window <= signers[cert].until
      BY <1>1 DEF Covered
    <3> QED BY <3>1, <3>2, PolicyAssumption DEF PolicyInv, PolicyTypes
  <2>2. /\ anchor.from <= signers[cert].from
        /\ signers[cert].from <= policyClock
        /\ signers[cert].until <= anchor.until
    BY <1>1 DEF PolicyInv, SignersWithinAnchors
  <2> QED BY <1>2, <2>1, <2>2
          DEF Within, Signer, Anchor, PolicyInv, PolicyTypes
<1>4. anchor \in IssuingAnchors(cert, bundle)
  BY DEF IssuingAnchors
<1>5. anchor \in CurrentAnchors(cert, bundle, policyClock)
  BY <1>3, <1>4 DEF CurrentAnchors
<1>6. Authentic(r, bundle, r.policy.seal)
  BY <1>1, <1>4 DEF Authentic, Covered
<1>7. ~NotYetValid(cert, bundle, policyClock)
  BY <1>2, <1>3, <1>5 DEF NotYetValid, Within, Signer, PolicyInv, PolicyTypes
<1>8. ~Lapsed(cert, bundle, policyClock)
  BY <1>2, <1>3, <1>5 DEF Lapsed, Within, Signer, PolicyInv, PolicyTypes
<1>9. bundle # {}
  OBVIOUS
<1>10. PolicyStatus(r, bundle, r.policy.seal, policyClock) = "verified"
  BY <1>6, <1>7, <1>8, <1>9 DEF PolicyStatus
<1>11. EnvelopeVerifies(cert, bundle, policyClock)
  BY <1>1, <1>3, <1>5 DEF EnvelopeVerifies, Covered
<1> QED BY <1>10, <1>11

(* A signed policy is verifiable until the release window after its unlock  *)
(* time has passed, and so is an envelope of its certificate.               *)
THEOREM PolicyStaysVerifiable == PolicySpec => []StaysVerifiable
<1>1. PolicyInv => StaysVerifiable
  BY WithinWindowVerified DEF StaysVerifiable
<1> QED BY <1>1, PolicyInvariant, PTL

-----------------------------------------------------------------------------
(* TimeStamping: an accepted answer is one to its own call.                *)

Stamps ==
  [hash : Hashes, nonce : Nat, time : Nat, key : Nat, cert : Nat, serial : Nat,
   policy : {"local", "other"}, accuracy : BOOLEAN]
CallRecords ==
  [at : {"send", "check"}, kind : {"plain", "verified", "trusted"}, hash : Hashes,
   trusts : SUBSET Nat, nonce : Nat, left : Int, began : Nat, reply : SUBSET Stamps]

(* The files and what is made of them. *)
IsCredential(c) == c \in Nat /\ c \in DOMAIN certificates
Found(file) == file \in {NoFileYet, Partial} \/ IsCredential(file)
FileInv ==
  /\ tsaClock \in Nat
  /\ certificates \in Seq(Certificate)
  /\ Found(keyFile) /\ Found(certFile)
  /\ starts \in [Applications -> [at : {"off", "key", "cert", "serve"}, own : Nat]]
  /\ \A a \in Applications : starts[a].at \in {"key", "cert"} => IsCredential(starts[a].own)
  /\ server \in [by : Applications \cup {"none"}, key : Nat, cert : Nat, serial : Nat]
  /\ server # NoServer => IsCredential(server.key) /\ IsCredential(server.cert)

(* A token of a nonce was issued after its call began. *)
Running == call # NoCall
StampInv ==
  /\ \A c \in DOMAIN OtherAuthorities : IsCredential(c)
  /\ calls \in Nat
  /\ call \in CallRecords \cup {NoCall}
  /\ tokens \subseteq Stamps
  /\ \A t \in tokens : t.time <= tsaClock /\ t.nonce <= calls /\ IsCredential(t.cert)
  /\ Running =>
       /\ call.nonce = IF call.kind = "plain" THEN 0 ELSE calls
       /\ call.kind # "plain" => calls > 0
       /\ call.began <= tsaClock
       /\ call.reply \subseteq tokens
       /\ \A t, u \in call.reply : t = u
       /\ call.kind # "plain" =>
            \A t \in tokens : t.nonce = call.nonce => call.began <= t.time

(* One accepted answer for each call that has a nonce. *)
AcceptInv ==
  /\ \A a \in accepted :
       /\ a.token \in tokens
       /\ a.call.kind # "plain" =>
            /\ a.call.nonce = a.token.nonce /\ a.token.hash = a.call.hash
            /\ a.call.began <= a.token.time
            /\ Running => a.call.nonce < calls
       /\ a.call.kind = "trusted" =>
            LET cert == certificates[a.token.cert]
            IN  /\ cert.ca \in a.call.trusts /\ cert.timestamping
                /\ a.token.key = a.token.cert
                /\ {a.call.began, a.token.time} \subseteq cert.from .. cert.until
  /\ \A a, b \in accepted :
       a.call.kind # "plain" /\ b.call.kind # "plain" /\ a.token.nonce = b.token.nonce => a = b

LEMMA StampNumbers ==
  /\ TsaAttempts \in Nat /\ CertificateLife \in Nat /\ CALife \in Nat
  /\ MaxTsaClock \in Nat /\ OtherAuthorities \in Seq(Certificate)
BY TimeStampingAssumption

LEMMA CertificatesStay ==
  ASSUME FileInv
  PROVE  /\ Append(certificates, NewCertificate) \in Seq(Certificate)
         /\ Len(certificates) + 1 \in DOMAIN Append(certificates, NewCertificate)
         /\ Len(certificates) + 1 \in Nat
         /\ \A c \in DOMAIN certificates :
              /\ c \in DOMAIN Append(certificates, NewCertificate)
              /\ Append(certificates, NewCertificate)[c] = certificates[c]
<1>1. certificates \in Seq(Certificate) /\ tsaClock \in Nat /\ Len(certificates) + 1 \in Nat
  BY DEF FileInv
<1>2. tsaClock + CertificateLife \in Nat /\ tsaClock + CALife \in Nat
  BY <1>1, StampNumbers
<1>3. NewCertificate \in Certificate
  BY <1>1, <1>2 DEF NewCertificate, Certificate
<1> QED
  BY <1>1, <1>3, AppendProperties

(* What happens to the files, the servers and the certificates. *)
LEMMA FilesKept ==
  ASSUME FileInv, TsaNext
  PROVE  /\ FileInv'
         /\ \A c \in DOMAIN certificates :
              c \in DOMAIN certificates' /\ certificates'[c] = certificates[c]
<1>0. /\ tsaClock \in Nat /\ certificates \in Seq(Certificate)
      /\ starts \in [Applications -> [at : {"off", "key", "cert", "serve"}, own : Nat]]
      /\ server \in [by : Applications \cup {"none"}, key : Nat, cert : Nat, serial : Nat]
      /\ Found(keyFile) /\ Found(certFile)
  BY DEF FileInv
<1>1. ASSUME UNCHANGED <<filesVars, serverVars>>, tsaClock' \in Nat
      PROVE  FileInv' /\ certificates' = certificates
  BY <1>1 DEF FileInv, filesVars, serverVars, Found, IsCredential
<1>2. CASE TsaTick
  BY <1>0, <1>1, <1>2 DEF TsaTick
<1>3. CASE \/ \E h \in Hashes : BeginPlain(h) \/ BeginVerified(h) \/ BeginTrusted(h)
           \/ OtherAnswers \/ EarlierAnswer \/ NoAnswer \/ RefusedAnswer \/ Conclude
  <2>1. UNCHANGED <<filesVars, serverVars, tsaClock>>
    BY <1>3 DEF BeginPlain, BeginVerified, BeginTrusted, Begin, OtherAnswers, EarlierAnswer,
       NoAnswer, RefusedAnswer, Conclude
  <2> QED
    BY <1>0, <1>1, <2>1
<1>4. CASE ServerAnswers
  <2>1. /\ tsaClock' = tsaClock /\ UNCHANGED filesVars /\ starts' = starts
        /\ server' = [server EXCEPT !.serial = @ + 1] /\ server # NoServer
    BY <1>4 DEF ServerAnswers
  <2>2. /\ server' \in [by : Applications \cup {"none"}, key : Nat, cert : Nat, serial : Nat]
        /\ server'.key = server.key /\ server'.cert = server.cert
    BY <1>0, <2>1
  <2>3. certificates' = certificates /\ keyFile' = keyFile /\ certFile' = certFile
    BY <2>1 DEF filesVars
  <2> QED
    BY <2>1, <2>2, <2>3 DEF FileInv, Found, IsCredential
<1>5. ASSUME NEW a \in Applications, EnsureCredentials(a)
      PROVE  FileInv' /\ \A c \in DOMAIN certificates :
                           c \in DOMAIN certificates' /\ certificates'[c] = certificates[c]
  <2>1. UNCHANGED <<tsaClock, keyFile, certFile, server>>
    BY <1>5 DEF EnsureCredentials
  <2>2. CASE FilesExist
    <3>1. certificates' = certificates /\ starts' = [starts EXCEPT ![a].at = "serve"]
      BY <1>5, <2>2 DEF EnsureCredentials, Moves
    <3>2. /\ starts' \in [Applications -> [at : {"off", "key", "cert", "serve"}, own : Nat]]
          /\ starts'[a].at = "serve" /\ \A b \in Applications : b # a => starts'[b] = starts[b]
      BY <1>0, <3>1
    <3> QED
      BY <2>1, <3>1, <3>2 DEF FileInv, Found, IsCredential
  <2>3. CASE ~FilesExist
    <3>1. /\ certificates' = Append(certificates, NewCertificate)
          /\ starts' = [starts EXCEPT ![a] = [at |-> "key", own |-> Len(certificates')]]
      BY <1>5, <2>3 DEF EnsureCredentials
    <3>2. Len(certificates') = Len(certificates) + 1
      BY <1>0, <3>1, CertificatesStay
    <3>3. PICK n \in Nat : n = Len(certificates) + 1
      BY CertificatesStay
    <3>4. starts' = [starts EXCEPT ![a] = [at |-> "key", own |-> n]]
      BY <3>1, <3>2, <3>3
    <3>5. /\ starts' \in [Applications -> [at : {"off", "key", "cert", "serve"}, own : Nat]]
          /\ starts'[a].own = n /\ \A b \in Applications : b # a => starts'[b] = starts[b]
      BY <1>0, <3>3, <3>4
    <3>6. IsCredential(n)' /\ \A c : IsCredential(c) => IsCredential(c)'
      BY <3>1, <3>3, CertificatesStay DEF IsCredential
    <3>7. certificates' \in Seq(Certificate)
      BY <3>1, CertificatesStay
    <3> QED
      BY <2>1, <3>1, <3>5, <3>6, <3>7, CertificatesStay DEF FileInv, Found, IsCredential
  <2> QED
    BY <2>2, <2>3
<1>6. ASSUME NEW a \in Applications, SaveKey(a) \/ SaveCertificate(a)
      PROVE  FileInv' /\ certificates' = certificates
  <2>1. /\ UNCHANGED <<tsaClock, certificates, server>>
        /\ keyFile' \in {keyFile, starts[a].own} /\ certFile' \in {certFile, starts[a].own}
        /\ starts[a].at \in {"key", "cert"}
    BY <1>6 DEF SaveKey, SaveCertificate, At
  <2>2. PICK at \in {"cert", "serve"} : starts' = [starts EXCEPT ![a].at = at]
    BY <1>6 DEF SaveKey, SaveCertificate, Moves
  <2>3. /\ starts' \in [Applications -> [at : {"off", "key", "cert", "serve"}, own : Nat]]
        /\ starts'[a].own = starts[a].own
        /\ \A b \in Applications : b # a => starts'[b] = starts[b]
    BY <1>0, <2>2
  <2>4. IsCredential(starts[a].own)
    BY <2>1 DEF FileInv
  <2> QED
    BY <2>1, <2>3, <2>4 DEF FileInv, Found, IsCredential
<1>7. ASSUME NEW a \in Applications, Serve(a)
      PROVE  FileInv' /\ certificates' = certificates
  <2>1. /\ UNCHANGED <<tsaClock, certificates, keyFile, certFile>>
        /\ starts' = [starts EXCEPT ![a] = Off]
        /\ server' = IF keyFile > 0 /\ certFile > 0 /\ server = NoServer
                     THEN [by |-> a, key |-> keyFile, cert |-> certFile, serial |-> 1]
                     ELSE server
    BY <1>7 DEF Serve, filesVars
  <2>2. /\ starts' \in [Applications -> [at : {"off", "key", "cert", "serve"}, own : Nat]]
        /\ starts'[a].at = "off" /\ \A b \in Applications : b # a => starts'[b] = starts[b]
    BY <1>0, <2>1 DEF Off
  <2>3. CASE keyFile > 0 /\ certFile > 0 /\ server = NoServer
    <3>1. IsCredential(keyFile) /\ IsCredential(certFile)
      BY <1>0, <2>3 DEF Found, NoFileYet, Partial
    <3>2. /\ server' \in [by : Applications \cup {"none"}, key : Nat, cert : Nat, serial : Nat]
          /\ server'.key = keyFile /\ server'.cert = certFile
      BY <2>1, <2>3, <3>1 DEF IsCredential
    <3> QED
      BY <2>1, <2>2, <3>1, <3>2 DEF FileInv, Found, IsCredential
  <2>4. CASE ~(keyFile > 0 /\ certFile > 0 /\ server = NoServer)
    BY <2>1, <2>2, <2>4 DEF FileInv, Found, IsCredential
  <2> QED
    BY <2>3, <2>4
<1>8. ASSUME NEW a \in Applications, Exit(a)
      PROVE  FileInv' /\ certificates' = certificates
  <2>1. /\ UNCHANGED <<tsaClock, certificates>>
        /\ starts' = [starts EXCEPT ![a] = Off]
        /\ server' \in {NoServer, server}
        /\ keyFile' \in {keyFile, Partial} /\ certFile' \in {certFile, Partial}
    BY <1>8 DEF Exit, CrashFile
  <2>2. /\ starts' \in [Applications -> [at : {"off", "key", "cert", "serve"}, own : Nat]]
        /\ starts'[a].at = "off" /\ \A b \in Applications : b # a => starts'[b] = starts[b]
    BY <1>0, <2>1 DEF Off
  <2>3. NoServer \in [by : Applications \cup {"none"}, key : Nat, cert : Nat, serial : Nat]
    BY DEF NoServer
  <2> QED
    BY <2>1, <2>2, <2>3 DEF FileInv, Found, IsCredential
<1> QED
  BY <1>1, <1>2, <1>3, <1>4, <1>5, <1>6, <1>7, <1>8, <1>0 DEF TsaNext, TsaTick

-----------------------------------------------------------------------------
(* What a step makes of the call, the tokens and the answers accepted. *)
Begins ==
  /\ call = NoCall /\ calls' = calls + 1
  /\ UNCHANGED <<tsaClock, certificates, tokens, accepted>>
  /\ \E kind \in {"plain", "verified", "trusted"}, hash \in Hashes, trusts \in SUBSET Nat :
       call' = [at |-> "send", kind |-> kind, hash |-> hash, trusts |-> trusts,
                nonce |-> IF kind = "plain" THEN 0 ELSE calls + 1,
                left |-> TsaAttempts, began |-> tsaClock, reply |-> {}]
Issued(t) ==
  /\ t \in Stamps /\ t.hash = call.hash /\ t.nonce = call.nonce /\ t.time = tsaClock
  /\ IsCredential(t.cert)
Replied ==
  \/ call' = NoCall
  \/ call' = [call EXCEPT !.left = @ - 1]
  \/ \E t \in tokens' : call' = [call EXCEPT !.at = "check", !.reply = {t}]
AnsweredInTime ==
  /\ Running /\ Replied
  /\ UNCHANGED <<tsaClock, certificates, calls, accepted>>
  /\ tokens' = tokens \/ \E t \in Stamps : Issued(t) /\ tokens' = tokens \cup {t}
Aside ==
  /\ UNCHANGED <<tokens, call, calls, accepted>>
  /\ tsaClock <= tsaClock' /\ tsaClock' \in Nat

LEMMA TokensAreStamps ==
  ASSUME FileInv, StampInv, call.at = "send",
         NEW k \in Nat, NEW c, IsCredential(c), NEW s \in Nat
  PROVE  Issued(Token(k, c, s))
<1>1. certificates \in Seq(Certificate) /\ tsaClock \in Nat /\ c \in DOMAIN certificates /\ c \in Nat
  BY DEF FileInv, IsCredential
<1>2. certificates[c] \in Certificate
  BY <1>1, ElementOfSeq
<1>3. certificates[c].policy \in {"local", "other"} /\ certificates[c].accuracy \in BOOLEAN
  BY <1>2 DEF Certificate
<1>4. call \in CallRecords
  BY DEF StampInv, NoCall
<1>5. call.hash \in Hashes /\ call.nonce \in Nat
  BY <1>4 DEF CallRecords
<1> DEFINE p == certificates[c].policy
           f == certificates[c].accuracy
<1>6. Token(k, c, s) = [hash |-> call.hash, nonce |-> call.nonce, time |-> tsaClock, key |-> k,
                        cert |-> c, serial |-> s, policy |-> p, accuracy |-> f]
  BY DEF Token
<1> HIDE DEF p, f
<1>7. p \in {"local", "other"} /\ f \in BOOLEAN
  BY <1>3 DEF p, f
<1>8. [hash |-> call.hash, nonce |-> call.nonce, time |-> tsaClock, key |-> k,
       cert |-> c, serial |-> s, policy |-> p, accuracy |-> f] \in Stamps
  <2>1. c \in Nat
    BY <1>1
  <2> QED
    BY <1>1, <1>5, <1>7, <2>1 DEF Stamps
<1> DEFINE T == Token(k, c, s)
<1>9. /\ T \in Stamps /\ T.hash = call.hash /\ T.nonce = call.nonce /\ T.time = tsaClock
      /\ T.cert = c
  BY <1>6, <1>8
<1> QED
  BY <1>9 DEF Issued

LEMMA CallsMove ==
  ASSUME FileInv, StampInv, TsaNext
  PROVE  Begins \/ AnsweredInTime \/ Aside \/ Conclude
<1>0. tsaClock \in Nat /\ certificates \in Seq(Certificate)
  BY DEF FileInv
<1>1. CASE TsaTick \/ \E a \in Applications :
             EnsureCredentials(a) \/ SaveKey(a) \/ SaveCertificate(a) \/ Serve(a) \/ Exit(a)
  BY <1>0, <1>1 DEF TsaTick, EnsureCredentials, SaveKey, SaveCertificate, Serve, Exit, callVars, Aside
<1>2. ASSUME NEW h \in Hashes, BeginPlain(h) \/ BeginVerified(h) \/ BeginTrusted(h)
      PROVE  Begins
  <2>1. \E kind \in {"plain", "verified", "trusted"}, trusts \in SUBSET Nat : Begin(kind, h, trusts)
    <3>1. \A c \in DOMAIN certificates : c \in Nat
      BY <1>0
    <3>2. Cas \subseteq Nat
      <4>1. \A c \in DOMAIN certificates : certificates[c] \in Certificate
        BY <1>0, ElementOfSeq
      <4> QED
        BY <4>1 DEF Cas, Certificate
    <3>3. CASE BeginPlain(h)
      BY <3>3 DEF BeginPlain
    <3>4. CASE BeginVerified(h)
      BY <3>4, <3>1 DEF BeginVerified
    <3>5. CASE BeginTrusted(h)
      <4>1. PICK p \in SUBSET Cas : Begin("trusted", h, p)
        BY <3>5 DEF BeginTrusted
      <4>2. p \in SUBSET Nat
        BY <3>2
      <4> QED
        BY <4>1, <4>2
    <3> QED
      BY <1>2, <3>3, <3>4, <3>5
  <2>2. PICK kind \in {"plain", "verified", "trusted"}, trusts \in SUBSET Nat : Begin(kind, h, trusts)
    BY <2>1
  <2>3. /\ call = NoCall /\ calls' = calls + 1 /\ UNCHANGED <<tsaClock, certificates, tokens, accepted>>
        /\ call' = [at |-> "send", kind |-> kind, hash |-> h, trusts |-> trusts,
                    nonce |-> IF kind = "plain" THEN 0 ELSE calls + 1,
                    left |-> TsaAttempts, began |-> tsaClock, reply |-> {}]
    BY <2>2 DEF Begin, filesVars
  <2> QED
    BY <2>3 DEF Begins
<1>3. ASSUME call.at = "send" PROVE Running
  BY <1>3 DEF Running, NoCall
<1>4. CASE ServerAnswers
  <2>1. /\ call.at = "send" /\ server # NoServer /\ tokens' = tokens \cup {ServerToken}
        /\ ReceivedOrLost(ServerToken) /\ UNCHANGED <<tsaClock, certificates, calls, accepted>>
    BY <1>4 DEF ServerAnswers, filesVars
  <2>2. Issued(ServerToken)
    <3>1. server.key \in Nat /\ IsCredential(server.cert) /\ server.serial \in Nat
      BY <2>1 DEF FileInv, IsCredential
    <3> QED
      BY <2>1, <3>1, TokensAreStamps DEF ServerToken
  <2>3. ServerToken \in Stamps
    BY <2>2 DEF Issued
  <2>4. Replied
    BY <2>1 DEF ReceivedOrLost, Received, Unanswered, Replied
  <2> QED
    BY <1>3, <2>1, <2>2, <2>3, <2>4 DEF AnsweredInTime
<1>5. CASE OtherAnswers
  <2>1. call.at = "send" /\ UNCHANGED <<tsaClock, certificates, calls, accepted>>
    BY <1>5 DEF OtherAnswers, filesVars
  <2>2. PICK c \in DOMAIN OtherAuthorities :
          tokens' = tokens \cup {Token(c, c, 0)} /\ ReceivedOrLost(Token(c, c, 0))
    BY <1>5 DEF OtherAnswers
  <2>3. Issued(Token(c, c, 0))
    <3>1. IsCredential(c)
      BY DEF StampInv
    <3> QED
      BY <2>1, <3>1, TokensAreStamps DEF IsCredential
  <2>4. Token(c, c, 0) \in Stamps
    BY <2>3 DEF Issued
  <2>5. Replied
    BY <2>2 DEF ReceivedOrLost, Received, Unanswered, Replied
  <2> QED
    BY <1>3, <2>1, <2>2, <2>3, <2>4, <2>5 DEF AnsweredInTime
<1>6. CASE EarlierAnswer \/ NoAnswer \/ RefusedAnswer
  <2>1. /\ call.at = "send" /\ UNCHANGED <<tsaClock, certificates, calls, accepted>>
        /\ tokens' = tokens
    BY <1>6 DEF EarlierAnswer, NoAnswer, RefusedAnswer, filesVars
  <2>2. Replied
    BY <1>6, <2>1 DEF EarlierAnswer, NoAnswer, RefusedAnswer, Received, Unanswered, Replied
  <2> QED
    BY <1>3, <2>1, <2>2 DEF AnsweredInTime
<1> QED
  BY <1>1, <1>2, <1>4, <1>5, <1>6 DEF TsaNext

LEMMA StampsKept ==
  ASSUME FileInv, StampInv, TsaNext
  PROVE  StampInv'
<1>0. /\ FileInv' /\ tsaClock \in Nat /\ calls \in Nat
      /\ \A c : IsCredential(c) => IsCredential(c)'
      /\ \A c \in DOMAIN OtherAuthorities : IsCredential(c)'
      /\ call \in CallRecords \cup {NoCall} /\ tokens \subseteq Stamps
      /\ \A t \in tokens : t.time <= tsaClock /\ t.nonce <= calls /\ IsCredential(t.cert)
  BY FilesKept DEF FileInv, StampInv, IsCredential
<1>1. CASE Begins
  <2>1. PICK kind \in {"plain", "verified", "trusted"}, hash \in Hashes, trusts \in SUBSET Nat :
          call' = [at |-> "send", kind |-> kind, hash |-> hash, trusts |-> trusts,
                   nonce |-> IF kind = "plain" THEN 0 ELSE calls + 1,
                   left |-> TsaAttempts, began |-> tsaClock, reply |-> {}]
    BY <1>1 DEF Begins
  <2>2. PICK n \in Nat : n = IF kind = "plain" THEN 0 ELSE calls + 1
    BY <1>0
  <2>3. PICK left \in Int : left = TsaAttempts
    BY StampNumbers
  <2>4. call' = [at |-> "send", kind |-> kind, hash |-> hash, trusts |-> trusts,
                 nonce |-> n, left |-> left, began |-> tsaClock, reply |-> {}]
    BY <2>1, <2>2, <2>3
  <2>5. call' \in CallRecords
    <3>1. {} \in SUBSET Stamps
      OBVIOUS
    <3> QED
      BY <2>4, <3>1, <1>0 DEF CallRecords
  <2>6. /\ calls' = calls + 1 /\ calls' \in Nat /\ tsaClock' = tsaClock /\ tokens' = tokens
    BY <1>0, <1>1 DEF Begins
  <2>7. \A t \in tokens : t.nonce \in Nat /\ t.nonce < calls + 1
    BY <1>0 DEF Stamps
  <2>8. /\ call'.kind = kind /\ call'.nonce = n /\ call'.began = tsaClock /\ call'.reply = {}
    BY <2>4
  <2>9. /\ call'.nonce = IF call'.kind = "plain" THEN 0 ELSE calls'
        /\ call'.kind # "plain" => calls' > 0
        /\ call'.kind # "plain" => \A t \in tokens' : t.nonce # call'.nonce
    BY <2>2, <2>6, <2>7, <2>8, <1>0
  <2>10. \A t \in tokens' : t.time <= tsaClock' /\ t.nonce <= calls' /\ IsCredential(t.cert)'
    BY <1>0, <2>6, <2>7
  <2> QED
    BY <1>0, <2>5, <2>6, <2>8, <2>9, <2>10 DEF StampInv, Running
<1>2. CASE AnsweredInTime
  <2>1. Running /\ call \in CallRecords /\ UNCHANGED <<tsaClock, calls>>
    BY <1>2, <1>0 DEF AnsweredInTime, Running
  <2>2. /\ tokens \subseteq tokens' /\ tokens' \subseteq Stamps
        /\ \A t \in tokens' : t \in tokens \/ Issued(t)
    BY <1>0, <1>2 DEF AnsweredInTime, Issued
  <2>3. /\ call.nonce = IF call.kind = "plain" THEN 0 ELSE calls
        /\ call.kind # "plain" => calls > 0
        /\ call.began <= tsaClock /\ call.reply \subseteq tokens
        /\ \A t, u \in call.reply : t = u
        /\ call.kind # "plain" => \A t \in tokens : t.nonce = call.nonce => call.began <= t.time
    BY <2>1 DEF StampInv
  <2>4. \A t \in tokens' : t.time <= tsaClock' /\ t.nonce <= calls' /\ IsCredential(t.cert)'
    <3>1. \A t : Issued(t) => t.time <= tsaClock /\ t.nonce <= calls
      BY <1>0, <2>3 DEF Issued
    <3>2. \A t : Issued(t) => IsCredential(t.cert)'
      BY <1>0 DEF Issued
    <3> QED
      BY <1>0, <2>1, <2>2, <3>1, <3>2
  <2>5. call.kind # "plain" => \A t \in tokens' : t.nonce = call.nonce => call.began <= t.time
    BY <2>2, <2>3 DEF Issued
  <2>6. CASE call' = NoCall
    BY <1>0, <2>1, <2>2, <2>4, <2>6 DEF StampInv, Running
  <2>7. ASSUME call' \in CallRecords, call'.reply \subseteq tokens', \A t, u \in call'.reply : t = u,
               call'.kind = call.kind, call'.nonce = call.nonce, call'.began = call.began
        PROVE  StampInv'
    <3>1. /\ call'.nonce = IF call'.kind = "plain" THEN 0 ELSE calls'
          /\ call'.kind # "plain" => calls' > 0 /\ call'.began <= tsaClock'
      BY <2>1, <2>3, <2>7
    <3>2. call'.began <= tsaClock'
      BY <2>1, <2>3, <2>7
    <3>3. call'.kind # "plain" => \A t \in tokens' : t.nonce = call'.nonce => call'.began <= t.time
      BY <2>5, <2>7
    <3>4. calls' \in Nat
      BY <1>0, <2>1
    <3> QED
      BY <1>0, <2>2, <2>4, <2>7, <3>1, <3>2, <3>3, <3>4 DEF StampInv
  <2>8. CASE call' = [call EXCEPT !.left = @ - 1]
    <3>1. PICK left \in Int : left = call.left - 1
      BY <2>1 DEF CallRecords
    <3>2. call' = [call EXCEPT !.left = left]
      BY <2>8, <3>1
    <3>3. /\ call' \in CallRecords /\ call'.reply = call.reply /\ call'.kind = call.kind
          /\ call'.nonce = call.nonce /\ call'.began = call.began
      BY <2>1, <3>2 DEF CallRecords
    <3> QED
      BY <2>2, <2>3, <2>7, <3>3
  <2>9. ASSUME NEW t \in tokens', call' = [call EXCEPT !.at = "check", !.reply = {t}]
        PROVE  StampInv'
    <3>1. {t} \in SUBSET Stamps
      BY <2>2
    <3>2. /\ call' \in CallRecords /\ call'.reply = {t} /\ call'.kind = call.kind
          /\ call'.nonce = call.nonce /\ call'.began = call.began
      BY <2>1, <2>9, <3>1 DEF CallRecords
    <3> QED
      BY <2>7, <3>2
  <2> QED
    BY <1>2, <2>6, <2>8, <2>9 DEF AnsweredInTime, Replied
<1>3. CASE Aside
  <2>1. /\ tokens' = tokens /\ call' = call /\ calls' = calls
        /\ tsaClock <= tsaClock' /\ tsaClock' \in Nat
    BY <1>3 DEF Aside
  <2>2. \A t \in tokens : t.time \in Nat
    BY <1>0 DEF Stamps
  <2>3. \A t \in tokens' : t.time <= tsaClock' /\ t.nonce <= calls' /\ IsCredential(t.cert)'
    BY <1>0, <2>1, <2>2
  <2>4. Running => call.began \in Nat /\ call.began <= tsaClock
    BY <1>0 DEF StampInv, Running, CallRecords
  <2>5. Running => call.began <= tsaClock'
    BY <1>0, <2>1, <2>4
  <2> QED
    BY <1>0, <2>1, <2>3, <2>5 DEF StampInv, Running
<1>4. CASE Conclude
  <2>1. call' = NoCall /\ UNCHANGED <<tsaClock, calls, tokens>>
    BY <1>4 DEF Conclude
  <2>2. \A t \in tokens' : t.time <= tsaClock' /\ t.nonce <= calls' /\ IsCredential(t.cert)'
    BY <1>0, <2>1
  <2> QED
    BY <1>0, <2>1, <2>2 DEF StampInv, Running
<1> QED
  BY <1>1, <1>2, <1>3, <1>4, CallsMove

(* Where the answers accepted before are unaffected. *)
LEMMA AcceptedStay ==
  ASSUME FileInv, StampInv, AcceptInv, TsaNext, accepted' = accepted,
         tokens \subseteq tokens', calls' \in Nat, calls <= calls', Running' => Running \/ calls < calls'
  PROVE  AcceptInv'
<1>1. /\ \A t \in tokens : t \in Stamps /\ t.nonce <= calls /\ IsCredential(t.cert)
      /\ calls \in Nat
  BY DEF StampInv
<1>2. \A a \in accepted : a.token \in tokens' /\ certificates'[a.token.cert] = certificates[a.token.cert]
  BY <1>1, FilesKept DEF AcceptInv, IsCredential
<1>3. \A a \in accepted : a.call.kind # "plain" /\ Running' => a.call.nonce < calls'
  <2> SUFFICES ASSUME NEW a \in accepted, a.call.kind # "plain", Running'
               PROVE  a.call.nonce < calls'
    OBVIOUS
  <2>1. a.call.nonce = a.token.nonce /\ a.token.nonce \in Nat /\ a.token.nonce <= calls
    BY <1>1 DEF AcceptInv, Stamps
  <2>2. Running => a.call.nonce < calls
    BY DEF AcceptInv
  <2> QED
    BY <1>1, <2>1, <2>2
<1> QED
  BY <1>2, <1>3 DEF AcceptInv

LEMMA AcceptedKept ==
  ASSUME FileInv, StampInv, AcceptInv, TsaNext
  PROVE  AcceptInv'
<1>0. /\ \A t \in tokens : t \in Stamps /\ t.nonce <= calls /\ IsCredential(t.cert)
      /\ calls \in Nat /\ call \in CallRecords \cup {NoCall}
  BY DEF StampInv
<1>1. CASE Begins \/ AnsweredInTime \/ Aside
  <2>1. /\ accepted' = accepted /\ tokens \subseteq tokens'
        /\ calls' \in Nat /\ calls <= calls' /\ (Running' => Running \/ calls < calls')
    BY <1>0, <1>1 DEF Begins, AnsweredInTime, Aside, Running
  <2> QED
    BY <2>1, AcceptedStay
<1>2. CASE Conclude
  <2>1. /\ call.at = "check" /\ UNCHANGED <<certificates, tokens, calls>> /\ ~Running'
        /\ accepted' = accepted \cup {[call |-> call, token |-> t] :
                                        t \in {r \in call.reply : Accepts(r)}}
    BY <1>2 DEF Conclude, filesVars, Running
  <2>2. Running /\ call \in CallRecords
    BY <1>0, <2>1 DEF Running, NoCall
  <2>3. /\ call.nonce = IF call.kind = "plain" THEN 0 ELSE calls
        /\ call.reply \subseteq tokens /\ \A t, u \in call.reply : t = u
        /\ call.kind # "plain" => \A t \in tokens : t.nonce = call.nonce => call.began <= t.time
    BY <2>2 DEF StampInv
  <2>4. \A a \in accepted' : a \in accepted \/ (a.call = call /\ a.token \in call.reply
                                                 /\ Accepts(a.token) /\ a = [call |-> call, token |-> a.token])
    BY <2>1
  <2>5. ASSUME NEW t \in call.reply, Accepts(t), call.kind # "plain"
        PROVE  /\ call.nonce = t.nonce /\ t.hash = call.hash /\ call.began <= t.time
               /\ call.kind = "trusted" =>
                    LET cert == certificates[t.cert]
                    IN  /\ cert.ca \in call.trusts /\ cert.timestamping /\ t.key = t.cert
                        /\ {call.began, t.time} \subseteq cert.from .. cert.until
    <3>1. call.kind \in {"verified", "trusted"}
      BY <2>2, <2>5 DEF CallRecords
    <3>2. AnswersRequest(t)
      BY <2>5, <3>1 DEF Accepts
    <3>3. ASSUME call.kind = "trusted" PROVE UnderProfile(t)
      BY <2>5, <3>3 DEF Accepts
    <3>4. call.nonce = t.nonce /\ t.hash = call.hash /\ call.began <= t.time
      BY <2>3, <2>5, <3>2 DEF AnswersRequest
    <3> QED
      BY <3>3, <3>4 DEF UnderProfile, FromTrustedCA, ForTimestamps, SignedUnder, ValidThroughout
  <2>6. \A a \in accepted' :
          /\ a.token \in tokens'
          /\ a.call.kind # "plain" =>
               /\ a.call.nonce = a.token.nonce /\ a.token.hash = a.call.hash
               /\ a.call.began <= a.token.time
          /\ a.call.kind = "trusted" =>
               LET cert == certificates'[a.token.cert]
               IN  /\ cert.ca \in a.call.trusts /\ cert.timestamping
                   /\ a.token.key = a.token.cert
                   /\ {a.call.began, a.token.time} \subseteq cert.from .. cert.until
    <3> SUFFICES ASSUME NEW a \in accepted'
                 PROVE  /\ a.token \in tokens
                        /\ a.call.kind # "plain" =>
                             /\ a.call.nonce = a.token.nonce /\ a.token.hash = a.call.hash
                             /\ a.call.began <= a.token.time
                        /\ a.call.kind = "trusted" =>
                             LET cert == certificates[a.token.cert]
                             IN  /\ cert.ca \in a.call.trusts /\ cert.timestamping
                                 /\ a.token.key = a.token.cert
                                 /\ {a.call.began, a.token.time} \subseteq cert.from .. cert.until
      BY <2>1
    <3>1. CASE a \in accepted
      BY <3>1 DEF AcceptInv
    <3>2. CASE a.call = call /\ a.token \in call.reply /\ Accepts(a.token)
      BY <3>2, <2>3, <2>5
    <3> QED
      BY <2>4, <3>1, <3>2
  <2>7. ASSUME NEW a \in accepted', NEW b \in accepted', a.call.kind # "plain", b.call.kind # "plain",
               a.token.nonce = b.token.nonce
        PROVE  a = b
    <3>1. ASSUME NEW c \in accepted, NEW d, c.call.kind # "plain", d.call = call, call.kind # "plain",
                 d.token \in call.reply, Accepts(d.token)
          PROVE  c.token.nonce # d.token.nonce
      <4>1. c.call.nonce = c.token.nonce /\ c.call.nonce < calls
        BY <2>2, <3>1 DEF AcceptInv
      <4>2. d.token.nonce = calls
        BY <2>3, <2>5, <3>1
      <4>3. c.token.nonce \in Nat
        BY <1>0, <3>1 DEF AcceptInv, Stamps
      <4> QED
        BY <1>0, <4>1, <4>2, <4>3
    <3>2. CASE a \in accepted /\ b \in accepted
      BY <2>7, <3>2 DEF AcceptInv
    <3>3. CASE a \in accepted /\ b \notin accepted
      BY <2>4, <2>7, <3>1, <3>3
    <3>4. CASE a \notin accepted /\ b \in accepted
      BY <2>4, <2>7, <3>1, <3>4
    <3>5. CASE a \notin accepted /\ b \notin accepted
      <4>1. a.token = b.token
        BY <2>3, <2>4, <3>5
      <4> QED
        BY <2>4, <3>5, <4>1
    <3> QED
      BY <3>2, <3>3, <3>4, <3>5
  <2> QED
    BY <2>1, <2>6, <2>7 DEF AcceptInv
<1> QED
  BY <1>1, <1>2, CallsMove

LEMMA StampInvHolds == TsaSpec => [](FileInv /\ StampInv /\ AcceptInv)
<1>1. TsaInit => FileInv /\ StampInv /\ AcceptInv
  <2> SUFFICES ASSUME TsaInit PROVE FileInv /\ StampInv /\ AcceptInv
    OBVIOUS
  <2>1. FileInv
    <3>1. /\ certificates \in Seq(Certificate) /\ tsaClock \in Nat
          /\ starts \in [Applications -> [at : {"off", "key", "cert", "serve"}, own : Nat]]
          /\ \A a \in Applications : starts[a].at = "off"
      BY StampNumbers DEF TsaInit, Off
    <3>2. server \in [by : Applications \cup {"none"}, key : Nat, cert : Nat, serial : Nat]
      BY DEF TsaInit, NoServer
    <3> QED
      BY <3>1, <3>2 DEF TsaInit, FileInv, Found
  <2>2. \A c \in DOMAIN OtherAuthorities : IsCredential(c)
    BY StampNumbers DEF TsaInit, IsCredential
  <2>3. StampInv
    BY <2>2 DEF TsaInit, StampInv, Running
  <2>4. AcceptInv
    BY DEF TsaInit, AcceptInv
  <2> QED
    BY <2>1, <2>3, <2>4
<1>2. FileInv /\ StampInv /\ AcceptInv /\ [TsaNext]_tsaVars => (FileInv /\ StampInv /\ AcceptInv)'
  <2> SUFFICES ASSUME FileInv, StampInv, AcceptInv, [TsaNext]_tsaVars
               PROVE  (FileInv /\ StampInv /\ AcceptInv)'
    OBVIOUS
  <2>1. CASE TsaNext
    BY <2>1, FilesKept, StampsKept, AcceptedKept
  <2>2. CASE UNCHANGED tsaVars
    <3>1. /\ certificates' = certificates /\ keyFile' = keyFile /\ certFile' = certFile
          /\ starts' = starts /\ server' = server /\ tsaClock' = tsaClock
          /\ tokens' = tokens /\ call' = call /\ calls' = calls /\ accepted' = accepted
      BY <2>2 DEF tsaVars, filesVars, serverVars, callVars
    <3> QED
      BY <3>1 DEF FileInv, StampInv, AcceptInv, Found, IsCredential, Running
  <2> QED
    BY <2>1, <2>2
<1> QED
  BY <1>1, <1>2, PTL DEF TsaSpec

(* A time-stamp answer that a verified or a trusted call accepts was made   *)
(* for that call, after it began, and for no other; a trusted one is from a *)
(* certificate for time stamps that was valid at both times                 *)
(* (request_timestamp_verified, request_timestamp_trusted).                 *)
THEOREM AnswersMatchTheirCalls == TsaSpec => []AcceptedAnswersItsCall
<1>1. StampInv /\ AcceptInv => AcceptedAnswersItsCall
  <2> SUFFICES ASSUME AcceptInv PROVE AcceptedAnswersItsCall
    OBVIOUS
  <2> SUFFICES ASSUME NEW a \in accepted, a.call.kind # "plain"
               PROVE  /\ a.token.hash = a.call.hash /\ a.call.began <= a.token.time
                      /\ \A b \in accepted : b.call.kind # "plain" /\ b # a => b.token # a.token
                      /\ a.call.kind = "trusted" =>
                           LET cert == certificates[a.token.cert]
                           IN  /\ cert.ca \in a.call.trusts /\ cert.timestamping
                               /\ a.token.key = a.token.cert
                               /\ {a.call.began, a.token.time} \subseteq cert.from .. cert.until
    BY DEF AcceptedAnswersItsCall
  <2>1. a.token.hash = a.call.hash /\ a.call.began <= a.token.time
    BY DEF AcceptInv
  <2>2. \A b \in accepted : b.call.kind # "plain" /\ b # a => b.token # a.token
    BY DEF AcceptInv
  <2> QED
    BY <2>1, <2>2 DEF AcceptInv
<1> QED
  BY <1>1, StampInvHolds, PTL

-----------------------------------------------------------------------------
(* ContainerResume: a completed container decrypts.                        *)

(* The buffers in the first k segments; where the k-th ends, with its tags. *)
BuffersBefore(size, k) == IF k * size <= Units THEN k * size ELSE Units
EndAt(size, k) == BuffersBefore(size, k) + k

LEMMA SegmentsAddUp ==
  ASSUME NEW size \in ChunkSizes, NEW k \in Nat, NEW p \in Nat, p = k * size
  PROVE  /\ SegmentCount(size) \in Nat \ {0}
         /\ k < SegmentCount(size) <=> p < Units
         /\ p < Units =>
              /\ BuffersBefore(size, k) = p /\ SegmentLength(size, k) \in Nat \ {0}
              /\ EndAt(size, k + 1) = EndAt(size, k) + SegmentLength(size, k) + 1
              /\ p + SegmentLength(size, k) <= Units
         /\ ~(p < Units) => BuffersBefore(size, k) = Units
         /\ BuffersBefore(size, k) \in Nat /\ EndAt(size, k) \in Nat
<1>1. size \in Nat \ {0} /\ Units \in Nat \ {0}
  BY SizesAssumption
<1> DEFINE n == SegmentCount(size)
<1>2. n \in Int /\ n * size <= Units + size - 1 /\ Units + size - 1 < n * size + size
  BY <1>1, SMTT(60) DEF SegmentCount
<1>3. (k + 1) * size = p + size
  BY <1>1, SMTT(60)
<1>4. n \in Nat \ {0}
  <2>1. n * size > 0
    BY <1>1, <1>2
  <2> QED
    BY <1>1, <1>2, <2>1, SMTT(60)
<1>5. ASSUME k < n PROVE p < Units
  <2>1. (k + 1) * size <= n * size
    BY <1>1, <1>4, <1>5, SMTT(60)
  <2> QED
    BY <1>1, <1>2, <1>3, <1>4, <2>1
<1>6. ASSUME ~(k < n) PROVE p >= Units
  <2>1. k * size >= n * size
    BY <1>1, <1>4, <1>6, SMTT(60)
  <2> QED
    BY <1>1, <1>2, <1>3, <1>4, <2>1
<1> HIDE DEF n
<1>7. k < SegmentCount(size) <=> p < Units
  <2>1. k < n <=> p < Units
    BY <1>1, <1>4, <1>5, <1>6
  <2> QED
    BY <2>1 DEF n
<1>8. BuffersBefore(size, k) = IF p <= Units THEN p ELSE Units
  BY DEF BuffersBefore
<1>9. BuffersBefore(size, k + 1) = IF p + size <= Units THEN p + size ELSE Units
  BY <1>3 DEF BuffersBefore
<1>10. SegmentLength(size, k) = IF p + size <= Units THEN size ELSE Units - p
  BY <1>3 DEF SegmentLength
<1>11. EndAt(size, k) = BuffersBefore(size, k) + k /\ EndAt(size, k + 1) = BuffersBefore(size, k + 1) + k + 1
  BY <1>1, <1>3, <1>9 DEF EndAt
<1>12. /\ p < Units =>
            /\ BuffersBefore(size, k) = p /\ SegmentLength(size, k) \in Nat \ {0}
            /\ EndAt(size, k + 1) = EndAt(size, k) + SegmentLength(size, k) + 1
            /\ p + SegmentLength(size, k) <= Units
       /\ ~(p < Units) => BuffersBefore(size, k) = Units
       /\ BuffersBefore(size, k) \in Nat /\ EndAt(size, k) \in Nat
  BY <1>1, <1>3, <1>8, <1>9, <1>10, <1>11
<1>14. SegmentCount(size) \in Nat \ {0}
  BY <1>4 DEF n
<1> QED
  BY <1>7, <1>12, <1>14

LEMMA EndsAreNumbers ==
  ASSUME NEW size \in ChunkSizes, NEW k \in Nat
  PROVE  k * size \in Nat /\ EndAt(size, k) \in Nat /\ SegmentCount(size) \in Nat \ {0}
<1>1. size \in Nat
  BY SizesAssumption
<1>2. PICK p \in Nat : p = k * size
  BY <1>1, SMTT(60)
<1> QED
  BY <1>2, SegmentsAddUp

LEMMA EndsGrow ==
  ASSUME NEW size \in ChunkSizes, NEW j \in Nat, NEW k \in Nat, j <= k
  PROVE  EndAt(size, j) <= EndAt(size, k)
<1>1. size \in Nat \ {0} /\ Units \in Nat \ {0}
  BY SizesAssumption
<1>2. j * size <= k * size /\ j * size \in Nat /\ k * size \in Nat
  BY <1>1, SMTT(60)
<1> DEFINE p == j * size
           q == k * size
<1> HIDE DEF p, q
<1>3. p <= q /\ p \in Nat /\ q \in Nat
  BY <1>2 DEF p, q
<1>4. /\ BuffersBefore(size, j) = IF p <= Units THEN p ELSE Units
      /\ BuffersBefore(size, k) = IF q <= Units THEN q ELSE Units
  BY DEF BuffersBefore, p, q
<1> QED
  BY <1>1, <1>3, <1>4 DEF EndAt

-----------------------------------------------------------------------------
Texts == Sources \X Nat \X Nat
Segments == [nonce : Nat, end : Nat]
Cells ==
  [kind : {"cipher"}, key : Nat, nonce : Nat, position : Nat, text : Texts]
    \cup [kind : {"tag"}, key : Nat, nonce : Nat]
    \cup [kind : {"metadata"}, segments : Seq(Segments), hash : Seq(Texts)]

(* What the lengths of finished segments are. *)
Shaped(segments, size) ==
  /\ segments \in Seq(Segments) /\ Len(segments) <= SegmentCount(size)
  /\ \A k \in 1 .. Len(segments) : segments[k].end = EndAt(size, k)

LEMMA WholeTextIsSequence ==
  ASSUME NEW s \in Sources, NEW v \in Nat
  PROVE  /\ WholeText(s, v) \in Seq(Texts) /\ Len(WholeText(s, v)) = Units
         /\ \A i \in 1 .. Units : WholeText(s, v)[i] = Text(s, v, i)
BY SizesAssumption DEF WholeText, Text, Texts

LEMMA ShapedEnds ==
  ASSUME NEW size \in ChunkSizes, NEW segments, Shaped(segments, size)
  PROVE  /\ EndOf(segments) = EndAt(size, Len(segments)) /\ Len(segments) \in Nat
         /\ \A k \in 1 .. Len(segments) :
              k - 1 \in Nat /\ StartOf(segments, k) = EndAt(size, k - 1)
<1>1. segments \in Seq(Segments) /\ Len(segments) \in Nat
  BY DEF Shaped
<1>2. EndAt(size, 0) = 0
  BY SizesAssumption DEF EndAt, BuffersBefore
<1>3. CASE segments = <<>>
  BY <1>1, <1>2, <1>3 DEF EndOf
<1>4. CASE segments # <<>>
  <2>1. Len(segments) \in 1 .. Len(segments)
    BY <1>1, <1>4
  <2>2. EndOf(segments) = EndAt(size, Len(segments))
    BY <1>4, <2>1 DEF EndOf, Shaped
  <2>3. ASSUME NEW k \in 1 .. Len(segments), k # 1
        PROVE  StartOf(segments, k) = EndAt(size, k - 1)
    <3>1. k - 1 \in 1 .. Len(segments)
      BY <1>1, <2>3
    <3> QED
      BY <2>3, <3>1 DEF StartOf, Shaped
  <2>4. \A k \in 1 .. Len(segments) : k - 1 \in Nat /\ (k = 1 => StartOf(segments, k) = EndAt(size, k - 1))
    BY <1>1, <1>2 DEF StartOf
  <2> QED
    BY <1>1, <2>2, <2>3, <2>4
<1> QED
  BY <1>3, <1>4

(* What lies behind the finished segments does not matter to them. *)
LEMMA SegmentsStay ==
  ASSUME NEW size \in ChunkSizes, NEW segments, Shaped(segments, size),
         NEW cells \in Seq(Cells), NEW other \in Seq(Cells), NEW key, NEW text,
         EndOf(segments) <= Len(other),
         \A i \in 1 .. EndOf(segments) : i \in 1 .. Len(cells) => other[i] = cells[i],
         SegmentsDecrypt(cells, segments, key, text)
  PROVE  SegmentsDecrypt(other, segments, key, text)
<1>1. SUFFICES ASSUME NEW k \in 1 .. Len(segments)
               PROVE  SegmentDecrypts(other, segments, k, key, text)
  BY DEF SegmentsDecrypt
<1>2. SegmentDecrypts(cells, segments, k, key, text)
  BY DEF SegmentsDecrypt
<1>3. /\ EndOf(segments) = EndAt(size, Len(segments)) /\ Len(segments) \in Nat /\ k \in Nat
      /\ k - 1 \in Nat /\ StartOf(segments, k) = EndAt(size, k - 1)
      /\ segments[k].end = EndAt(size, k)
  BY ShapedEnds DEF Shaped
<1>4. /\ EndAt(size, k) \in Nat /\ EndAt(size, k - 1) \in Nat /\ EndAt(size, Len(segments)) \in Nat
      /\ EndAt(size, k) <= EndAt(size, Len(segments))
  BY <1>3, EndsAreNumbers, EndsGrow
<1>5. segments[k].end \in 1 .. Len(cells) /\ segments[k].end \in 1 .. Len(other)
  BY <1>2, <1>3, <1>4 DEF SegmentDecrypts
<1>6. \A c \in StartOf(segments, k) + 1 .. segments[k].end : other[c] = cells[c]
  BY <1>3, <1>4, <1>5
<1>7. other[segments[k].end] = cells[segments[k].end]
  BY <1>3, <1>4, <1>5
<1>8. \A c \in StartOf(segments, k) + 1 .. segments[k].end - 1 : other[c] = cells[c]
  BY <1>3, <1>4, <1>6
<1> QED
  BY <1>2, <1>5, <1>7, <1>8 DEF SegmentDecrypts

LEMMA WritesOneCell ==
  ASSUME NEW cells \in Seq(Cells), NEW p \in Nat, p > 0, p <= Len(cells) + 1, NEW cell \in Cells
  PROVE  /\ WriteAt(cells, p, cell) \in Seq(Cells) /\ Len(WriteAt(cells, p, cell)) \in Nat
         /\ p <= Len(WriteAt(cells, p, cell)) /\ Len(cells) <= Len(WriteAt(cells, p, cell))
         /\ \A i \in 1 .. p : WriteAt(cells, p, cell)[i] = IF i = p THEN cell ELSE cells[i]
<1>1. PICK new : new = WriteAt(cells, p, cell)
  OBVIOUS
<1>2. Len(cells) \in Nat
  OBVIOUS
<1>3. /\ new \in Seq(Cells) /\ Len(new) \in Nat /\ p <= Len(new) /\ Len(cells) <= Len(new)
      /\ \A i \in 1 .. p : new[i] = IF i = p THEN cell ELSE cells[i]
  <2>1. CASE p <= Len(cells)
    <3>1. new = [cells EXCEPT ![p] = cell] /\ p \in 1 .. Len(cells)
      BY <1>1, <1>2, <2>1 DEF WriteAt
    <3> QED
      BY <1>2, <2>1, <3>1, ExceptSeq
  <2>2. CASE ~(p <= Len(cells))
    <3>1. new = Append(cells, cell) /\ p = Len(cells) + 1
      BY <1>1, <1>2, <2>2 DEF WriteAt
    <3>2. /\ new \in Seq(Cells) /\ Len(new) = p /\ new[p] = cell
          /\ \A i \in 1 .. Len(cells) : new[i] = cells[i]
      BY <1>2, <3>1, AppendProperties
    <3>3. \A i \in 1 .. p : i = p \/ i \in 1 .. Len(cells)
      BY <1>2, <3>1
    <3> QED
      BY <1>2, <3>1, <3>2, <3>3
  <2> QED
    BY <2>1, <2>2
<1> QED
  BY <1>1, <1>3

LEMMA SegmentAdded ==
  ASSUME NEW size \in ChunkSizes, NEW segments, Shaped(segments, size),
         NEW k \in Nat, k = Len(segments), k < SegmentCount(size),
         NEW nonce \in Nat, NEW end \in Nat, end = EndAt(size, k + 1)
  PROVE  LET more == Append(segments, Segment(nonce, end))
         IN  /\ Shaped(more, size) /\ Len(more) = k + 1 /\ EndOf(more) = end
             /\ more[k + 1].nonce = nonce /\ more[k + 1].end = end
             /\ StartOf(more, k + 1) = EndAt(size, k)
             /\ \A j \in 1 .. k : more[j] = segments[j]
<1>0. PICK more : more = Append(segments, Segment(nonce, end))
  OBVIOUS
<1>1. segments \in Seq(Segments) /\ SegmentCount(size) \in Nat /\ Segment(nonce, end) \in Segments
  BY EndsAreNumbers DEF Shaped, Segment, Segments
<1>2. PICK g \in Segments : g = Segment(nonce, end) /\ g.nonce = nonce /\ g.end = end
  BY <1>1 DEF Segment
<1>3. /\ more \in Seq(Segments) /\ Len(more) = k + 1 /\ more[k + 1] = g
      /\ \A j \in 1 .. k : more[j] = segments[j]
  BY <1>0, <1>1, <1>2, AppendProperties
<1>4. \A j \in 1 .. k + 1 : j = k + 1 \/ j \in 1 .. k
  OBVIOUS
<1>5. \A j \in 1 .. k + 1 : more[j].end = EndAt(size, j)
  BY <1>2, <1>3, <1>4 DEF Shaped
<1>6. k + 1 <= SegmentCount(size) /\ k + 1 \in 1 .. k + 1 /\ k + 1 \in Nat /\ (k + 1) - 1 = k
  BY <1>1
<1>7. Shaped(more, size)
  BY <1>3, <1>5, <1>6 DEF Shaped
<1>8. EndOf(more) = EndAt(size, k + 1) /\ StartOf(more, k + 1) = EndAt(size, k)
  <2>1. k + 1 \in 1 .. Len(more) /\ Len(more) = k + 1 /\ size \in ChunkSizes
    BY <1>3, <1>6
  <2>2. EndOf(more) = EndAt(size, Len(more)) /\ StartOf(more, k + 1) = EndAt(size, (k + 1) - 1)
    BY ONLY <1>7, <2>1, ShapedEnds
  <2> QED
    BY <1>3, <1>6, <2>2
<1>9. more[k + 1].nonce = nonce /\ more[k + 1].end = end /\ EndOf(more) = end
  BY <1>2, <1>3, <1>8
<1> QED
  BY <1>0, <1>3, <1>7, <1>8, <1>9

-----------------------------------------------------------------------------
(* The inductive invariant. *)
Bindings == [source : Sources, version : Nat]
Calls ==
  [stage : {"reading", "encrypting", "saving", "header", "removing"},
   binding : Bindings, size : ChunkSizes, segments : Seq(Segments), position : Nat,
   nonce : Nat, filled : Nat, fresh : BOOLEAN, hash : Seq(Texts)]
Progresses ==
  [present : {TRUE}, name : {NameOf[s] : s \in Sources}, size : ChunkSizes,
   binding : Bindings, key : Nat, segments : Seq(Segments)]
Sealings == [done : {TRUE}, binding : Bindings, steady : BOOLEAN]

ResumeTypes ==
  /\ version \in [Sources -> Nat] /\ session \in Nat /\ drawn \in Nat
  /\ container \in [present : BOOLEAN, header : Nat, cells : Seq(Cells)]
  /\ run \in Calls \cup {NotRunning}
  /\ progress \in Progresses \cup {NoProgress}
  /\ sealed \in Sealings \cup {NotSealed}

Steady(binding) == binding.version = version[binding.source]
Past(binding) == binding.version <= version[binding.source]
TextOf(binding) == WholeText(binding.source, binding.version)

InCall == run # NotRunning
WorkShape ==
  InCall =>
    /\ container.present /\ ~sealed.done /\ Past(run.binding)
    /\ Shaped(run.segments, run.size)
    /\ run.position <= Len(container.cells)
    /\ run.position = EndOf(run.segments) + (IF run.stage = "encrypting" THEN run.filled ELSE 0)
    /\ run.stage = "encrypting" =>
         Len(run.segments) < SegmentCount(run.size) /\ run.filled <= CurrentLength
    /\ run.stage \in {"header", "removing"} => Len(run.segments) = SegmentCount(run.size)

(* The place of the current segment's j-th buffer in the source. *)
Buffer(j) == EndOf(run.segments) - Len(run.segments) + j
WorkInv ==
  InCall /\ ~leftover /\ Steady(run.binding) =>
    /\ SegmentsDecrypt(container.cells, run.segments, session, TextOf(run.binding))
    /\ run.stage = "encrypting" =>
         \A j \in 1 .. run.filled :
           container.cells[EndOf(run.segments) + j] =
             Cipher(session, run.nonce, j, TextOf(run.binding)[Buffer(j)])
    /\ run.fresh => /\ Len(run.hash) = run.position - Len(run.segments)
                    /\ \A i \in 1 .. Len(run.hash) : run.hash[i] = TextOf(run.binding)[i]
    /\ ~run.fresh => run.hash = TextOf(run.binding)
    /\ run.stage \in {"header", "removing"} =>
         /\ run.position < Len(container.cells)
         /\ container.cells[Len(container.cells)] = Metadata(run.segments, run.hash)
    /\ run.stage = "removing" => container.header = Len(container.cells)

(* The progress file belongs to the call, or to what a call left. *)
ProgressInv ==
  progress # NoProgress =>
    /\ Shaped(progress.segments, progress.size) /\ Past(progress.binding) /\ progress.key <= session
    /\ InCall /\ ~leftover =>
         /\ progress.binding = run.binding /\ progress.key = session
         /\ Len(progress.segments) <= Len(run.segments)
         /\ \A k \in 1 .. Len(progress.segments) : progress.segments[k] = run.segments[k]
    /\ ~InCall /\ ~leftover /\ container.present /\ progress.key = session /\ Steady(progress.binding)
         => SegmentsDecrypt(container.cells, progress.segments, session, TextOf(progress.binding))

SealedInv ==
  sealed # NotSealed =>
    /\ ~InCall
    /\ sealed.steady /\ ~leftover => Decrypts(container, session, TextOf(sealed.binding))

ResumeInv == ResumeTypes /\ WorkShape /\ WorkInv /\ ProgressInv /\ SealedInv

(* A step within a call. *)
LEMMA CallGoesOn ==
  ASSUME ResumeInv, InCall, InCall', UNCHANGED <<version, session, sealed, leftover, progress>>,
         run'.binding = run.binding, Shaped(run.segments, run.size)',
         Len(run.segments) <= Len(run'.segments),
         \A k \in 1 .. Len(run.segments) : run'.segments[k] = run.segments[k]
  PROVE  ProgressInv' /\ SealedInv' /\ Past(run.binding)'
<1>1. sealed = NotSealed
  BY DEF ResumeInv, SealedInv
<1>2. Past(run.binding)'
  BY DEF ResumeInv, WorkShape, Past
<1>3. run.segments \in Seq(Segments) /\ Len(run.segments) \in Nat /\ Len(run'.segments) \in Nat
  BY DEF ResumeInv, WorkShape, Shaped
<1>4. ASSUME progress # NoProgress PROVE Len(progress.segments) \in Nat
  BY <1>4 DEF ResumeInv, ProgressInv, Shaped
<1>5. ProgressInv'
  BY <1>3, <1>4 DEF ResumeInv, ProgressInv, Past
<1> QED
  BY <1>1, <1>2, <1>5 DEF SealedInv

LEMMA CallFields ==
  ASSUME ResumeInv, InCall
  PROVE  /\ run \in Calls /\ run.size \in ChunkSizes /\ run.size \in Nat
         /\ run.binding.source \in Sources /\ run.binding.version \in Nat
         /\ run.filled \in Nat /\ run.nonce \in Nat /\ run.position \in Nat /\ session \in Nat
         /\ run.segments \in Seq(Segments) /\ run.hash \in Seq(Texts)
         /\ Shaped(run.segments, run.size) /\ Len(run.segments) \in Nat
         /\ EndOf(run.segments) = EndAt(run.size, Len(run.segments)) /\ EndOf(run.segments) \in Nat
         /\ container.cells \in Seq(Cells) /\ Len(container.cells) \in Nat
         /\ run.position <= Len(container.cells)
<1>1. run \in Calls /\ container \in [present : BOOLEAN, header : Nat, cells : Seq(Cells)]
      /\ session \in Nat
  BY DEF ResumeInv, ResumeTypes, InCall
<1>2. Shaped(run.segments, run.size) /\ run.position <= Len(container.cells)
  BY DEF ResumeInv, WorkShape
<1>3. run.size \in ChunkSizes /\ run.binding \in Bindings /\ run.segments \in Seq(Segments)
      /\ run.filled \in Nat /\ run.nonce \in Nat /\ run.position \in Nat /\ run.hash \in Seq(Texts)
  BY <1>1 DEF Calls
<1>4. container.cells \in Seq(Cells)
  BY <1>1
<1>5. run.size \in Nat
  BY <1>3, SizesAssumption
<1>6. Len(run.segments) \in Nat /\ EndOf(run.segments) = EndAt(run.size, Len(run.segments))
  BY <1>2, <1>3, ShapedEnds
<1>7. EndOf(run.segments) \in Nat
  BY <1>3, <1>6, EndsAreNumbers
<1> QED
  BY <1>1, <1>2, <1>3, <1>4, <1>5, <1>6, <1>7 DEF Bindings

LEMMA CallWritesCell ==
  ASSUME ResumeInv, InCall, NEW cell \in Cells, NEW pos \in Nat, pos = run.position,
         NEW p \in Nat, p = pos + 1
  PROVE  LET new == WriteAt(container.cells, p, cell)
         IN  /\ new \in Seq(Cells) /\ Len(new) \in Nat /\ p <= Len(new)
             /\ Len(container.cells) <= Len(new)
             /\ new[p] = cell /\ \A i \in 1 .. pos : new[i] = container.cells[i]
<1>1. PICK old \in Seq(Cells) : old = container.cells /\ pos <= Len(old)
  BY CallFields
<1>2. old \in Seq(Cells) /\ cell \in Cells /\ p \in Nat /\ p > 0 /\ p <= Len(old) + 1
  BY <1>1
<1>3. /\ WriteAt(old, p, cell) \in Seq(Cells) /\ Len(WriteAt(old, p, cell)) \in Nat
      /\ p <= Len(WriteAt(old, p, cell)) /\ Len(old) <= Len(WriteAt(old, p, cell))
      /\ \A i \in 1 .. p : WriteAt(old, p, cell)[i] = IF i = p THEN cell ELSE old[i]
  BY ONLY <1>2, WritesOneCell
<1>4. PICK new : new = WriteAt(old, p, cell)
  OBVIOUS
<1>5. p \in 1 .. p /\ \A i \in 1 .. pos : i \in 1 .. p /\ i # p
  OBVIOUS
<1>6. /\ new \in Seq(Cells) /\ Len(new) \in Nat /\ p <= Len(new) /\ Len(old) <= Len(new)
      /\ new[p] = cell /\ \A i \in 1 .. pos : new[i] = old[i]
  BY <1>3, <1>4, <1>5
<1> QED
  BY <1>1, <1>4, <1>6

LEMMA BeginSegmentKeeps ==
  ASSUME ResumeInv, BeginSegment
  PROVE  ResumeInv'
<1>1. /\ run.stage = "reading" /\ Remaining
      /\ drawn' = drawn + 1
      /\ run' = [run EXCEPT !.stage = "encrypting", !.nonce = drawn + 1, !.filled = 0]
      /\ UNCHANGED <<version, container, progress, session, sealed, leftover>>
  BY DEF BeginSegment
<1>2. InCall
  BY <1>1 DEF InCall, NotRunning
<1>3. drawn' \in Nat /\ drawn + 1 \in Nat
  BY <1>1 DEF ResumeInv, ResumeTypes
<1>4. /\ run' \in Calls /\ run'.stage = "encrypting" /\ run'.filled = 0 /\ run'.size = run.size
      /\ run'.segments = run.segments /\ run'.binding = run.binding /\ run'.hash = run.hash
      /\ run'.position = run.position
  BY <1>1, <1>2, <1>3, CallFields DEF Calls
<1>5. run'.fresh = run.fresh
  BY <1>1, <1>2, CallFields DEF Calls
<1>6. ResumeTypes'
  BY <1>1, <1>3, <1>4 DEF ResumeInv, ResumeTypes
<1>7. InCall'
  BY <1>4 DEF InCall, Calls, NotRunning
<1>8. Shaped(run.segments, run.size)'
  BY <1>2, <1>4, CallFields
<1>9. ProgressInv' /\ SealedInv' /\ Past(run.binding)'
  <2>1. /\ Len(run.segments) <= Len(run'.segments)
        /\ \A k \in 1 .. Len(run.segments) : run'.segments[k] = run.segments[k]
    BY <1>2, <1>4, CallFields
  <2> QED
    BY <1>1, <1>2, <1>4, <1>7, <1>8, <2>1, CallGoesOn
<1>10. WorkShape'
  <2>1. SegmentLength(run.size, Len(run.segments)) \in Nat /\ Len(run.segments) < SegmentCount(run.size)
    <3>1. PICK p \in Nat : p = Len(run.segments) * run.size
      BY <1>2, CallFields, EndsAreNumbers
    <3> QED
      BY <1>1, <1>2, <3>1, CallFields, SegmentsAddUp DEF Remaining
  <2>2. run.position = EndOf(run.segments) + 0 /\ container.present /\ ~sealed.done
    BY <1>1, <1>2, CallFields DEF ResumeInv, WorkShape
  <2> QED
    BY <1>1, <1>4, <1>8, <1>9, <2>1, <2>2, <1>2, CallFields DEF WorkShape, CurrentLength
<1>11. WorkInv'
  <2>1. /\ TextOf(run.binding)' = TextOf(run.binding)
        /\ Steady(run.binding)' = Steady(run.binding)
    BY <1>1, <1>4 DEF TextOf, Steady
  <2> QED
    BY <1>1, <1>2, <1>4, <1>5, <2>1 DEF ResumeInv, WorkInv
<1> QED
  BY <1>6, <1>9, <1>10, <1>11 DEF ResumeInv

LEMMA EncryptBufferKeeps ==
  ASSUME ResumeInv, EncryptBuffer
  PROVE  ResumeInv'
<1>1. InCall
  BY DEF EncryptBuffer, InCall, NotRunning
<1>2. PICK k \in Nat, e \in Nat, pos \in Nat, fill \in Nat :
        k = Len(run.segments) /\ e = EndOf(run.segments) /\ pos = run.position /\ fill = run.filled
  BY <1>1, CallFields
<1>3. PICK b \in Nat : b = k * run.size
  BY <1>1, <1>2, CallFields, EndsAreNumbers
<1>4. PICK p \in Nat, f \in Nat : p = pos + 1 /\ f = fill + 1
  BY <1>2
<1>N. /\ k \in Nat /\ e \in Nat /\ pos \in Nat /\ fill \in Nat /\ b \in Nat /\ p \in Nat
      /\ f \in Nat /\ p = pos + 1 /\ f = fill + 1
  BY <1>2, <1>3, <1>4
<1> DEFINE source == run.binding.source
           text == Text(source, version[source], b + f)
           cell == Cipher(session, run.nonce, f, text)
           new == WriteAt(container.cells, p, cell)
<1>5. /\ run.stage = "encrypting" /\ run.filled < CurrentLength
      /\ container' = [container EXCEPT !.cells = new]
      /\ run' = [run EXCEPT !.position = p, !.filled = f,
                            !.hash = IF run.fresh THEN Append(run.hash, text) ELSE run.hash]
      /\ UNCHANGED <<version, progress, session, drawn, sealed, leftover>>
  <2>1. Len(run.segments) * run.size + run.filled + 1 = b + f
    BY <1>2, <1>3, <1>4
  <2>2. run.filled + 1 = f /\ run.position + 1 = p
    BY <1>2, <1>4
  <2> QED
    BY <1>1, <2>1, <2>2, CallFields DEF EncryptBuffer
<1>6. /\ source \in Sources /\ run.nonce \in Nat /\ session \in Nat
      /\ container.cells \in Seq(Cells) /\ pos <= Len(container.cells)
      /\ run.hash \in Seq(Texts) /\ run \in Calls /\ run.size \in ChunkSizes
      /\ Shaped(run.segments, run.size) /\ Len(container.cells) \in Nat
  BY <1>1, <1>2, CallFields
<1>7. /\ fill < CurrentLength /\ CurrentLength \in Nat /\ b + CurrentLength <= Units
      /\ e = b + k /\ pos = e + fill
  <2>1. k < SegmentCount(run.size) /\ pos = e + fill
    BY <1>1, <1>2, <1>5 DEF ResumeInv, WorkShape
  <2>2. CurrentLength = SegmentLength(run.size, k) /\ e = EndAt(run.size, k)
    BY <1>1, <1>2, CallFields DEF CurrentLength
  <2>3. b < Units /\ BuffersBefore(run.size, k) = b /\ b + CurrentLength <= Units /\ CurrentLength \in Nat
    BY <1>2, <1>3, <1>6, <2>1, <2>2, SegmentsAddUp
  <2>4. e = b + k
    BY <2>2, <2>3 DEF EndAt
  <2>5. fill < CurrentLength
    BY <1>2, <1>5
  <2> QED
    BY <2>1, <2>3, <2>4, <2>5
<1>8. PICK c \in Nat : c = CurrentLength
  BY <1>7
<1>9. /\ f <= c /\ p = e + f /\ p - k = b + f /\ b + f \in 1 .. Units /\ e - k + f = b + f
      /\ e <= pos /\ pos < p /\ b + f \in Nat
  <2>1. fill < c /\ b + c <= Units /\ e = b + k /\ pos = e + fill
    BY <1>7, <1>8
  <2> QED
    BY <1>N, <1>8, <2>1, SizesAssumption
<1>10. text \in Texts /\ cell \in Cells
  <2>1. version[source] \in Nat
    BY <1>6 DEF ResumeInv, ResumeTypes
  <2>2. text \in Texts
    BY <1>6, <1>9, <2>1 DEF Text, Texts
  <2> QED
    BY <1>4, <1>6, <2>2 DEF Cipher, Cells
<1> HIDE DEF text, cell, source
<1>11. /\ new \in Seq(Cells) /\ Len(new) \in Nat /\ p <= Len(new)
       /\ Len(container.cells) <= Len(new)
       /\ new[p] = cell /\ \A i \in 1 .. pos : new[i] = container.cells[i]
  <2>1. PICK written \in Cells : written = cell
    BY <1>10
  <2> QED
    BY <1>1, <1>2, <1>4, <2>1, CallWritesCell
<1>12. (IF run.fresh THEN Append(run.hash, text) ELSE run.hash) \in Seq(Texts)
  BY <1>6, <1>10, AppendProperties
<1> HIDE DEF new
<1>13. PICK hash \in Seq(Texts) : hash = (IF run.fresh THEN Append(run.hash, text) ELSE run.hash)
  BY <1>12, Zenon
<1>14. run' = [run EXCEPT !.position = p, !.filled = f, !.hash = hash]
  BY <1>5, <1>13
<1>15. /\ run' \in Calls /\ run'.stage = "encrypting" /\ run'.filled = f /\ run'.size = run.size
       /\ run'.segments = run.segments /\ run'.binding = run.binding /\ run'.hash = hash
       /\ run'.position = p /\ run'.nonce = run.nonce
  BY <1>4, <1>5, <1>6, <1>13, <1>14 DEF Calls
<1>16. run'.fresh = run.fresh
  BY <1>6, <1>14 DEF Calls
<1>17. /\ container' \in [present : BOOLEAN, header : Nat, cells : Seq(Cells)]
       /\ container'.cells = new
  BY <1>5, <1>11 DEF ResumeInv, ResumeTypes
<1>18. container'.present = container.present
  BY <1>5 DEF ResumeInv, ResumeTypes
<1>19. ResumeTypes'
  BY <1>5, <1>15, <1>17 DEF ResumeInv, ResumeTypes
<1>20. InCall'
  BY <1>15 DEF InCall, Calls, NotRunning
<1>21. Shaped(run.segments, run.size)'
  BY <1>6, <1>15
<1>22. ProgressInv' /\ SealedInv' /\ Past(run.binding)'
  <2>1. /\ Len(run.segments) <= Len(run'.segments)
        /\ \A j \in 1 .. Len(run.segments) : run'.segments[j] = run.segments[j]
    BY <1>1, <1>15, CallFields
  <2> QED
    BY <1>1, <1>5, <1>15, <1>20, <1>21, <2>1, CallGoesOn
<1>23. WorkShape'
  <2>1. CurrentLength' = c
    BY <1>8, <1>15 DEF CurrentLength
  <2>2. Len(run.segments) < SegmentCount(run.size) /\ container.present /\ ~sealed.done
    BY <1>1, <1>5 DEF ResumeInv, WorkShape
  <2>3. container'.present /\ ~sealed'.done
    BY <1>5, <1>18, <2>2
  <2>4. p = EndOf(run'.segments) + f /\ p <= Len(container'.cells) /\ f <= CurrentLength'
    BY <1>2, <1>9, <1>11, <1>15, <1>17, <2>1
  <2> QED
    BY <1>15, <1>21, <1>22, <2>2, <2>3, <2>4 DEF WorkShape
<1>24. WorkInv'
  <2>1. /\ TextOf(run.binding)' = TextOf(run.binding)
        /\ Steady(run.binding)' = Steady(run.binding)
    BY <1>5, <1>15 DEF TextOf, Steady
  <2>2. SUFFICES ASSUME ~leftover, Steady(run.binding)
                 PROVE  /\ SegmentsDecrypt(new, run.segments, session, TextOf(run.binding))
                        /\ \A j \in 1 .. f : new[e + j] =
                             Cipher(session, run.nonce, j, TextOf(run.binding)[e - k + j])
                        /\ run.fresh => /\ Len(hash) = p - k
                                        /\ \A i \in 1 .. Len(hash) : hash[i] = TextOf(run.binding)[i]
                        /\ ~run.fresh => hash = TextOf(run.binding)
    BY SMTT(30), <1>2, <1>5, <1>15, <1>16, <1>17, <2>1 DEF WorkInv, Buffer
  <2>3. /\ SegmentsDecrypt(container.cells, run.segments, session, TextOf(run.binding))
        /\ \A j \in 1 .. fill :
             container.cells[e + j] =
               Cipher(session, run.nonce, j, TextOf(run.binding)[e - k + j])
        /\ run.fresh => /\ Len(run.hash) = pos - k
                        /\ \A i \in 1 .. Len(run.hash) : run.hash[i] = TextOf(run.binding)[i]
        /\ ~run.fresh => run.hash = TextOf(run.binding)
    BY <1>1, <1>2, <1>5, <2>2 DEF ResumeInv, WorkInv, Buffer
  <2>4. SegmentsDecrypt(new, run.segments, session, TextOf(run.binding))
    <3>1. e <= Len(new) /\ \A i \in 1 .. e : new[i] = container.cells[i]
      <4>1. PICK n \in Nat : n = Len(new) /\ p <= n
        BY <1>11
      <4>2. e \in Nat /\ pos \in Nat /\ p \in Nat /\ n \in Nat
        BY <1>2, <1>4, <4>1
      <4>3. e <= pos /\ pos < p /\ p <= n
        BY <1>9, <4>1
      <4>4. e <= n /\ \A i \in 1 .. e : i \in 1 .. pos
        BY ONLY <4>2, <4>3
      <4> QED
        BY <1>11, <4>1, <4>4
    <3> QED
      BY <1>2, <1>6, <1>11, <2>3, <3>1, SegmentsStay
  <2>5. text = TextOf(run.binding)[b + f]
    <3>1. version[source] = run.binding.version /\ run.binding.version \in Nat
      BY <1>1, <2>2, CallFields DEF Steady, source
    <3>2. TextOf(run.binding)[b + f] = Text(source, run.binding.version, b + f)
      BY <1>6, <1>9, <3>1, WholeTextIsSequence DEF TextOf, source
    <3> QED
      BY <3>1, <3>2 DEF text
  <2>6. \A j \in 1 .. f : new[e + j] =
          Cipher(session, run.nonce, j, TextOf(run.binding)[e - k + j])
    <3> SUFFICES ASSUME NEW j \in 1 .. f
                 PROVE  new[e + j] =
                          Cipher(session, run.nonce, j, TextOf(run.binding)[e - k + j])
      OBVIOUS
    <3>1. CASE j = f
      <4>1. e + j = p /\ e - k + j = b + f
        BY <1>9, <3>1
      <4> QED
        BY <1>11, <2>5, <3>1, <4>1 DEF cell
    <3>2. CASE j # f
      <4>1. j \in 1 .. fill /\ e + j \in 1 .. pos
        BY <1>N, <1>7, <3>2
      <4> QED
        BY <1>11, <2>3, <4>1
    <3> QED
      BY <3>1, <3>2
  <2>7. ASSUME run.fresh
        PROVE  Len(hash) = p - k /\ \A i \in 1 .. Len(hash) : hash[i] = TextOf(run.binding)[i]
    <3>1. hash = Append(run.hash, text) /\ Len(run.hash) = pos - k
      BY <1>13, <2>3, <2>7
    <3>2. PICK n \in Nat : n = Len(run.hash)
      BY <1>6
    <3>3. /\ Len(hash) = n + 1 /\ hash[n + 1] = text
          /\ \A i \in 1 .. n : hash[i] = run.hash[i]
      BY <1>6, <1>10, <3>1, <3>2, AppendProperties
    <3>4. n + 1 = p - k /\ n + 1 = b + f
      BY <1>2, <1>4, <1>9, <3>1, <3>2
    <3>5. \A i \in 1 .. n + 1 : i = n + 1 \/ i \in 1 .. n
      BY <3>2
    <3>6. \A i \in 1 .. n : hash[i] = TextOf(run.binding)[i]
      BY <2>3, <2>7, <3>2, <3>3
    <3>7. hash[n + 1] = TextOf(run.binding)[n + 1]
      BY <2>5, <3>3, <3>4
    <3> QED
      BY <3>3, <3>4, <3>5, <3>6, <3>7
  <2>8. ~run.fresh => hash = TextOf(run.binding)
    BY <1>13, <2>3
  <2> QED
    BY <2>4, <2>6, <2>7, <2>8
<1> QED
  BY <1>19, <1>22, <1>23, <1>24 DEF ResumeInv

LEMMA WriteTagKeeps ==
  ASSUME ResumeInv, WriteTag
  PROVE  ResumeInv'
<1>1. InCall
  BY DEF WriteTag, InCall, NotRunning
<1>2. PICK k \in Nat, e \in Nat, pos \in Nat, c \in Nat, nonce \in Nat :
        /\ k = Len(run.segments) /\ e = EndOf(run.segments) /\ pos = run.position
        /\ c = run.filled /\ nonce = run.nonce
  BY <1>1, CallFields
<1>3. PICK p \in Nat : p = pos + 1
  BY <1>2
<1>4. Tag(session, nonce) \in Cells
  <2>1. session \in Nat
    BY <1>1, CallFields
  <2> QED
    BY <1>2, <2>1 DEF Tag, Cells
<1>5. PICK tag \in Cells : tag = Tag(session, nonce)
  BY <1>4
<1>6. PICK new : new = WriteAt(container.cells, p, tag)
  OBVIOUS
<1>7. PICK more : more = Append(run.segments, Segment(nonce, p))
  OBVIOUS
<1>8. /\ run.stage = "encrypting" /\ c = CurrentLength
      /\ container' = [container EXCEPT !.cells = new]
      /\ run' = [run EXCEPT !.stage = "saving", !.position = p, !.segments = more]
      /\ UNCHANGED <<version, progress, session, drawn, sealed, leftover>>
  BY <1>1, <1>2, <1>3, <1>5, <1>6, <1>7, CallFields DEF WriteTag
<1>9. /\ new \in Seq(Cells) /\ Len(new) \in Nat /\ p <= Len(new)
      /\ new[p] = tag /\ \A i \in 1 .. pos : new[i] = container.cells[i]
  <2>1. pos \in Nat /\ pos = run.position /\ p \in Nat /\ p = pos + 1 /\ tag \in Cells
    BY <1>2, <1>3, <1>5
  <2> QED
    <3> DEFINE w == WriteAt(container.cells, p, tag)
    <3>1. /\ w \in Seq(Cells) /\ Len(w) \in Nat /\ p <= Len(w)
          /\ w[p] = tag /\ \A i \in 1 .. pos : w[i] = container.cells[i]
      BY <1>1, <2>1, CallWritesCell
    <3> QED
      BY <1>6, <3>1
<1>10. /\ k < SegmentCount(run.size) /\ pos = e + c /\ run.size \in ChunkSizes
       /\ Shaped(run.segments, run.size) /\ e = EndAt(run.size, k)
  BY <1>1, <1>2, <1>8, CallFields DEF ResumeInv, WorkShape
<1>11. PICK b \in Nat : b = k * run.size
  BY <1>2, <1>10, EndsAreNumbers
<1>12. /\ e = b + k /\ EndAt(run.size, k + 1) = e + c + 1
  <2>1. CurrentLength = SegmentLength(run.size, k)
    BY <1>2 DEF CurrentLength
  <2> QED
    BY <1>2, <1>8, <1>10, <1>11, <2>1, SegmentsAddUp DEF EndAt
<1>13. /\ k \in Nat /\ e \in Nat /\ pos \in Nat /\ c \in Nat /\ p \in Nat /\ b \in Nat
       /\ p = e + c + 1 /\ pos = e + c /\ e = b + k /\ p > e
  BY <1>2, <1>3, <1>10, <1>11, <1>12
<1>14. /\ Shaped(more, run.size) /\ Len(more) = k + 1 /\ EndOf(more) = p
       /\ more[k + 1].nonce = nonce /\ more[k + 1].end = p
       /\ StartOf(more, k + 1) = e
       /\ \A j \in 1 .. k : more[j] = run.segments[j]
  <2>1. p = EndAt(run.size, k + 1) /\ k = Len(run.segments) /\ nonce \in Nat
    BY <1>2, <1>12, <1>13
  <2>2. k \in Nat /\ p \in Nat /\ k < SegmentCount(run.size) /\ run.size \in ChunkSizes
        /\ Shaped(run.segments, run.size)
    BY <1>10, <1>13
  <2> DEFINE grown == Append(run.segments, Segment(nonce, p))
  <2>3. /\ Shaped(grown, run.size) /\ Len(grown) = k + 1 /\ EndOf(grown) = p
        /\ grown[k + 1].nonce = nonce /\ grown[k + 1].end = p
        /\ StartOf(grown, k + 1) = EndAt(run.size, k)
        /\ \A j \in 1 .. k : grown[j] = run.segments[j]
    BY ONLY <2>1, <2>2, SegmentAdded
  <2> QED
    BY <1>7, <1>10, <2>3
<1>15. /\ run' \in Calls /\ run'.stage = "saving" /\ run'.size = run.size
       /\ run'.segments = more /\ run'.binding = run.binding /\ run'.hash = run.hash
       /\ run'.position = p /\ run'.filled = run.filled
  <2>1. more \in Seq(Segments) /\ run \in Calls
    BY <1>1, <1>14, CallFields DEF Shaped
  <2> QED
    BY <1>8, <1>13, <2>1 DEF Calls
<1>16. run'.fresh = run.fresh
  BY <1>1, <1>8, CallFields DEF Calls
<1>17. /\ container' \in [present : BOOLEAN, header : Nat, cells : Seq(Cells)]
       /\ container'.cells = new
  BY <1>8, <1>9 DEF ResumeInv, ResumeTypes
<1>18. container'.present = container.present
  BY <1>8 DEF ResumeInv, ResumeTypes
<1>19. ResumeTypes'
  BY <1>8, <1>15, <1>17 DEF ResumeInv, ResumeTypes
<1>20. InCall'
  BY <1>15 DEF InCall, Calls, NotRunning
<1>21. ProgressInv' /\ SealedInv' /\ Past(run.binding)'
  <2>1. /\ Len(run.segments) <= Len(run'.segments)
        /\ \A j \in 1 .. Len(run.segments) : run'.segments[j] = run.segments[j]
    BY <1>2, <1>14, <1>15
  <2> QED
    BY <1>1, <1>8, <1>14, <1>15, <1>20, <2>1, CallGoesOn
<1>22. WorkShape'
  <2>1. container.present /\ ~sealed.done
    BY <1>1 DEF ResumeInv, WorkShape
  <2>2. container'.present /\ ~sealed'.done
    BY <1>8, <1>18, <2>1
  <2>3. p = EndOf(run'.segments) + 0 /\ p <= Len(container'.cells)
    BY <1>9, <1>13, <1>14, <1>15, <1>17
  <2> QED
    BY <1>14, <1>15, <1>21, <2>2, <2>3 DEF WorkShape
<1>23. WorkInv'
  <2>1. /\ TextOf(run.binding)' = TextOf(run.binding)
        /\ Steady(run.binding)' = Steady(run.binding)
    BY <1>8, <1>15 DEF TextOf, Steady
  <2>2. SUFFICES ASSUME ~leftover, Steady(run.binding)
                 PROVE  /\ SegmentsDecrypt(new, more, session, TextOf(run.binding))
                        /\ run.fresh => /\ Len(run.hash) = p - (k + 1)
                                        /\ \A i \in 1 .. Len(run.hash) : run.hash[i] = TextOf(run.binding)[i]
                        /\ ~run.fresh => run.hash = TextOf(run.binding)
    BY <1>8, <1>14, <1>15, <1>16, <1>17, <2>1 DEF WorkInv
  <2>3. /\ SegmentsDecrypt(container.cells, run.segments, session, TextOf(run.binding))
        /\ \A j \in 1 .. c :
             container.cells[e + j] =
               Cipher(session, nonce, j, TextOf(run.binding)[e - k + j])
        /\ run.fresh => /\ Len(run.hash) = pos - k
                        /\ \A i \in 1 .. Len(run.hash) : run.hash[i] = TextOf(run.binding)[i]
        /\ ~run.fresh => run.hash = TextOf(run.binding)
    BY <1>1, <1>2, <1>8, <2>2 DEF ResumeInv, WorkInv, Buffer
  <2>4. SegmentsDecrypt(new, run.segments, session, TextOf(run.binding))
    <3>1. e <= Len(new) /\ \A i \in 1 .. e : new[i] = container.cells[i]
      BY <1>9, <1>13
    <3> QED
      BY <1>1, <1>2, <1>9, <1>10, <2>3, <3>1, SegmentsStay, CallFields
  <2>5. SegmentDecrypts(new, more, k + 1, session, TextOf(run.binding))
    <3>1. /\ p \in 1 .. Len(new) /\ new[p] = Tag(session, nonce)
      BY <1>5, <1>9, <1>13
    <3>2. \A i \in e + 1 .. p - 1 :
            new[i] = Cipher(session, nonce, i - e, TextOf(run.binding)[i - ((k + 1) - 1)])
      <4> SUFFICES ASSUME NEW i \in e + 1 .. p - 1
                   PROVE  new[i] = Cipher(session, nonce, i - e, TextOf(run.binding)[i - ((k + 1) - 1)])
        OBVIOUS
      <4>1. PICK j \in 1 .. c : i = e + j
        <5>1. i - e \in 1 .. c /\ i = e + (i - e)
          BY <1>13
        <5> QED
          BY <5>1
      <4>2. i - e = j /\ i - ((k + 1) - 1) = e - k + j /\ i \in 1 .. pos
        BY <1>13, <4>1
      <4> QED
        BY <1>9, <2>3, <4>1, <4>2
    <3> QED
      BY <1>14, <3>1, <3>2 DEF SegmentDecrypts
  <2>6. \A j \in 1 .. k + 1 : j = k + 1 \/ j \in 1 .. k
    BY <1>13
  <2>7. ASSUME NEW j \in 1 .. k PROVE SegmentDecrypts(new, more, j, session, TextOf(run.binding))
    <3>1. SegmentDecrypts(new, run.segments, j, session, TextOf(run.binding))
      BY <1>2, <2>4 DEF SegmentsDecrypt
    <3>2. more[j] = run.segments[j]
      BY <1>14
    <3>3. StartOf(more, j) = StartOf(run.segments, j)
      <4>1. j # 1 => j - 1 \in 1 .. k
        BY <1>13
      <4> QED
        BY <1>14, <4>1 DEF StartOf
    <3> QED
      BY <3>1, <3>2, <3>3 DEF SegmentDecrypts
  <2>8. SegmentsDecrypt(new, more, session, TextOf(run.binding))
    BY <1>14, <2>5, <2>6, <2>7 DEF SegmentsDecrypt
  <2>9. p - (k + 1) = pos - k
    BY <1>13
  <2> QED
    BY <2>3, <2>8, <2>9
<1> QED
  BY <1>19, <1>21, <1>22, <1>23 DEF ResumeInv

LEMMA SaveProgressKeeps ==
  ASSUME ResumeInv, SaveProgress
  PROVE  ResumeInv'
<1>1. InCall
  BY DEF SaveProgress, InCall, NotRunning
<1>2. /\ run.stage = "saving"
      /\ progress' = [present |-> TRUE, name |-> NameOf[run.binding.source],
                      size |-> run.size, binding |-> run.binding,
                      key |-> session, segments |-> run.segments]
      /\ run' = [run EXCEPT !.stage = "reading"]
      /\ UNCHANGED <<version, container, session, drawn, sealed, leftover>>
  BY DEF SaveProgress
<1>3. /\ run' \in Calls /\ run'.stage = "reading" /\ run'.size = run.size
      /\ run'.segments = run.segments /\ run'.binding = run.binding /\ run'.hash = run.hash
      /\ run'.position = run.position /\ run'.filled = run.filled
  BY <1>1, <1>2, CallFields DEF Calls
<1>4. run'.fresh = run.fresh
  BY <1>1, <1>2, CallFields DEF Calls
<1>5. /\ progress'.binding = run.binding /\ progress'.key = session /\ progress'.size = run.size
      /\ progress'.segments = run.segments
  BY <1>2
<1>6. progress' \in Progresses
  <2>1. run.binding \in Bindings /\ run.binding.source \in Sources
    BY <1>1, CallFields DEF Calls
  <2> QED
    BY <1>1, <1>2, <2>1, CallFields DEF Progresses
<1>7. InCall'
  BY <1>3 DEF InCall, Calls, NotRunning
<1>8. ResumeTypes'
  BY <1>2, <1>3, <1>6 DEF ResumeInv, ResumeTypes
<1>9. WorkShape'
  <2>1. /\ container.present /\ ~sealed.done /\ Past(run.binding)
        /\ Shaped(run.segments, run.size) /\ run.position <= Len(container.cells)
        /\ run.position = EndOf(run.segments) + 0
    BY <1>1, <1>2 DEF ResumeInv, WorkShape
  <2> QED
    BY <1>2, <1>3, <2>1 DEF WorkShape, Past
<1>10. WorkInv'
  <2>1. /\ TextOf(run.binding)' = TextOf(run.binding)
        /\ Steady(run.binding)' = Steady(run.binding)
    BY <1>2, <1>3 DEF TextOf, Steady
  <2> QED
    BY <1>1, <1>2, <1>3, <1>4, <2>1 DEF ResumeInv, WorkInv
<1>11. ProgressInv'
  <2>1. Shaped(run.segments, run.size) /\ Past(run.binding)
    BY <1>1 DEF ResumeInv, WorkShape
  <2>2. session <= session /\ Len(run.segments) <= Len(run.segments)
    BY <1>1, CallFields
  <2>3. Past(progress.binding)' /\ progress'.key <= session' /\ Shaped(progress.segments, progress.size)'
    BY <1>2, <1>5, <2>1, <2>2 DEF Past
  <2> QED
    BY <1>2, <1>3, <1>5, <1>7, <2>2, <2>3 DEF ProgressInv
<1>12. SealedInv'
  <2>1. sealed = NotSealed
    BY <1>1 DEF ResumeInv, SealedInv
  <2> QED
    BY <1>2, <2>1 DEF SealedInv
<1> QED
  BY <1>8, <1>9, <1>10, <1>11, <1>12 DEF ResumeInv

LEMMA AppendMetadataKeeps ==
  ASSUME ResumeInv, AppendMetadata
  PROVE  ResumeInv'
<1>1. InCall
  BY DEF AppendMetadata, InCall, NotRunning
<1>2. PICK old \in Seq(Cells) : old = container.cells
  BY <1>1, CallFields
<1>3. Metadata(run.segments, run.hash) \in Cells
  BY <1>1, CallFields DEF Metadata, Cells
<1>4. PICK m \in Cells : m = Metadata(run.segments, run.hash)
  BY <1>3
<1>5. PICK new : new = Append(old, m)
  OBVIOUS
<1>6. /\ new \in Seq(Cells) /\ Len(new) = Len(old) + 1 /\ new[Len(old) + 1] = m
      /\ \A i \in 1 .. Len(old) : new[i] = old[i]
      /\ Len(old) \in Nat
  BY <1>2, <1>4, <1>5, AppendProperties
<1>7. /\ run.stage = "reading" /\ ~Remaining
      /\ container' = [container EXCEPT !.cells = new]
      /\ run' = [run EXCEPT !.stage = "header"]
      /\ UNCHANGED <<version, progress, session, drawn, sealed, leftover>>
  BY <1>2, <1>4, <1>5 DEF AppendMetadata
<1>8. /\ run' \in Calls /\ run'.stage = "header" /\ run'.size = run.size
      /\ run'.segments = run.segments /\ run'.binding = run.binding /\ run'.hash = run.hash
      /\ run'.position = run.position /\ run'.filled = run.filled
  BY <1>1, <1>7, CallFields DEF Calls
<1>9. run'.fresh = run.fresh
  BY <1>1, <1>7, CallFields DEF Calls
<1>10. /\ container' \in [present : BOOLEAN, header : Nat, cells : Seq(Cells)]
       /\ container'.cells = new
  BY <1>6, <1>7 DEF ResumeInv, ResumeTypes
<1>11. container'.present = container.present
  BY <1>7 DEF ResumeInv, ResumeTypes
<1>12. ResumeTypes'
  BY <1>7, <1>8, <1>10 DEF ResumeInv, ResumeTypes
<1>13. InCall'
  BY <1>8 DEF InCall, Calls, NotRunning
<1>14. Shaped(run.segments, run.size)'
  BY <1>1, <1>8, CallFields
<1>15. ProgressInv' /\ SealedInv' /\ Past(run.binding)'
  <2>1. /\ Len(run.segments) <= Len(run'.segments)
        /\ \A j \in 1 .. Len(run.segments) : run'.segments[j] = run.segments[j]
    BY <1>1, <1>8, CallFields
  <2> QED
    BY <1>1, <1>7, <1>8, <1>13, <1>14, <2>1, CallGoesOn
<1>16. PICK pos \in Nat, n \in Nat : pos = run.position /\ n = Len(new) /\ pos < n
       /\ n = Len(old) + 1 /\ pos <= Len(old)
  <2>1. run.position \in Nat /\ run.position <= Len(old) /\ Len(new) = Len(old) + 1 /\ Len(old) \in Nat
    BY <1>1, <1>2, <1>6, CallFields
  <2> QED
    BY <2>1
<1>17. WorkShape'
  <2>1. /\ container.present /\ ~sealed.done
        /\ run.position = EndOf(run.segments) + 0
    BY <1>1, <1>7 DEF ResumeInv, WorkShape
  <2>2. container'.present /\ ~sealed'.done
    BY <1>7, <1>11, <2>1
  <2>3. Len(run.segments) = SegmentCount(run.size)
    <3>1. Len(run.segments) \in Nat /\ Len(run.segments) <= SegmentCount(run.size)
          /\ SegmentCount(run.size) \in Nat /\ ~(Len(run.segments) < SegmentCount(run.size))
      BY <1>1, <1>7, CallFields, EndsAreNumbers DEF Shaped, Remaining
    <3> QED
      BY <3>1
  <2>4. run'.position <= Len(container'.cells)
    BY <1>8, <1>10, <1>16
  <2> QED
    BY <1>8, <1>14, <1>15, <2>1, <2>2, <2>3, <2>4 DEF WorkShape
<1>18. WorkInv'
  <2>1. /\ TextOf(run.binding)' = TextOf(run.binding)
        /\ Steady(run.binding)' = Steady(run.binding)
    BY <1>7, <1>8 DEF TextOf, Steady
  <2>2. SUFFICES ASSUME ~leftover, Steady(run.binding)
                 PROVE  /\ SegmentsDecrypt(new, run.segments, session, TextOf(run.binding))
                        /\ run.fresh => /\ Len(run.hash) = run.position - Len(run.segments)
                                        /\ \A i \in 1 .. Len(run.hash) : run.hash[i] = TextOf(run.binding)[i]
                        /\ ~run.fresh => run.hash = TextOf(run.binding)
                        /\ run.position < Len(new)
                        /\ new[Len(new)] = Metadata(run.segments, run.hash)
    BY <1>7, <1>8, <1>9, <1>10, <2>1 DEF WorkInv
  <2>3. /\ SegmentsDecrypt(old, run.segments, session, TextOf(run.binding))
        /\ run.fresh => /\ Len(run.hash) = run.position - Len(run.segments)
                        /\ \A i \in 1 .. Len(run.hash) : run.hash[i] = TextOf(run.binding)[i]
        /\ ~run.fresh => run.hash = TextOf(run.binding)
    BY <1>1, <1>2, <1>7, <2>2 DEF ResumeInv, WorkInv
  <2>6. run.position < Len(new)
    BY <1>16
  <2>4. EndOf(run.segments) = pos /\ Shaped(run.segments, run.size) /\ run.size \in ChunkSizes
    <3>1. run.position = EndOf(run.segments) + 0 /\ EndOf(run.segments) \in Nat
      BY <1>1, <1>7, CallFields DEF ResumeInv, WorkShape
    <3> QED
      BY <1>1, <1>16, <3>1, CallFields
  <2>5. SegmentsDecrypt(new, run.segments, session, TextOf(run.binding))
    <3>1. EndOf(run.segments) <= Len(new) /\ \A i \in 1 .. EndOf(run.segments) : new[i] = old[i]
      BY <1>6, <1>16, <2>4
    <3> QED
      BY <1>2, <1>6, <2>3, <2>4, <3>1, SegmentsStay
  <2> QED
    BY <1>4, <1>6, <2>3, <2>5, <2>6
<1> QED
  BY <1>12, <1>15, <1>17, <1>18 DEF ResumeInv

LEMMA FillHeaderKeeps ==
  ASSUME ResumeInv, FillHeader
  PROVE  ResumeInv'
<1>1. InCall
  BY DEF FillHeader, InCall, NotRunning
<1>2. PICK n \in Nat : n = Len(container.cells)
  BY <1>1, CallFields
<1>3. /\ run.stage = "header"
      /\ container' = [container EXCEPT !.header = n]
      /\ run' = [run EXCEPT !.stage = "removing"]
      /\ UNCHANGED <<version, progress, session, drawn, sealed, leftover>>
  BY <1>2 DEF FillHeader
<1>4. /\ run' \in Calls /\ run'.stage = "removing" /\ run'.size = run.size
      /\ run'.segments = run.segments /\ run'.binding = run.binding /\ run'.hash = run.hash
      /\ run'.position = run.position /\ run'.filled = run.filled
  BY <1>1, <1>3, CallFields DEF Calls
<1>5. run'.fresh = run.fresh
  BY <1>1, <1>3, CallFields DEF Calls
<1>6. /\ container' \in [present : BOOLEAN, header : Nat, cells : Seq(Cells)]
      /\ container'.cells = container.cells /\ container'.header = n
  BY <1>2, <1>3 DEF ResumeInv, ResumeTypes
<1>7. container'.present = container.present
  BY <1>3 DEF ResumeInv, ResumeTypes
<1>8. ResumeTypes'
  BY <1>3, <1>4, <1>6 DEF ResumeInv, ResumeTypes
<1>9. InCall'
  BY <1>4 DEF InCall, Calls, NotRunning
<1>10. Shaped(run.segments, run.size)'
  BY <1>1, <1>4, CallFields
<1>11. ProgressInv' /\ SealedInv' /\ Past(run.binding)'
  <2>1. /\ Len(run.segments) <= Len(run'.segments)
        /\ \A j \in 1 .. Len(run.segments) : run'.segments[j] = run.segments[j]
    BY <1>1, <1>4, CallFields
  <2> QED
    BY <1>1, <1>3, <1>4, <1>9, <1>10, <2>1, CallGoesOn
<1>12. WorkShape'
  <2>1. /\ container.present /\ ~sealed.done
        /\ run.position = EndOf(run.segments) + 0 /\ run.position <= Len(container.cells)
        /\ Len(run.segments) = SegmentCount(run.size)
    BY <1>1, <1>3 DEF ResumeInv, WorkShape
  <2>2. container'.present /\ ~sealed'.done
    BY <1>3, <1>7, <2>1
  <2> QED
    BY <1>4, <1>6, <1>10, <1>11, <2>1, <2>2 DEF WorkShape
<1>13. WorkInv'
  <2>1. /\ TextOf(run.binding)' = TextOf(run.binding)
        /\ Steady(run.binding)' = Steady(run.binding)
    BY <1>3, <1>4 DEF TextOf, Steady
  <2> QED
    BY <1>1, <1>2, <1>3, <1>4, <1>5, <1>6, <2>1 DEF ResumeInv, WorkInv
<1> QED
  BY <1>8, <1>11, <1>12, <1>13 DEF ResumeInv

LEMMA ReturnKeeps ==
  ASSUME ResumeInv, Return
  PROVE  ResumeInv'
<1>1. InCall
  BY DEF Return, InCall, NotRunning
<1>2. /\ run.stage = "removing" /\ progress' = NoProgress /\ run' = NotRunning
      /\ sealed' = [done |-> TRUE, binding |-> run.binding,
                    steady |-> run.binding = Binding(run.binding.source)]
      /\ UNCHANGED <<version, container, session, drawn, leftover>>
  BY DEF Return
<1>3. run.binding \in Bindings /\ run.binding.source \in Sources /\ run.size \in ChunkSizes
      /\ run.binding.version \in Nat
  BY <1>1, CallFields DEF Calls
<1>4. PICK steady \in BOOLEAN : steady <=> run.binding = Binding(run.binding.source)
  OBVIOUS
<1>5. sealed' = [done |-> TRUE, binding |-> run.binding, steady |-> steady]
  BY <1>2, <1>4
<1>6. sealed' \in Sealings
  BY <1>3, <1>4, <1>5 DEF Sealings
<1>7. sealed'.steady => Steady(run.binding)
  <2>1. sealed'.steady => run.binding = Binding(run.binding.source)
    BY <1>4, <1>5
  <2> QED
    BY <2>1 DEF Steady, Binding
<1>8. sealed'.binding = run.binding
  BY <1>5
<1>9. ResumeTypes'
  BY <1>2, <1>6 DEF ResumeInv, ResumeTypes
<1>10. ~InCall'
  BY <1>2 DEF InCall
<1>11. ASSUME Steady(run.binding), ~leftover
       PROVE  Decrypts(container, session, TextOf(run.binding))
  <2>1. PICK k \in Nat, e \in Nat, n \in Nat, pos \in Nat :
          /\ k = Len(run.segments) /\ e = EndOf(run.segments) /\ n = Len(container.cells)
          /\ pos = run.position
    BY <1>1, CallFields
  <2>2. /\ container.present /\ k = SegmentCount(run.size) /\ pos = e /\ e = EndAt(run.size, k)
    <3>1. container.present /\ Len(run.segments) = SegmentCount(run.size)
          /\ run.position = EndOf(run.segments) + 0
      BY <1>1, <1>2 DEF ResumeInv, WorkShape
    <3> QED
      BY <1>1, <2>1, <3>1, CallFields
  <2>3. /\ SegmentsDecrypt(container.cells, run.segments, session, TextOf(run.binding))
        /\ run.fresh => /\ Len(run.hash) = pos - k
                        /\ \A i \in 1 .. Len(run.hash) : run.hash[i] = TextOf(run.binding)[i]
        /\ ~run.fresh => run.hash = TextOf(run.binding)
        /\ pos < n
        /\ container.cells[n] = Metadata(run.segments, run.hash)
        /\ container.header = n
    BY <1>1, <1>2, <1>11, <2>1 DEF ResumeInv, WorkInv
  <2>4. e - k = Units
    <3>1. PICK b \in Nat : b = k * run.size
      BY <1>3, <2>1, EndsAreNumbers
    <3>2. ~(k < SegmentCount(run.size))
      BY <2>1, <2>2
    <3>3. BuffersBefore(run.size, k) = Units
      BY <1>3, <2>1, <3>1, <3>2, SegmentsAddUp
    <3>4. e = BuffersBefore(run.size, k) + k
      BY <2>2 DEF EndAt
    <3> QED
      BY <2>1, <3>3, <3>4, SizesAssumption
  <2>5. /\ TextOf(run.binding) \in Seq(Texts) /\ Len(TextOf(run.binding)) = Units
    BY <1>3, WholeTextIsSequence DEF TextOf
  <2>6. run.hash = TextOf(run.binding)
    <3>1. CASE run.fresh
      <4>1. Len(run.hash) = Units /\ run.hash \in Seq(Texts)
        BY <1>1, <2>2, <2>3, <2>4, <3>1, CallFields
      <4> QED
        BY <2>3, <2>5, <3>1, <4>1, SeqEqual
    <3> QED
      BY <2>3, <3>1
  <2>7. n > 0
    BY <2>1, <2>3
  <2>8. /\ container.cells[n].kind = "metadata" /\ container.cells[n].hash = run.hash
        /\ container.cells[n].segments = run.segments
    BY <2>3 DEF Metadata
  <2>9. EndOf(run.segments) - Len(run.segments) = Len(TextOf(run.binding))
    BY <2>1, <2>4, <2>5
  <2> QED
    BY <2>1, <2>2, <2>3, <2>6, <2>7, <2>8, <2>9 DEF Decrypts
<1>12. SealedInv'
  <2>1. UNCHANGED <<container, session, leftover>> /\ TextOf(sealed.binding)' = TextOf(run.binding)
    BY <1>2, <1>8 DEF TextOf
  <2> QED
    BY <1>7, <1>10, <1>11, <2>1 DEF SealedInv
<1>13. ProgressInv' /\ WorkShape' /\ WorkInv'
  BY <1>2, <1>10 DEF ProgressInv, WorkShape, WorkInv
<1> QED
  BY <1>9, <1>12, <1>13 DEF ResumeInv

(* What a call that ends without a result leaves. *)
LEMMA CallStops ==
  ASSUME ResumeInv, InCall, ~leftover, container.present, progress # NoProgress,
         Steady(progress.binding)
  PROVE  SegmentsDecrypt(container.cells, progress.segments, session, TextOf(progress.binding))
<1>1. /\ progress.binding = run.binding
      /\ Len(progress.segments) <= Len(run.segments) /\ Len(progress.segments) \in Nat
      /\ \A k \in 1 .. Len(progress.segments) : progress.segments[k] = run.segments[k]
  BY DEF ResumeInv, ProgressInv, Shaped
<1>2. SegmentsDecrypt(container.cells, run.segments, session, TextOf(run.binding))
  BY <1>1 DEF ResumeInv, WorkInv
<1>3. ASSUME NEW k \in 1 .. Len(progress.segments)
      PROVE  SegmentDecrypts(container.cells, progress.segments, k, session, TextOf(run.binding))
  <2>1. Len(run.segments) \in Nat
    BY CallFields
  <2>2. k \in 1 .. Len(run.segments) /\ (k # 1 => k - 1 \in 1 .. Len(progress.segments))
    BY <1>1, <1>3, <2>1
  <2>3. SegmentDecrypts(container.cells, run.segments, k, session, TextOf(run.binding))
    BY <1>2, <2>2 DEF SegmentsDecrypt
  <2>4. /\ progress.segments[k] = run.segments[k]
        /\ StartOf(progress.segments, k) = StartOf(run.segments, k)
    BY <1>1, <1>3, <2>2 DEF StartOf
  <2> QED
    BY <2>3, <2>4 DEF SegmentDecrypts
<1> QED
  BY <1>1, <1>3 DEF SegmentsDecrypt

LEMMA StopKeeps ==
  ASSUME ResumeInv, Stop
  PROVE  ResumeInv'
<1>1. /\ InCall /\ run' = NotRunning
      /\ UNCHANGED <<version, container, progress, session, drawn, sealed, leftover>>
  BY DEF Stop, InCall, NotRunning
<1>2. ~InCall'
  BY <1>1 DEF InCall
<1>3. ResumeTypes'
  BY <1>1 DEF ResumeInv, ResumeTypes
<1>4. WorkShape' /\ WorkInv'
  BY <1>2 DEF WorkShape, WorkInv
<1>5. SealedInv'
  BY <1>1 DEF ResumeInv, SealedInv
<1>6. ProgressInv'
  <2>1. progress # NoProgress =>
          Shaped(progress.segments, progress.size) /\ Past(progress.binding) /\ progress.key <= session
    BY DEF ResumeInv, ProgressInv
  <2> QED
    BY <1>1, <1>2, <2>1, CallStops DEF ProgressInv, Past, Steady, TextOf
<1> QED
  BY <1>3, <1>4, <1>5, <1>6 DEF ResumeInv

LEMMA EndSessionKeeps ==
  ASSUME ResumeInv, EndSession
  PROVE  ResumeInv'
<1>1. /\ session' = session + 1 /\ run' = NotRunning /\ sealed' = NotSealed
      /\ UNCHANGED <<version, drawn, leftover>>
      /\ container' \in {container, NoContainer} /\ progress' \in {progress, NoProgress}
  BY DEF EndSession
<1>2. ~InCall' /\ session \in Nat /\ session' \in Nat
  BY <1>1 DEF InCall, ResumeInv, ResumeTypes
<1>3. NoContainer \in [present : BOOLEAN, header : Nat, cells : Seq(Cells)]
  BY DEF NoContainer
<1>4. ResumeTypes'
  BY <1>1, <1>2, <1>3 DEF ResumeInv, ResumeTypes
<1>5. ProgressInv'
  <2>1. progress # NoProgress =>
          /\ Shaped(progress.segments, progress.size) /\ Past(progress.binding)
          /\ progress.key <= session /\ progress.key \in Nat
    BY DEF ResumeInv, ProgressInv, ResumeTypes, Progresses
  <2> QED
    BY <1>1, <1>2, <2>1 DEF ProgressInv, Past
<1> QED
  BY <1>1, <1>2, <1>4, <1>5 DEF ResumeInv, SealedInv, WorkShape, WorkInv

LEMMA FreshStartKeeps ==
  ASSUME ResumeInv, NEW s \in Sources, NEW c \in ChunkSizes,
         run = NotRunning, ~sealed.done, UNCHANGED <<version, session, drawn, sealed>>,
         container' = NewContainer,
         run' = [stage |-> "reading", binding |-> Binding(s), size |-> c,
                 segments |-> <<>>, position |-> 0, nonce |-> 0,
                 filled |-> 0, fresh |-> TRUE, hash |-> <<>>],
         progress' = NoProgress \/ (progress' = progress /\ leftover')
  PROVE  ResumeInv'
<1>1. /\ version \in [Sources -> Nat] /\ version[s] \in Nat /\ c \in Nat
      /\ sealed = NotSealed
  BY SizesAssumption DEF ResumeInv, ResumeTypes, Sealings
<1>2. Binding(s) \in Bindings /\ Binding(s).source = s /\ Binding(s).version = version[s]
  BY <1>1 DEF Binding, Bindings
<1>3. <<>> \in Seq(Segments) /\ <<>> \in Seq(Texts) /\ EndOf(<<>>) = 0 /\ Len(<<>>) = 0
  BY DEF EndOf
<1>21. PICK g \in Seq(Segments), h \in Seq(Texts), e \in Nat :
         /\ g = <<>> /\ h = <<>> /\ e = 0
         /\ Len(g) = 0 /\ Len(h) = 0 /\ EndOf(g) = 0
  BY <1>3
<1>4. run' = [stage |-> "reading", binding |-> Binding(s), size |-> c,
              segments |-> g, position |-> e, nonce |-> 0,
              filled |-> 0, fresh |-> TRUE, hash |-> h]
  BY <1>21
<1>5. /\ run' \in Calls /\ run'.stage = "reading" /\ run'.binding = Binding(s) /\ run'.size = c
      /\ run'.segments = g /\ run'.position = e /\ run'.filled = 0 /\ run'.hash = h
  BY <1>2, <1>4 DEF Calls
<1>6. run'.fresh
  BY <1>4
<1>7. /\ container' \in [present : BOOLEAN, header : Nat, cells : Seq(Cells)]
      /\ container'.cells = <<>> /\ Len(container'.cells) = 0
  BY DEF NewContainer
<1>8. container'.present
  BY DEF NewContainer
<1>9. ResumeTypes'
  BY <1>1, <1>5, <1>7 DEF ResumeInv, ResumeTypes
<1>10. Shaped(g, c)
  BY <1>21, EndsAreNumbers DEF Shaped
<1>11. /\ TextOf(run.binding)' = WholeText(s, version[s])
       /\ Past(run.binding)'
  BY <1>1, <1>2, <1>5 DEF TextOf, Past
<1>12. WorkShape'
  BY <1>1, <1>21, <1>5, <1>7, <1>8, <1>10, <1>11 DEF WorkShape, NotSealed
<1>13. WorkInv'
  <2>1. SegmentsDecrypt(container'.cells, g, session', TextOf(run.binding)')
    BY <1>21 DEF SegmentsDecrypt
  <2> QED
    BY <1>21, <1>5, <1>6, <2>1 DEF WorkInv
<1>14. ProgressInv'
  <2>1. progress # NoProgress =>
          Shaped(progress.segments, progress.size) /\ Past(progress.binding) /\ progress.key <= session
    BY DEF ResumeInv, ProgressInv
  <2>2. InCall'
    BY <1>5 DEF InCall, Calls, NotRunning
  <2> QED
    BY <2>1, <2>2 DEF ProgressInv, Past
<1>15. SealedInv'
  BY <1>1 DEF SealedInv
<1> QED
  BY <1>9, <1>12, <1>13, <1>14, <1>15 DEF ResumeInv

LEMMA ResumedStartKeeps ==
  ASSUME ResumeInv, NEW s \in Sources, NEW c \in ChunkSizes,
         run = NotRunning, ~sealed.done, UNCHANGED <<version, session, drawn, sealed>>,
         StartResuming(s, c)
  PROVE  ResumeInv'
<1>1. /\ version \in [Sources -> Nat] /\ version[s] \in Nat /\ c \in Nat
      /\ sealed = NotSealed
  BY SizesAssumption DEF ResumeInv, ResumeTypes, Sealings
<1>2. Binding(s) \in Bindings /\ Binding(s).source = s /\ Binding(s).version = version[s]
  BY <1>1 DEF Binding, Bindings
<1>3. /\ progress # NoProgress /\ progress.binding = Binding(s) /\ progress.key = session
      /\ progress.size = c /\ container.present /\ Len(container.cells) >= EndOf(progress.segments)
      /\ run' = Started(s, c, progress.segments, FALSE, WholeText(s, version[s]))
      /\ UNCHANGED <<container, progress, leftover>>
  BY DEF StartResuming, Resumable, Ignored, ContainerCovers, NoProgress
<1>4. progress \in Progresses /\ progress.segments \in Seq(Segments)
  BY <1>3 DEF ResumeInv, ResumeTypes, Progresses
<1>5. PICK g \in Seq(Segments) : g = progress.segments
  BY <1>4
<1>6. Shaped(g, c)
  BY <1>3, <1>5 DEF ResumeInv, ProgressInv
<1>7. PICK e \in Nat : e = EndOf(g)
  BY <1>6, ShapedEnds, EndsAreNumbers
<1>8. PICK text \in Seq(Texts) : text = WholeText(s, version[s])
  BY <1>1, WholeTextIsSequence
<1>9. run' = [stage |-> "reading", binding |-> Binding(s), size |-> c,
              segments |-> g, position |-> e, nonce |-> 0,
              filled |-> 0, fresh |-> FALSE, hash |-> text]
  BY <1>3, <1>5, <1>7, <1>8 DEF Started
<1>10. /\ run' \in Calls /\ run'.stage = "reading" /\ run'.binding = Binding(s) /\ run'.size = c
       /\ run'.segments = g /\ run'.position = e /\ run'.filled = 0 /\ run'.hash = text
  BY <1>2, <1>9 DEF Calls
<1>11. ~run'.fresh
  BY <1>9
<1>12. ResumeTypes'
  BY <1>3, <1>10 DEF ResumeInv, ResumeTypes
<1>13. TextOf(run.binding)' = text /\ TextOf(progress.binding) = text
  BY <1>2, <1>3, <1>8, <1>10 DEF TextOf
<1>14. Past(run.binding)'
  BY <1>1, <1>2, <1>10 DEF Past
<1>15. container.cells \in Seq(Cells) /\ Len(container.cells) \in Nat
  BY DEF ResumeInv, ResumeTypes
<1>16. WorkShape'
  <2>1. container'.present /\ ~sealed'.done /\ Len(container'.cells) >= e
    BY <1>3, <1>5, <1>7
  <2>2. e = EndOf(g) + 0
    BY <1>7
  <2> QED
    BY <1>3, <1>6, <1>10, <1>14, <1>15, <2>1, <2>2 DEF WorkShape
<1>17. InCall'
  BY <1>10 DEF InCall, Calls, NotRunning
<1>18. WorkInv'
  <2>1. ASSUME ~leftover
        PROVE  SegmentsDecrypt(container.cells, g, session, text)
    <3>1. Steady(progress.binding) /\ ~InCall
      BY <1>2, <1>3 DEF Steady, InCall
    <3> QED
      BY <1>3, <1>5, <1>13, <2>1, <3>1 DEF ResumeInv, ProgressInv
  <2> QED
    BY <1>3, <1>10, <1>11, <1>13, <2>1 DEF WorkInv
<1>19. ProgressInv'
  <2>1. Past(progress.binding) /\ progress.key <= session
    BY <1>3 DEF ResumeInv, ProgressInv
  <2>2. Len(g) \in Nat /\ Len(g) <= Len(g)
    OBVIOUS
  <2>3. progress' = progress /\ session' = session /\ version' = version
    BY <1>3
  <2>4. Shaped(progress'.segments, progress'.size) /\ Past(progress.binding)'
        /\ progress'.key <= session' /\ progress'.key = session'
    BY <1>3, <1>5, <1>6, <2>1, <2>3 DEF Past
  <2>5. /\ progress'.binding = run'.binding
        /\ progress'.segments = g /\ run'.segments = g
    BY <1>3, <1>5, <1>10, <2>3
  <2> QED
    BY <1>17, <2>2, <2>4, <2>5 DEF ProgressInv
<1>20. SealedInv'
  BY <1>1 DEF SealedInv
<1> QED
  BY <1>12, <1>16, <1>18, <1>19, <1>20 DEF ResumeInv

LEMMA StartKeeps ==
  ASSUME ResumeInv, NEW s \in Sources, NEW c \in ChunkSizes, Start(s, c),
         \A a, b \in ChunkSizes : a = b, \A a, b \in Sources : NameOf[a] = NameOf[b]
  PROVE  ResumeInv'
<1>1. /\ run = NotRunning /\ ~sealed.done /\ UNCHANGED <<version, session, drawn, sealed>>
      /\ StartFresh(s, c) \/ StartDiscarding(s, c) \/ StartResuming(s, c)
  BY DEF Start
<1>2. ~Ignored(s, c)
  <2>1. CASE progress \in Progresses
    <3>1. progress.name \in {NameOf[a] : a \in Sources} /\ progress.size \in ChunkSizes
      BY <2>1 DEF Progresses
    <3> QED
      BY <3>1 DEF Ignored
  <2>2. ~NoProgress.present
    BY DEF NoProgress
  <2> QED
    BY <2>1, <2>2 DEF Ignored, ResumeInv, ResumeTypes
<1>5. run' = [stage |-> "reading", binding |-> Binding(s), size |-> c,
              segments |-> <<>>, position |-> 0, nonce |-> 0,
              filled |-> 0, fresh |-> TRUE, hash |-> <<>>]
      \/ StartResuming(s, c)
  BY <1>1 DEF StartFresh, StartDiscarding, Started, EndOf
<1>3. CASE StartFresh(s, c)
  <2>1. progress = NoProgress
    BY <1>2, <1>3 DEF StartFresh, ResumeInv, ResumeTypes, Progresses
  <2> QED
    BY <1>1, <1>3, <1>5, <2>1, FreshStartKeeps, ResumedStartKeeps DEF StartFresh
<1>4. CASE StartDiscarding(s, c)
  <2>1. progress' = NoProgress \/ (progress' = progress /\ leftover')
    BY <1>4 DEF StartDiscarding
  <2> QED
    BY <1>1, <1>4, <1>5, <2>1, FreshStartKeeps, ResumedStartKeeps DEF StartDiscarding
<1> QED
  BY <1>1, <1>3, <1>4, ResumedStartKeeps

LEMMA ModifyKeeps ==
  ASSUME ResumeInv, NEW s \in Sources, Modify(s)
  PROVE  ResumeInv'
<1>1. /\ version' = [version EXCEPT ![s] = @ + 1]
      /\ UNCHANGED <<container, progress, run, session, drawn, sealed, leftover>>
  BY DEF Modify
<1>2. version \in [Sources -> Nat] /\ version' \in [Sources -> Nat]
  BY <1>1 DEF ResumeInv, ResumeTypes
<1>3. ASSUME NEW b \in Bindings
      PROVE  Past(b) => Past(b)' /\ (Steady(b)' => Steady(b))
  <2>1. b.source \in Sources /\ b.version \in Nat
    BY DEF Bindings
  <2>2. version[b.source] \in Nat
        /\ version'[b.source] = IF b.source = s THEN version[s] + 1 ELSE version[b.source]
    BY <1>1, <1>2, <2>1
  <2> QED
    BY <2>1, <2>2 DEF Past, Steady
<1>4. ResumeTypes'
  BY <1>1, <1>2 DEF ResumeInv, ResumeTypes
<1>5. ASSUME InCall
      PROVE  Past(run.binding)' /\ (Steady(run.binding)' => Steady(run.binding))
             /\ TextOf(run.binding)' = TextOf(run.binding)
  <2>1. run.binding \in Bindings /\ Past(run.binding)
    BY <1>5, CallFields DEF Calls, ResumeInv, WorkShape
  <2>2. run'.binding = run.binding
    BY <1>1
  <2>3. Past(run.binding) => (run.binding.version <= version'[run.binding.source])
                              /\ (run.binding.version = version'[run.binding.source] => Steady(run.binding))
    BY <1>3, <2>1 DEF Past, Steady
  <2> QED
    BY <2>1, <2>2, <2>3 DEF Past, Steady, TextOf
<1>6. InCall' = InCall
  BY <1>1 DEF InCall
<1>7. WorkShape'
  BY <1>1, <1>5, <1>6 DEF ResumeInv, WorkShape, CurrentLength
<1>8. WorkInv'
  BY <1>1, <1>5, <1>6 DEF ResumeInv, WorkInv, Buffer
<1>9. ASSUME progress # NoProgress
      PROVE  Past(progress.binding)' /\ (Steady(progress.binding)' => Steady(progress.binding))
             /\ TextOf(progress.binding)' = TextOf(progress.binding)
  <2>1. progress.binding \in Bindings /\ Past(progress.binding)
    BY <1>9 DEF ResumeInv, ResumeTypes, Progresses, ProgressInv
  <2>2. progress'.binding = progress.binding
    BY <1>1
  <2>3. Past(progress.binding) => (progress.binding.version <= version'[progress.binding.source])
                              /\ (progress.binding.version = version'[progress.binding.source]
                                    => Steady(progress.binding))
    BY <1>3, <2>1 DEF Past, Steady
  <2> QED
    BY <2>1, <2>2, <2>3 DEF Past, Steady, TextOf
<1>10. ProgressInv'
  BY <1>1, <1>6, <1>9 DEF ResumeInv, ProgressInv
<1>11. SealedInv'
  <2>1. TextOf(sealed.binding)' = TextOf(sealed.binding)
    BY <1>1 DEF TextOf
  <2> QED
    BY <1>1, <1>6, <2>1 DEF ResumeInv, SealedInv
<1> QED
  BY <1>4, <1>7, <1>8, <1>10, <1>11 DEF ResumeInv

LEMMA DeleteContainerKeeps ==
  ASSUME ResumeInv, DeleteContainer
  PROVE  ResumeInv'
<1>1. /\ run = NotRunning /\ ~sealed.done /\ container' = NoContainer
      /\ UNCHANGED <<version, progress, run, session, drawn, sealed, leftover>>
  BY DEF DeleteContainer
<1>2. ~InCall' /\ ~InCall /\ sealed = NotSealed
  BY <1>1 DEF InCall, ResumeInv, ResumeTypes, Sealings
<1>3. NoContainer \in [present : BOOLEAN, header : Nat, cells : Seq(Cells)]
  BY DEF NoContainer
<1>4. ~container'.present
  BY <1>1 DEF NoContainer
<1>5. ResumeTypes'
  BY <1>1, <1>3 DEF ResumeInv, ResumeTypes
<1>6. ProgressInv'
  BY <1>1, <1>2, <1>4 DEF ResumeInv, ProgressInv, Past
<1> QED
  BY <1>1, <1>2, <1>5, <1>6 DEF ResumeInv, SealedInv, WorkShape, WorkInv

LEMMA ResumeInvHolds ==
  ASSUME \A a, b \in ChunkSizes : a = b, \A a, b \in Sources : NameOf[a] = NameOf[b]
  PROVE  ResumeSpec => []ResumeInv
<1>1. ResumeInit => ResumeInv
  <2> SUFFICES ASSUME ResumeInit PROVE ResumeInv
    OBVIOUS
  <2>1. /\ version = [s \in Sources |-> 0] /\ container = NoContainer /\ progress = NoProgress
        /\ run = NotRunning /\ session = 1 /\ drawn = 0 /\ sealed = NotSealed
    BY DEF ResumeInit
  <2>2. NoContainer \in [present : BOOLEAN, header : Nat, cells : Seq(Cells)]
    BY DEF NoContainer
  <2>3. ResumeTypes
    BY <2>1, <2>2 DEF ResumeTypes
  <2> QED
    BY <2>1, <2>3 DEF ResumeInv, WorkShape, WorkInv, ProgressInv, SealedInv, InCall
<1>2. ResumeInv /\ [ResumeNext]_resumeVars => ResumeInv'
  <2> SUFFICES ASSUME ResumeInv, [ResumeNext]_resumeVars PROVE ResumeInv'
    OBVIOUS
  <2>1. ASSUME NEW s \in Sources, NEW c \in ChunkSizes, Start(s, c) PROVE ResumeInv'
    BY <2>1, StartKeeps
  <2>2. ASSUME Encrypt PROVE ResumeInv'
    BY <2>2, BeginSegmentKeeps, EncryptBufferKeeps, WriteTagKeeps, SaveProgressKeeps,
       AppendMetadataKeeps, FillHeaderKeeps, ReturnKeeps DEF Encrypt
  <2>3. ASSUME NEW s \in Sources, Modify(s) PROVE ResumeInv'
    BY <2>3, ModifyKeeps
  <2>4. CASE UNCHANGED resumeVars
    <3>1. UNCHANGED <<version, container, progress, run, session, drawn, sealed, leftover>>
      BY <2>4 DEF resumeVars
    <3> QED
      BY <3>1 DEF ResumeInv, ResumeTypes, WorkShape, WorkInv, ProgressInv, SealedInv, InCall,
                  Steady, Past, TextOf, Buffer, CurrentLength
  <2> QED
    BY <2>1, <2>2, <2>3, <2>4, StopKeeps, EndSessionKeeps, DeleteContainerKeeps DEF ResumeNext
<1> QED
  BY <1>1, <1>2, PTL DEF ResumeSpec

(* A container that encrypt_file reported complete decrypts, under the     *)
(* session's key, to the source it was made from, whatever cancels, errors, *)
(* retries, modifications and deletions came before: for every length of    *)
(* source, every number of sources and every segment size, as long as one   *)
(* segment size and one base name are used for the output.                  *)
THEOREM CompletedContainersOpen ==
  ASSUME \A a, b \in ChunkSizes : a = b, \A a, b \in Sources : NameOf[a] = NameOf[b]
  PROVE  ResumeSpec => []CompletedContainerDecrypts
<1>1. ResumeInv => CompletedContainerDecrypts
  BY DEF ResumeInv, ResumeTypes, SealedInv, CompletedContainerDecrypts, TextOf, NotSealed
<1> QED
  BY <1>1, ResumeInvHolds, PTL

-----------------------------------------------------------------------------
(* What the variables hold, for any sizes and names: an invariant of its   *)
(* own, about lengths and places and not about what is written there.      *)

ProgressShape ==
  progress # NoProgress =>
    /\ Shaped(progress.segments, progress.size) /\ Len(progress.segments) > 0
    /\ 0 < progress.key /\ progress.key <= session
FileShape ==
  /\ container.header <= Len(container.cells)
  /\ container.present \/ container = NoContainer
ResumeShape ==
  /\ ResumeTypes /\ WorkShape /\ ProgressShape /\ FileShape
  /\ InCall =>
       /\ run.filled <= run.size
       /\ run.stage = "saving" => Len(run.segments) > 0
  /\ \A s \in Sources : version[s] <= MaxVersions
  /\ 0 < session /\ session <= MaxSessions /\ drawn <= MaxNonces

LEMMA FieldsOfCall ==
  ASSUME ResumeShape, InCall
  PROVE  /\ run \in Calls /\ run.size \in ChunkSizes /\ run.size \in Nat
         /\ run.binding \in Bindings /\ run.hash \in Seq(Texts)
         /\ run.filled \in Nat /\ run.nonce \in Nat /\ run.position \in Nat
         /\ run.segments \in Seq(Segments) /\ Len(run.segments) \in Nat
         /\ Shaped(run.segments, run.size) /\ EndOf(run.segments) \in Nat
         /\ EndOf(run.segments) = EndAt(run.size, Len(run.segments))
         /\ container.cells \in Seq(Cells) /\ Len(container.cells) \in Nat
         /\ container.header \in Nat /\ container.present
         /\ container \in [present : BOOLEAN, header : Nat, cells : Seq(Cells)]
         /\ session \in Nat /\ drawn \in Nat
<1>1. /\ run \in Calls /\ container \in [present : BOOLEAN, header : Nat, cells : Seq(Cells)]
      /\ session \in Nat /\ drawn \in Nat
  BY DEF ResumeShape, ResumeTypes, InCall
<1>2. Shaped(run.segments, run.size) /\ container.present
  BY DEF ResumeShape, WorkShape
<1>3. run.size \in ChunkSizes /\ run.size \in Nat
  BY <1>1, SizesAssumption DEF Calls
<1>4. Len(run.segments) \in Nat /\ EndOf(run.segments) = EndAt(run.size, Len(run.segments))
  BY <1>2, <1>3, ShapedEnds
<1>5. EndOf(run.segments) \in Nat
  BY <1>3, <1>4, EndsAreNumbers
<1> QED
  BY <1>1, <1>2, <1>3, <1>4, <1>5 DEF Calls

(* The length of the segment at hand. *)
LEMMA CurrentIsShort ==
  ASSUME NEW size \in ChunkSizes, NEW k \in Nat, k < SegmentCount(size)
  PROVE  /\ SegmentLength(size, k) \in Nat /\ SegmentLength(size, k) <= size
         /\ EndAt(size, k + 1) = EndAt(size, k) + SegmentLength(size, k) + 1
<1>1. PICK p \in Nat : p = k * size
  BY EndsAreNumbers
<1>2. p < Units /\ size \in Nat /\ Units \in Nat
  BY <1>1, SegmentsAddUp, SizesAssumption
<1>3. (k + 1) * size = p + size
  BY <1>1, <1>2, SMTT(60)
<1>4. SegmentLength(size, k) = IF p + size <= Units THEN size ELSE Units - p
  BY <1>1, <1>3 DEF SegmentLength
<1> QED
  BY <1>1, <1>2, <1>4, SegmentsAddUp

(* A step within a call that leaves the progress file alone. *)
LEMMA ShapeGoesOn ==
  ASSUME ResumeShape, InCall, UNCHANGED <<version, progress, session, sealed>>,
         drawn' \in Nat, drawn' <= MaxNonces,
         run' \in Calls, run'.size = run.size, run'.binding = run.binding,
         container' \in [present : BOOLEAN, header : Nat, cells : Seq(Cells)],
         container'.present = container.present,
         container'.header <= Len(container'.cells),
         Shaped(run'.segments, run.size), run'.position <= Len(container'.cells),
         run'.position = EndOf(run'.segments)
                           + (IF run'.stage = "encrypting" THEN run'.filled ELSE 0),
         run'.stage = "encrypting" =>
           /\ Len(run'.segments) < SegmentCount(run.size)
           /\ run'.filled <= SegmentLength(run.size, Len(run'.segments)),
         run'.stage \in {"header", "removing"} =>
           Len(run'.segments) = SegmentCount(run.size),
         run'.stage = "saving" => Len(run'.segments) > 0,
         run'.filled <= run.size
  PROVE  ResumeShape'
<1>1. ResumeTypes'
  BY DEF ResumeShape, ResumeTypes
<1>2. container.present /\ ~sealed.done /\ Past(run.binding)
  BY DEF ResumeShape, WorkShape
<1>3. Past(run.binding)' /\ CurrentLength' = SegmentLength(run.size, Len(run'.segments))
  BY <1>2 DEF Past, CurrentLength
<1>4. WorkShape'
  BY <1>2, <1>3 DEF WorkShape
<1>5. ProgressShape'
  BY DEF ResumeShape, ProgressShape
<1>6. FileShape'
  BY <1>2 DEF FileShape
<1> QED
  BY <1>1, <1>4, <1>5, <1>6 DEF ResumeShape

(* A cell written where the call is. *)
LEMMA CellAtCall ==
  ASSUME ResumeShape, InCall, NEW cell \in Cells, NEW p \in Nat, p = run.position + 1,
         container' = [container EXCEPT !.cells = WriteAt(container.cells, p, cell)]
  PROVE  /\ container' \in [present : BOOLEAN, header : Nat, cells : Seq(Cells)]
         /\ container'.present = container.present
         /\ container'.header <= Len(container'.cells) /\ p <= Len(container'.cells)
<1>1. PICK old \in Seq(Cells), n \in Nat, pos \in Nat :
        old = container.cells /\ n = Len(old) /\ pos = run.position
  BY FieldsOfCall
<1>2. pos <= n /\ p = pos + 1 /\ p > 0 /\ p <= n + 1
  BY <1>1 DEF ResumeShape, WorkShape
<1>3. PICK new : new = WriteAt(old, p, cell)
  OBVIOUS
<1>4. new \in Seq(Cells) /\ Len(new) \in Nat /\ p <= Len(new) /\ n <= Len(new)
  <2>1. /\ WriteAt(old, p, cell) \in Seq(Cells) /\ Len(WriteAt(old, p, cell)) \in Nat
        /\ p <= Len(WriteAt(old, p, cell)) /\ Len(old) <= Len(WriteAt(old, p, cell))
    BY <1>1, <1>2, WritesOneCell
  <2> QED
    BY <1>1, <1>3, <2>1
<1>5. container' = [container EXCEPT !.cells = new]
  BY <1>1, <1>3
<1>6. /\ container \in [present : BOOLEAN, header : Nat, cells : Seq(Cells)]
      /\ container.header \in Nat /\ container.header <= n
  BY <1>1, FieldsOfCall DEF ResumeShape, FileShape
<1>7. /\ container' \in [present : BOOLEAN, header : Nat, cells : Seq(Cells)]
      /\ container'.cells = new /\ container'.header = container.header
  BY <1>4, <1>5, <1>6
<1>8. container'.present = container.present
  BY <1>5, <1>6
<1> QED
  BY <1>4, <1>6, <1>7, <1>8

LEMMA BeginningKeepsShape ==
  ASSUME ResumeShape, BeginSegment
  PROVE  ResumeShape'
<1>1. /\ run.stage = "reading" /\ drawn < MaxNonces /\ drawn' = drawn + 1
      /\ Len(run.segments) < SegmentCount(run.size)
      /\ run' = [run EXCEPT !.stage = "encrypting", !.nonce = drawn + 1, !.filled = 0]
      /\ UNCHANGED <<version, container, progress, session, sealed, leftover>>
  BY DEF BeginSegment, Remaining
<1>2. InCall
  BY <1>1 DEF InCall, NotRunning
<1>3. drawn' \in Nat /\ drawn' <= MaxNonces
  BY <1>1, <1>2, FieldsOfCall, SizesAssumption
<1>4. /\ run' \in Calls /\ run'.stage = "encrypting" /\ run'.filled = 0 /\ run'.size = run.size
      /\ run'.segments = run.segments /\ run'.binding = run.binding
      /\ run'.position = run.position
  BY <1>1, <1>2, <1>3, FieldsOfCall DEF Calls
<1>5. 0 <= SegmentLength(run.size, Len(run.segments)) /\ 0 <= run.size
  BY <1>1, <1>2, FieldsOfCall, CurrentIsShort
<1>6. run.position = EndOf(run.segments) + 0 /\ run.position <= Len(container.cells)
  BY <1>1, <1>2, FieldsOfCall DEF ResumeShape, WorkShape
<1>7. container.header <= Len(container.cells)
  BY DEF ResumeShape, FileShape
<1> QED
  BY <1>1, <1>2, <1>3, <1>4, <1>5, <1>6, <1>7, FieldsOfCall, ShapeGoesOn

LEMMA BufferKeepsShape ==
  ASSUME ResumeShape, EncryptBuffer
  PROVE  ResumeShape'
<1>1. InCall /\ run.stage = "encrypting" /\ run.filled < CurrentLength
  BY DEF EncryptBuffer, InCall, NotRunning
<1>2. PICK k \in Nat, e \in Nat, pos \in Nat, fill \in Nat :
        k = Len(run.segments) /\ e = EndOf(run.segments) /\ pos = run.position /\ fill = run.filled
  BY <1>1, FieldsOfCall
<1>3. PICK b \in Nat : b = k * run.size
  BY <1>1, <1>2, FieldsOfCall, EndsAreNumbers
<1>4. PICK p \in Nat, f \in Nat, i \in Nat : p = pos + 1 /\ f = fill + 1 /\ i = b + f
  BY <1>2, <1>3
<1> DEFINE source == run.binding.source
           text == Text(source, version[source], i)
           cell == Cipher(session, run.nonce, f, text)
<1>5. /\ container' = [container EXCEPT !.cells = WriteAt(container.cells, p, cell)]
      /\ run' = [run EXCEPT !.position = p, !.filled = f,
                            !.hash = IF run.fresh THEN Append(run.hash, text) ELSE run.hash]
      /\ UNCHANGED <<version, progress, session, drawn, sealed, leftover>>
  <2>1. Len(run.segments) * run.size + run.filled + 1 = i
    BY <1>2, <1>3, <1>4
  <2>2. run.filled + 1 = f /\ run.position + 1 = p
    BY <1>2, <1>4
  <2> QED
    BY <1>1, <2>1, <2>2, FieldsOfCall DEF EncryptBuffer
<1>6. text \in Texts /\ cell \in Cells
  <2>1. source \in Sources /\ version[source] \in Nat
    BY <1>1, FieldsOfCall DEF Bindings, ResumeShape, ResumeTypes
  <2>2. text \in Texts
    BY <2>1 DEF Text, Texts
  <2> QED
    BY <1>1, <1>4, <2>2, FieldsOfCall DEF Cipher, Cells
<1> HIDE DEF text, cell, source
<1>7. PICK hash \in Seq(Texts) : hash = (IF run.fresh THEN Append(run.hash, text) ELSE run.hash)
  <2>1. (IF run.fresh THEN Append(run.hash, text) ELSE run.hash) \in Seq(Texts)
    BY <1>1, <1>6, FieldsOfCall, AppendProperties
  <2> QED
    BY <2>1, Zenon
<1>8. run' = [run EXCEPT !.position = p, !.filled = f, !.hash = hash]
  BY <1>5, <1>7
<1>9. /\ run' \in Calls /\ run'.stage = "encrypting" /\ run'.filled = f /\ run'.size = run.size
      /\ run'.segments = run.segments /\ run'.binding = run.binding /\ run'.position = p
  BY <1>1, <1>8, FieldsOfCall DEF Calls
<1>10. PICK written \in Cells : written = cell
  BY <1>6
<1>11. /\ container' \in [present : BOOLEAN, header : Nat, cells : Seq(Cells)]
       /\ container'.present = container.present
       /\ container'.header <= Len(container'.cells) /\ p <= Len(container'.cells)
  <2>1. p = run.position + 1
    BY <1>2, <1>4
  <2>2. container' = [container EXCEPT !.cells = WriteAt(container.cells, p, written)]
    BY <1>5, <1>10
  <2> QED
    BY <1>1, <1>4, <2>1, <2>2, CellAtCall
<1>12. /\ k < SegmentCount(run.size) /\ pos = e + fill
       /\ SegmentLength(run.size, k) \in Nat /\ SegmentLength(run.size, k) <= run.size
       /\ fill < SegmentLength(run.size, k)
  <2>1. k < SegmentCount(run.size) /\ pos = e + fill
    BY <1>1, <1>2 DEF ResumeShape, WorkShape
  <2> QED
    BY <1>1, <1>2, <2>1, FieldsOfCall, CurrentIsShort DEF CurrentLength
<1>13. f <= SegmentLength(run.size, k) /\ f <= run.size /\ p = e + f
  <2>1. PICK n \in Nat, z \in Nat : n = SegmentLength(run.size, k) /\ z = run.size
    BY <1>1, <1>12, FieldsOfCall
  <2>2. fill < n /\ n <= z /\ pos = e + fill
    BY <1>12, <2>1
  <2>3. f <= n /\ f <= z /\ p = e + f
    BY <1>4, <2>1, <2>2
  <2> QED
    BY <2>1, <2>3
<1>14. drawn' \in Nat /\ drawn' <= MaxNonces
  BY <1>1, <1>5, FieldsOfCall DEF ResumeShape
<1> QED
  BY <1>1, <1>2, <1>5, <1>9, <1>11, <1>12, <1>13, <1>14, FieldsOfCall, ShapeGoesOn

LEMMA TagKeepsShape ==
  ASSUME ResumeShape, WriteTag
  PROVE  ResumeShape'
<1>1. InCall /\ run.stage = "encrypting" /\ run.filled = CurrentLength
  BY DEF WriteTag, InCall, NotRunning
<1>2. PICK k \in Nat, e \in Nat, pos \in Nat, c \in Nat, nonce \in Nat :
        /\ k = Len(run.segments) /\ e = EndOf(run.segments) /\ pos = run.position
        /\ c = run.filled /\ nonce = run.nonce
  BY <1>1, FieldsOfCall
<1>3. PICK p \in Nat : p = pos + 1
  BY <1>2
<1>4. PICK tag \in Cells : tag = Tag(session, nonce)
  <2>1. session \in Nat
    BY <1>1, FieldsOfCall
  <2> QED
    BY <1>2, <2>1 DEF Tag, Cells
<1>5. PICK more : more = Append(run.segments, Segment(nonce, p))
  OBVIOUS
<1>6. /\ container' = [container EXCEPT !.cells = WriteAt(container.cells, p, tag)]
      /\ run' = [run EXCEPT !.stage = "saving", !.position = p, !.segments = more]
      /\ UNCHANGED <<version, progress, session, drawn, sealed, leftover>>
  BY <1>1, <1>2, <1>3, <1>4, <1>5, FieldsOfCall DEF WriteTag
<1>7. k < SegmentCount(run.size) /\ pos = e + c /\ e = EndAt(run.size, k)
  BY <1>1, <1>2, FieldsOfCall DEF ResumeShape, WorkShape
<1>8. p = EndAt(run.size, k + 1) /\ c <= run.size
  <2>1. PICK n \in Nat, z \in Nat, next \in Nat :
          /\ n = SegmentLength(run.size, k) /\ z = run.size
          /\ next = EndAt(run.size, k + 1)
    <3>1. run.size \in ChunkSizes /\ run.size \in Nat /\ k + 1 \in Nat
      BY <1>1, <1>2, FieldsOfCall
    <3>2. SegmentLength(run.size, k) \in Nat /\ EndAt(run.size, k + 1) \in Nat
      BY <1>2, <1>7, <3>1, CurrentIsShort, EndsAreNumbers
    <3> QED
      BY <3>1, <3>2
  <2>2. c = n /\ n <= z /\ next = e + n + 1
    BY <1>1, <1>2, <1>7, <2>1, FieldsOfCall, CurrentIsShort DEF CurrentLength
  <2>3. p = next /\ c <= z
    BY <1>3, <1>7, <2>1, <2>2
  <2> QED
    BY <2>1, <2>3
<1>9. Shaped(more, run.size) /\ Len(more) = k + 1 /\ EndOf(more) = p
  <2>1. /\ k \in Nat /\ p \in Nat /\ nonce \in Nat /\ k < SegmentCount(run.size)
        /\ run.size \in ChunkSizes /\ Shaped(run.segments, run.size)
        /\ p = EndAt(run.size, k + 1) /\ k = Len(run.segments)
    BY <1>1, <1>2, <1>7, <1>8, FieldsOfCall
  <2> DEFINE grown == Append(run.segments, Segment(nonce, p))
  <2>2. Shaped(grown, run.size) /\ Len(grown) = k + 1 /\ EndOf(grown) = p
    BY ONLY <2>1, SegmentAdded
  <2> QED
    BY <1>5, <2>2
<1>10. more \in Seq(Segments) /\ run \in Calls
  BY <1>1, <1>9, FieldsOfCall DEF Shaped
<1>11. /\ run' \in Calls /\ run'.stage = "saving" /\ run'.size = run.size
       /\ run'.segments = more /\ run'.binding = run.binding
       /\ run'.position = p /\ run'.filled = c
  BY <1>2, <1>3, <1>6, <1>10 DEF Calls
<1>12. /\ container' \in [present : BOOLEAN, header : Nat, cells : Seq(Cells)]
       /\ container'.present = container.present
       /\ container'.header <= Len(container'.cells) /\ p <= Len(container'.cells)
  <2>1. p = run.position + 1
    BY <1>2, <1>3
  <2> QED
    BY <1>1, <1>3, <1>4, <1>6, <2>1, CellAtCall
<1>13. drawn' \in Nat /\ drawn' <= MaxNonces /\ k + 1 > 0
  BY <1>1, <1>2, <1>6, FieldsOfCall DEF ResumeShape
<1> QED
  BY <1>1, <1>3, <1>6, <1>8, <1>9, <1>11, <1>12, <1>13, ShapeGoesOn

LEMMA SavingKeepsShape ==
  ASSUME ResumeShape, SaveProgress
  PROVE  ResumeShape'
<1>1. InCall /\ run.stage = "saving" /\ Len(run.segments) > 0
  BY DEF SaveProgress, InCall, NotRunning, ResumeShape
<1>2. /\ progress' = [present |-> TRUE, name |-> NameOf[run.binding.source],
                      size |-> run.size, binding |-> run.binding,
                      key |-> session, segments |-> run.segments]
      /\ run' = [run EXCEPT !.stage = "reading"]
      /\ UNCHANGED <<version, container, session, drawn, sealed, leftover>>
  BY DEF SaveProgress
<1>3. /\ run' \in Calls /\ run'.stage = "reading" /\ run'.size = run.size
      /\ run'.segments = run.segments /\ run'.binding = run.binding
      /\ run'.position = run.position /\ run'.filled = run.filled
  BY <1>1, <1>2, FieldsOfCall DEF Calls
<1>4. /\ progress' \in Progresses /\ progress'.size = run.size /\ progress'.key = session
      /\ progress'.segments = run.segments
  BY <1>1, <1>2, FieldsOfCall DEF Progresses, Bindings
<1>5. ResumeTypes'
  BY <1>2, <1>3, <1>4 DEF ResumeShape, ResumeTypes
<1>6. WorkShape'
  <2>1. Past(run.binding)'
    BY <1>1, <1>2, <1>3 DEF Past, ResumeShape, WorkShape
  <2> QED
    BY <1>1, <1>2, <1>3, <2>1, FieldsOfCall DEF ResumeShape, WorkShape
<1>7. ProgressShape'
  BY <1>1, <1>2, <1>4, FieldsOfCall DEF ResumeShape, ProgressShape
<1> QED
  BY <1>1, <1>2, <1>3, <1>5, <1>6, <1>7 DEF ResumeShape, FileShape

LEMMA MetadataKeepsShape ==
  ASSUME ResumeShape, AppendMetadata
  PROVE  ResumeShape'
<1>1. InCall /\ run.stage = "reading" /\ ~(Len(run.segments) < SegmentCount(run.size))
  BY DEF AppendMetadata, Remaining, InCall, NotRunning
<1>2. PICK old \in Seq(Cells), n \in Nat : old = container.cells /\ n = Len(old)
  BY <1>1, FieldsOfCall
<1>3. PICK last \in Cells : last = Metadata(run.segments, run.hash)
  <2>1. PICK g \in Seq(Segments), h \in Seq(Texts) : g = run.segments /\ h = run.hash
    BY <1>1, FieldsOfCall
  <2>2. Metadata(g, h) \in
          [kind : {"metadata"}, segments : Seq(Segments), hash : Seq(Texts)]
    BY <2>1 DEF Metadata
  <2>3. Metadata(g, h) \in Cells
    BY <2>2 DEF Cells
  <2> QED
    BY <2>1, <2>3
<1>4. PICK new \in Seq(Cells) : new = Append(old, last) /\ Len(new) = n + 1
  <2>1. Append(old, last) \in Seq(Cells)
    BY AppendProperties
  <2>2. Len(Append(old, last)) = n + 1
    BY <1>2, AppendProperties
  <2> QED
    BY <2>1, <2>2
<1>5. /\ container' = [container EXCEPT !.cells = new]
      /\ run' = [run EXCEPT !.stage = "header"]
      /\ UNCHANGED <<version, progress, session, drawn, sealed, leftover>>
  BY <1>1, <1>2, <1>3, <1>4, FieldsOfCall DEF AppendMetadata
<1>6. /\ run' \in Calls /\ run'.stage = "header" /\ run'.size = run.size
      /\ run'.segments = run.segments /\ run'.binding = run.binding
      /\ run'.position = run.position /\ run'.filled = run.filled
  BY <1>1, <1>5, FieldsOfCall DEF Calls
<1>7. /\ container' \in [present : BOOLEAN, header : Nat, cells : Seq(Cells)]
      /\ container'.cells = new /\ container'.header = container.header
  BY <1>1, <1>4, <1>5, FieldsOfCall
<1>8. container'.present = container.present
  BY <1>1, <1>5, FieldsOfCall
<1>9. container'.header <= Len(container'.cells) /\ run.position <= Len(container'.cells)
  <2>1. container.header <= n /\ run.position <= n
    BY <1>1, <1>2 DEF ResumeShape, FileShape, WorkShape
  <2>2. container.header \in Nat /\ run.position \in Nat
    BY <1>1, FieldsOfCall
  <2> QED
    BY <1>2, <1>4, <1>7, <2>1, <2>2
<1>10. Len(run.segments) = SegmentCount(run.size)
  <2>1. Len(run.segments) <= SegmentCount(run.size) /\ SegmentCount(run.size) \in Nat
    BY <1>1, FieldsOfCall, EndsAreNumbers DEF Shaped
  <2> QED
    BY <1>1, <2>1, FieldsOfCall
<1>11. drawn' \in Nat /\ drawn' <= MaxNonces /\ run.filled <= run.size
  BY <1>1, <1>5, FieldsOfCall DEF ResumeShape
<1>12. run.position = EndOf(run.segments) + 0
  BY <1>1, FieldsOfCall DEF ResumeShape, WorkShape
<1> QED
  BY <1>1, <1>5, <1>6, <1>7, <1>8, <1>9, <1>10, <1>11, <1>12, FieldsOfCall, ShapeGoesOn

LEMMA HeaderKeepsShape ==
  ASSUME ResumeShape, FillHeader
  PROVE  ResumeShape'
<1>1. InCall /\ run.stage = "header"
  BY DEF FillHeader, InCall, NotRunning
<1>2. PICK n \in Nat : n = Len(container.cells)
  BY <1>1, FieldsOfCall
<1>3. /\ container' = [container EXCEPT !.header = n]
      /\ run' = [run EXCEPT !.stage = "removing"]
      /\ UNCHANGED <<version, progress, session, drawn, sealed, leftover>>
  BY <1>2 DEF FillHeader
<1>4. /\ run' \in Calls /\ run'.stage = "removing" /\ run'.size = run.size
      /\ run'.segments = run.segments /\ run'.binding = run.binding
      /\ run'.position = run.position /\ run'.filled = run.filled
  BY <1>1, <1>3, FieldsOfCall DEF Calls
<1>5. /\ container' \in [present : BOOLEAN, header : Nat, cells : Seq(Cells)]
      /\ container'.cells = container.cells /\ container'.header = n
  BY <1>1, <1>3, FieldsOfCall
<1>6. container'.present = container.present
  BY <1>1, <1>3, FieldsOfCall
<1>7. /\ run.position = EndOf(run.segments) + 0 /\ run.position <= Len(container.cells)
      /\ Len(run.segments) = SegmentCount(run.size)
  BY <1>1, FieldsOfCall DEF ResumeShape, WorkShape
<1>8. drawn' \in Nat /\ drawn' <= MaxNonces /\ run.filled <= run.size
  BY <1>1, <1>3, FieldsOfCall DEF ResumeShape
<1> QED
  BY <1>1, <1>2, <1>3, <1>4, <1>5, <1>6, <1>7, <1>8, FieldsOfCall, ShapeGoesOn

(* Between calls. *)
LEMMA NoCallShape ==
  ASSUME ResumeShape, run' = NotRunning, version' \in [Sources -> Nat],
         \A s \in Sources : version'[s] <= MaxVersions,
         session' \in Nat, session <= session', session' <= MaxSessions, UNCHANGED drawn,
         container' \in {container, NoContainer}, progress' \in {progress, NoProgress},
         sealed' \in Sealings \cup {NotSealed}
  PROVE  ResumeShape'
<1>1. NoContainer \in [present : BOOLEAN, header : Nat, cells : Seq(Cells)]
  BY DEF NoContainer
<1>2. NoContainer.header = 0 /\ Len(NoContainer.cells) = 0
  BY DEF NoContainer
<1>3. ResumeTypes'
  BY <1>1 DEF ResumeShape, ResumeTypes
<1>4. FileShape'
  BY <1>2 DEF ResumeShape, FileShape
<1>5. session \in Nat /\ 0 < session /\ ~InCall'
  BY DEF ResumeShape, ResumeTypes, InCall
<1>6. ProgressShape'
  <2>1. ASSUME progress # NoProgress PROVE progress.key \in Nat
    BY <2>1 DEF ResumeShape, ResumeTypes, Progresses
  <2> QED
    BY <1>5, <2>1 DEF ResumeShape, ProgressShape
<1>7. WorkShape'
  BY <1>5 DEF WorkShape
<1> QED
  BY <1>3, <1>4, <1>5, <1>6, <1>7 DEF ResumeShape

LEMMA EndingKeepsShape ==
  ASSUME ResumeShape, Return \/ Stop \/ EndSession \/ DeleteContainer
  PROVE  ResumeShape'
<1>1. /\ version \in [Sources -> Nat] /\ session \in Nat /\ session <= MaxSessions
      /\ sealed \in Sealings \cup {NotSealed} /\ \A s \in Sources : version[s] <= MaxVersions
  BY DEF ResumeShape, ResumeTypes
<1>2. CASE Return
  <2>1. InCall
    BY <1>2 DEF Return, InCall, NotRunning
  <2>2. PICK steady \in BOOLEAN : steady = (run.binding = Binding(run.binding.source))
    OBVIOUS
  <2>3. sealed' \in Sealings
    BY <1>2, <2>1, <2>2, FieldsOfCall DEF Return, Sealings
  <2> QED
    BY <1>1, <1>2, <2>3, NoCallShape DEF Return
<1>3. CASE Stop \/ DeleteContainer
  BY <1>1, <1>3, NoCallShape DEF Stop, DeleteContainer
<1>4. CASE EndSession
  <2>1. session' \in Nat /\ session <= session' /\ session' <= MaxSessions
    BY <1>1, <1>4, SizesAssumption DEF EndSession
  <2> QED
    BY <1>1, <1>4, <2>1, NoCallShape DEF EndSession
<1> QED
  BY <1>2, <1>3, <1>4

LEMMA ModifyingKeepsShape ==
  ASSUME ResumeShape, NEW s \in Sources, Modify(s)
  PROVE  ResumeShape'
<1>1. /\ version[s] < MaxVersions /\ version' = [version EXCEPT ![s] = @ + 1]
      /\ UNCHANGED <<container, progress, run, session, drawn, sealed, leftover>>
  BY DEF Modify
<1>2. version \in [Sources -> Nat] /\ \A t \in Sources : version[t] <= MaxVersions
  BY DEF ResumeShape, ResumeTypes
<1>3. /\ version' \in [Sources -> Nat]
      /\ \A t \in Sources : version[t] <= version'[t] /\ version'[t] <= MaxVersions
  BY <1>1, <1>2, SizesAssumption
<1>4. InCall' = InCall /\ CurrentLength' = CurrentLength
  BY <1>1 DEF InCall, CurrentLength
<1>5. ASSUME InCall PROVE Past(run.binding)'
  <2>1. run.binding.source \in Sources /\ run.binding.version \in Nat /\ Past(run.binding)
    BY <1>5, FieldsOfCall DEF Bindings, ResumeShape, WorkShape
  <2>2. version[run.binding.source] \in Nat /\ version'[run.binding.source] \in Nat
        /\ version[run.binding.source] <= version'[run.binding.source]
    BY <1>2, <1>3, <2>1
  <2> QED
    BY <1>1, <2>1, <2>2 DEF Past
<1>6. ResumeTypes' /\ WorkShape'
  BY <1>1, <1>3, <1>4, <1>5 DEF ResumeShape, ResumeTypes, WorkShape
<1> QED
  BY <1>1, <1>3, <1>4, <1>6 DEF ResumeShape, ProgressShape, FileShape

(* A call begins: with a new container, or behind what is covered. *)
LEMMA StartKeepsShape ==
  ASSUME ResumeShape, NEW s \in Sources, NEW c \in ChunkSizes, Start(s, c)
  PROVE  ResumeShape'
<1>1. /\ run = NotRunning /\ ~sealed.done /\ UNCHANGED <<version, session, drawn, sealed>>
      /\ StartFresh(s, c) \/ StartDiscarding(s, c) \/ StartResuming(s, c)
  BY DEF Start
<1>2. /\ version \in [Sources -> Nat] /\ version[s] \in Nat /\ c \in Nat
      /\ <<>> \in Seq(Segments) /\ <<>> \in Seq(Texts) /\ EndOf(<<>>) = 0 /\ Len(<<>>) = 0
  BY SizesAssumption DEF ResumeShape, ResumeTypes, EndOf
<1>3. Binding(s) \in Bindings /\ Binding(s).source = s /\ Binding(s).version = version[s]
  BY <1>2 DEF Binding, Bindings
<1>4. ASSUME NEW g \in Seq(Segments), NEW e \in Nat, NEW fresh \in BOOLEAN,
             NEW hash \in Seq(Texts), Shaped(g, c), e = EndOf(g),
             run' = [stage |-> "reading", binding |-> Binding(s), size |-> c, segments |-> g,
                     position |-> e, nonce |-> 0, filled |-> 0, fresh |-> fresh, hash |-> hash],
             container' \in {container, NewContainer}, container'.present,
             e <= Len(container'.cells), progress' \in {progress, NoProgress}
      PROVE  ResumeShape'
  <2>1. /\ run' \in Calls /\ run'.stage = "reading" /\ run'.binding = Binding(s) /\ run'.size = c
        /\ run'.segments = g /\ run'.position = e /\ run'.filled = 0
    BY <1>2, <1>3, <1>4 DEF Calls
  <2>2. NewContainer \in [present : BOOLEAN, header : Nat, cells : Seq(Cells)]
        /\ NewContainer.header = 0 /\ Len(NewContainer.cells) = 0
    BY DEF NewContainer
  <2>3. ResumeTypes'
    BY <1>1, <1>4, <2>1, <2>2 DEF ResumeShape, ResumeTypes
  <2>4. FileShape'
    BY <1>4, <2>2 DEF ResumeShape, FileShape
  <2>5. Past(run.binding)'
    BY <1>1, <1>2, <1>3, <2>1 DEF Past
  <2>6. WorkShape'
    BY <1>1, <1>4, <2>1, <2>5 DEF WorkShape
  <2>7. ProgressShape'
    BY <1>1, <1>4 DEF ResumeShape, ProgressShape
  <2> QED
    BY <1>1, <1>2, <2>1, <2>3, <2>4, <2>6, <2>7 DEF ResumeShape
<1>5. CASE StartFresh(s, c) \/ StartDiscarding(s, c)
  <2>1. PICK g \in Seq(Segments), h \in Seq(Texts), e \in Nat :
          /\ g = <<>> /\ h = <<>> /\ e = 0 /\ Len(g) = 0 /\ EndOf(g) = 0
    BY <1>2
  <2>2. Shaped(g, c)
    BY <2>1, EndsAreNumbers DEF Shaped
  <2>3. /\ run' = [stage |-> "reading", binding |-> Binding(s), size |-> c, segments |-> g,
                   position |-> e, nonce |-> 0, filled |-> 0, fresh |-> TRUE, hash |-> h]
        /\ container' = NewContainer /\ progress' \in {progress, NoProgress}
    BY <1>5, <2>1 DEF StartFresh, StartDiscarding, Started
  <2>4. container'.present /\ e <= Len(container'.cells)
    BY <2>1, <2>3 DEF NewContainer
  <2> QED
    BY <1>4, <2>1, <2>2, <2>3, <2>4
<1>6. CASE StartResuming(s, c)
  <2>1. /\ progress # NoProgress /\ progress.size = c /\ container.present
        /\ Len(container.cells) >= EndOf(progress.segments)
        /\ run' = Started(s, c, progress.segments, FALSE, WholeText(s, version[s]))
        /\ UNCHANGED <<container, progress, leftover>>
    BY <1>6 DEF StartResuming, Resumable, Ignored, ContainerCovers, NoProgress
  <2>2. PICK g \in Seq(Segments) : g = progress.segments /\ Shaped(g, c)
    BY <2>1 DEF ResumeShape, ProgressShape, Shaped
  <2>3. PICK e \in Nat : e = EndOf(g)
    BY <2>2, ShapedEnds, EndsAreNumbers
  <2>4. PICK text \in Seq(Texts) : text = WholeText(s, version[s])
    BY <1>2, WholeTextIsSequence
  <2>5. run' = [stage |-> "reading", binding |-> Binding(s), size |-> c, segments |-> g,
                position |-> e, nonce |-> 0, filled |-> 0, fresh |-> FALSE, hash |-> text]
    BY <2>1, <2>2, <2>3, <2>4 DEF Started
  <2>6. container' = container /\ container'.present /\ e <= Len(container'.cells)
    <3>1. container.cells \in Seq(Cells) /\ Len(container.cells) \in Nat
      BY DEF ResumeShape, ResumeTypes
    <3> QED
      BY <2>1, <2>2, <2>3, <3>1
  <2> QED
    BY <1>4, <2>1, <2>2, <2>3, <2>5, <2>6
<1> QED
  BY <1>1, <1>5, <1>6

LEMMA ResumeTypeHolds ==
  ResumeSpec => []ResumeTypeOK
<1>1. ResumeInit => ResumeShape
  <2> SUFFICES ASSUME ResumeInit PROVE ResumeShape
    OBVIOUS
  <2>1. /\ version = [s \in Sources |-> 0] /\ container = NoContainer /\ progress = NoProgress
        /\ run = NotRunning /\ session = 1 /\ drawn = 0 /\ sealed = NotSealed
    BY DEF ResumeInit
  <2>2. /\ NoContainer \in [present : BOOLEAN, header : Nat, cells : Seq(Cells)]
        /\ NoContainer.header = 0 /\ Len(NoContainer.cells) = 0
    BY DEF NoContainer
  <2>3. ResumeTypes
    BY <2>1, <2>2 DEF ResumeTypes
  <2> QED
    BY <2>1, <2>2, <2>3, SizesAssumption
       DEF ResumeShape, WorkShape, ProgressShape, FileShape, InCall
<1>2. ResumeShape /\ [ResumeNext]_resumeVars => ResumeShape'
  <2> SUFFICES ASSUME ResumeShape, [ResumeNext]_resumeVars PROVE ResumeShape'
    OBVIOUS
  <2>1. CASE Encrypt
    BY <2>1, BeginningKeepsShape, BufferKeepsShape, TagKeepsShape, SavingKeepsShape,
       MetadataKeepsShape, HeaderKeepsShape, EndingKeepsShape DEF Encrypt
  <2>2. CASE UNCHANGED resumeVars
    <3>1. UNCHANGED <<version, container, progress, run, session, drawn, sealed, leftover>>
      BY <2>2 DEF resumeVars
    <3> QED
      BY <3>1 DEF ResumeShape, ResumeTypes, WorkShape, ProgressShape, FileShape, InCall,
                  Past, CurrentLength
  <2> QED
    BY <2>1, <2>2, StartKeepsShape, EndingKeepsShape, ModifyingKeepsShape DEF ResumeNext
<1>3. ASSUME ResumeShape PROVE ResumeTypeOK
  <2>1. version \in [Sources -> 0 .. MaxVersions]
    BY <1>3, SizesAssumption DEF ResumeShape, ResumeTypes
  <2>2. /\ session \in 1 .. MaxSessions /\ drawn \in 0 .. MaxNonces
        /\ container.header \in 0 .. Len(container.cells)
        /\ container.present \/ container = NoContainer
    BY <1>3, SizesAssumption DEF ResumeShape, ResumeTypes, FileShape
  <2>3. ASSUME progress.present
        PROVE  /\ progress.size \in ChunkSizes /\ progress.key \in 1 .. session
               /\ Len(progress.segments) \in 1 .. SegmentCount(progress.size)
    <3>1. progress # NoProgress /\ progress \in Progresses
      BY <1>3, <2>3 DEF ResumeShape, ResumeTypes, NoProgress
    <3>2. /\ progress.size \in ChunkSizes /\ progress.key \in Nat /\ session \in Nat
          /\ Len(progress.segments) \in Nat /\ SegmentCount(progress.size) \in Nat
      BY <1>3, <3>1, EndsAreNumbers DEF Progresses, ResumeShape, ResumeTypes
    <3>3. /\ 0 < progress.key /\ progress.key <= session /\ Len(progress.segments) > 0
          /\ Len(progress.segments) <= SegmentCount(progress.size)
      BY <1>3, <3>1 DEF ResumeShape, ProgressShape, Shaped
    <3> QED
      BY <3>2, <3>3
  <2>4. ASSUME run # NotRunning
        PROVE  /\ run.stage \in {"reading", "encrypting", "saving", "header", "removing"}
               /\ run.size \in ChunkSizes
               /\ run.position \in 0 .. Len(container.cells)
               /\ run.filled \in 0 .. run.size
               /\ run.position = EndOf(run.segments)
                    + (IF run.stage = "encrypting" THEN run.filled ELSE 0)
    <3>1. InCall
      BY <2>4 DEF InCall
    <3>2. /\ run.position <= Len(container.cells) /\ run.filled <= run.size
          /\ run.position = EndOf(run.segments)
               + (IF run.stage = "encrypting" THEN run.filled ELSE 0)
      BY <1>3, <3>1 DEF ResumeShape, WorkShape
    <3>3. run.stage \in {"reading", "encrypting", "saving", "header", "removing"}
      BY <1>3, <3>1, FieldsOfCall DEF Calls
    <3>4. run.position \in 0 .. Len(container.cells) /\ run.filled \in 0 .. run.size
      BY <1>3, <3>1, <3>2, FieldsOfCall
    <3> QED
      BY <1>3, <3>1, <3>2, <3>3, <3>4, FieldsOfCall
  <2> QED
    BY <2>1, <2>2, <2>3, <2>4 DEF ResumeTypeOK
<1> QED
  BY <1>1, <1>2, <1>3, PTL DEF ResumeSpec

-----------------------------------------------------------------------------
(* CaseStore: a row keeps its seal, for any identifiers, however often they *)
(* are drawn again, and any number of events.                              *)
(*                                                                         *)
(* A completion replaces the row of its sealing without looking at it.     *)
(* The invariant says why that is sound: once saved, the row of the        *)
(* sealing on screen is the sealing's own, for nobody deletes it while a   *)
(* view is open, and the only other save that can run, of an unsealing     *)
(* that was left before, is of a history that began with an earlier event. *)

Event == [step : Steps, number : Nat \ {0}]
Histories == Seq(Event)
RecordFiles == [id : DrawnIds, history : Histories]
Views == [step : Steps, id : DrawnIds, base : Histories, history : Histories,
          saved : BOOLEAN]

(* What the variables hold. *)
CasesTyped ==
  /\ rows = [id \in DrawnIds |-> rows[id]]
  /\ \A id \in DrawnIds :
       \/ rows[id] \in {NoRow, Registered, Blank}
       \/ /\ rows[id] = Row(rows[id].history, rows[id].columns)
          /\ rows[id].history \in Histories
  /\ recordFiles \subseteq RecordFiles
  /\ events \in 0 .. MaxEvents
  /\ view \in Views \cup {NoView}
  /\ leftSave \in Views \cup {NoView}
  /\ completed \subseteq DrawnIds

(* The record of a view, once made, is in a file. *)
IsFiled(v) ==
  v # NoView /\ v.history # <<>> =>
    [id |-> v.id, history |-> v.history] \in recordFiles

(* The events of a history are among the first n. *)
MadeBy(history, n) == \A i \in DOMAIN history : history[i].number <= n

(* So is the record of a row; files hold events that were made, and so     *)
(* does what a view began with.                                            *)
RecordsAreFiled ==
  /\ \A id \in DrawnIds : rows[id].holds = "record" =>
       [id |-> id, history |-> rows[id].history] \in recordFiles
  /\ IsFiled(view) /\ IsFiled(leftSave)
  /\ \A file \in recordFiles : file.history # <<>> /\ MadeBy(file.history, events)
  /\ view # NoView => MadeBy(view.base, events)

(* The record of a sealing is one event.  An unsealing is only left once it *)
(* made its record, and that began with an earlier event.                  *)
SealingOnScreen ==
  /\ view.step = "Sealing" =>
       /\ view.base = <<>>
       /\ view.saved => view.history # <<>>
       /\ view.history # <<>> =>
            /\ Len(view.history) = 1
            /\ leftSave # NoView =>
                 leftSave.history[1].number < view.history[1].number
  /\ leftSave # NoView => leftSave.history # <<>>

SavedSealingIsStored ==
  view.step = "Sealing" /\ view.saved =>
    rows[view.id].holds = "record" /\ rows[view.id].history = view.history

CaseInv ==
  CasesTyped /\ RecordsAreFiled /\ SealingOnScreen /\ SavedSealingIsStored


LEMMA HistoryEvents ==
  ASSUME NEW h \in Histories
  PROVE  \A i \in DOMAIN h : h[i].number \in Nat
<1>1. \A i \in DOMAIN h : h[i] \in Event
  BY DEF Histories
<1> QED
  BY <1>1 DEF Event

(* The first numbers of a history and of one that continues it agree. *)
LEMMA PrefixFirst ==
  ASSUME NEW s \in Histories, NEW t \in Histories, s # <<>>, IsPrefix(s, t)
  PROVE  s[1] = t[1]
<1>1. 1 \in 1 .. Len(s) /\ Len(s) <= Len(t)
  BY DEF IsPrefix, Histories
<1>2. SubSeq(s, 1, Len(s))[1] = SubSeq(t, 1, Len(s))[1]
  BY DEF IsPrefix
<1> QED
  BY <1>1, <1>2 DEF Histories

LEMMA PrefixOfItself ==
  ASSUME NEW s \in Histories
  PROVE  IsPrefix(s, s)
BY DEF IsPrefix, Histories

(* A view is the empty one or has a step. *)
LEMMA ViewKinds ==
  ASSUME NEW v \in Views \cup {NoView}
  PROVE  /\ v # NoView <=> v.step \in Steps
         /\ v # NoView <=> v \in Views
BY DEF Views, NoView, Steps

(* What a row holds. *)
LEMMA RowKinds ==
  ASSUME CasesTyped, NEW id \in DrawnIds
  PROVE  \/ rows[id] = NoRow /\ rows[id].holds = "nothing"
         \/ rows[id] = Registered /\ rows[id].holds = "case"
         \/ rows[id] = Blank /\ rows[id].holds = "blank"
         \/ /\ rows[id] # NoRow /\ rows[id].holds = "record"
            /\ rows[id].history \in Histories
<1>1. \/ rows[id] \in {NoRow, Registered, Blank}
      \/ /\ rows[id] = Row(rows[id].history, rows[id].columns)
         /\ rows[id].history \in Histories
  BY DEF CasesTyped
<1>2. NoRow.holds = "nothing" /\ Registered.holds = "case" /\ Blank.holds = "blank"
  BY DEF NoRow, Registered, Blank
<1>3. Row(rows[id].history, rows[id].columns).holds = "record"
  BY DEF Row
<1> QED
  BY <1>1, <1>2, <1>3

(* A row that is replaced by one of a kind leaves the others as they are.  *)
LEMMA RowsReplaced ==
  ASSUME CasesTyped, NEW i \in DrawnIds, NEW row,
         \/ row \in {NoRow, Registered, Blank}
         \/ row = Row(row.history, row.columns) /\ row.history \in Histories,
         rows' = [rows EXCEPT ![i] = row]
  PROVE  /\ rows' = [id \in DrawnIds |-> rows'[id]]
         /\ rows'[i] = row
         /\ \A id \in DrawnIds \ {i} : rows'[id] = rows[id]
         /\ \A id \in DrawnIds :
              \/ rows'[id] \in {NoRow, Registered, Blank}
              \/ /\ rows'[id] = Row(rows'[id].history, rows'[id].columns)
                 /\ rows'[id].history \in Histories
<1>1. rows = [id \in DrawnIds |-> rows[id]]
  BY DEF CasesTyped
<1>2. rows' = [id \in DrawnIds |-> IF id = i THEN row ELSE rows[id]]
  BY <1>1
<1>3. /\ rows'[i] = row
      /\ \A id \in DrawnIds \ {i} : rows'[id] = rows[id]
  BY <1>2
<1>4. rows' = [id \in DrawnIds |-> rows'[id]]
  BY <1>2
<1> QED
  BY <1>3, <1>4 DEF CasesTyped

(* A row is only replaced by a record that continues its own, of a history *)
(* that is in a file.                                                      *)
LEMMA SaveStores ==
  ASSUME CasesTyped, RecordsAreFiled, NEW v \in Views, v.history # <<>>,
         IsFiled(v), Save(v)
  PROVE  /\ rows' = [id \in DrawnIds |-> rows'[id]]
         /\ \A id \in DrawnIds \ {v.id} : rows'[id] = rows[id]
         /\ rows'[v.id].holds = "record" /\ rows'[v.id].history = v.history
         /\ \A id \in DrawnIds :
              \/ rows'[id] \in {NoRow, Registered, Blank}
              \/ /\ rows'[id] = Row(rows'[id].history, rows'[id].columns)
                 /\ rows'[id].history \in Histories
         /\ \A id \in DrawnIds : rows'[id].holds = "record" =>
              [id |-> id, history |-> rows'[id].history] \in recordFiles
         /\ \A id \in DrawnIds : Follows(rows[id], rows'[id])
         /\ completed' \subseteq DrawnIds
<1> DEFINE columns == IF v.step = "Sealing" THEN ColumnsOf(v.history)
                      ELSE DefaultColumns
           row == Row(v.history, columns)
<1>1. v.id \in DrawnIds /\ v.history \in Histories /\ v # NoView
  BY ViewKinds DEF Views
<1>2. row = Row(row.history, row.columns) /\ row.history = v.history
      /\ row.holds = "record"
  BY DEF Row
<1>3. rows' = [rows EXCEPT ![v.id] = row]
  BY DEF Save
<1>4. /\ rows' = [id \in DrawnIds |-> rows'[id]]
      /\ rows'[v.id] = row
      /\ \A id \in DrawnIds \ {v.id} : rows'[id] = rows[id]
      /\ \A id \in DrawnIds :
           \/ rows'[id] \in {NoRow, Registered, Blank}
           \/ /\ rows'[id] = Row(rows'[id].history, rows'[id].columns)
              /\ rows'[id].history \in Histories
  <2> HIDE DEF row
  <2> QED BY <1>1, <1>2, <1>3, RowsReplaced
<1>5. \A id \in DrawnIds : rows'[id].holds = "record" =>
        [id |-> id, history |-> rows'[id].history] \in recordFiles
  <2> HIDE DEF row
  <2> QED BY <1>1, <1>2, <1>4 DEF RecordsAreFiled, IsFiled
<1>6. Follows(rows[v.id], rows'[v.id])
  <2>1. \/ rows[v.id] = NoRow
        \/ /\ rows[v.id].holds = "record"
           /\ IsPrefix(rows[v.id].history, v.history)
    BY DEF Save, Replaceable
  <2>2. rows[v.id] = NoRow => rows[v.id].holds = "nothing"
    BY DEF NoRow
  <2> HIDE DEF row
  <2> QED BY <1>2, <1>4, <2>1, <2>2 DEF Follows
<1>7. \A id \in DrawnIds \ {v.id} : Follows(rows[id], rows'[id])
  BY <1>4, RowKinds, PrefixOfItself DEF Follows
<1>8. completed' \subseteq DrawnIds
  BY DEF Save, CasesTyped
<1> HIDE DEF row
<1> QED
  BY <1>1, <1>2, <1>4, <1>5, <1>6, <1>7, <1>8

(* Rows that stay keep their seals. *)
LEMMA UnchangedFollows ==
  ASSUME CasesTyped, rows' = rows
  PROVE  \A id \in DrawnIds : Follows(rows[id], rows'[id])
BY RowKinds, PrefixOfItself DEF Follows

(* The case manager: no view is open. *)
LEMMA ManagerKeepsSeals ==
  ASSUME CaseInv, NEW i \in DrawnIds, RegisterCase(i) \/ DeleteCase(i)
  PROVE  CaseInv' /\ \A id \in DrawnIds : Follows(rows[id], rows'[id])
<1>1. /\ view = NoView /\ view' = view
      /\ UNCHANGED <<recordFiles, events, leftSave>>
  BY DEF RegisterCase, DeleteCase
<1>2. PICK row \in {NoRow, Registered} :
        /\ rows' = [rows EXCEPT ![i] = row]
        /\ row # NoRow => rows[i] = NoRow
  BY DEF RegisterCase, DeleteCase
<1>3. row.holds \in {"nothing", "case"}
  BY DEF NoRow, Registered
<1>4. /\ rows' = [id \in DrawnIds |-> rows'[id]]
      /\ rows'[i] = row
      /\ \A id \in DrawnIds \ {i} : rows'[id] = rows[id]
      /\ \A id \in DrawnIds :
           \/ rows'[id] \in {NoRow, Registered, Blank}
           \/ /\ rows'[id] = Row(rows'[id].history, rows'[id].columns)
              /\ rows'[id].history \in Histories
  BY <1>2, RowsReplaced DEF CaseInv
<1>5. completed' \subseteq DrawnIds
  BY DEF RegisterCase, DeleteCase, CaseInv, CasesTyped
<1>6. CasesTyped'
  BY <1>1, <1>4, <1>5 DEF CaseInv, CasesTyped
<1>7. RecordsAreFiled'
  <2>1. \A id \in DrawnIds : rows'[id].holds = "record" =>
          rows'[id] = rows[id]
    BY <1>3, <1>4
  <2> QED BY <1>1, <2>1 DEF CaseInv, RecordsAreFiled, IsFiled, MadeBy
<1>8. SealingOnScreen' /\ SavedSealingIsStored'
  <2>1. view.step # "Sealing" /\ view'.step # "Sealing"
    BY <1>1 DEF NoView
  <2> QED BY <1>1, <2>1 DEF CaseInv, SealingOnScreen, SavedSealingIsStored
<1>9. \A id \in DrawnIds : Follows(rows[id], rows'[id])
  <2>1. Follows(rows[i], rows'[i])
    BY <1>2, <1>4 DEF Follows, NoRow
  <2>2. \A id \in DrawnIds \ {i} : Follows(rows[id], rows'[id])
    BY <1>4, RowKinds, PrefixOfItself DEF Follows, CaseInv
  <2> QED BY <2>1, <2>2
<1> QED
  BY <1>6, <1>7, <1>8, <1>9 DEF CaseInv

(* A view that opens has no record yet. *)
LEMMA OpeningKeepsSeals ==
  ASSUME CaseInv, UNCHANGED <<rows, recordFiles, events, leftSave, completed>>,
         NEW step \in Steps, NEW id \in DrawnIds, NEW base \in Histories,
         step = "Sealing" => base = <<>>, MadeBy(base, events),
         view' = NewView(step, id, base)
  PROVE  CaseInv'
<1>1. /\ view' \in Views /\ view'.history = <<>> /\ ~view'.saved
      /\ view'.step = step /\ view'.base = base
  BY DEF NewView, Views, Histories
<1>2. CasesTyped'
  BY <1>1 DEF CaseInv, CasesTyped
<1>3. RecordsAreFiled'
  BY <1>1 DEF CaseInv, RecordsAreFiled, IsFiled, MadeBy
<1>4. SealingOnScreen' /\ SavedSealingIsStored'
  BY <1>1 DEF CaseInv, SealingOnScreen, SavedSealingIsStored
<1> QED
  BY <1>2, <1>3, <1>4 DEF CaseInv

(* The record of the new event is the newest of all files. *)
LEMMA MakingKeepsSeals ==
  ASSUME CaseInv, MakeViewRecord
  PROVE  CaseInv'
<1> DEFINE made == [step |-> view.step, number |-> events + 1]
           history == Append(view.base, made)
           file == [id |-> view.id, history |-> history]
<1>1. /\ view # NoView /\ view.history = <<>> /\ events' = events + 1
      /\ events < MaxEvents
      /\ recordFiles' = recordFiles \cup {file}
      /\ view' = [view EXCEPT !.history = history]
      /\ UNCHANGED <<rows, leftSave, completed>>
  BY DEF MakeViewRecord
<1>2. view \in Views /\ events \in Nat /\ events' \in 0 .. MaxEvents
  BY <1>1, ViewKinds, CaseStoreAssumption DEF CaseInv, CasesTyped
<1>3. made \in Event
  BY <1>2 DEF Event, Views
<1>4. history \in Histories /\ history # <<>>
      /\ Len(history) = Len(view.base) + 1 /\ history[Len(history)] = made
      /\ \A i \in DOMAIN history :
           \/ i \in DOMAIN view.base /\ history[i] = view.base[i]
           \/ history[i] = made
  <2> HIDE DEF made
  <2>1. view.base \in Seq(Event)
    BY <1>2 DEF Views, Histories
  <2> QED BY <1>3, <2>1 DEF Histories
<1>5. file \in RecordFiles
  BY <1>2, <1>4 DEF RecordFiles, Views
<1>6. /\ view' \in Views /\ view' # NoView
      /\ view'.history = history /\ view'.id = view.id /\ view'.step = view.step
      /\ view'.base = view.base /\ view'.saved = view.saved
  <2> HIDE DEF history
  <2> QED BY <1>1, <1>2, <1>4, ViewKinds DEF Views
<1>7. CasesTyped'
  <2> HIDE DEF file
  <2> QED BY <1>1, <1>2, <1>5, <1>6 DEF CaseInv, CasesTyped
<1>8. MadeBy(history, events + 1)
  <2>1. \A i \in DOMAIN view.base : view.base[i].number <= events
    BY <1>1 DEF CaseInv, RecordsAreFiled, MadeBy
  <2>2. \A i \in DOMAIN view.base : view.base[i].number \in Nat
    BY <1>2, HistoryEvents DEF Views
  <2>3. \A i \in DOMAIN view.base : view.base[i].number <= events + 1
    BY <1>2, <2>1, <2>2
  <2>4. made.number <= events + 1
    BY <1>2
  <2> HIDE DEF history, made
  <2> QED BY <1>4, <2>3, <2>4 DEF MadeBy
<1>9. \A h \in Histories : MadeBy(h, events) => MadeBy(h, events + 1)
  BY <1>2, HistoryEvents DEF MadeBy
<1>10. RecordsAreFiled'
  <2>1. file.history = history /\ file = [id |-> view.id, history |-> history]
    OBVIOUS
  <2>2. \A f \in recordFiles : f.history \in Histories
    BY DEF CaseInv, CasesTyped, RecordFiles
  <2>3. \A f \in recordFiles' : f.history # <<>> /\ MadeBy(f.history, events + 1)
    BY <1>1, <1>4, <1>8, <1>9, <2>1, <2>2 DEF CaseInv, RecordsAreFiled
  <2>4. MadeBy(view'.base, events + 1)
    BY <1>1, <1>2, <1>6, <1>9 DEF CaseInv, RecordsAreFiled, Views
  <2> HIDE DEF file, history
  <2> QED BY <1>1, <1>6, <2>1, <2>3, <2>4
          DEF CaseInv, RecordsAreFiled, IsFiled
<1>11. SealingOnScreen'
  <2>1. CASE view.step # "Sealing"
    BY <1>1, <1>6, <2>1 DEF CaseInv, SealingOnScreen
  <2>2. CASE view.step = "Sealing"
    <3>1. view.base = <<>> /\ Len(history) = 1 /\ history[1] = made
      BY <1>4, <2>2 DEF CaseInv, SealingOnScreen
    <3>2. ASSUME leftSave # NoView
          PROVE  leftSave.history[1].number < history[1].number
      <4>1. leftSave \in Views /\ leftSave.history # <<>>
        BY <3>2 DEF CaseInv, CasesTyped, SealingOnScreen
      <4>2. leftSave.history \in Seq(Event) /\ MadeBy(leftSave.history, events)
        BY <3>2, <4>1 DEF CaseInv, RecordsAreFiled, IsFiled, Views, Histories
      <4>3. 1 \in DOMAIN leftSave.history
        BY <4>1, <4>2
      <4>4. leftSave.history[1].number \in Nat /\ leftSave.history[1].number <= events
        BY <4>2, <4>3, HistoryEvents DEF MadeBy, Histories
      <4> QED BY <1>2, <3>1, <4>4
    <3> HIDE DEF history
    <3> QED BY <1>1, <1>4, <1>6, <2>2, <3>1, <3>2 DEF CaseInv, SealingOnScreen
  <2> QED BY <2>1, <2>2
<1>12. SavedSealingIsStored'
  BY <1>1, <1>6 DEF CaseInv, SealingOnScreen, SavedSealingIsStored
<1> QED
  BY <1>7, <1>10, <1>11, <1>12 DEF CaseInv

(* A view on screen is saved: the row is its record's from now on. *)
LEMMA SavingKeepsSeals ==
  ASSUME CaseInv, SaveViewRecord
  PROVE  CaseInv' /\ \A id \in DrawnIds : Follows(rows[id], rows'[id])
<1>1. /\ view # NoView /\ view.history # <<>> /\ Save(view)
      /\ view' = [view EXCEPT !.saved = TRUE]
      /\ UNCHANGED <<recordFiles, events, leftSave>>
  BY DEF SaveViewRecord
<1>2. view \in Views
  BY <1>1, ViewKinds DEF CaseInv, CasesTyped
<1>3. /\ view' \in Views /\ view' # NoView
      /\ view'.history = view.history /\ view'.id = view.id
      /\ view'.step = view.step /\ view'.base = view.base
  BY <1>1, <1>2, ViewKinds DEF Views
<1>4. /\ rows' = [id \in DrawnIds |-> rows'[id]]
      /\ rows'[view.id].holds = "record" /\ rows'[view.id].history = view.history
      /\ \A id \in DrawnIds :
           \/ rows'[id] \in {NoRow, Registered, Blank}
           \/ /\ rows'[id] = Row(rows'[id].history, rows'[id].columns)
              /\ rows'[id].history \in Histories
      /\ \A id \in DrawnIds : rows'[id].holds = "record" =>
           [id |-> id, history |-> rows'[id].history] \in recordFiles
      /\ \A id \in DrawnIds : Follows(rows[id], rows'[id])
      /\ completed' \subseteq DrawnIds
  BY <1>1, <1>2, SaveStores DEF CaseInv, RecordsAreFiled
<1>5. CasesTyped'
  BY <1>1, <1>3, <1>4 DEF CaseInv, CasesTyped
<1>6. RecordsAreFiled'
  BY <1>1, <1>3, <1>4 DEF CaseInv, RecordsAreFiled, IsFiled, MadeBy
<1>7. SealingOnScreen'
  BY <1>1, <1>3 DEF CaseInv, SealingOnScreen
<1>8. SavedSealingIsStored'
  BY <1>3, <1>4 DEF SavedSealingIsStored
<1> QED
  BY <1>4, <1>5, <1>6, <1>7, <1>8 DEF CaseInv

(* The completion of a sealing replaces the row of its own record. *)
LEMMA CompletingKeepsSeals ==
  ASSUME CaseInv, CompleteSealing
  PROVE  CaseInv' /\ \A id \in DrawnIds : Follows(rows[id], rows'[id])
<1> DEFINE row == Row(view.history, ColumnsOf(view.history))
<1>1. /\ view.step = "Sealing" /\ view.saved
      /\ rows' = [rows EXCEPT ![view.id] = row]
      /\ view' = NoView /\ completed' = completed \cup {view.id}
      /\ UNCHANGED <<recordFiles, events, leftSave>>
  BY DEF CompleteSealing
<1>2. view \in Views /\ view # NoView /\ NoView.step # "Sealing"
  BY <1>1, ViewKinds DEF CaseInv, CasesTyped, NoView
<1>3. row = Row(row.history, row.columns) /\ row.history = view.history
      /\ row.holds = "record"
  BY DEF Row
<1>4. /\ view.id \in DrawnIds /\ view.history \in Histories
      /\ rows[view.id].holds = "record" /\ rows[view.id].history = view.history
  BY <1>1, <1>2 DEF Views, CaseInv, SavedSealingIsStored
<1>5. /\ rows' = [id \in DrawnIds |-> rows'[id]]
      /\ rows'[view.id] = row
      /\ \A id \in DrawnIds \ {view.id} : rows'[id] = rows[id]
      /\ \A id \in DrawnIds :
           \/ rows'[id] \in {NoRow, Registered, Blank}
           \/ /\ rows'[id] = Row(rows'[id].history, rows'[id].columns)
              /\ rows'[id].history \in Histories
  <2> HIDE DEF row
  <2> QED BY <1>1, <1>3, <1>4, RowsReplaced DEF CaseInv
<1> HIDE DEF row
<1>6. CasesTyped'
  BY <1>1, <1>4, <1>5 DEF CaseInv, CasesTyped
<1>7. \A id \in DrawnIds : rows'[id].holds = "record" =>
        [id |-> id, history |-> rows'[id].history] \in recordFiles
  BY <1>3, <1>4, <1>5 DEF CaseInv, RecordsAreFiled
<1>8. RecordsAreFiled'
  BY <1>1, <1>7 DEF CaseInv, RecordsAreFiled, IsFiled, MadeBy
<1>9. SealingOnScreen' /\ SavedSealingIsStored'
  BY <1>1, <1>2 DEF CaseInv, SealingOnScreen, SavedSealingIsStored
<1>10. \A id \in DrawnIds : Follows(rows[id], rows'[id])
  <2>1. Follows(rows[view.id], rows'[view.id])
    BY <1>3, <1>4, <1>5, PrefixOfItself DEF Follows
  <2>2. \A id \in DrawnIds \ {view.id} : Follows(rows[id], rows'[id])
    BY <1>5, RowKinds, PrefixOfItself DEF Follows, CaseInv
  <2> QED BY <2>1, <2>2
<1> QED
  BY <1>6, <1>8, <1>9, <1>10 DEF CaseInv

(* The other steps' completion may insert a blank row, and no other. *)
LEMMA OtherCompletionKeepsSeals ==
  ASSUME CaseInv, CompleteOther
  PROVE  CaseInv' /\ \A id \in DrawnIds : Follows(rows[id], rows'[id])
<1>1. /\ view.step \in {"Unsealing", "Resealing"}
      /\ \/ rows' = rows
         \/ rows[view.id] = NoRow /\ rows' = [rows EXCEPT ![view.id] = Blank]
      /\ completed' \in {completed, completed \cup {view.id}}
      /\ UNCHANGED <<recordFiles, events, view, leftSave>>
  BY DEF CompleteOther
<1>2. view \in Views /\ view.id \in DrawnIds /\ view.step # "Sealing"
  <2>1. view # NoView
    BY <1>1 DEF NoView
  <2> QED BY <1>1, <2>1 DEF CaseInv, CasesTyped, Views
<1>3. completed' \subseteq DrawnIds
  BY <1>1, <1>2 DEF CaseInv, CasesTyped
<1>4. CASE rows' = rows
  <2>1. CaseInv'
    BY <1>1, <1>3, <1>4 DEF CaseInv, CasesTyped, RecordsAreFiled, IsFiled, MadeBy,
                            SealingOnScreen, SavedSealingIsStored
  <2> QED BY <1>4, <2>1, UnchangedFollows DEF CaseInv
<1>5. CASE rows[view.id] = NoRow /\ rows' = [rows EXCEPT ![view.id] = Blank]
  <2>1. /\ rows' = [id \in DrawnIds |-> rows'[id]]
        /\ rows'[view.id] = Blank
        /\ \A id \in DrawnIds \ {view.id} : rows'[id] = rows[id]
        /\ \A id \in DrawnIds :
             \/ rows'[id] \in {NoRow, Registered, Blank}
             \/ /\ rows'[id] = Row(rows'[id].history, rows'[id].columns)
                /\ rows'[id].history \in Histories
    BY <1>2, <1>5, RowsReplaced DEF CaseInv
  <2>2. Blank.holds = "blank" /\ NoRow.holds = "nothing"
    BY DEF Blank, NoRow
  <2>3. CasesTyped'
    BY <1>1, <1>3, <2>1 DEF CaseInv, CasesTyped
  <2>4. \A id \in DrawnIds : rows'[id].holds = "record" => rows'[id] = rows[id]
    BY <2>1, <2>2
  <2>5. RecordsAreFiled'
    BY <1>1, <2>4 DEF CaseInv, RecordsAreFiled, IsFiled, MadeBy
  <2>6. SealingOnScreen' /\ SavedSealingIsStored'
    BY <1>1, <1>2 DEF CaseInv, SealingOnScreen, SavedSealingIsStored
  <2>7. Follows(rows[view.id], rows'[view.id])
    BY <1>5, <2>2 DEF Follows
  <2>8. \A id \in DrawnIds \ {view.id} : Follows(rows[id], rows'[id])
    BY <2>1, RowKinds, PrefixOfItself DEF Follows, CaseInv
  <2> QED BY <2>3, <2>5, <2>6, <2>7, <2>8 DEF CaseInv
<1> QED
  BY <1>1, <1>4, <1>5

(* A view that is left may leave its save behind. *)
LEMMA LeavingKeepsSeals ==
  ASSUME CaseInv, LeaveCaseView
  PROVE  CaseInv'
<1>1. /\ view' = NoView /\ NoView.step # "Sealing"
      /\ \/ leftSave' = leftSave
         \/ view # NoView /\ view.history # <<>> /\ leftSave' = view
      /\ UNCHANGED <<rows, recordFiles, events, completed>>
  BY DEF LeaveCaseView, NoView
<1>2. CasesTyped'
  BY <1>1 DEF CaseInv, CasesTyped
<1>3. RecordsAreFiled'
  BY <1>1 DEF CaseInv, RecordsAreFiled, IsFiled, MadeBy
<1>4. SealingOnScreen' /\ SavedSealingIsStored'
  BY <1>1 DEF CaseInv, SealingOnScreen, SavedSealingIsStored
<1> QED
  BY <1>2, <1>3, <1>4 DEF CaseInv

(* A save that ends later does not touch the row of the sealing on screen: *)
(* its history began before.                                               *)
LEMMA LateSaveKeepsSeals ==
  ASSUME CaseInv, LeftSaveEnds
  PROVE  CaseInv' /\ \A id \in DrawnIds : Follows(rows[id], rows'[id])
<1>1. /\ leftSave # NoView /\ leftSave' = NoView
      /\ Save(leftSave) \/ UNCHANGED <<rows, completed>>
      /\ UNCHANGED <<recordFiles, events, view>>
  BY DEF LeftSaveEnds
<1>2. SealingOnScreen'
  BY <1>1 DEF CaseInv, SealingOnScreen
<1>3. CASE UNCHANGED <<rows, completed>>
  <2>1. CasesTyped' /\ RecordsAreFiled' /\ SavedSealingIsStored'
    BY <1>1, <1>3 DEF CaseInv, CasesTyped, RecordsAreFiled, IsFiled, MadeBy,
                      SavedSealingIsStored
  <2> QED BY <1>2, <1>3, <2>1, UnchangedFollows DEF CaseInv
<1>4. CASE Save(leftSave)
  <2>1. leftSave \in Views /\ leftSave.history # <<>>
    BY <1>1, ViewKinds DEF CaseInv, CasesTyped, SealingOnScreen
  <2>2. /\ rows' = [id \in DrawnIds |-> rows'[id]]
        /\ \A id \in DrawnIds \ {leftSave.id} : rows'[id] = rows[id]
        /\ \A id \in DrawnIds :
             \/ rows'[id] \in {NoRow, Registered, Blank}
             \/ /\ rows'[id] = Row(rows'[id].history, rows'[id].columns)
                /\ rows'[id].history \in Histories
        /\ \A id \in DrawnIds : rows'[id].holds = "record" =>
             [id |-> id, history |-> rows'[id].history] \in recordFiles
        /\ \A id \in DrawnIds : Follows(rows[id], rows'[id])
        /\ completed' \subseteq DrawnIds
    BY <1>4, <2>1, SaveStores DEF CaseInv, RecordsAreFiled
  <2>3. CasesTyped'
    BY <1>1, <2>2 DEF CaseInv, CasesTyped
  <2>4. RecordsAreFiled'
    BY <1>1, <2>2 DEF CaseInv, RecordsAreFiled, IsFiled, MadeBy
  <2>5. ASSUME view.step = "Sealing", view.saved
        PROVE  rows'[view.id] = rows[view.id]
    <3>1. /\ view \in Views /\ view.history # <<>> /\ Len(view.history) = 1
          /\ leftSave.history[1].number < view.history[1].number
      BY <1>1, <2>5, ViewKinds DEF CaseInv, CasesTyped, SealingOnScreen, Steps
    <3>2. rows[view.id].holds = "record" /\ rows[view.id].history = view.history
      BY <2>5 DEF CaseInv, SavedSealingIsStored
    <3>3. view.history \in Histories /\ leftSave.history \in Histories
      BY <2>1, <3>1 DEF Views
    <3>4. view.history[1].number \in Nat /\ leftSave.history[1].number \in Nat
      <4>1. 1 \in DOMAIN view.history /\ 1 \in DOMAIN leftSave.history
        BY <2>1, <3>1, <3>3 DEF Histories
      <4> QED BY <3>3, <4>1, HistoryEvents
    <3>5. ~IsPrefix(view.history, leftSave.history)
      BY <3>1, <3>3, <3>4, PrefixFirst
    <3>6. NoRow.holds # "record"
      BY DEF NoRow
    <3>7. leftSave.id # view.id
      BY <1>4, <3>2, <3>5, <3>6 DEF Save, Replaceable
    <3>8. view.id \in DrawnIds
      BY <3>1 DEF Views
    <3> QED BY <2>2, <3>7, <3>8
  <2>6. SavedSealingIsStored'
    BY <1>1, <2>5 DEF CaseInv, SavedSealingIsStored
  <2> QED BY <1>2, <2>2, <2>3, <2>4, <2>6 DEF CaseInv
<1> QED
  BY <1>1, <1>3, <1>4

LEMMA CaseStep ==
  ASSUME CaseInv, [CaseStoreNext]_caseVars
  PROVE  CaseInv' /\ \A id \in DrawnIds : Follows(rows[id], rows'[id])
<1>1. ASSUME NEW id \in DrawnIds, OpenSealView(id)
      PROVE  CaseInv' /\ rows' = rows
  <2>1. <<>> \in Histories /\ MadeBy(<<>>, events) /\ "Sealing" \in Steps
    BY DEF Histories, MadeBy, Steps
  <2> QED BY <1>1, <2>1, OpeningKeepsSeals DEF OpenSealView
<1>2. ASSUME NEW step \in {"Unsealing", "Resealing"}, NEW file \in recordFiles,
             OpenRecordView(step, file)
      PROVE  CaseInv' /\ rows' = rows
  <2>1. file.id \in DrawnIds /\ file.history \in Histories /\ MadeBy(file.history, events)
    BY DEF CaseInv, CasesTyped, RecordFiles, RecordsAreFiled
  <2>2. step \in Steps /\ step # "Sealing"
    BY DEF Steps
  <2> QED BY <1>2, <2>1, <2>2, OpeningKeepsSeals DEF OpenRecordView
<1>3. CASE MakeViewRecord
  BY <1>3, MakingKeepsSeals, UnchangedFollows DEF MakeViewRecord, CaseInv
<1>4. CASE LeaveCaseView
  BY <1>4, LeavingKeepsSeals, UnchangedFollows DEF LeaveCaseView, CaseInv
<1>5. CASE UNCHANGED caseVars
  <2>1. CaseInv'
    BY <1>5 DEF caseVars, CaseInv, CasesTyped, RecordsAreFiled, IsFiled, MadeBy,
                SealingOnScreen, SavedSealingIsStored
  <2> QED BY <1>5, <2>1, UnchangedFollows DEF CaseInv, caseVars
<1> QED
  BY <1>1, <1>2, <1>3, <1>4, <1>5, ManagerKeepsSeals, SavingKeepsSeals,
     CompletingKeepsSeals, OtherCompletionKeepsSeals, LateSaveKeepsSeals,
     UnchangedFollows DEF CaseStoreNext, CaseInv

LEMMA CaseInvCorrect == CaseStoreSpec => []CaseInv
<1>1. CaseStoreInit => CaseInv
  <2>1. ASSUME CaseStoreInit
        PROVE  \A id \in DrawnIds : rows[id] = NoRow /\ rows[id].holds = "nothing"
    BY <2>1 DEF CaseStoreInit, NoRow
  <2>2. NoView.step # "Sealing"
    BY DEF NoView
  <2>3. CaseStoreInit => CasesTyped
    BY <2>1, CaseStoreAssumption DEF CaseStoreInit, CasesTyped
  <2> QED BY <2>1, <2>2, <2>3 DEF CaseStoreInit, CaseInv, RecordsAreFiled,
                     IsFiled, SealingOnScreen, SavedSealingIsStored
<1>2. CaseInv /\ [CaseStoreNext]_caseVars => CaseInv'
  BY CaseStep
<1> QED
  BY <1>1, <1>2, PTL DEF CaseStoreSpec

(* A stored record is followed only by one that continues it, and a        *)
(* registered case by nothing, until the case is deleted; whichever        *)
(* wizards save, complete, or end after they were left.                    *)
THEOREM RowsKeepTheirSeals == CaseStoreSpec => RowKeepsItsSeal
<1>1. CaseInv /\ [CaseStoreNext]_caseVars =>
        [\A id \in DrawnIds : Follows(rows[id], rows'[id])]_caseVars
  BY CaseStep
<1> QED
  BY <1>1, CaseInvCorrect, PTL DEF CaseStoreSpec, RowKeepsItsSeal

-----------------------------------------------------------------------------
(* What the variables of each component hold: the invariants above, and    *)
(* what only this needs, the bounds and the pages that work belongs to.    *)

(* SealWizard: a saved seal is reviewed on a page before the fifth; page 1 *)
(* waits for its encryption.                                               *)
SealPlace(screen) ==
  /\ screen.return # 0 => screen.page < 5
  /\ screen.busy = "encrypting" => screen.page = 1
SealPlaces ==
  /\ attempts <= MaxAttempts
  /\ wizard # Closed => SealPlace(wizard)

LEMMA DrawnPlace ==
  ASSUME SealInv, Responsive, NEW page \in 1 .. 7, NEW return \in 0 .. 7,
         Drawn(page, return), return # 0 => page < 5
  PROVE  SealPlace(wizard')
<1>1. wizard \in SealScreens
  BY ScreenIsOpen DEF Responsive
<1> QED
  BY <1>1 DEF Drawn, Responsive, SealPlace, SealScreens

LEMMA ShownPlace ==
  ASSUME SealInv, SealPlaces, Responsive, NEW page \in 1 .. 7, Show(page)
  PROVE  SealPlaces'
<1>1. wizard \in SealScreens /\ attempts \in Nat
  BY ScreenIsOpen DEF Responsive, SealInv, SealTypes
<1>2. CASE StartSealing
  <2>1. attempts' <= MaxAttempts
    BY <1>1, <1>2, WizardAssumption DEF StartSealing
  <2>2. SealPlace(wizard')
    BY <1>1, <1>2 DEF StartSealing, SealPlace, SealScreens
  <2> QED
    BY <2>1, <2>2 DEF SealPlaces, SealPlace
<1>3. CASE Draw(page)
  <2>1. Drawn(page, 0) /\ UNCHANGED attempts
    BY <1>3 DEF Draw, Drawn
  <2>2. SealPlace(wizard')
    BY <2>1, DrawnPlace
  <2> QED
    BY <2>1, <2>2 DEF SealPlaces, SealPlace
<1> QED
  BY <1>2, <1>3 DEF Show

LEMMA SealPlacesStep ==
  ASSUME SealInv, SealPlaces, [SealWizardNext]_sealVars
  PROVE  SealPlaces'
<1> USE DEF SealPlaces
<1>1. CASE UNCHANGED sealVars
  BY <1>1 DEF sealVars
<1>2. wizard.open => wizard \in SealScreens /\ wizard # Closed /\ SealPlace(wizard)
  BY ScreenIsOpen
<1>3. ASSUME NEW c \in Cases \cup {NoCase}, OpenWizard(c) PROVE SealPlaces'
  BY <1>3 DEF OpenWizard, Fresh, SealPlace
<1>4. ASSUME NEW o \in SealOutputs, StartEncryption(o) PROVE SealPlaces'
  BY <1>2, <1>4 DEF StartEncryption, InOrder, Responsive, SealPlace, SealScreens
<1>5. CASE EncryptSome
  <2>1. UNCHANGED <<attempts, wizard>>
    BY <1>5 DEF EncryptSome, WriteContainer
  <2> QED
    BY <2>1 DEF SealPlace
<1>6. CASE EncryptAll \/ EncryptStops
  <2>1. wizard \in SealScreens /\ SealPlace(wizard) /\ UNCHANGED attempts
    BY <1>2, <1>6 DEF EncryptAll, WriteContainer, EncryptStops
  <2>2. CASE EncryptAll
    BY <2>1, <2>2 DEF EncryptAll, SealPlace, SealScreens
  <2>3. CASE EncryptStops
    BY <2>1, <2>3 DEF EncryptStops, SealPlace, SealScreens
  <2> QED
    BY <1>6, <2>2, <2>3
<1>7. CASE Pages
  <2>1. ASSUME NEW i \in Inputs, EnterInputs(i) PROVE SealPlaces'
    BY <1>2, <2>1 DEF EnterInputs, InOrder, Responsive, SealPlace, SealScreens
  <2>2. CASE GoNext
    <3>1. CASE wizard.page = 5 /\ ~wizard.saved /\ StartSealing
      <4>1. Show(5) /\ Responsive
        BY <2>2, <3>1 DEF Show, GoNext, InOrder
      <4> QED
        BY <4>1, ShownPlace
    <3>2. CASE PageIsDone /\ Show(wizard.page + 1)
      <4>1. Responsive /\ wizard.page + 1 \in 1 .. 7
        BY <1>2, <2>2, <3>2 DEF GoNext, InOrder, Responsive, PageIsDone, SealScreens
      <4> QED
        BY <3>2, <4>1, ShownPlace
    <3> QED
      BY <2>2, <3>1, <3>2 DEF GoNext
  <2>3. CASE Complete
    BY <2>3 DEF Complete
  <2>4. CASE GoBack
    <3>1. Responsive /\ wizard.page - 1 \in 1 .. 7 /\ Show(wizard.page - 1)
      BY <1>2, <2>4 DEF GoBack, InOrder, Responsive, SealScreens
    <3> QED
      BY <3>1, ShownPlace
  <2>5. CASE BackToCurrent
    <3>1. Responsive /\ wizard.return \in 1 .. 7 /\ Show(wizard.return)
      BY <1>2, <2>5 DEF BackToCurrent, Responsive, SealScreens
    <3> QED
      BY <3>1, ShownPlace
  <2>6. ASSUME NEW p \in 1 .. 7, ClickPage(p) PROVE SealPlaces'
    <3>1. Responsive /\ Reached \in 0 .. 7
      BY <1>2, <2>6 DEF ClickPage, Responsive, Reached, SealScreens
    <3>2. CASE wizard.saved /\ p < 5
      <4>1. Drawn(p, Reached) /\ UNCHANGED attempts
        BY <2>6, <3>2 DEF ClickPage, Drawn
      <4> QED
        BY <3>1, <3>2, <4>1, DrawnPlace
    <3>3. CASE Show(p)
      BY <3>1, <3>3, ShownPlace
    <3> QED
      BY <2>6, <3>2, <3>3 DEF ClickPage
  <2> QED
    BY <1>7, <2>1, <2>2, <2>3, <2>4, <2>5, <2>6 DEF Pages
<1>8. CASE BuildRecord \/ SignRecord \/ SplitKey \/ SaveSeal \/ SealingFails
  BY <1>8 DEF BuildRecord, SignRecord, SplitKey, SaveSeal, SealingFails
<1>9. CASE DeliverSuccess \/ DeliverFailure
  BY <1>2, <1>9 DEF DeliverSuccess, DeliverFailure, AnswerDelivered, SealPlace, SealScreens
<1>10. ASSUME NEW i \in {1, 2}, SaveShare(i) PROVE SealPlaces'
  BY <1>10 DEF SaveShare
<1>11. CASE Cancel \/ LeaveView
  BY <1>11 DEF Cancel, LeaveView, CloseWizard
<1> QED
  BY <1>1, <1>3, <1>4, <1>5, <1>6, <1>7, <1>8, <1>9, <1>10, <1>11
     DEF SealWizardNext, SealWorker

LEMMA SealTypeHolds ==
  SealWizardSpec => []SealWizardTypeOK
<1>1. SealWizardInit => SealPlaces
  BY WizardAssumption DEF SealWizardInit, SealPlaces
<1>2. ASSUME SealInv, SealPlaces PROVE SealWizardTypeOK
  <2>1. (worker.stage # "idle") <=> (wizard.open /\ wizard.busy = "sealing")
    BY <1>2, ScreenIsOpen DEF SealInv, RunInv
  <2>2. ASSUME wizard.open
        PROVE  /\ wizard.form \in Form /\ wizard.shown \in Form
               /\ wizard.page > 1 => wizard.encrypted
               /\ wizard.page > 5 => wizard.saved
               /\ wizard.return # 0 => wizard.saved /\ wizard.page < 5
               /\ wizard.busy = "encrypting" => wizard.page = 1 /\ ~wizard.encrypted
    BY <1>2, <2>2, ScreenIsOpen
       DEF SealInv, PageInv, OutputInv, SealPlaces, SealPlace, SealScreens
  <2>3. panel.split # 0 => wizard.open /\ wizard.saved
    BY <1>2, ScreenIsOpen DEF SealInv, PanelInv
  <2> QED
    BY <1>2, <2>1, <2>2, <2>3 DEF SealInv, SealTypes, SealPlaces, SealWizardTypeOK
<1> QED
  BY <1>1, <1>2, SealPlacesStep, SealInvHolds, PTL DEF SealWizardSpec

(* ResealWizard: a comparison belongs to page 2, and what is saved has both *)
(* its shares in files.                                                     *)
ResealPlaces ==
  /\ processes <= MaxProcesses /\ changes \in 0 .. MaxChanges
  /\ reseal # NoWizard =>
       /\ reseal.busy = "comparing" => reseal.page = 2
       /\ reseal.saved => handout.inFiles = {1, 2} \/ reseal.completed

LEMMA ShownPageOfWork ==
  ASSUME reseal \in ResealScreens, NEW page \in 1 .. 8, NEW return \in 0 .. 8,
         ShowPage(page, return)
  PROVE  /\ reseal'.busy = "comparing" => reseal'.page = 2
         /\ reseal'.saved = reseal.saved /\ reseal'.completed = reseal.completed
<1>1. CASE page = 5 /\ ~reseal.encrypted
  BY <1>1 DEF ShowPage, StartEncrypting, Shown, ResealScreens
<1>2. CASE ~(page = 5 /\ ~reseal.encrypted)
  <2>1. Work(page) = "comparing" => page = 2
    BY DEF Work
  <2>2. Shown(page, return, Work(page))
    BY <1>2 DEF ShowPage
  <2> QED
    BY <2>1, <2>2 DEF Shown, ResealScreens
<1> QED
  BY <1>1, <1>2

LEMMA ResealPlacesStep ==
  ASSUME ResealInv, ResealPlaces, [ResealNext]_resealVars
  PROVE  ResealPlaces'
<1>0. CASE UNCHANGED resealVars
  BY <1>0 DEF resealVars, ResealPlaces
<1>1. /\ reseal.open => reseal \in ResealScreens /\ reseal # NoWizard
      /\ processes \in Nat /\ changes \in 0 .. MaxChanges /\ MaxProcesses \in Nat
      /\ handout \in [split : Nat, inFiles : SUBSET {1, 2}] /\ MaxChanges \in Nat
  BY ResealIsOpen, ResealAssumption DEF ResealInv, ResealTypes, ResealPlaces
<1>2. ASSUME NEW page \in 1 .. 8, NEW return \in 0 .. 8, reseal.open,
             ShowPage(page, return), UNCHANGED <<processes, outside, handout>>
      PROVE  ResealPlaces'
  BY <1>1, <1>2, ShownPageOfWork DEF ResealPlaces, outside
<1>3. CASE OpenReseal
  BY <1>3 DEF OpenReseal, NewWizard, ResealPlaces, outside
<1>4. ASSUME NEW r \in records, LoadRecord(r) PROVE ResealPlaces'
  <2>1. reseal \in ResealScreens /\ reseal # NoWizard /\ processes' <= MaxProcesses
    BY <1>1, <1>4 DEF LoadRecord, Following, Free, NotBusy
  <2> QED
    BY <1>1, <1>4, <2>1 DEF LoadRecord, Shown, ResealScreens, ResealPlaces, outside
<1>5. CASE CompareSucceeds \/ CompareFails
  BY <1>1, <1>5 DEF CompareSucceeds, CompareFails, ResealScreens, ResealPlaces, outside
<1>6. ASSUME NEW d \in SUBSET Files, Classify(d) PROVE ResealPlaces'
  BY <1>1, <1>6
     DEF Classify, Following, Free, NotBusy, Shown, ResealScreens, ResealPlaces, outside
<1>7. ASSUME NEW f \in Files, EncryptFile(f) PROVE ResealPlaces'
  BY <1>7 DEF EncryptFile, ResealPlaces, outside
<1>8. CASE EncryptionStops \/ EncryptionEnds
  BY <1>1, <1>8
     DEF EncryptionStops, EncryptionEnds, ResealScreens, ResealPlaces, outside
<1>9. CASE BuildNewRecord \/ RecordFails
  BY <1>1, <1>9 DEF BuildNewRecord, RecordFails, ResealScreens, ResealPlaces, outside
<1>10. CASE SplitNewKey
  <2>1. handout.inFiles = {}
    BY <1>10 DEF SplitNewKey, ResealInv, HandoutInv
  <2> QED
    BY <1>1, <1>10, <2>1 DEF SplitNewKey, ResealPlaces, outside, Following, Free
<1>11. ASSUME NEW i \in {1, 2}, SaveNewShare(i) PROVE ResealPlaces'
  <2>1. handout.inFiles # {1, 2}
    BY <1>11 DEF SaveNewShare
  <2>2. UNCHANGED <<reseal, processes, changes>> /\ reseal # NoWizard
    BY <1>1, <1>11 DEF SaveNewShare, outside
  <2> QED
    BY <1>1, <2>1, <2>2 DEF ResealPlaces
<1>12. CASE SaveReseal
  <2>1. reseal # NoWizard /\ AtWork
    BY <1>1, <1>12 DEF SaveReseal, ResealInv, ResealPages
  <2>2. handout.inFiles = {1, 2}
    BY <1>12, <2>1 DEF SaveReseal, ResealInv, ResealPages
  <2> QED
    BY <1>1, <1>12, <2>2 DEF SaveReseal, ResealScreens, ResealPlaces, outside
<1>13. CASE SaveFails
  BY <1>1, <1>13 DEF SaveFails, ResealScreens, ResealPlaces, outside
<1>14. CASE NextButton
  <2>1. NextPage \in 0 .. 8
    BY <1>1, <1>14 DEF NextPage
  <2> QED
    BY <1>2, <1>14, <2>1 DEF NextButton, Following, Free, NotBusy
<1>15. CASE BackButton
  <2>1. reseal.page - 1 \in 1 .. 8 /\ reseal.return \in 0 .. 8
    BY <1>1, <1>15 DEF BackButton, BackEnabled, Free, NotBusy, ResealScreens
  <2> QED
    BY <1>2, <1>15, <2>1 DEF BackButton, Free, NotBusy
<1>16. CASE ReturnFromReview
  <2>1. reseal.return \in 1 .. 8
    BY <1>1, <1>16 DEF ReturnFromReview, Free, NotBusy, ResealScreens
  <2> QED
    BY <1>2, <1>16, <2>1 DEF ReturnFromReview, Free, NotBusy
<1>17. ASSUME NEW p \in 1 .. 8, ClickStep(p) PROVE ResealPlaces'
  <2>1. PICK return \in 0 .. 8 : return = (IF OnlyReviewed(p) THEN ReachedPage ELSE 0)
    BY <1>1, <1>17 DEF ClickStep, ReachedPage, Free, NotBusy, ResealScreens
  <2> QED
    BY <1>2, <1>17, <2>1 DEF ClickStep, Free, NotBusy
<1>18. CASE LeaveReseal
  BY <1>18 DEF LeaveReseal, CloseReseal, ResealPlaces, outside
<1>19. CASE CompleteReseal
  BY <1>1, <1>19
     DEF CompleteReseal, Following, Free, NotBusy, ResealScreens, ResealPlaces, outside
<1>20. ASSUME NEW f \in Files, ChangeDirectory(f) PROVE ResealPlaces'
  BY <1>1, <1>20 DEF ChangeDirectory, ResealPlaces
<1>21. ASSUME NEW r \in records, OtherEvent(r) PROVE ResealPlaces'
  BY <1>21 DEF OtherEvent, ResealPlaces
<1> QED
  BY <1>0, <1>3, <1>4, <1>5, <1>6, <1>7, <1>8, <1>9, <1>10, <1>11, <1>12, <1>13, <1>14,
     <1>15, <1>16, <1>17, <1>18, <1>19, <1>20, <1>21 DEF ResealNext, Encrypting

LEMMA ResealTypeHolds ==
  ResealSpec => []ResealWizardTypeOK
<1>1. ResealInit => ResealPlaces
  BY ResealAssumption DEF ResealInit, ResealPlaces
<1>2. ASSUME ResealInv, ResealPlaces PROVE ResealWizardTypeOK
  <2>1. /\ processes \in 0 .. MaxProcesses /\ changes \in 0 .. MaxChanges
        /\ directory \subseteq Files /\ stored # <<>>
    BY <1>2 DEF ResealInv, ResealTypes, ResealPlaces
  <2>2. ASSUME reseal.open, ~reseal.completed
        PROVE  /\ reseal.page > 1 => process.number > 0
               /\ reseal.page > 5 => reseal.recorded
               /\ reseal.page < 5 /\ reseal.encrypted => reseal.return > 4
               /\ reseal.saved => reseal.recorded /\ handout.inFiles = {1, 2}
               /\ reseal.busy = "comparing" => reseal.page = 2
               /\ reseal.busy = "saving" => reseal.page = 8 /\ handout.inFiles = {1, 2}
    <3>1. AtWork /\ reseal # NoWizard /\ (Begun => process.number > 0)
      BY <1>2, <2>2, ResealIsOpen DEF AtWork, ResealProcesses
    <3> QED
      BY <1>2, <2>2, <3>1 DEF ResealInv, ResealPages, ResealPlaces
  <2>3. handout.split # 0 => reseal.open /\ handout.split = process.number
    BY <1>2, ResealIsOpen DEF ResealInv, HandoutInv, ResealPages, AtWork
  <2> QED
    BY <2>1, <2>2, <2>3 DEF ResealWizardTypeOK
<1> QED
  BY <1>1, <1>2, ResealPlacesStep, ResealInvHolds, PTL DEF ResealSpec

(* UnsealWizard: the pages behind the record, and the one to return to,     *)
(* need it; and a first verification, all but the first page.               *)
UnsealPlace(screen) ==
  /\ screen.page \in {"U6", "U7"} \/ screen.back \in {"U6", "U7"} => screen.recorded
  /\ screen.page # "U3" \/ screen.busy # "no" \/ screen.decrypted => verifications > 0
UnsealPlaces ==
  /\ verifications <= MaxVerifications /\ unsealWizards \in 0 .. MaxUnsealWizards
  /\ unseal # NoUnsealWizard => UnsealPlace(unseal)

LEMMA ShownUnsealPlace ==
  ASSUME UnsealInv, UnsealPlaces, AtRest, NEW page \in UnsealPages,
         NEW back \in UnsealPages \cup {"none"}, ShowUnsealPage(page, back),
         page \in {"U6", "U7"} \/ back \in {"U6", "U7"} => unseal.recorded,
         page # "U3" => unseal.page # "U3" \/ unseal.decrypted,
         UNCHANGED <<verifications, unsealWizards>>
  PROVE  UnsealPlaces'
<1>1. unseal \in UnsealScreens /\ unseal # NoUnsealWizard
  BY ScreensOpen DEF AtRest
<1>2. WorkOf(page) # "no" => page = "U5"
  BY DEF WorkOf
<1>3. /\ unseal'.page = page /\ unseal'.back = back /\ unseal'.busy = WorkOf(page)
      /\ unseal'.recorded = unseal.recorded /\ unseal'.decrypted = unseal.decrypted
  BY <1>1 DEF ShowUnsealPage, UnsealScreens
<1> QED
  BY <1>1, <1>2, <1>3 DEF UnsealPlaces, UnsealPlace

LEMMA OnwardPlace ==
  ASSUME UnsealInv, UnsealPlaces, AtRest, GoOnward, UNCHANGED unsealWizards
  PROVE  UnsealPlaces'
<1>1. /\ unseal \in UnsealScreens /\ unseal # NoUnsealWizard /\ UnsealPlace(unseal)
      /\ verifications \in Nat /\ unseal.back \in UnsealPages \cup {"none"}
      /\ {"U5", "U6", "U7"} \subseteq UnsealPages
  BY ScreensOpen DEF AtRest, UnsealScreens, UnsealInv, UnsealTypes, UnsealPlaces, UnsealPages
<1>2. CASE BeginVerification
  <2>1. verifications' = verifications + 1 /\ verifications' <= MaxVerifications
    BY <1>1, <1>2, UnsealAssumption DEF BeginVerification
  <2>2. /\ unseal'.page = unseal.page /\ unseal'.back = unseal.back
        /\ unseal'.recorded = unseal.recorded
    BY <1>1, <1>2 DEF BeginVerification, UnsealScreens
  <2> QED
    BY <1>1, <2>1, <2>2 DEF UnsealPlaces, UnsealPlace
<1>3. CASE PassGate
  BY <1>1, <1>3, ShownUnsealPlace DEF PassGate, UnsealPlace
<1>4. CASE GoOn
  <2>1. CASE unseal.page = "U5" /\ unseal.recorded /\ ShowUnsealPage("U6", unseal.back)
    BY <1>1, <1>4, <2>1, ShownUnsealPlace DEF GoOn
  <2>2. CASE unseal.page = "U5" /\ ~unseal.recorded /\ ShowUnsealPage("U5", unseal.back)
    BY <1>1, <1>4, <2>2, ShownUnsealPlace DEF GoOn, UnsealPlace
  <2>3. CASE unseal.page = "U6" /\ ShowUnsealPage("U7", unseal.back)
    BY <1>1, <1>4, <2>3, ShownUnsealPlace DEF GoOn, UnsealPlace
  <2> QED
    BY <1>4, <2>1, <2>2, <2>3 DEF GoOn
<1> QED
  BY <1>2, <1>3, <1>4 DEF GoOnward

LEMMA UnsealPlacesStep ==
  ASSUME UnsealInv, UnsealPlaces, [UnsealNext]_unsealVars
  PROVE  UnsealPlaces'
<1>1. unseal.open => /\ unseal \in UnsealScreens /\ unseal # NoUnsealWizard
                     /\ UnsealPlace(unseal)
  BY ScreensOpen DEF UnsealPlaces
<1>2. CASE OpenUnseal
  BY <1>2, UnsealAssumption DEF OpenUnseal, NewUnsealWizard, UnsealPlaces, UnsealPlace
<1>3. CASE NextUnsealPage \/ ReturnKey
  BY <1>3, OnwardPlace DEF NextUnsealPage, ReturnKey
<1>4. CASE BackFromReview
  <2>1. /\ AtRest /\ unseal.back \in UnsealPages /\ unseal.decrypted
        /\ unseal.back \in {"U6", "U7"} => unseal.recorded
    BY <1>1, <1>4 DEF BackFromReview, AtRest, UnsealScreens, UnsealPlace, UnsealInv, ScreenInv
  <2> QED
    BY <1>4, <2>1, ShownUnsealPlace DEF BackFromReview
<1>5. ASSUME NEW page \in UnsealPages, VisitPage(page) PROVE UnsealPlaces'
  <2>1. AtRest /\ page \in PagesBefore(unseal.page) /\ unseal.page \in UnsealPages
    BY <1>1, <1>5 DEF VisitPage, AtRest, UnsealScreens
  <2>2. /\ page \in {"U6", "U7"} => unseal.page = "U7"
        /\ page # "U3" => unseal.page # "U3"
    BY <2>1 DEF PagesBefore, UnsealPages
  <2>3. PICK back \in UnsealPages \cup {"none"} :
          /\ back = (IF unseal.decrypted /\ page \in {"U3", "U4"}
                     THEN unseal.page ELSE unseal.back)
          /\ back \in {"U6", "U7"} => unseal.recorded
    BY <1>1, <2>1 DEF AtRest, UnsealScreens, UnsealPlace
  <2> QED
    BY <1>1, <1>5, <2>1, <2>2, <2>3, ShownUnsealPlace DEF VisitPage, AtRest, UnsealPlace
<1>6. ASSUME NEW matched \in BOOLEAN, VerificationEnds(matched) PROVE UnsealPlaces'
  BY <1>1, <1>6 DEF VerificationEnds, Working, UnsealScreens, UnsealPlaces, UnsealPlace
<1>7. CASE VerificationFails
  BY <1>1, <1>7 DEF VerificationFails, Working, UnsealScreens, UnsealPlaces, UnsealPlace
<1>8. CASE DecryptionEnds
  BY <1>1, <1>8 DEF DecryptionEnds, Working, UnsealScreens, UnsealPlaces, UnsealPlace
<1>9. CASE UnsealRecordMade
  BY <1>1, <1>9 DEF UnsealRecordMade, Working, UnsealScreens, UnsealPlaces, UnsealPlace
<1>10. CASE WorkFails
  BY <1>1, <1>10 DEF WorkFails, Working, UnsealScreens, UnsealPlaces, UnsealPlace
<1>11. ASSUME NEW proc \in savings, UnsealSaveEnds(proc) PROVE UnsealPlaces'
  BY <1>11 DEF UnsealSaveEnds, UnsealPlaces, UnsealPlace
<1>12. CASE LeaveUnseal
  BY <1>12 DEF LeaveUnseal, UnsealPlaces
<1>13. CASE UNCHANGED unsealVars
  BY <1>13 DEF unsealVars, UnsealPlaces, UnsealPlace
<1> QED
  BY <1>2, <1>3, <1>4, <1>5, <1>6, <1>7, <1>8, <1>9, <1>10, <1>11, <1>12, <1>13
     DEF UnsealNext

LEMMA UnsealTypeHolds ==
  UnsealSpec => []UnsealWizardTypeOK
<1>1. UnsealInit => UnsealPlaces
  BY UnsealAssumption DEF UnsealInit, UnsealPlaces
<1>2. ASSUME UnsealInv, UnsealPlaces PROVE UnsealWizardTypeOK
  <2>1. verifications \in 0 .. MaxVerifications
    BY <1>2, UnsealAssumption DEF UnsealInv, UnsealTypes, UnsealPlaces
  <2> QED
    BY <1>2, <2>1, ScreensOpen
       DEF UnsealInv, ScreenInv, UnsealPlaces, UnsealPlace, UnsealWizardTypeOK
<1> QED
  BY <1>1, <1>2, UnsealPlacesStep, UnsealInvHolds, PTL DEF UnsealSpec

(* TimeStamping: a call that still sends has attempts left.                *)
CallBounds ==
  /\ calls <= MaxCalls
  /\ call.at = "send" => call.left \in 1 .. TsaAttempts

LEMMA CallBoundsStep ==
  ASSUME StampInv, CallBounds, [TsaNext]_tsaVars
  PROVE  CallBounds'
<1>0. /\ calls \in Nat /\ MaxCalls \in Nat /\ TsaAttempts \in Nat \ {0}
      /\ call.at = "send" => call \in CallRecords
  BY TimeStampingAssumption DEF StampInv, NoCall
<1>1. CASE UNCHANGED tsaVars
  BY <1>1 DEF tsaVars, callVars, CallBounds
<1>2. CASE TsaTick
  BY <1>2 DEF TsaTick, callVars, CallBounds
<1>3. ASSUME NEW a \in Applications,
             EnsureCredentials(a) \/ SaveKey(a) \/ SaveCertificate(a) \/ Serve(a) \/ Exit(a)
      PROVE  CallBounds'
  <2>1. UNCHANGED callVars
    BY <1>3 DEF EnsureCredentials, SaveKey, SaveCertificate, Serve, Exit
  <2> QED
    BY <2>1 DEF callVars, CallBounds
<1>4. ASSUME NEW kind, NEW hash, NEW trusts, Begin(kind, hash, trusts) PROVE CallBounds'
  BY <1>0, <1>4 DEF Begin, CallBounds
<1>5. ASSUME NEW h \in Hashes, BeginPlain(h) \/ BeginVerified(h) \/ BeginTrusted(h)
      PROVE  CallBounds'
  BY <1>4, <1>5 DEF BeginPlain, BeginVerified, BeginTrusted
<1>6. ASSUME NEW token, call.at = "send", Received(token), UNCHANGED calls
      PROVE  CallBounds'
  <2>1. call'.at = "check"
    BY <1>0, <1>6 DEF Received, CallRecords
  <2> QED
    BY <1>6, <2>1 DEF CallBounds
<1>7. ASSUME call.at = "send", Unanswered, UNCHANGED calls
      PROVE  CallBounds'
  <2>1. CASE call.left = 1
    BY <1>7, <2>1 DEF Unanswered, NoCall, CallBounds
  <2>2. CASE call.left # 1
    <3>1. call'.left = call.left - 1 /\ call.left \in 1 .. TsaAttempts
      BY <1>0, <1>7, <2>2 DEF Unanswered, CallRecords, CallBounds
    <3> QED
      BY <1>0, <1>7, <2>2, <3>1 DEF CallBounds
  <2> QED
    BY <2>1, <2>2
<1>8. CASE ServerAnswers \/ OtherAnswers \/ EarlierAnswer \/ NoAnswer
  BY <1>6, <1>7, <1>8
     DEF ServerAnswers, OtherAnswers, EarlierAnswer, NoAnswer, ReceivedOrLost
<1>9. CASE RefusedAnswer \/ Conclude
  BY <1>9 DEF RefusedAnswer, Conclude, NoCall, CallBounds
<1> QED
  BY <1>1, <1>2, <1>3, <1>5, <1>8, <1>9 DEF TsaNext

LEMMA StampTypeHolds ==
  TsaSpec => []TsaTypeOK
<1>1. TsaInit => CallBounds
  BY TimeStampingAssumption DEF TsaInit, NoCall, CallBounds
<1>2. ASSUME FileInv, StampInv, CallBounds PROVE TsaTypeOK
  <2>1. calls \in 0 .. MaxCalls
    BY <1>2, TimeStampingAssumption DEF StampInv, CallBounds
  <2>2. \A t \in tokens : t.time <= tsaClock
    BY <1>2 DEF StampInv
  <2>3. \A a \in Applications : At(a, "cert") => starts[a].own \in DOMAIN certificates
    BY <1>2 DEF FileInv, At, IsCredential
  <2> QED
    BY <1>2, <2>1, <2>2, <2>3 DEF FileInv, Found, IsCredential, CallBounds, TsaTypeOK
<1> QED
  BY <1>1, <1>2, CallBoundsStep, StampInvHolds, PTL DEF TsaSpec

(* PolicyAssessment: a record names no certificate that was not issued.     *)
PolicyBounds ==
  /\ policyClock <= MaxPolicyClock
  /\ \A r \in policyRecords : r.cert \in {Unset} \cup DOMAIN signers

LEMMA PolicyBoundsStep ==
  ASSUME PolicyInv, PolicyBounds, [PolicyNext]_policyVars
  PROVE  PolicyBounds'
<1>0. /\ policyClock \in Nat /\ MaxPolicyClock \in Nat /\ signers \in Seq(Signer)
      /\ configured.cert \in {Unset} \cup DOMAIN signers
  BY PolicyAssumption DEF PolicyInv, PolicyTypes
<1>1. CASE UNCHANGED policyVars
  BY <1>1 DEF policyVars, PolicyBounds
<1>2. CASE PolicyTick
  BY <1>0, <1>2 DEF PolicyTick, PolicyBounds
<1>3. ASSUME NEW k \in CAKeys, IssueAnchor(k) PROVE PolicyBounds'
  BY <1>3 DEF IssueAnchor, PolicyBounds
<1>4. ASSUME NEW a \in anchors, NEW p \in {"policy", "timestamping"}, IssueSigner(a, p)
      PROVE  PolicyBounds'
  <2>1. DOMAIN signers \subseteq DOMAIN signers'
    BY <1>0, <1>4 DEF IssueSigner
  <2> QED
    BY <1>4, <2>1 DEF IssueSigner, PolicyBounds
<1>5. ASSUME NEW k \in {Unset} \cup DOMAIN signers, NEW c \in {Unset} \cup DOMAIN signers,
             Configure(k, c)
      PROVE  PolicyBounds'
  BY <1>5 DEF Configure, PolicyBounds
<1>6. ASSUME NEW s \in Seals, NEW u \in Unlocks, SealSigned(s, u) PROVE PolicyBounds'
  BY <1>0, <1>6 DEF SealSigned, Record, PolicyBounds
<1>7. CASE SealLegacy
  BY <1>7 DEF SealLegacy, Record, PolicyBounds
<1> QED
  BY <1>1, <1>2, <1>3, <1>4, <1>5, <1>6, <1>7 DEF PolicyNext

LEMMA PolicyTypeHolds ==
  PolicySpec => []PolicyTypeOK
<1>1. PolicyInit => PolicyBounds
  BY PolicyAssumption DEF PolicyInit, PolicyBounds
<1>2. ASSUME PolicyInv, PolicyBounds PROVE PolicyTypeOK
  BY <1>2, PolicyAssumption
     DEF PolicyInv, PolicyTypes, SignersWithinAnchors, PolicyBounds, PolicyTypeOK
<1> QED
  BY <1>1, <1>2, PolicyBoundsStep, PolicyInvariant, PTL DEF PolicySpec

(* ShareHandout: the folder holds copies of shares and files of others.     *)
InFolder == Copies \cup {Absent, Foreign}
FolderTypes ==
  /\ masterKey \in {"absent", "short", "whole"} /\ held \in BOOLEAN
  /\ \A n \in ShareNames : folder[n] \in InFolder

LEMMA SavedCopies ==
  ASSUME ShareFilesInv, save # NotSaving, NEW w \in BOOLEAN
  PROVE  Copy(Current, save.index, w) \in InFolder
<1>1. Current \in DOMAIN splits /\ save.index \in HandedOut
  BY SaveRecord DEF ShareFilesInv, SaveInv
<1>2. DOMAIN splits = 1 .. Len(splits) /\ Len(splits) \in Nat /\ Len(splits) <= MaxSplits
  BY DEF ShareFilesInv, HandoutTypes
<1>3. Current \in 1 .. MaxSplits
  <2>1. PICK c : c = Current
    OBVIOUS
  <2>2. c \in 1 .. Len(splits)
    BY <1>1, <1>2, <2>1
  <2>3. c \in 1 .. MaxSplits
    BY <1>2, <2>2, HandoutAssumption
  <2> QED
    BY <2>1, <2>3
<1> QED
  BY <1>1, <1>3 DEF InFolder, Copies

LEMMA FolderChanges ==
  ASSUME ShareFilesInv, FolderTypes, NEW name, NEW file \in InFolder,
         folder' = [folder EXCEPT ![name] = file], UNCHANGED masterKey, held' \in BOOLEAN
  PROVE  FolderTypes'
BY DEF ShareFilesInv, HandoutTypes, FolderTypes, InFolder, Copies, Copy, Absent, Foreign

LEMMA FolderTypesStep ==
  ASSUME ShareFilesInv, FolderTypes, [HandoutNext]_handoutVars
  PROVE  FolderTypes'
<1>0. /\ held \in BOOLEAN /\ masterKey \in {"absent", "short", "whole"}
      /\ InFolder' = InFolder /\ Absent \in InFolder /\ Foreign \in InFolder
  BY DEF FolderTypes, InFolder
<1>1. ASSUME UNCHANGED folder, held' \in BOOLEAN,
             masterKey' \in {"absent", "short", "whole"}
      PROVE  FolderTypes'
  BY <1>0, <1>1 DEF FolderTypes
<1>2. CASE UNCHANGED handoutVars
  BY <1>0, <1>1, <1>2 DEF handoutVars
<1>3. ASSUME NEW outcome \in {"absent", "short", "whole"}, InitMasterKey(outcome)
      PROVE  FolderTypes'
  BY <1>0, <1>1, <1>3 DEF InitMasterKey
<1>4. ASSUME NEW mode, NEW key, NEW chance, NEW pair, SplitForHolders(mode, key, chance, pair)
      PROVE  FolderTypes'
  <2>1. UNCHANGED <<masterKey, folder>> /\ held' = TRUE
    BY <1>4 DEF SplitForHolders
  <2> QED
    BY <1>0, <1>1, <2>1
<1>5. CASE SaveStep
  <2>1. ASSUME NEW i \in HandedOut, NEW n \in ShareNames, Choose(i, n) PROVE FolderTypes'
    BY <1>0, <1>1, <2>1 DEF Choose
  <2>2. ASSUME NEW w \in BOOLEAN, WriteTemp(w) PROVE FolderTypes'
    BY <1>0, <1>1, <2>2 DEF WriteTemp
  <2>3. ASSUME NEW w \in BOOLEAN, WriteClaimed(w) PROVE FolderTypes'
    <3>1. save # NotSaving
      BY <2>3 DEF WriteClaimed, NotSaving
    <3>2. Copy(Current, save.index, w) \in InFolder
      BY <3>1, SavedCopies
    <3> QED
      BY <1>0, <2>3, <3>2, FolderChanges DEF WriteClaimed, Puts
  <2>4. CASE PublishTemp \/ ClaimName
    <3>0. save.at = "written" /\ NotSaving.at # "written"
      BY <2>4 DEF PublishTemp, ClaimName, NotSaving
    <3>1. save # NotSaving /\ (save # NotSaving => save \in SaveRecords)
      BY <3>0, SaveRecord
    <3>2. PICK w \in BOOLEAN : Puts(Copy(Current, save.index, w))
      BY <2>4, <3>1 DEF PublishTemp, ClaimName, SaveRecords
    <3>3. Copy(Current, save.index, w) \in InFolder
      BY <3>1, SavedCopies
    <3>4. UNCHANGED <<masterKey, held>>
      BY <2>4 DEF PublishTemp, ClaimName
    <3> QED
      BY <1>0, <3>2, <3>3, <3>4, FolderChanges DEF Puts
  <2>5. CASE ClaimedFails \/ VerifyFails
    <3>1. UNCHANGED <<masterKey, held>> /\ (Puts(Absent) \/ UNCHANGED folder)
      BY <2>5 DEF ClaimedFails, VerifyFails, RemoveTarget
    <3> QED
      BY <1>0, <1>1, <3>1, FolderChanges DEF Puts
  <2>6. CASE TempFails \/ PublishFails \/ Verify
    BY <1>0, <1>1, <2>6 DEF TempFails, PublishFails, Verify
  <2> QED
    BY <1>5, <2>1, <2>2, <2>3, <2>4, <2>5, <2>6 DEF SaveStep
<1>6. CASE CompleteHandout \/ LeavePanel \/ EndApplication
  BY <1>0, <1>1, <1>6 DEF CompleteHandout, LeavePanel, DropShares, EndApplication
<1>7. ASSUME NEW n \in ShareNames, OtherCreates(n) \/ OtherRemoves(n) PROVE FolderTypes'
  <2>1. PICK file \in InFolder : folder' = [folder EXCEPT ![n] = file]
    BY <1>0, <1>7 DEF OtherCreates, OtherRemoves
  <2>2. UNCHANGED <<masterKey, held>>
    BY <1>7 DEF OtherCreates, OtherRemoves
  <2> QED
    BY <1>0, <2>1, <2>2, FolderChanges
<1> QED
  BY <1>2, <1>3, <1>4, <1>5, <1>6, <1>7 DEF HandoutNext

LEMMA HandoutTypeHolds ==
  HandoutSpec => []HandoutTypeOK
<1>1. HandoutInit => FolderTypes
  BY DEF HandoutInit, FolderTypes, InFolder
<1>2. ASSUME ShareFilesInv, FolderTypes PROVE HandoutTypeOK
  <2>1. held => Current > 0
    <3>1. HandoutTypes /\ (held => splits # <<>>) /\ Len(splits) \in Nat
      BY <1>2, CurrentIsLast DEF ShareFilesInv
    <3>2. held => Len(splits) > 0
      BY <3>1 DEF HandoutTypes
    <3> QED
      BY <3>1, <3>2, CurrentIsLast
  <2>2. save.at # "idle" => held /\ save.name \in ShareNames
    <3>1. save.at # "idle" => save # NotSaving
      BY DEF NotSaving
    <3> QED
      BY <1>2, <3>1, SaveRecord DEF ShareFilesInv, SaveInv
  <2>3. /\ DOMAIN savedAs = DOMAIN splits
        /\ \A s \in DOMAIN savedAs : savedAs[s] \in [HandedOut -> ShareNames \cup {NoName}]
        /\ foreign \subseteq ShareNames
    BY <1>2 DEF ShareFilesInv, HandoutTypes
  <2> QED
    BY <1>2, <2>1, <2>2, <2>3 DEF FolderTypes, InFolder, HandoutTypeOK
<1> QED
  BY <1>1, <1>2, FolderTypesStep, HandoutInvHolds, PTL DEF HandoutSpec

(* Whatever part of the desktop a behaviour is of, it is one of each of    *)
(* its parts: those which do not move stand still.                         *)
LEMMA EachPartOnItsOwn ==
  Spec => /\ ResumeSpec /\ SealWizardSpec /\ ResealSpec /\ UnsealSpec
          /\ CaseStoreSpec /\ TsaSpec /\ PolicySpec /\ HandoutSpec
<1> DEFINE all == <<resumeVars, Wizards, Others, part>>
<1>1. Init => /\ ResumeInit /\ SealWizardInit /\ ResealInit /\ UnsealInit
              /\ CaseStoreInit /\ TsaInit /\ PolicyInit /\ HandoutInit
  BY DEF Init
<1>2. [Next]_all => /\ [ResumeNext]_resumeVars /\ [SealWizardNext]_sealVars
                    /\ [ResealNext]_resealVars /\ [UnsealNext]_unsealVars
                    /\ [CaseStoreNext]_caseVars /\ [TsaNext]_tsaVars
                    /\ [PolicyNext]_policyVars /\ [HandoutNext]_handoutVars
  BY DEF Next, ContainerNext, SealNext, ReNext, UnNext, CaseNext, StampNext, SignNext,
         ShareNext, Wizards, Others
<1> QED
  BY <1>1, <1>2, PTL DEF Spec, ResumeSpec, SealWizardSpec, ResealSpec, UnsealSpec,
     CaseStoreSpec, TsaSpec, PolicySpec, HandoutSpec

(* The variables of the desktop hold what they are for: a call writes and  *)
(* remembers no more than its source has, a page has what the earlier      *)
(* pages produced, a stored record was written to a file, an authority     *)
(* signs with its credentials, and a panel saves to its own folder.        *)
THEOREM DesktopTypeCorrect == Spec => []DesktopTypeOK
<1>1. CaseInv => CaseStoreTypeOK
  <2> SUFFICES ASSUME CaseInv PROVE CaseStoreTypeOK
    OBVIOUS
  <2>1. events \in 0 .. MaxEvents /\ completed \subseteq DrawnIds
    BY DEF CaseInv, CasesTyped
  <2>2. \A id \in DrawnIds : rows[id].holds = "record" =>
          [id |-> id, history |-> rows[id].history] \in recordFiles
    BY DEF CaseInv, RecordsAreFiled
  <2> QED
    BY <2>1, <2>2 DEF CaseStoreTypeOK
<1> QED
  BY <1>1, EachPartOnItsOwn, ResumeTypeHolds, SealTypeHolds, ResealTypeHolds,
     UnsealTypeHolds, CaseInvCorrect, StampTypeHolds, PolicyTypeHolds, HandoutTypeHolds,
     PTL DEF DesktopTypeOK

===============================================================================
