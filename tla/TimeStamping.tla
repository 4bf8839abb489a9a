----------------------------- MODULE TimeStamping -----------------------------
(***************************************************************************)
(* The local time-stamp authority and the calls that use one.              *)
(*                                                                         *)
(* Applications on one computer create the authority's credentials on the  *)
(* first run (CA, then key file, then certificate file, with no lock), and *)
(* the one that gets the port serves.  A call sends one request, again     *)
(* after a network error, and checks the token it gets: "plain" (a seal's  *)
(* document) by the signature alone, "verified" also by hash and nonce     *)
(* under one certificate, "trusted" (a release) under the whole profile of *)
(* pinned CAs.  The URL may name another authority, replies get lost, and  *)
(* a reply may carry a token issued earlier.                               *)
(*                                                                         *)
(* A credential is a number: that of the key pair and of its certificate.  *)
(***************************************************************************)
EXTENDS Integers, Sequences, FiniteSets

CONSTANTS
  Applications,      \* on this computer
  OtherAuthorities,  \* certificates of other authorities, a sequence
  Hashes,            \* document hashes
  TsaAttempts,       \* _LOCAL_MAX_RETRIES or _MAX_RETRIES
  CertificateLife, CALife,
  MaxCalls, MaxIssued, MaxTsaClock    \* bounds

(* What a certificate says: its CA by name, and what a profile compares.   *)
Certificate ==
  [ca : Nat, timestamping : BOOLEAN, from : Nat, until : Nat, caUntil : Nat,
   policy : {"local", "other"}, accuracy : BOOLEAN]

ASSUME TimeStampingAssumption ==
  /\ OtherAuthorities \in Seq(Certificate)
  /\ {TsaAttempts, CertificateLife, CALife, MaxCalls, MaxIssued, MaxTsaClock}
       \subseteq Nat
  /\ TsaAttempts > 0

VARIABLES
  tsaClock,
  certificates,    \* those issued, the other authorities' first
  keyFile, certFile,    \* credentials in the files, or NoFileYet, or Partial
  starts,          \* each application: what its start is about to do
  server,          \* the serving application and what it holds in memory
  tokens,          \* tokens issued
  call,            \* the call in progress
  calls,
  accepted         \* history: the answers accepted

filesVars == <<certificates, keyFile, certFile>>
serverVars == <<starts, server>>
callVars == <<call, calls, accepted>>
tsaVars == <<tsaClock, filesVars, serverVars, tokens, callVars>>

NoFileYet == 0
Partial == -1

Off == [at |-> "off", own |-> 0]
NoServer == [by |-> "none", key |-> 0, cert |-> 0, serial |-> 0]
NoCall == [at |-> "none"]

TsaInit ==
  /\ tsaClock = 0
  /\ certificates = OtherAuthorities
  /\ keyFile = NoFileYet /\ certFile = NoFileYet
  /\ starts = [a \in Applications |-> Off]
  /\ server = NoServer
  /\ tokens = {} /\ accepted = {}
  /\ call = NoCall /\ calls = 0

TsaTick ==
  /\ tsaClock < MaxTsaClock
  /\ tsaClock' = tsaClock + 1
  /\ UNCHANGED <<filesVars, serverVars, tokens, callVars>>

-----------------------------------------------------------------------------
(* The credentials. *)

(* A CA of its own name comes with each certificate. *)
NewCertificate ==
  [ca |-> Len(certificates) + 1, timestamping |-> TRUE,
   from |-> tsaClock, until |-> tsaClock + CertificateLife,
   caUntil |-> tsaClock + CALife, policy |-> "local", accuracy |-> TRUE]

At(a, step) == starts[a].at = step
Moves(a, step) == starts' = [starts EXCEPT ![a].at = step]

(* What a crash leaves is never repaired: a partial file exists. *)
FilesExist == keyFile # NoFileYet /\ certFile # NoFileYet

EnsureCredentials(a) ==
  /\ At(a, "off") /\ server.by # a
  /\ IF FilesExist
     THEN /\ Moves(a, "serve")
          /\ UNCHANGED certificates
     ELSE /\ Len(certificates) < Len(OtherAuthorities) + 2
          /\ certificates' = Append(certificates, NewCertificate)
          /\ starts' = [starts EXCEPT
                          ![a] = [at |-> "key", own |-> Len(certificates')]]
  /\ UNCHANGED <<tsaClock, keyFile, certFile, server, tokens, callVars>>

SaveKey(a) ==
  /\ At(a, "key")
  /\ keyFile' = starts[a].own
  /\ Moves(a, "cert")
  /\ UNCHANGED <<tsaClock, certificates, certFile, server, tokens, callVars>>

SaveCertificate(a) ==
  /\ At(a, "cert")
  /\ certFile' = starts[a].own
  /\ Moves(a, "serve")
  /\ UNCHANGED <<tsaClock, certificates, keyFile, server, tokens, callVars>>

(* Loading refuses what is missing or partial, not a key and a certificate  *)
(* that do not belong together.  The port is for one; the other exits.      *)
Serve(a) ==
  /\ At(a, "serve")
  /\ starts' = [starts EXCEPT ![a] = Off]
  /\ server' = IF keyFile > 0 /\ certFile > 0 /\ server = NoServer
               THEN [by |-> a, key |-> keyFile, cert |-> certFile, serial |-> 1]
               ELSE server
  /\ UNCHANGED <<tsaClock, filesVars, tokens, callVars>>

(* An application exits, or dies within its start. *)
CrashFile(a, step, file, left) ==
  left \in IF At(a, step) THEN {file, Partial} ELSE {file}

Exit(a) ==
  /\ starts[a] # Off \/ server.by = a
  /\ starts' = [starts EXCEPT ![a] = Off]
  /\ server' = IF server.by = a THEN NoServer ELSE server
  /\ \E k, c \in {keyFile, certFile, Partial} :
       /\ CrashFile(a, "key", keyFile, k) /\ keyFile' = k
       /\ CrashFile(a, "cert", certFile, c) /\ certFile' = c
  /\ UNCHANGED <<tsaClock, certificates, tokens, callVars>>

-----------------------------------------------------------------------------
(* A call. *)

Begin(kind, hash, trusts) ==
  /\ call = NoCall /\ calls < MaxCalls
  /\ calls' = calls + 1
  /\ call' = [at |-> "send", kind |-> kind, hash |-> hash, trusts |-> trusts,
              nonce |-> IF kind = "plain" THEN 0 ELSE calls + 1,
              left |-> TsaAttempts, began |-> tsaClock, reply |-> {}]
  /\ UNCHANGED <<tsaClock, filesVars, serverVars, tokens, accepted>>

(* request_timestamp for a seal's document, with the local certificate.     *)
BeginPlain(hash) == Begin("plain", hash, {})

(* request_timestamp_verified under the certificate of a file. *)
BeginVerified(hash) == \E c \in DOMAIN certificates : Begin("verified", hash, {c})

(* request_timestamp_trusted loads its profile before it sends.             *)
Cas == {certificates[c].ca : c \in DOMAIN certificates}
BeginTrusted(hash) == \E p \in SUBSET Cas \ {{}} : Begin("trusted", hash, p)

(* The responder.  Its serial numbers begin at 1 in every process. *)
Token(key, cert, serial) ==
  [hash |-> call.hash, nonce |-> call.nonce, time |-> tsaClock, key |-> key,
   cert |-> cert, serial |-> serial, policy |-> certificates[cert].policy,
   accuracy |-> certificates[cert].accuracy]

ServerToken == Token(server.key, server.cert, server.serial)

Received(token) ==
  call' = [call EXCEPT !.at = "check", !.reply = {token}]
Unanswered ==
  call' = IF call.left = 1 THEN NoCall ELSE [call EXCEPT !.left = @ - 1]

ReceivedOrLost(token) == Received(token) \/ Unanswered

ServerAnswers ==
  /\ call.at = "send" /\ server # NoServer
  /\ Cardinality(tokens) < MaxIssued
  /\ tokens' = tokens \union {ServerToken}
  /\ server' = [server EXCEPT !.serial = @ + 1]
  /\ ReceivedOrLost(ServerToken)
  /\ UNCHANGED <<tsaClock, filesVars, starts, calls, accepted>>

OtherAnswers ==
  /\ call.at = "send"
  /\ Cardinality(tokens) < MaxIssued
  /\ \E c \in DOMAIN OtherAuthorities :
       LET token == Token(c, c, 0)
       IN  tokens' = tokens \union {token} /\ ReceivedOrLost(token)
  /\ UNCHANGED <<tsaClock, filesVars, serverVars, calls, accepted>>

EarlierAnswer ==
  /\ call.at = "send"
  /\ \E t \in tokens : Received(t)
  /\ UNCHANGED <<tsaClock, filesVars, serverVars, tokens, calls, accepted>>

NoAnswer ==
  /\ call.at = "send"
  /\ Unanswered
  /\ UNCHANGED <<tsaClock, filesVars, serverVars, tokens, calls, accepted>>

(* A rejection, a redirect, a coded or an oversized reply: no retry.        *)
RefusedAnswer ==
  /\ call.at = "send"
  /\ call' = NoCall
  /\ UNCHANGED <<tsaClock, filesVars, serverVars, tokens, calls, accepted>>

-----------------------------------------------------------------------------
(* The checks. *)

SignedUnder(t, cert) == t.key = cert

RepeatsTheHash(t) == t.hash = call.hash    \* mutant

AnswersRequest(t) == t.hash = call.hash /\ t.nonce = call.nonce

FromTrustedCA(t) == certificates[t.cert].ca \in call.trusts

ForTimestamps(t) == certificates[t.cert].timestamping

(* Signer and CA certificate, when the call began and when the token was made. *)
ValidThroughout(t) ==
  LET cert == certificates[t.cert]
  IN  /\ {t.time, call.began} \subseteq cert.from .. cert.until
      /\ {t.time, call.began} \subseteq cert.from .. cert.caUntil

PolicyAndAccuracy(t) == t.policy = "local" /\ t.accuracy

UnderProfile(t) ==
  /\ FromTrustedCA(t) /\ ForTimestamps(t)
  /\ SignedUnder(t, t.cert)
  /\ ValidThroughout(t) /\ PolicyAndAccuracy(t)

Accepts(t) ==
  CASE call.kind = "plain" -> certFile > 0 /\ SignedUnder(t, certFile)
    [] call.kind = "verified" ->
         AnswersRequest(t) /\ \A c \in call.trusts : SignedUnder(t, c)
    [] call.kind = "trusted" -> AnswersRequest(t) /\ UnderProfile(t)

Conclude ==
  /\ call.at = "check"
  /\ accepted' =
       accepted \union {[call |-> call, token |-> t] :
                          t \in {r \in call.reply : Accepts(r)}}
  /\ call' = NoCall
  /\ UNCHANGED <<tsaClock, filesVars, serverVars, tokens, calls>>

TsaNext ==
  \/ TsaTick
  \/ \E a \in Applications :
       EnsureCredentials(a) \/ SaveKey(a) \/ SaveCertificate(a) \/ Serve(a)
         \/ Exit(a)
  \/ \E h \in Hashes : BeginPlain(h) \/ BeginVerified(h) \/ BeginTrusted(h)
  \/ ServerAnswers \/ OtherAnswers \/ EarlierAnswer \/ NoAnswer \/ RefusedAnswer
  \/ Conclude

TsaSpec == TsaInit /\ [][TsaNext]_tsaVars

-----------------------------------------------------------------------------
(* What the files, the server and a call hold. *)
TsaTypeOK ==
  /\ {keyFile, certFile} \subseteq {NoFileYet, Partial} \union DOMAIN certificates
  /\ server # NoServer => {server.key, server.cert} \subseteq DOMAIN certificates
  /\ \A a \in Applications :
       At(a, "cert") => starts[a].own \in DOMAIN certificates
  /\ calls \in 0 .. MaxCalls
  /\ call.at = "send" => call.left \in 1 .. TsaAttempts
  /\ \A t \in tokens : t.time <= tsaClock

(* A verified or trusted answer was made for its own call: it stamps the    *)
(* call's hash, no earlier than the call began, and answers no other call   *)
(* (request_timestamp_verified, request_timestamp_trusted).  A trusted one  *)
(* is also from a time-stamping certificate of a CA the call trusted, valid *)
(* when the call began and when the token was made.                         *)
AcceptedAnswersItsCall ==
  \A a \in accepted : a.call.kind # "plain" =>
    /\ a.token.hash = a.call.hash
    /\ a.call.began <= a.token.time
    /\ \A b \in accepted : b.call.kind # "plain" /\ b # a => b.token # a.token
    /\ a.call.kind = "trusted" =>
         LET cert == certificates[a.token.cert]
         IN  /\ cert.ca \in a.call.trusts /\ cert.timestamping
             /\ a.token.key = a.token.cert
             /\ {a.call.began, a.token.time} \subseteq cert.from .. cert.until

=============================================================================
