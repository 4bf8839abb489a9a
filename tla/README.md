# Electronic Sealing Scheme: TLA+ models, checks and proofs

The repository contains a desktop application that seals digital evidence (a
container encrypted under a key that is split into shares, a signed record of
the event) and a web application, the *release host*, that keeps the records
and some of the shares and decides when a sealed key may be put together
again. This directory models the parts whose correctness depends on order,
interleaving and failure, checks the models with TLC and proves with
TLAPS every safety property that the runs check.

Paths below are relative to the repository's `src/` (`web/...` is
`src/src/web/...` in `PROJECT.json`).

## 1. Inventory

| Component | State it keeps | Operations | Interaction | Hard behaviour | Correct when |
|---|---|---|---|---|---|
| Sync endpoint (`web/routes/sync.py`, `web/sync_auth.py`, `models/sync_models.py`, `release_models.py`) | `cases`, `seal_records`, `wrapped_s3_shares`, `policy_enrollment`, `policy_high_water`, `sync_nonces` | `POST /sync/upload-record`: verify, admit, store, displace, complete, refuse, prune nonces | called by the desktop's sync client; its tables are read by the release gate | concurrent submissions of one seal, redelivery, checks before the lock used under it, a CA that is pinned late or removed, refusals that commit | the mark is the highest stored generation; an authenticated record is never replaced; no rollback; an envelope counts once |
| Case creation (`web/sync_registration.py`, `web/routes/investigator.py`, `web/privacy/case_identity.py`) | `cases`, `seal_data_keys` | a form, or the first signed record of a seal | sync endpoint, login budget | forms and submissions for one seal, gap locks, a failure after the case row | one registration, one key, a nonce that loses stays usable |
| Record selection (`web/release_selection.py`) | enrollment and mark | `select_record`, `stored_maximum`, `current_generation` | reads the sync endpoint's tables without a lock | reads spread over time, two writes outside the lock that may fail | the decision is not older than the records stored when it began; a protected seal never falls back |
| Release gate (`web/release_gate.py`, `release_shares.py`) | `release_audit` | standard, time-locked and administrator release | selection, key shares, time stamps | shares of several generations and splits, the order of decision and audit | the policy's key and no other; never early; never unaudited |
| Key shares (`web/share_upload.py`, `share_removal.py`, `models/share*_models.py`) | `key_shares`, `share_removal_audit` | upload, show, remove | tags shares with the seal's generation | generation read before the lock, removal against replacement | a share is tagged with the generation of its moment; a removal removes the row shown |
| Start-up (`web/models/db_models.py`, `migrations.py`, `share_schema.py`) | the schema | create, add columns, rebuild `key_shares` | every process at every start | two starts, a process that serves already, a stop between two statements | no share is lost or changes identity |
| Subject authentication (`web/routes/suspect.py`, `web/auth/`) | session, `auth_failures`, codes in memory, identity audit | factors, code delivery | identity protection | parallel requests against the lockout and the cap | the cap holds over every interleaving; a code is tried once |
| Administrator login (`web/routes/admin.py`, `auth/admin_auth.py`) | `admin_accounts`, `auth_failures` | login with a reserved place, session re-check, registration budget | release gate, case form | rows counted without a lock while others relabel them, errors between two statements | never more attempts than the budget; every answer gives its place back |
| Identity and record protection, its migration (`web/privacy/`) | `seal_data_keys`, sealed rows, `identity_access_audit` | protect, reveal, convert, clean | every reader and writer of records | two first writers of a key, conversion of rows in service, old pages | one key per seal; a conversion loses nothing and leaves no plaintext |
| Desktop sync client, portal client (`desktop/sync/`) | `sync_outbox` | queue in the save's transaction, push, record the outcome | sync endpoint, portal | lost replies, a stop between push and outcome, order | what is marked sent is held; nothing overtakes; all is delivered |
| Seal, unseal, reseal (`desktop/*_process.py`, `gui/*_wizard.py`) | process, pages, worker | S1-S7, U3-U7, R1-R8 | container, record, shares, store | pages visited again, answers of workers after leaving, a failing step in the middle | what is stored is what was shown, encrypted and handed out |
| Local store (`desktop/db/sqlite_store.py`, `seal_mode_guard.py`, `gui/app.py`) | `seal_records` | register, save, complete, delete, list | wizards, outbox | rows replaced by several writers, identifiers drawn again | a row keeps its seal |
| Container encryption (`desktop/crypto/aes_gcm_*.py`) | `.enc`, `.enc.progress` | encrypt with resume, decrypt | processes | cancel and crash between two writes, resume with other parameters | a container that is reported complete decrypts |
| Key split and share files (`desktop/crypto/sss_*.py`, `share_file.py`, `local_kms.py`, `gui/share_handout_panel.py`) | master key, panel, files | split, wrap, save, recover | wizards | saves that fail half-way beside other programs, end of the application | both files and envelopes recover the key, and no insufficient set does |
| Time stamps (`desktop/signature/tsa_*.py`) | CA, key, certificate, serial | set up, stamp, verify | time-locked release, seal documents | crash in the set-up, retries, late or earlier replies | an accepted token answers its call |
| Policies and their certificates (`desktop/signature/ca_setup.py`, `seal_policy.py`, `policy_schema.py`) | CA and signer certificates | make, renew, issue, sign, verify | records, sync endpoint | validity across the unlock time, renewals under one key | a signed policy is verifiable when it must be |
| Record documents, other GUI, PDF signing, scripts | files, widgets | formatting, layout, measurement | | none beyond the above | |

`PROJECT.json` lists every component with its status and, under `hazards`,
each place of the code that is hard to test.

## 2. Modules

| Module | Models | Uses |
|---|---|---|
| `SealRecords` | bodies, policies and generations of one seal, the assessment of a policy, the stored maximum | |
| `SealHistory` | abstract: what the release host promises of a seal's authenticated records | `SealRecords` |
| `SyncAdmission` | the sync endpoint for one seal with several requests in progress, redelivery, a clock, restarts | `SealRecords`, `SealHistory` |
| `ReleaseSelection` | `select_record` running beside the sync endpoint | `SyncAdmission` |
| `CaseRegistration` | how seals get their cases: forms and submissions under SQLite's and MariaDB's locks | |
| `ShareRelease` | uploads, removals and the release on its three paths, beside admissions and restarts | |
| `SchemaUpgrade` | start-up on a database of an earlier version, with processes that serve already | |
| `SubjectAccess` | lockout, factors, deliveries under the cap, codes in memory, the session cookie | |
| `AdminLogin` | budgets of logins and registrations, slots, sessions | |
| `RecordProtection` | the data key, record writers, conversions, readers, old pages | |
| `SealOutbox` | the wizards of one seal over the stored record, the outbox rows queued with it, push runs, backends | |
| `SealWizard`, `ResealWizard`, `UnsealWizard` | a wizard's pages, its worker and its process | |
| `CaseStore` | the rows of `seal_records` through registrations, saves, completions, deletions | |
| `ContainerResume` | `encrypt_file` with its progress file through cancels, errors, crashes; what `decrypt_file` requires | |
| `ShareHandout` | both splits of a key, the envelopes, saving shares 1 and 2 to files, recovery | |
| `TimeStamping` | the local authority's first run, the responder, three kinds of call | |
| `PolicyAssessment` | CAs, signers, policies and their status over time | |
| `...Proofs` | theorems (section 4) | `TLAPS` |
| `NaturalFacts` | least and greatest elements of sets of naturals, for the proofs | `TLAPS` |
| `MC...` | small instances for TLC | |

### How the models correspond to the code

*Atomicity.* A transaction under a seal's write lock (`BEGIN IMMEDIATE`;
on MariaDB the lock on the case row) is one action, or one action per step
where what happens between its steps can be seen by another actor that takes
no lock. Without a lock, every statement on the database is an action of its
own (`ReleaseSelection`, `AdminLogin`, the first part of an upload). On the
desktop an action is one callback of the window, one step of a worker or one
system call on a file, whichever another actor or a crash can separate.

*Sync (`SyncAdmission`).* `rows`, `wrapped`, `enrolled`, `mark`, `claimed` and
`caseRow` are the tables of one seal; `caPinned` is whether
`POLICY_CA_CERT_PATH` is configured; `handler` holds what a request has
computed so far. A record body is one value, since the code compares bodies by
canonical JSON; a policy is identified by its digest. `Receive` is everything
the route does before `seal_write_transaction`. A refusal by exception rolls
back (`NonceReused`, `RecordCopied`, `Fail`); a refusal that returns 409 inside
the transaction commits what was written before it, the nonce and a mark set by
`_bootstrap_mark` (`NotAuthenticated`, `GenerationRefused`, `EventConflict`).
`sent` only grows and each envelope in it can be received at any time, any
number of times or never: loss, duplication and reordering are all there. A
request in progress is answered within `Patience` seconds; `Skew` bounds the
sender's clock.

*Cases (`CaseRegistration`).* All seals lie in one gap of the index of `cases`.
On MariaDB a locking read of a missing row takes a gap lock that several
transactions share and each of them waits for to insert; the one that the
database chooses as the victim is rolled back (`InsertLost`). On SQLite one
writer holds the database. Row, key, record and nonce commit together.

*Shares (`ShareRelease`).* A share is the slot it is for and the split it comes
from; one of another seal is no different from one of another generation.
Another administrator's page is `shown`. The mark and records are written by
`AdmitPolicy`, in one step as in `SyncAdmission`. A denial may come at any
point (`DenyRelease`); what the checks would let through is explicit.

*Start-up (`SchemaUpgrade`).* The tables and columns added since are one table
that may be missing and a set of columns; `key_shares` keeps its column, its
unique keys, its rows and its AUTOINCREMENT position. All processes reach the
same database and run this version; rows without a case and foreign keys are
left out.

*Access.* `SubjectAccess` and `AdminLogin` have one client address and one
worker process. A request of `AdminLogin` may end with an error at any of its
statements (`RaiseError`) or with the process (`StopProcess`); either leaves its
row as the statements before left it. The seconds of a window are counted by a clock that may stand
still. A value in `RecordProtection` is its text and the key it is sealed under;
`residue` is plaintext that the database's freed pages or log still hold.

*Desktop (`SealOutbox`, `CaseStore`).* A record is its history, and an event is
the stamp it was made with: that is what `_require_same_seal`,
`check_unseal_record` and `check_reseal_lineage` compare. `local` is
`seal_records.record_json` of one seal, `queued` and `sent` are `sync_outbox`.
`SaveRecord` is one transaction (history rule, record, rows); `CompleteSeal` is
`_on_*_complete` with `update_case_meta`, and `CompletionFails` that of an
unsealing or a reseal, which ends with an error (section 5). A push run is
read, send, outcome, each its own action; what a process finds configured
varies from save to save and run to run (`Configurations`). `Accept` and
`Refuse` stand for either backend: it may refuse anything, and never stores a
second record for an event. `NotSent` is a record the portal's contract has no
form for, `NotAcknowledged` an answer that is no acknowledgement.

*Wizards.* A page's validation, the worker it starts and the callback of the
worker's answer are actions of their own; an answer that comes back after the
wizard was left is dropped as in the code. Attempts of a worker, wizards and
processes are numbered, so that what one of them produced can be told from
what another did. The mode check of R1, the wording of dialogs and the form
rules of inputs are abstracted to their outcome.

*Container (`ContainerResume`).* A file is a sequence of cells (one encrypted
read buffer, a tag, the metadata) with the offset header beside it; a
ciphertext cell carries its key, nonce, place in the segment and text, and
decrypts only with all of them. Write buffering is not modelled. The key is
held by the session, as in S1 and R5, so a crash (`EndSession`) changes it.

*Key split (`ShareHandout`).* Keys and pads have one bit and one prime stands
for the list of primes; the arithmetic is the code's, over that field. Other
programs create and remove files of their own only. The master key is absent,
short (a stop in the middle of its write) or whole; one application.

*Certificates (`TimeStamping`, `PolicyAssessment`).* A certificate's number is
its key pair's; a signature verifies exactly under it. Chains are those that
the verifier builds: by name, key and validity.

## 3. What the runs check

Components that share no state are checked in one run when their instances are
small: a variable `part` of the MC module says which component a behaviour is
about, and the others stay as they begin. Every state of each component is
reached as if it were alone, so a property of one is checked just as it would
be in a run of its own.

| Run | Question | Bounds |
|---|---|---|
| `sync_unsigned` | Does the history only continue, and is what was acknowledged stored, when requests overlap and a CA is pinned late? | 2 requests, 2 events, 5 bodies (two policies of one generation, one higher, one invalid, none), two wrapped s3, two event types |
| `sync_signed` | Is an envelope admitted once, across redelivery, pruning and restarts? | 2 requests, 2 nonces, clock 0..5, window 1, retention 2 (window + patience <= retention), 3 offers |
| `release` | Can a release rest on a stale record, be denied by a race, or backfill a wrong mark? Is a key that is released the policy's, found whenever the stored shares allow it, never early, never unaudited? Are shares tagged with the generation of the moment, and is what a removal removes what was shown? | 1 request, 2 selections, 2 events, 4 bodies; 2 generations, slots 1 and 4, 1 upload at a time, 2 shares, unlock times 0 and 1, accuracy 1; a page of a share is opened between two releases |
| `selection_ca_removed` | With a CA that is removed and pinned again: can a protected seal fall back, can the mark be lowered or lost, an authenticated record or its wrapped s3 be replaced, an enrolled seal be opened? | 2 requests, 2 selections, at most 3 of the 4 in progress at a time, 2 events, 4 bodies (the first with no wrapped s3 or either of two) |
| `web_access` | Budgets and caps under requests in parallel; each code tried once; one data key per seal, conversions that lose nothing and leave nothing; one registration per seal and true answers, whatever forms and submissions race; shares through the rebuild of their table | 2 requests each, limits of 1, 3 rows of `auth_failures`, 2 deliveries; 1 writer, 2 conversions, 1 reader, 2 events with one text, 2 keys; 2 seals in one gap, a form and 5 submissions, 2 requests, both databases; 2 processes that start, one added column, 3 ids of shares, both databases |
| `desktop` | Does a completed container decrypt? Is what was reviewed, verified, encrypted and split what is recorded, decrypted and handed out? Does a row keep its seal? Does an accepted token answer its call? Is a signed policy verifiable? Do the saved shares recover the key? | 5 buffers in segments of 2, 2 sessions, 6 nonces, 9 cells; 2 wizards and 2 attempts; 2 reseal processes over 2 files, one change of the directory, one other event; 3 verifications in 2 wizards; 2 identifiers and 3 events; 2 calls with 2 attempts, one other authority; 2 CA keys, 2 CAs, 2 signers, clock to 3; 2 splits, 2 names, prime 5 |
| `outbox_one_application` | Do the stored record and what a backend holds stay one growing history, in order, whatever file is loaded and whatever is configured? | 1 application, 2 push runs, 1 backend, 4 events |
| `outbox_delivery` | Is a row marked as sent held exactly as queued, is a stored record queued, and is everything queued delivered in the end? | 1 application, 1 push run, 1 backend, 3 events, case deleted any number of times |
| `container_sizes` | (violation) a completed container with two segment sizes | sizes 1 and 3 |
| `case_columns` | (violation) the listed state of a completed unsealing, opened from a record file | as `desktop` |
| `unpinned_mark` | (violation) the mark with a removed CA | as `sync_unsigned` |
| `late_claim` | (violation) the nonce with the largest window | 2 nonces, window = retention = 2 |

What the properties say is in the comments above them. Those with parts:
`HeldIsOneHistory` (order, and that later records continue earlier ones),
`RightKeyIsReleased` (the policy's key; the genuine share is found),
`SharesChangeAsShown` (tag, removal), `AttemptsAreCounted` (both budgets; places
given back by every answer), `SharesAreSavedApart` (recovery, others' files),
`SealsAreRegisteredOnce` (one registration, nonces, answers).

*Why the bounds are enough.* Two events are enough for every rule of admission:
each relates the submitted event to at most one other stored record or to the
mark; two policies of one generation and one above give the three comparisons.
`selection_ca_removed` has the first body with three choices of a wrapped s3,
the least with which one may be added and another refused; of its requests and
selections any two of a kind run beside one of the other.
Two requests give every overlap of two handlers; a third adds only further
copies of the same pairs, since decisions are serialized by the lock. Two
nonces are needed because pruning is done by a request other than the one whose
nonce expires. Four events allow a fork to be made, saved and continued, since
the backend shows it only at the event after the fork; two connections let a
request of an earlier attempt be on its way beside a new one. Six nonces and
nine cells allow one resume after a full try of three segments, and a second
one. Two generations and two shares allow a share of the current and of an
earlier split, a removal and an upload into the same place in between. A limit
of one with two requests is the smallest at which a race can exceed it. Two
processes that start, with three ids, allow one to rebuild, serve, store and
remove while the other still waits to rebuild. Two wizards, processes and
attempts let the answer of one arrive in the other. Two CA certificates of one
key are a renewal; the clock passes every end of validity. The stamps
have one hash: that an accepted token is for the hash of its call, against those
of other calls, is left to the theorem `AnswersMatchTheirCalls`. Prime 5 is the
smallest field with four shares; a line over it has every pair of values the
larger ones tell apart for keys of one bit.

*Fairness.* Only `outbox_delivery` assumes it (`FairSpec`); everywhere else a
request that is never answered, a process that never restarts and a clock that
stands still are allowed. `FairSpec` says: an operator who keeps running
`python -m desktop.sync retry` (weak fairness of `ListPending`); a run that is
not stopped for ever at the same place (strong fairness of `Send` and
`RecordSuccess`; `StopPushing` may happen again and again); the time limit of
`transport.post` (weak fairness of `RecordFailure`); requests that do not stay
on their way for ever (weak fairness of `Arrives`, needed to reuse the
connections); and each backend answers a waiting run in time again and again
(strong fairness of `AnsweredInTime`), which includes that the records have a
form in the portal's contract. A backend that refuses an event for good, or a
record outside the contract, keeps the later rows of that backend waiting, and
the code does not promise otherwise.

What the properties exclude, and why:

- `RowKeepsItsSeal` and `HeldIsOneHistory` are checked for one application.
  With two on one database they do not hold: completing a sealing rewrites the
  stored record unchecked, so an event saved by the other application after
  this wizard's save is lost from it.
- `CompletedContainerDecrypts` excludes a source that is modified during the
  call that completes (`steady`): it is compared with the progress file once,
  and a resumed run takes the recorded hash before it reads the rest. It also
  excludes what follows a stale progress file that could not be removed
  (`leftover`): `_discard_partial` logs it and the run goes on.
- `SealedAsReviewed` speaks of a container until a later wizard chooses the
  same output: a new seal overwrites it.
- `ResealRecordHolds` excludes two listed files of one stem (section 5).
- `FailuresNearLimit` allows the limit to be passed by the requests in progress
  less one: the lockout is counted before the failure is recorded.
- `StaysVerifiable` is for hosts that have the signer's CA certificate among
  their pinned ones.

### Disagreements between text and code

- *Mark* (`unpinned_mark`). `release_selection.py` states that the mark equals
  the highest generation among the stored authenticated records. A refused
  submission commits the bootstrapped mark but does not enroll the seal. With
  the CA removed, such a seal accepts further records and their generation
  does not raise the mark. When the CA is pinned again the mark is behind, and
  a release that reads down to the mark rests on the older policy.
- *Nonce* (`late_claim`). `sync_auth.py` states that pruning can never re-admit
  an envelope inside any window. The window is checked before the lock only,
  so with the largest window a request that waits between the check and the
  claim is admitted after its nonce was pruned. With a window smaller than the
  retention by the longest wait, it cannot happen (`sync_signed`).
- *Segment size* (`container_sizes`). `test_encryption_resume.py` says that a
  changed segment size discards old progress. It is ignored, not discarded:
  after a cancelled try with another size, a third try with the first size
  resumes progress that describes an overwritten container.
- *Completed unsealing* (`case_columns`). `app.py` states that the state of a
  case follows the record's history. The save of an unsealing or a reseal
  inserts its row, or replaces the one there, with the columns at their
  defaults; completing it reads the investigator as a sealing stores it and
  ends with an error before the columns are updated. The case is listed as
  sealed once, without names, is offered for unsealing again and refused for
  reseal. In the shortest counterexample the row is inserted: the sealing wrote
  its record file and was left before its save, and the unsealing starts from
  that file.

## 4. What is proved

Every invariant and every action property of the passing runs is a theorem,
for every value of the constants: any number of requests, events, records,
processes and any limits. Each rests on an inductive invariant, which the
provers check in the three usual steps; the lemmas say, action by action, how
it is kept. Eight modules hold them:

| Module | About | Its invariants |
|---|---|---|
| `SyncAdmissionProofs` | admission of records, the mark, the assessment | `AssessedInv`, `MarkInv` |
| `SyncHistoryProofs` | refinement of `SealHistory`, enrollment, acknowledgement, nonces | `PromiseInv`, `NonceInv` |
| `ReleaseProofs` | record selection; shares and release | `SelectionInv`, `GuardedInv`; `ShareInvariant` |
| `SealOutboxProofs` | the outbox and what backends hold | `DeliveryInv`, `StoredInv`, `OrderInv` |
| `WebAccessProofs` | logins, subjects, protection, cases, start-up; the type of their composition | `AdminInv`, `SubjectInv`, `RecordInv`, `ScrubInv`, `CaseInv`, `UpgradeInv` |
| `WizardProofs` | the three wizards, split and share files | `SealInv`, `ResealInv`, `UnsealInv`, `ShareFilesInv` |
| `DesktopProofs` | policies, time stamps, containers, rows; the type of their composition | `PolicyInv`, `StampInv`, `AcceptInv`, `ResumeInv`, `ResumeShape`, `CaseInv` |
| `NaturalFacts` | greatest elements of bounded sets of naturals | |

`WebAccessProofs` and `DesktopProofs` extend the MC modules that compose their
components, for the theorem on the type of the composition; everything else in
them is about a component's own specification.

### Hypotheses and assumptions

Assumptions on constants are the named `ASSUME`s, evaluated by TLC on the runs.
A theorem that needs more says so in its statement:

| Theorem | Hypothesis | Why |
|---|---|---|
| `MarkIsTheStoredMaximum`, `HistoryIsImplemented`, `FilledMarkIsTheStoredMaximum`, `SelectionIsNotStale` | a pinned CA is never removed (`~CaMayBeUnpinned`) | with removal they are false: run `unpinned_mark` |
| `EnvelopeIsAdmittedOnce` | `Window + Patience <= Retention` | without it, false: run `late_claim` |
| `HeldStaysOneHistory` | one application; the case is not deleted | otherwise false (section 3) |
| `StoredIsQueued` | every process has the backends configured | a backend configured later gets only what is saved from then on |
| `CompletedContainersOpen` | one segment size, and sources of one name for an output | with two sizes, false: run `container_sizes`; with two names, a progress file of the one is ignored and stays while the other overwrites the container, which `seal_output_path` excludes for a seal (section 5 for a reseal) |
| `HandedOutSharesGiveTheKey` | `LinesAreRecovered`: two or more points of a line give back its key | that every nonzero residue has an inverse is an induction over data; TLC evaluates it for the primes 5 and 7 (`LinesRecoveredInFields` of `MCDesktop`) |

The assumptions that say more than what kind of value a constant is:
`UpgradeAssumption` (an earlier database, which has at most one share
per slot, does not run out of ids), `NoncesAreDrawn` of `CaseRegistration` (two submissions have two
nonces: `portal_client.py:258` draws them), `WizardAssumption` (a field that is
not entered is none of the inputs).

### Sync endpoint

About `SyncAdmission`:

- `TypeCorrect`: `Spec => []TypeOK`.
- `AuthenticRecordsAreKept`: an authenticated record and its wrapped s3 are
  never replaced, with any CA setting. The invariant needed is that an admitted
  request carries the assessment of the CA configured *now*
  (`AdmittedIsAssessed`): the configuration changes only at a restart, which
  ends the requests in progress.
- `MarkIsTheStoredMaximum`: the mark is the policy of a stored record that none
  outranks. The invariant adds that a mark exists only while a CA is pinned
  (`MarkNeedsCa`). Key steps: a full scan of the stored records finds a maximum
  (`StoredMaximumIsMaximum`, from the existence of greatest elements in bounded
  sets of naturals); a record that passes `BelowMark` carries either the mark's
  policy or a higher generation (`StoredOutranks`); storing it keeps a maximum
  (`MaximumAfterStore`); an identical resubmission cannot raise the mark
  (`CompleteKeepsMaximum`).
- `HistoryIsImplemented`: `Spec` implements `SealHistory` with the
  authenticated records as the accepted ones and `caPinned` as `guarded`. A step
  that stores an authenticated record passed `Copied` and `BelowMark`, and since
  the mark is the stored maximum the record continues every accepted one
  (`StoredContinues`); every other step maps to a stutter or to the CA being
  pinned.
- `EnrolledStaysAuthenticated`: with any CA setting, what is stored for an
  enrolled seal is authenticated.
- `AcknowledgedStaysStored`: `PromiseInv` says of each request decided with "ok"
  that what the answer promises holds. Whatever another request commits leaves
  it so (`PromiseOutlastsStep`): an authenticated record is only replaced by
  itself, wrapped s3 included, and the mark only rises.
- `EnvelopeIsAdmittedOnce`: the invariant (`NonceInv`): the nonces of the
  envelopes sent are distinct; a request in progress is at most `Patience` old
  and was inside the window when it came; a nonce that was claimed is either
  still stored or its retention is over. A request that could claim it again
  would then be older than it may be.

### Selection and release

About `ReleaseSelection`, with any CA setting, from `SelectionInv` (what was
protected at the start of a selection still is, the events it has yet to read
have a record, and its phase agrees with what it has chosen):
`ProtectedSealsNeverFallBack`, `MarkIsNeverLowered`,
`AuthenticRecordsOutlastSelections` and `SelectionsKeepEnrollment`. The last
three say that the two writes of a selection outside the lock break nothing that
holds for the endpoint alone; `SyncAdmissionProofs` is reused for its steps.

Where a pinned CA is never removed, `GuardedInv` adds, for each selection, that
its choice is stored, that a record at or above its floor is in the choice or
still to be read (`TargetInReach`), and that as long as there is no mark it has
passed over no higher record (`NothingMissed`). The crucial case is a mark that
another request writes while this one scans: from then on the target is the
mark's. Then `SelectionIsNotStale`, and `FilledMarkIsTheStoredMaximum`: a mark
that is filled in without the lock is the maximum, since any admission in
between would have written one.

About `ShareRelease`, for any number of uploads, generations, splits and rows,
any unlock times and any accuracy of the time stamps:

- `ShareInvariant`: the inductive invariant, in four parts. `ReleaseTypeOK`;
  `IdsNameRows`, an id names one row for ever, among the stored ones, the one a
  page shows and those a release began with; `TagsAreCurrent`, an upload that
  read the stored maximum before the lock still has the generation of this
  moment, since only a mark can change it and the mark is read again under the
  lock, and the mark a release seeds without the lock is that generation too;
  `DecisionIsSound`, what a release has computed so far.
- `RightKey`: a key released on an authenticated policy is that policy's, and
  the genuine pair of shares is never passed over. The owner's rows a request
  found at its beginning are, as far as they are still stored, among those it
  decides on; a row stored since has an id above all of them. The genuine pair
  recombines to the commitment (`GenuinePairMatches`), so it is among what is
  found, whatever else is tried.
- `NeverEarly`: no key of the time-locked path before the unlock time, the
  accuracy of the token subtracted and the host's clock ignored.
- `Audited`: no key in an answer without its audit row.
- `SharesChange`: a share enters the store under the generation of that moment,
  and leaves it only as the row a page showed, with its audit entry.

### Access, protection, cases, start-up

- `AttemptsAreAllCounted`. Rows are counted without a lock while others insert
  and relabel. What makes it work is the order of the ids: of the rows a budget
  let through, the last one counted all the others. `CountInv` and `GrantInv`
  speak of the rows up to a granted one (`Upto`), which later steps only make
  fewer (`UptoShrinks`). A place is given back by its own request, which
  `OwnRows` keeps apart from the others'; a pending row without a request is
  that of one that ended with an error or with its process
  (`PlacesAreGivenBack`).
- `DeliveriesStayWithinCap`: a request about to reveal holds the seal's lock and
  counted fewer than the cap (`CapInv`). `FailuresStayNearLimit`: `FailInv`
  counts failures together with the requests past the check.
  `CodesAreTriedOnce`: a delivery belongs to one request (`Apart`), its code is
  not compared before it is stored (`Unstored`), and a mailed code is stored,
  compared, lost or expired (`NoneMissing`).
- `OneKeyIsKept`, `StoredStaysReceived`: `KeyInv` names the key everything is
  under, also while its row is lost; `CommitInv` says that what a transaction
  found under the lock is so until it commits. `FinishedIsClean`: `ScrubInv`
  is what a conversion without a failure has behind it, beside the fact that
  plaintext never returns (`PlaintextRecedes`).
- `SealsGetOneCase`: what a transaction has found is true while it holds its
  locks (`Founded`, in `Sound`), and which locks exclude each other
  (`Excludes`); gap locks do not.
- `UpgradesKeepShares`: `ReachedBy` says what is done by the time a process has
  come to its place; `SharesInv` that no two shares ever had one id.
- `WebTypeCorrect`: `WebTypeOK` of the composition. A behaviour of it is one of
  each component (`EachOnItsOwn`), so the components' invariants apply.

### Outbox

About `SealOutbox`, for any number of applications, push runs, backends,
connections and events:

- `SentRowsAreHeld`, with the case deleted and made again. The invariant
  (`DeliveryInv`): a queued row is never replaced by another record; a request
  carries the queued record, and the run that waits on its connection waits for
  that row; what a run was told is held, is held; a run that has not sent its
  row has no answer, which keeps a late answer from an earlier attempt away.
- `StoredIsQueued`: where every process has the backends configured, the
  stored record is the record queued at its event for each backend. Beside the
  stored record, the invariant speaks of what a wizard has made and saved, since
  completing a sealing writes that record again; a row that is queued stays as
  it is (`QueuedStays`).
- `HeldStaysOneHistory`: two invariants. `StoredInv`: the stored record is what
  the wizard saved, and continues every queued record, whichever backends were
  configured then. `OrderInv`: of the rows before one that a run has still to
  push, each is held or is pushed by that run before it; when a request is on
  its way, all earlier rows are held.

### Wizards and share files

The invariants relate the page on screen to what the earlier pages produced, the
run of a worker to the wizard that waits for it, and both to what is stored.

- `SavedSharesReachTheirHolders`, `SealsAreSavedAsReviewed` from `SealInv`:
  the form is what was shown from page 4 until the seal is saved; a run belongs
  to the wizard on screen; a container that a wizard claimed is whole under its
  key.
- `HandedOutSharesAreRecorded`, `ResealRecordsAreTrue` from `ResealInv`: a
  record that can still be stored outranks the stored one; the records with the
  event of the process on screen are its own, and only they; what was handed
  out belongs to that process until it is saved or left after the warning.
- `UnsealingsAreVerified` from `UnsealInv`: unless a
  verification is running or has failed, the process on screen is that of the
  last verification, and a page that shows a match shows its match; the pages
  after a decryption need it, also when they are visited again.
- `HandedOutSharesGiveTheKey` from `ShareFilesInv`: a save in progress is of
  a share without a file, and from its claim on the chosen name bears a copy of
  that share; `HoldersOpen` is the arithmetic of lines and pads.

### Policies, time stamps, containers, rows

- `PolicyStaysVerifiable`: the invariant (`PolicyInv`): a signer ends with its
  CA certificate at the latest, and a policy is signed only within its signer
  (`SignersWithinAnchors`, `PoliciesWithinSigners`); then both certificates are
  current whenever the policy is asked about (`WithinWindowVerified`).
- `AnswersMatchTheirCalls`: the nonces of tokens are those of earlier calls, and
  one that was accepted belongs to its call (`StampInv`, `AcceptInv`), so a late
  answer does not fit a later call.
- `CompletedContainersOpen`: `ResumeInv` describes the cells up to the position
  of a call: finished segments decrypt, the current one up to its last buffer,
  and the hash is of what was read; a progress file describes a container that
  a call with it can take up. The sizes of segments are summed by a recursive
  function whose unfolding is all the proof uses.
- `RowsKeepTheirSeals`: a record in a row was written to a file, and so was that
  of a view and of a save still running (`RecordsAreFiled`); an identifier drawn
  again gets an event that is later than all in its files.
- `DesktopTypeCorrect`: `DesktopTypeOK` of the composition, with invariants of
  its own for bounds and places (`SealPlaces`, `ResealPlaces`, `UnsealPlaces`,
  `CallBounds`, `PolicyBounds`, `FolderTypes`) and `ResumeShape`, which needs
  neither one size nor one name.

### What the proofs changed in the models

`WorkOf` of `UnsealWizard` and `NextPage` of `ResealWizard` were `CASE`
expressions with overlapping arms, for which TLC takes the first arm and the
logic any: the arms are now disjoint. Sessions of a container are counted from
1, so `MaxSessions` is not 0. `SchemaUpgrade` asks for as many ids as an
earlier database has shares.

### Left to TLC

`EverythingIsDelivered` is liveness under fairness, which is out of the
prover's reach. The four violations are counterexamples on small instances.
`LinesAreRecovered` for all primes, and what recursive functions compute for
every input, need an induction over data.

## 5. Not modelled, and what the code does there

Left out of every model: the form checks of a submission (400 answers), the
encoding of signatures and keys, layout, wording and logs, record documents and
the signing of PDFs (library calls without state), the benchmark scripts (a
measurement harness), widgets and translations. Nonces are global, but an
envelope binds its seal, so one seal is enough in `SyncAdmission`.

Of the components that are modelled in part:

- *Start-up.* `get_db` falls back to SQLite for a single request, and at
  start-up, when MariaDB is not reachable; the command line refuses that
  (`cli_support.py:33`). `SchemaUpgrade` has one database that is reachable.
- *Subject authentication.* The upgrade of old password hashes, other factors
  than the code, and the classic form's redirect after `POST /suspect/send-otp`
  are left out. A code compared wrongly is used up.
- *Administrator login.* `_reserve_login_attempt` says that its caller relabels
  the pending row when the login fails and withdraws it otherwise
  (`admin.py:154`). An error in a count, in the read of the account, in the
  relabel or in the delete is not handled there: the row stays pending and
  counts as an attempt in progress until its window is over, as in
  `AdminLogin`. A statement that commits and then reports an error is left out.
- *Desktop store and outbox.* The governing fields compared beside the history,
  the certificates and shares saved with a record, attempt counters and a torn
  write of the progress file (it is replaced by a rename) are left out. A row
  whose record is a blank placeholder is taken as none.
- *Seal wizard.* A crash of the application in the middle of the worker is not
  modelled. `_cleanup` removes only the last pending path; a new seal that
  chooses an earlier container's path overwrites it.
- *Reseal wizard.* The mode check of R1 is an outcome. A derived file that is
  removed before R5 is skipped without a message and stays listed
  (`missing`); a reseal of no file at all is accepted; loading again on R1
  forgets the partial outputs of the process before. Two files whose names
  differ only in their extension get one container name
  (`reseal_process.py:319`), the second overwrites the first, and the record
  lists both; the seal process refuses that (`seal_process.py:687`).
- *Unseal wizard.* U3 and U4 can be left by the Return key when they are shown
  for reading only (`unseal_wizard.py:1163`): the process is replaced, and the
  record of what was decrypted can no longer be saved. Record files of the same
  name are overwritten.
- *Case manager.* A registered case is listed as `S1U0R0`
  (`sqlite_store.py:434`), so the manager refuses to seal it although the text
  of its dialog says that only cases before their seal are eligible; `CaseStore`
  therefore starts no sealing from one. After a second unsealing the
  test for "U1" fails as well.
- *Time stamps.* Serial numbers begin at 1 in each process although the
  responder's comment calls them unique. A stop in the middle of a write leaves
  a file that exists and is not whole, and the application then does not start.
  Two first runs at once may leave a key and a certificate that do not match
  (one application in the run). The certificate of the local authority is never
  renewed. The plain call of a seal's document checks neither hash nor nonce,
  and its token is dropped. Leaf pinning and clock skew are left out.
- *Policies.* Without a release window (`release_window` None) nothing is
  promised; `check_unlock_time` has no caller.
- *Share files.* When a save fails and its temporary copy cannot be removed
  either, this is only logged. The master key is checked and then written
  without a lock; a short file is never replaced, and every split then fails.
- *Key split.* The prime is chosen from the key at the split and from the
  shares at the recovery; one prime stands for both.
- *Identity.* Digests and key files are left out of `RecordProtection`.

## 6. Plan

Done: the sync endpoint with its abstract history, case creation, record
selection, shares and release, start-up, access, protection and migration; on
the desktop the outbox, the store, the wizards, containers, key split and share
files, time stamps and policies; the theorems of section 4.

Left: a composition of `SealOutbox` with `SyncAdmission` as its backend, so
that what the desktop marks as sent is what the endpoint keeps, and the
theorem that each backend of the outbox is implemented by the endpoint; an
abstract specification of a release that `ReleaseSelection` and `ShareRelease`
implement; the fallback of the database at start-up; and several applications
on one desktop database, for which the properties of section 3 do not hold.
