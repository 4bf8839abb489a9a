---------------------------- MODULE UnsealWizard ----------------------------
(***************************************************************************)
(* The desktop's unseal wizard and the process behind it.                  *)
(*                                                                         *)
(* U3 takes the inputs and verifies them in a new process, U4 shows the    *)
(* outcome and asks about a mismatch, U5 decrypts and then makes the       *)
(* record, U6 shows it, and every visit of U7 saves it.  Past pages can be *)
(* visited; once decrypted, U3 and U4 are meant for reading only, but the  *)
(* Return key goes on from them as from any page.                          *)
(***************************************************************************)
EXTENDS Integers, FiniteSets

CONSTANTS
  MaxVerifications,  \* bound: verifications begun
  MaxUnsealWizards   \* bound: wizards opened

ASSUME UnsealAssumption ==
  MaxVerifications \in Nat /\ MaxUnsealWizards \in Nat

VARIABLES
  unseal,         \* the wizard on screen
  unsealing,      \* its process
  verifications,  \* verifications begun; a process has the number of its own
  unsealWizards,  \* wizards opened
  savings,        \* processes whose U7 save runs
  confirmed,      \* history: verifications whose mismatch was confirmed
  decrypted,      \* history: processes that decrypted
  unsealed        \* the processes whose records are stored

unsealVars == <<unseal, unsealing, verifications, unsealWizards, savings,
                confirmed, decrypted, unsealed>>

-----------------------------------------------------------------------------
UnsealPages == {"U3", "U4", "U5", "U6", "U7"}
PagesBefore(page) ==
  CASE page = "U3" -> {} [] page = "U4" -> {"U3"} [] page = "U5" -> {"U3", "U4"}
    [] page = "U6" -> {"U3", "U4", "U5"} [] OTHER -> UnsealPages \ {"U7"}

NoUnsealWizard == [open |-> FALSE]
NewUnsealWizard ==
  [open |-> TRUE, page |-> "U3", back |-> "none", busy |-> "no",
   error |-> FALSE, matched |-> FALSE, decrypted |-> FALSE, recorded |-> FALSE]

Verified(number, matched) ==
  [number |-> number, matched |-> matched, record |-> FALSE]
NoUnsealing == Verified(0, FALSE)

UnsealInit ==
  /\ unseal = NoUnsealWizard
  /\ unsealing = NoUnsealing
  /\ verifications = 0
  /\ unsealWizards = 0
  /\ savings = {} /\ confirmed = {} /\ decrypted = {} /\ unsealed = {}

OpenUnseal ==
  /\ ~unseal.open
  /\ unsealWizards < MaxUnsealWizards
  /\ unsealWizards' = unsealWizards + 1
  /\ unseal' = NewUnsealWizard
  /\ unsealing' = NoUnsealing
  /\ UNCHANGED <<verifications, savings, confirmed, decrypted, unsealed>>

-----------------------------------------------------------------------------
(* Showing U5 decrypts, or makes the record if that is still to do; showing *)
(* U7 saves.                                                               *)
AtRest == unseal.open /\ unseal.busy = "no"

WorkOf(page) ==
  CASE page = "U5" /\ ~unseal.decrypted -> "decrypting"
    [] page = "U5" /\ unseal.decrypted /\ ~unseal.recorded -> "recording"
    [] OTHER -> "no"

ShowUnsealPage(page, back) ==
  /\ unseal' = [unseal EXCEPT !.page = page, !.back = back, !.busy = WorkOf(page)]
  /\ savings' = IF page = "U7" THEN savings \cup {unsealing} ELSE savings

(* U3: the inputs are taken and verified, in review too. *)
BeginVerification ==
  /\ unseal.page = "U3"
  /\ verifications < MaxVerifications
  /\ verifications' = verifications + 1
  /\ unseal' = [unseal EXCEPT !.busy = "verifying"]
  /\ UNCHANGED <<unsealing, savings, confirmed>>

PassesUnasked == ~unseal.error /\ unseal.matched

AsksAboutError == ~unseal.matched   \* mutant: an error counts as a mismatch

AsksAboutMismatch == ~unseal.error /\ ~unseal.matched

(* U4: an error blocks, a mismatch is asked about each time. *)
PassGate ==
  /\ unseal.page = "U4"
  /\ \/ PassesUnasked /\ UNCHANGED confirmed
     \/ AsksAboutMismatch /\ confirmed' = confirmed \cup {verifications}
  /\ ShowUnsealPage("U5", unseal.back)
  /\ UNCHANGED <<unsealing, verifications>>

(* U5 and U6.  Without its record U5 only tries to make it again. *)
GoOn ==
  /\ \/ /\ unseal.page = "U5" /\ unseal.decrypted
        /\ ShowUnsealPage(IF unseal.recorded THEN "U6" ELSE "U5", unseal.back)
     \/ unseal.page = "U6" /\ ShowUnsealPage("U7", unseal.back)
  /\ UNCHANGED <<unsealing, verifications, confirmed>>

GoOnward == BeginVerification \/ PassGate \/ GoOn

(* The Next button leads back from a review; the Return key goes on. *)
NextUnsealPage ==
  /\ AtRest
  /\ unseal.back = "none"
  /\ GoOnward
  /\ UNCHANGED <<unsealWizards, decrypted, unsealed>>

ReturnKey ==
  /\ AtRest
  /\ unseal.back # "none"
  /\ GoOnward
  /\ UNCHANGED <<unsealWizards, decrypted, unsealed>>

BackFromReview ==
  /\ AtRest
  /\ unseal.back # "none"
  /\ ShowUnsealPage(unseal.back, "none")
  /\ UNCHANGED <<unsealing, verifications, unsealWizards, confirmed, decrypted,
                 unsealed>>

(* A click on a past page, or the Back button where it is enabled. *)
VisitPage(page) ==
  /\ AtRest
  /\ page \in PagesBefore(unseal.page)
  /\ ShowUnsealPage(page, IF unseal.decrypted /\ page \in {"U3", "U4"}
                          THEN unseal.page ELSE unseal.back)
  /\ UNCHANGED <<unsealing, verifications, unsealWizards, confirmed, decrypted,
                 unsealed>>

-----------------------------------------------------------------------------
(* The worker.  A process takes the inputs as they were when it was begun.  *)

Working(work) == unseal.open /\ unseal.busy = work

VerificationEnds(matched) ==
  /\ Working("verifying")
  /\ unsealing' = Verified(verifications, matched)
  /\ unseal' = [unseal EXCEPT !.busy = "no", !.page = "U4",
                              !.error = FALSE, !.matched = matched]
  /\ UNCHANGED <<verifications, unsealWizards, savings, confirmed,
                 decrypted, unsealed>>

(* The process of an earlier verification stays. *)
VerificationFails ==
  /\ Working("verifying")
  /\ unseal' = [unseal EXCEPT !.busy = "no", !.page = "U4",
                              !.error = TRUE, !.matched = FALSE]
  /\ UNCHANGED <<unsealing, verifications, unsealWizards, savings, confirmed,
                 decrypted, unsealed>>

DecryptionEnds ==
  /\ Working("decrypting")
  /\ decrypted' = decrypted \cup {unsealing}
  /\ unseal' = [unseal EXCEPT !.decrypted = TRUE, !.busy = "recording"]
  /\ UNCHANGED <<unsealing, verifications, unsealWizards, savings, confirmed,
                 unsealed>>

UnsealRecordMade ==
  /\ Working("recording")
  /\ unsealing \in decrypted
  /\ unsealing' = [unsealing EXCEPT !.record = TRUE]
  /\ decrypted' = (decrypted \ {unsealing}) \cup {unsealing'}
  /\ unseal' = [unseal EXCEPT !.recorded = TRUE, !.busy = "no"]
  /\ UNCHANGED <<verifications, unsealWizards, savings, confirmed,
                 unsealed>>

(* Cancelled, failed, or, for the record, a process that has not decrypted. *)
WorkFails ==
  /\ Working("decrypting") \/ Working("recording")
  /\ unseal' = [unseal EXCEPT !.busy = "no"]
  /\ UNCHANGED <<unsealing, verifications, unsealWizards, savings, confirmed,
                 decrypted, unsealed>>

HasEveryStep(process) == process \in decrypted /\ process.record

(* U7 needs the results of U3 to U6 in one process; its save may be refused *)
(* and goes on when the wizard is left.                                    *)
UnsealSaveEnds(process) ==
  /\ process \in savings
  /\ savings' = savings \ {process}
  /\ \/ HasEveryStep(process) /\ unsealed' = unsealed \cup {process}
     \/ UNCHANGED unsealed
  /\ UNCHANGED <<unseal, unsealing, verifications, unsealWizards, confirmed, decrypted>>

(* Cancel or a menu; the decryption's dialog is modal. *)
LeaveUnseal ==
  /\ unseal.open
  /\ unseal.busy # "decrypting"
  /\ unseal' = NoUnsealWizard
  /\ unsealing' = NoUnsealing
  /\ UNCHANGED <<verifications, unsealWizards, savings, confirmed,
                 decrypted, unsealed>>

UnsealNext ==
  \/ OpenUnseal
  \/ NextUnsealPage \/ ReturnKey \/ BackFromReview
  \/ \E page \in UnsealPages : VisitPage(page)
  \/ \E matched \in BOOLEAN : VerificationEnds(matched)
  \/ VerificationFails \/ DecryptionEnds \/ UnsealRecordMade \/ WorkFails
  \/ \E process \in savings : UnsealSaveEnds(process)
  \/ LeaveUnseal

UnsealSpec == UnsealInit /\ [][UnsealNext]_unsealVars

-----------------------------------------------------------------------------
(* Later pages need what earlier ones produced, and work belongs to a page. *)
UnsealWizardTypeOK ==
  /\ verifications \in 0 .. MaxVerifications
  /\ unsealWizards \in 0 .. MaxUnsealWizards
  /\ unseal.open =>
       /\ unseal.page \in {"U6", "U7"} => unseal.recorded
       /\ unseal.page # "U3" => verifications > 0
       /\ unseal.recorded => unseal.decrypted
       /\ unseal.busy = "decrypting" => unseal.page = "U5"
       /\ unseal.back # "none" => unseal.decrypted

(* Nothing is decrypted unless the verification of that very container,    *)
(* record and key passed, or its mismatch was confirmed; and what is stored *)
(* of an unsealing comes from one process with all its steps: though inputs *)
(* are entered again, verifications fail in between, past pages are visited *)
(* and left by the Return key, and saves go on when the wizard is left.    *)
WasVerified(process) == process.matched \/ process.number \in confirmed

UnsealedAsVerified ==
  /\ \A process \in decrypted : WasVerified(process)
  /\ \A process \in unsealed : process \in decrypted /\ process.record

=============================================================================
