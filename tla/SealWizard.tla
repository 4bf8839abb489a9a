----------------------------- MODULE SealWizard -----------------------------
(***************************************************************************)
(* The desktop's seal wizard, the process behind it and the window it is   *)
(* shown in.                                                               *)
(*                                                                         *)
(* Pages 1 to 3 take the inputs, and leaving page 1 encrypts.  Page 4      *)
(* shows what will be sealed.  Entering page 5 starts a worker that builds *)
(* the record, signs it, splits the key and saves; its answer comes back   *)
(* to the window, if the wizard is still there.  On page 6 the two shares  *)
(* are saved to files.  Past pages can be visited, the wizard can be       *)
(* cancelled or left, and every step of the worker can fail and is tried   *)
(* again from the first.                                                   *)
(***************************************************************************)
EXTENDS Integers, FiniteSets

CONSTANTS
  SealOutputs,    \* containers that page 1 may choose
  Inputs,         \* what an operator may enter on page 2 or 3
  StrictInputs,   \* those that choose strict mode
  PolicySigner,   \* a policy key is configured
  Cases,          \* cases registered before
  LegacyCases,    \* those whose ID no record accepts
  MaxWizards,     \* bound: wizards opened
  MaxAttempts     \* bound: runs of the worker

NotEntered == "not entered"

ASSUME WizardAssumption ==
  /\ StrictInputs \subseteq Inputs /\ LegacyCases \subseteq Cases
  /\ NotEntered \notin Inputs /\ PolicySigner \in BOOLEAN
  /\ MaxWizards \in Nat /\ MaxAttempts \in Nat

VARIABLES
  wizard,       \* the wizard on screen
  opened,       \* number of the last wizard opened; it is also its key
  worker,       \* the background run of S4 to S7
  attempts,     \* number of the last such run; it is also its record and split
  panel,        \* the shares waiting to be saved to files
  containers,   \* the .enc files
  claimed,      \* history: the last wizard that chose each container
  papers,       \* the signed document beside the container, by seal ID
  seals,        \* the seals saved in the local store
  shareFiles,   \* shares written to files
  waived        \* history: wizards left although warned that shares are lost

sealVars == <<wizard, opened, worker, attempts, panel, containers, claimed,
              papers, seals, shareFiles, waived>>

-----------------------------------------------------------------------------
NoCase == "no case"
NoOutput == "no output"
NoFile == [written |-> FALSE]
Written(key, whole) == [written |-> TRUE, key |-> key, whole |-> whole]

Form == [{2, 3} -> Inputs \union {NotEntered}]
EmptyForm == [p \in {2, 3} |-> NotEntered]

Closed == [open |-> FALSE]
Fresh(case) ==
  [open |-> TRUE, case |-> case, page |-> 1, return |-> 0, busy |-> "no",
   output |-> NoOutput, encrypted |-> FALSE, form |-> EmptyForm,
   shown |-> EmptyForm, saved |-> FALSE]

Idle == [stage |-> "idle"]
EmptyPanel == [split |-> 0, inFiles |-> {}]

(* A registered case keeps its ID; otherwise one is made up and kept. *)
SealId(case, number) ==
  IF case = NoCase THEN <<case, number>> ELSE <<case, 0>>
SealIds == {SealId(c, n) : c \in Cases \union {NoCase}, n \in 1 .. MaxWizards}
StoredIds == {s.id : s \in seals}

SharesOf(split) == {<<split, i>> : i \in {1, 2}}

SealWizardInit ==
  /\ wizard = Closed
  /\ opened = 0
  /\ worker = Idle
  /\ attempts = 0
  /\ panel = EmptyPanel
  /\ containers = [o \in SealOutputs |-> NoFile]
  /\ claimed = [o \in SealOutputs |-> 0]
  /\ papers = [id \in SealIds |-> 0]
  /\ seals = {}
  /\ shareFiles = {}
  /\ waived = {}

(* The case manager refuses a case that has been sealed. *)
OpenWizard(case) ==
  /\ ~wizard.open
  /\ opened < MaxWizards
  /\ case # NoCase => SealId(case, 0) \notin StoredIds
  /\ opened' = opened + 1
  /\ wizard' = Fresh(case)
  /\ UNCHANGED <<worker, attempts, panel, containers, claimed, papers, seals,
                 shareFiles, waived>>

-----------------------------------------------------------------------------
(* Showing a page.  Page 4 is drawn from the inputs as they are; page 5     *)
(* starts the worker unless the seal is saved.                              *)

Responsive == wizard.open /\ wizard.busy = "no"
InOrder == Responsive /\ wizard.return = 0

StartSealing ==
  /\ attempts < MaxAttempts
  /\ attempts' = attempts + 1
  /\ worker' = [stage |-> "S4", wizard |-> opened,
                id |-> SealId(wizard.case, opened), form |-> wizard.form,
                shown |-> wizard.shown, output |-> wizard.output, ok |-> FALSE]
  /\ wizard' = [wizard EXCEPT !.page = 5, !.busy = "sealing", !.return = 0]

Draw(page) ==
  /\ wizard' = [wizard EXCEPT !.page = page, !.return = 0,
                              !.shown = IF page = 4 THEN wizard.form ELSE @]
  /\ UNCHANGED <<worker, attempts>>

Show(page) == IF page = 5 /\ ~wizard.saved THEN StartSealing ELSE Draw(page)

-----------------------------------------------------------------------------
(* Page 1: the encryption runs in a dialog, and the wizard is busy.         *)

StartEncryption(output) ==
  /\ InOrder
  /\ wizard.page = 1
  /\ ~wizard.encrypted
  /\ wizard.case \notin LegacyCases
  /\ wizard' = [wizard EXCEPT !.busy = "encrypting", !.output = output]
  /\ claimed' = [claimed EXCEPT ![output] = opened]
  /\ UNCHANGED <<opened, worker, attempts, panel, containers, papers, seals,
                 shareFiles, waived>>

WriteContainer(whole) ==
  /\ wizard.open
  /\ wizard.busy = "encrypting"
  /\ containers' = [containers EXCEPT ![wizard.output] = Written(opened, whole)]
  /\ UNCHANGED <<opened, worker, attempts, panel, claimed, papers, seals,
                 shareFiles, waived>>

EncryptSome == WriteContainer(FALSE) /\ UNCHANGED wizard

EncryptAll ==
  /\ WriteContainer(TRUE)
  /\ wizard' = [wizard EXCEPT !.busy = "no", !.encrypted = TRUE, !.page = 2]

(* A cancel or an error, before anything is written or later. *)
EncryptStops ==
  /\ wizard.open
  /\ wizard.busy = "encrypting"
  /\ wizard' = [wizard EXCEPT !.busy = "no"]
  /\ UNCHANGED <<opened, worker, attempts, panel, containers, claimed, papers,
                 seals, shareFiles, waived>>

-----------------------------------------------------------------------------
(* The Next button on the other pages.                                      *)

Accepted(input) == input \in StrictInputs => PolicySigner

EnterInputs(input) ==
  /\ InOrder
  /\ wizard.page \in {2, 3}
  /\ wizard.page = 2 => Accepted(input)
  /\ wizard' = [wizard EXCEPT !.form[wizard.page] = input,
                              !.page = wizard.page + 1,
                              !.shown = IF wizard.page = 3
                                        THEN [wizard.form EXCEPT ![3] = input]
                                        ELSE @]
  /\ UNCHANGED <<opened, worker, attempts, panel, containers, claimed, papers,
                 seals, shareFiles, waived>>

PageIsDone ==
  CASE wizard.page = 1 -> wizard.encrypted
    [] wizard.page = 4 -> TRUE
    [] wizard.page = 5 -> wizard.saved
    [] wizard.page = 6 -> panel.inFiles = {1, 2}
    [] OTHER -> FALSE

GoNext ==
  /\ InOrder
  /\ \/ PageIsDone /\ Show(wizard.page + 1)
     \/ wizard.page = 5 /\ ~wizard.saved /\ StartSealing
  /\ UNCHANGED <<opened, panel, containers, claimed, papers, seals,
                 shareFiles, waived>>

Complete ==
  /\ InOrder
  /\ wizard.page = 7
  /\ wizard.saved
  /\ wizard' = Closed
  /\ panel' = EmptyPanel
  /\ UNCHANGED <<opened, worker, attempts, containers, claimed, papers, seals,
                 shareFiles, waived>>

-----------------------------------------------------------------------------
(* The other ways round.  After the save, pages 1 to 4 are only reviewed.   *)

GoBack ==
  /\ InOrder
  /\ wizard.page > 1
  /\ ~(wizard.saved /\ wizard.page > 4)
  /\ Show(wizard.page - 1)
  /\ UNCHANGED <<opened, panel, containers, claimed, papers, seals,
                 shareFiles, waived>>

ReachedAnywhere == 7   \* mutant: a page ahead can be clicked

Reached == IF wizard.return = 0 THEN wizard.page ELSE wizard.return

ClickPage(page) ==
  /\ Responsive
  /\ page <= Reached /\ page # wizard.page
  /\ IF wizard.saved /\ page < 5
     THEN /\ wizard' = [wizard EXCEPT !.page = page, !.return = Reached,
                          !.shown = IF page = 4 THEN wizard.form ELSE @]
          /\ UNCHANGED <<worker, attempts>>
     ELSE Show(page)
  /\ UNCHANGED <<opened, panel, containers, claimed, papers, seals,
                 shareFiles, waived>>

BackToCurrent ==
  /\ Responsive
  /\ wizard.return # 0
  /\ Show(wizard.return)
  /\ UNCHANGED <<opened, panel, containers, claimed, papers, seals,
                 shareFiles, waived>>

-----------------------------------------------------------------------------
(* The worker.  It has its own copy of the inputs.                          *)

StrictIsSigned ==
  worker.form[2] \in StrictInputs => PolicySigner

BuildRecord ==
  /\ worker.stage = "S4"
  /\ StrictIsSigned
  /\ worker' = [worker EXCEPT !.stage = "S5"]
  /\ UNCHANGED <<wizard, opened, attempts, panel, containers, claimed, papers,
                 seals, shareFiles, waived>>

SignRecord ==
  /\ worker.stage = "S5"
  /\ papers' = [papers EXCEPT ![worker.id] = attempts]
  /\ worker' = [worker EXCEPT !.stage = "S6"]
  /\ UNCHANGED <<wizard, opened, attempts, panel, containers, claimed, seals,
                 shareFiles, waived>>

SplitKey ==
  /\ worker.stage = "S6"
  /\ worker' = [worker EXCEPT !.stage = "S7"]
  /\ UNCHANGED <<wizard, opened, attempts, panel, containers, claimed, papers,
                 seals, shareFiles, waived>>

SaveSeal ==
  /\ worker.stage = "S7"
  /\ worker.id \notin StoredIds
  /\ seals' = seals \union
       {[id |-> worker.id, wizard |-> worker.wizard, form |-> worker.form,
         shown |-> worker.shown, output |-> worker.output,
         attempt |-> attempts]}
  /\ worker' = [worker EXCEPT !.stage = "answer", !.ok = TRUE]
  /\ UNCHANGED <<wizard, opened, attempts, panel, containers, claimed, papers,
                 shareFiles, waived>>

SealingFails ==
  /\ worker.stage \in {"S4", "S5", "S6", "S7"}
  /\ worker' = [worker EXCEPT !.stage = "answer"]
  /\ UNCHANGED <<wizard, opened, attempts, panel, containers, claimed, papers,
                 seals, shareFiles, waived>>

(* The answer is dropped when its wizard is gone. *)
AnswerDelivered == wizard.open /\ opened = worker.wizard

DeliverSuccess ==
  /\ worker.stage = "answer" /\ worker.ok
  /\ worker' = Idle
  /\ IF AnswerDelivered
     THEN /\ wizard' = [wizard EXCEPT !.busy = "no", !.saved = TRUE]
          /\ panel' = [split |-> attempts, inFiles |-> {}]
     ELSE UNCHANGED <<wizard, panel>>
  /\ UNCHANGED <<opened, attempts, containers, claimed, papers, seals,
                 shareFiles, waived>>

DeliverFailure ==
  /\ worker.stage = "answer" /\ ~worker.ok
  /\ worker' = Idle
  /\ wizard' = IF AnswerDelivered THEN [wizard EXCEPT !.busy = "no"] ELSE wizard
  /\ UNCHANGED <<opened, attempts, panel, containers, claimed, papers, seals,
                 shareFiles, waived>>

-----------------------------------------------------------------------------
(* Page 6: a share is written to a new file; a failure leaves it unsaved.   *)
SaveShare(i) ==
  /\ wizard.open /\ wizard.page = 6
  /\ panel.split # 0
  /\ i \notin panel.inFiles
  /\ shareFiles' = shareFiles \union {<<panel.split, i>>}
  /\ panel' = [panel EXCEPT !.inFiles = @ \union {i}]
  /\ UNCHANGED <<wizard, opened, worker, attempts, containers, claimed, papers,
                 seals, waived>>

(* Closing removes what page 1 left unfinished, as far as it can. *)
RemoveUnfinished ==
  \/ UNCHANGED containers
  \/ /\ ~wizard.encrypted
     /\ wizard.output # NoOutput
     /\ containers' = [containers EXCEPT ![wizard.output] = NoFile]

CloseWizard ==
  /\ RemoveUnfinished
  /\ wizard' = Closed
  /\ panel' = EmptyPanel

Cancel ==
  /\ Responsive
  /\ ~wizard.saved
  /\ CloseWizard
  /\ UNCHANGED <<opened, worker, attempts, claimed, papers, seals, shareFiles,
                 waived>>

HasUnsaved == wizard.saved /\ panel.split # 0 /\ panel.inFiles # {1, 2}

MayLeaveAsked == wizard.open   \* mutant: the window closes while it is busy

MayLeave == Responsive

(* A menu, Exit or the window's X: refused while busy; leaving unsaved     *)
(* shares behind is asked about first.                                     *)
LeaveView ==
  /\ wizard.open
  /\ MayLeave
  /\ CloseWizard
  /\ waived' = IF HasUnsaved THEN waived \union {opened} ELSE waived
  /\ UNCHANGED <<opened, worker, attempts, claimed, papers, seals, shareFiles>>

-----------------------------------------------------------------------------
Pages ==
  \/ \E i \in Inputs : EnterInputs(i)
  \/ GoNext \/ Complete \/ GoBack \/ BackToCurrent
  \/ \E p \in 1 .. 7 : ClickPage(p)

SealWorker ==
  \/ BuildRecord \/ SignRecord \/ SplitKey \/ SaveSeal \/ SealingFails
  \/ DeliverSuccess \/ DeliverFailure

SealWizardNext ==
  \/ \E c \in Cases \union {NoCase} : OpenWizard(c)
  \/ \E o \in SealOutputs : StartEncryption(o)
  \/ EncryptSome \/ EncryptAll \/ EncryptStops
  \/ Pages
  \/ SealWorker
  \/ \E i \in {1, 2} : SaveShare(i)
  \/ Cancel \/ LeaveView

SealWizardSpec == SealWizardInit /\ [][SealWizardNext]_sealVars

-----------------------------------------------------------------------------
(* The wizard is busy sealing exactly while its worker runs; pages beyond  *)
(* the first need the container, those beyond the fifth the saved seal;    *)
(* only a saved seal is reviewed, and only it has shares to hand out.      *)
SealWizardTypeOK ==
  /\ opened \in 0 .. MaxWizards /\ attempts \in 0 .. MaxAttempts
  /\ (worker.stage # "idle") <=> (wizard.open /\ wizard.busy = "sealing")
  /\ wizard.open =>
       /\ wizard.form \in Form /\ wizard.shown \in Form
       /\ wizard.page > 1 => wizard.encrypted
       /\ wizard.page > 5 => wizard.saved
       /\ wizard.return # 0 => wizard.saved /\ wizard.page < 5
       /\ wizard.busy = "encrypting" => wizard.page = 1 /\ ~wizard.encrypted
  /\ panel.split # 0 => wizard.open /\ wizard.saved
  /\ panel.inFiles \subseteq {1, 2}

(* A seal is saved before its shares are handed out.  Until both are in    *)
(* files, the open wizard holds them or is about to be given them, unless  *)
(* the operator was warned and left: no order of the worker's answer,      *)
(* retries, visits to past pages, cancelling and leaving loses the shares  *)
(* of a saved seal, or hands out those of another attempt.                 *)
SharesReachTheirHolders ==
  \A s \in seals :
    \/ SharesOf(s.attempt) \subseteq shareFiles
    \/ wizard.open /\ opened = s.wizard /\ panel.split = s.attempt
    \/ wizard.open /\ opened = s.wizard /\ worker.stage = "answer" /\ worker.ok
    \/ s.wizard \in waived

(* What is saved is what page 4 showed last; the signed document beside    *)
(* the container is that of the saved record and not of another attempt;   *)
(* and the container is whole, under the key that was split, until a later *)
(* wizard chooses the same one.                                            *)
SealedAsReviewed ==
  \A s \in seals :
    /\ s.form = s.shown /\ NotEntered \notin {s.form[2], s.form[3]}
    /\ papers[s.id] = s.attempt
    /\ claimed[s.output] = s.wizard =>
         containers[s.output] = Written(s.wizard, TRUE)

=============================================================================
