---------------------------- MODULE WizardProofs ------------------------------
(***************************************************************************)
(* The wizards of the desktop, and the folders their shares are saved to,  *)
(* each proved about under its own specification: whatever the order of    *)
(* pages visited, work that fails or answers late, retries, and leaving.   *)
(***************************************************************************)
EXTENDS SealWizard, ResealWizard, UnsealWizard, ShareHandout, FiniteSetTheorems,
        SequenceTheorems, TLAPS

-----------------------------------------------------------------------------
(* SealWizard: the shares and the container of a saved seal.                *)

SealScreens ==
  [open : {TRUE}, case : Cases \cup {NoCase}, page : 1 .. 7, return : 0 .. 7,
   busy : {"no", "encrypting", "sealing"}, output : SealOutputs \cup {NoOutput},
   encrypted : BOOLEAN, form : Form, shown : Form, saved : BOOLEAN]
SealRuns ==
  [stage : {"S4", "S5", "S6", "S7", "answer"}, wizard : Nat, id : SealIds,
   form : Form, shown : Form, output : SealOutputs, ok : BOOLEAN]
SavedSeals ==
  [id : SealIds, wizard : Nat, form : Form, shown : Form, output : SealOutputs,
   attempt : Nat \ {0}]

SealTypes ==
  /\ wizard \in SealScreens \cup {Closed} /\ worker \in SealRuns \cup {Idle}
  /\ opened \in 0 .. MaxWizards /\ attempts \in Nat
  /\ panel \in [split : Nat, inFiles : SUBSET {1, 2}]
  /\ DOMAIN containers = SealOutputs /\ claimed \in [SealOutputs -> Nat]
  /\ DOMAIN papers = SealIds /\ seals \subseteq SavedSeals

Entered(form, shown) == form = shown /\ form[2] # NotEntered /\ form[3] # NotEntered
WholeUnder(key) == Written(key, TRUE)

(* What the page on screen needs; the form is read until the seal is saved. *)
PageInv ==
  wizard # Closed =>
    /\ wizard.page > 1 => wizard.encrypted
    /\ wizard.page > 5 => wizard.saved
    /\ wizard.return # 0 => wizard.saved
    /\ wizard.page = 7 \/ wizard.return = 7 => panel.inFiles = {1, 2}
    /\ wizard.saved => wizard.encrypted
    /\ ~wizard.saved /\ wizard.page = 3 => wizard.form[2] # NotEntered
    /\ ~wizard.saved /\ wizard.page > 3 => Entered(wizard.form, wizard.shown)

(* The container belongs to the wizard on screen. *)
OutputInv ==
  wizard # Closed =>
    /\ opened > 0
    /\ wizard.busy = "encrypting" => ~wizard.encrypted
    /\ wizard.busy = "encrypting" \/ wizard.encrypted \/ wizard.output # NoOutput =>
         wizard.output \in SealOutputs /\ claimed[wizard.output] = opened
    /\ wizard.encrypted => containers[wizard.output] = WholeUnder(opened)

(* A run belongs to the wizard on screen, which waits for it. *)
RunInv ==
  /\ worker = Idle /\ wizard # Closed => wizard.busy # "sealing"
  /\ worker # Idle =>
       /\ wizard # Closed /\ wizard.busy = "sealing"
       /\ ~wizard.saved /\ wizard.encrypted
       /\ worker.wizard = opened /\ worker.id = SealId(wizard.case, opened)
       /\ worker.output = wizard.output
       /\ Entered(worker.form, worker.shown)
       /\ worker.ok => worker.stage = "answer"
       /\ worker.stage \in {"S6", "S7"} => papers[worker.id] = attempts
       /\ attempts > 0

Answered == worker # Idle /\ worker.ok

(* The seal of the wizard on screen is not stored before its run succeeds. *)
NotYetStored ==
  wizard # Closed /\ ~wizard.saved /\ ~Answered =>
    SealId(wizard.case, opened) \notin StoredIds

PanelInv ==
  /\ panel.split # 0 => wizard # Closed /\ wizard.saved
  /\ \A i \in panel.inFiles : <<panel.split, i>> \in shareFiles

SealHolds(s) ==
  /\ s.wizard <= opened
  /\ \E c \in Cases \cup {NoCase} : s.id = SealId(c, s.wizard)
  /\ wizard # Closed /\ s.wizard = opened =>
       wizard.saved \/ (Answered /\ s.attempt = attempts)
  /\ Entered(s.form, s.shown) /\ papers[s.id] = s.attempt
  /\ claimed[s.output] = s.wizard => containers[s.output] = WholeUnder(s.wizard)
Reaches(s) ==
  \/ SharesOf(s.attempt) \subseteq shareFiles
  \/ wizard # Closed /\ opened = s.wizard /\ panel.split = s.attempt
  \/ wizard # Closed /\ opened = s.wizard /\ Answered
  \/ s.wizard \in waived

SealInv ==
  /\ SealTypes /\ PageInv /\ OutputInv /\ RunInv /\ NotYetStored /\ PanelInv
  /\ \A s \in seals : SealHolds(s) /\ Reaches(s)

-----------------------------------------------------------------------------
LEMMA ScreenIsOpen ==
  ASSUME SealInv
  PROVE  /\ wizard.open <=> wizard # Closed
         /\ wizard # Closed => wizard \in SealScreens
         /\ worker # Idle <=> worker.stage # "idle"
         /\ worker # Idle => worker \in SealRuns
<1>1. ~Closed.open /\ \A screen \in SealScreens : screen.open
  BY DEF Closed, SealScreens
<1>2. Idle.stage = "idle" /\ \A r \in SealRuns : r.stage # "idle"
  BY DEF Idle, SealRuns
<1> QED
  BY <1>1, <1>2 DEF SealInv, SealTypes

LEMMA ScreensAreOpen ==
  /\ \A screen \in SealScreens : screen # Closed
  /\ \A r \in SealRuns : r # Idle
<1>1. ~Closed.open /\ \A screen \in SealScreens : screen.open
  BY DEF Closed, SealScreens
<1>2. Idle.stage = "idle" /\ \A r \in SealRuns : r.stage # "idle"
  BY DEF Idle, SealRuns
<1> QED
  BY <1>1, <1>2

LEMMA IdsKept ==
  ASSUME UNCHANGED seals
  PROVE  StoredIds' = StoredIds
BY DEF StoredIds

(* Another page on screen, with nothing else changed. *)
LEMMA PageMoves ==
  ASSUME SealInv, wizard # Closed, wizard.busy = "no", wizard' \in SealScreens,
         wizard'.busy = "no", wizard'.case = wizard.case, wizard'.output = wizard.output,
         wizard'.encrypted = wizard.encrypted, wizard'.saved = wizard.saved,
         UNCHANGED <<opened, worker, attempts, panel, containers, claimed, papers, seals,
                     shareFiles, waived>>,
         PageInv'
  PROVE  SealInv'
<1>1. wizard' # Closed
  BY ScreensAreOpen
<1>2. SealTypes'
  BY DEF SealInv, SealTypes
<1>3. OutputInv'
  BY <1>1 DEF SealInv, OutputInv
<1>4. worker = Idle /\ RunInv'
  BY <1>1 DEF SealInv, RunInv
<1>5. StoredIds' = StoredIds /\ Answered' = Answered
  BY IdsKept DEF Answered
<1>6. NotYetStored' /\ PanelInv'
  BY <1>1, <1>5 DEF SealInv, NotYetStored, PanelInv
<1>7. ASSUME NEW s \in seals PROVE SealHolds(s)' /\ Reaches(s)'
  <2>1. SealHolds(s) /\ Reaches(s)
    BY DEF SealInv
  <2> QED
    BY <1>1, <1>5, <2>1 DEF SealHolds, Reaches
<1> QED
  BY <1>2, <1>3, <1>4, <1>6, <1>7 DEF SealInv

Drawn(page, return) ==
  wizard' = [wizard EXCEPT !.page = page, !.return = return,
                           !.shown = IF page = 4 THEN wizard.form ELSE @]

LEMMA DrawnPageKeeps ==
  ASSUME SealInv, Responsive, NEW page \in 1 .. 7, NEW return \in 0 .. 7,
         Drawn(page, return),
         UNCHANGED <<opened, worker, attempts, panel, containers, claimed, papers, seals,
                     shareFiles, waived>>,
         return # 0 => wizard.saved, page > 1 => wizard.encrypted, page > 5 => wizard.saved,
         page = 7 \/ return = 7 => panel.inFiles = {1, 2},
         ~wizard.saved /\ page = 3 => wizard.page >= 3,
         ~wizard.saved /\ page > 3 => wizard.page > 3
  PROVE  SealInv'
<1>1. wizard \in SealScreens /\ wizard # Closed /\ wizard.busy = "no"
  BY ScreenIsOpen DEF Responsive
<1>2. PICK shown \in Form : shown = (IF page = 4 THEN wizard.form ELSE wizard.shown)
  BY <1>1 DEF SealScreens
<1>3. wizard' = [wizard EXCEPT !.page = page, !.return = return, !.shown = shown]
  BY <1>2 DEF Drawn
<1>4. /\ wizard' \in SealScreens /\ wizard'.busy = "no" /\ wizard'.case = wizard.case
      /\ wizard'.output = wizard.output /\ wizard'.form = wizard.form /\ wizard'.shown = shown
      /\ wizard'.page = page /\ wizard'.return = return
  BY <1>1, <1>3 DEF SealScreens
<1>5. wizard'.encrypted = wizard.encrypted /\ wizard'.saved = wizard.saved
  BY <1>1, <1>3 DEF SealScreens
<1>6. PageInv'
  <2>1. ASSUME ~wizard.saved, page = 3 PROVE wizard.form[2] # NotEntered
    <3>1. wizard.page \in 1 .. 7 /\ wizard.page >= 3
      BY <1>1, <2>1 DEF SealScreens
    <3> QED
      BY <1>1, <2>1, <3>1 DEF SealInv, PageInv, Entered
  <2>2. ASSUME ~wizard.saved, page > 3 PROVE Entered(wizard.form, shown)
    <3>1. Entered(wizard.form, wizard.shown)
      BY <1>1, <2>2 DEF SealInv, PageInv
    <3> QED
      BY <1>2, <3>1 DEF Entered
  <2>3. wizard.saved => wizard.encrypted
    BY <1>1 DEF SealInv, PageInv
  <2> QED
    BY <1>4, <1>5, <2>1, <2>2, <2>3 DEF PageInv
<1> QED
  BY <1>1, <1>4, <1>5, <1>6, PageMoves

LEMMA SealingStartKeeps ==
  ASSUME SealInv, Responsive, ~wizard.saved, wizard.page > 3, StartSealing,
         UNCHANGED <<opened, panel, containers, claimed, papers, seals, shareFiles, waived>>
  PROVE  SealInv'
<1>1. /\ wizard \in SealScreens /\ wizard # Closed /\ wizard.busy = "no"
      /\ wizard.page \in 1 .. 7 /\ wizard.case \in Cases \cup {NoCase}
      /\ wizard.form \in Form /\ wizard.shown \in Form
  BY ScreenIsOpen DEF Responsive, SealScreens
<1>2. /\ wizard.encrypted /\ Entered(wizard.form, wizard.shown)
      /\ wizard.output \in SealOutputs /\ opened \in 1 .. MaxWizards
  BY <1>1, WizardAssumption DEF SealInv, PageInv, OutputInv, SealTypes
<1>3. PICK id \in SealIds : id = SealId(wizard.case, opened)
  BY <1>1, <1>2 DEF SealIds
<1>4. /\ attempts' = attempts + 1 /\ attempts \in Nat
      /\ worker' = [stage |-> "S4", wizard |-> opened, id |-> id, form |-> wizard.form,
                    shown |-> wizard.shown, output |-> wizard.output, ok |-> FALSE]
  BY <1>3 DEF StartSealing, SealInv, SealTypes
<1>5. /\ worker' \in SealRuns /\ worker'.stage = "S4" /\ worker'.wizard = opened
      /\ worker'.id = id /\ worker'.form = wizard.form /\ worker'.shown = wizard.shown
      /\ worker'.output = wizard.output
  BY <1>1, <1>2, <1>4 DEF SealRuns
<1>6. ~worker'.ok
  BY <1>4
<1>7. PICK page \in 1 .. 7, return \in 0 .. 7 : page = 5 /\ return = 0
  OBVIOUS
<1>8. wizard' = [wizard EXCEPT !.page = page, !.busy = "sealing", !.return = return]
  BY <1>7 DEF StartSealing
<1>9. /\ wizard' \in SealScreens /\ wizard'.page = page /\ wizard'.busy = "sealing"
      /\ wizard'.return = return /\ wizard'.case = wizard.case /\ wizard'.output = wizard.output
      /\ wizard'.form = wizard.form /\ wizard'.shown = wizard.shown
  BY <1>1, <1>8 DEF SealScreens
<1>10. wizard'.encrypted = wizard.encrypted /\ wizard'.saved = wizard.saved
  BY <1>1, <1>8 DEF SealScreens
<1>11. worker = Idle /\ wizard' # Closed /\ worker' # Idle
  <2>1. worker = Idle
    BY <1>1 DEF SealInv, RunInv
  <2> QED
    BY <1>5, <1>9, <2>1, ScreensAreOpen
<1>12. ~Answered /\ ~Answered'
  BY <1>6, <1>11 DEF Answered
<1>13. SealTypes'
  BY <1>4, <1>5, <1>9 DEF SealInv, SealTypes
<1>14. PageInv' /\ OutputInv'
  BY <1>1, <1>2, <1>9, <1>10, <1>7 DEF SealInv, PageInv, OutputInv
<1>15. RunInv'
  BY <1>2, <1>3, <1>4, <1>5, <1>6, <1>9, <1>10, <1>11 DEF RunInv
<1>16. NotYetStored' /\ PanelInv'
  BY <1>1, <1>9, <1>10, <1>12, IdsKept DEF SealInv, NotYetStored, PanelInv
<1>17. ASSUME NEW s \in seals PROVE SealHolds(s)' /\ Reaches(s)'
  <2>1. SealHolds(s) /\ Reaches(s)
    BY DEF SealInv
  <2>2. s.wizard # opened
    BY <1>1, <1>12, <2>1 DEF SealHolds
  <2> QED
    BY <1>11, <1>12, <2>1, <2>2 DEF SealHolds, Reaches
<1> QED
  BY <1>13, <1>14, <1>15, <1>16, <1>17 DEF SealInv

LEMMA ShowKeeps ==
  ASSUME SealInv, Responsive, NEW page \in 1 .. 7, Show(page),
         UNCHANGED <<opened, panel, containers, claimed, papers, seals, shareFiles, waived>>,
         page > 1 => wizard.encrypted, page > 5 => wizard.saved,
         page = 7 => panel.inFiles = {1, 2},
         ~wizard.saved /\ page = 3 => wizard.page >= 3,
         ~wizard.saved /\ page > 3 => wizard.page > 3
  PROVE  SealInv'
<1>1. CASE page = 5 /\ ~wizard.saved
  BY <1>1, SealingStartKeeps DEF Show
<1>2. CASE ~(page = 5 /\ ~wizard.saved)
  <2>1. Draw(page)
    BY <1>2 DEF Show
  <2>2. PICK return \in 0 .. 7 : return = 0
    OBVIOUS
  <2>3. Drawn(page, return) /\ UNCHANGED <<worker, attempts>>
    BY <2>1, <2>2 DEF Draw, Drawn
  <2> QED
    BY <2>2, <2>3, DrawnPageKeeps
<1> QED
  BY <1>1, <1>2

LEMMA PagesKeep ==
  ASSUME SealInv, NEW p \in 1 .. 7,
         GoNext \/ GoBack \/ BackToCurrent \/ ClickPage(p)
  PROVE  SealInv'
<1>1. /\ Responsive /\ wizard # Closed /\ wizard \in SealScreens
      /\ wizard.page \in 1 .. 7 /\ wizard.return \in 0 .. 7
      /\ UNCHANGED <<opened, panel, containers, claimed, papers, seals, shareFiles, waived>>
  BY ScreenIsOpen DEF GoNext, GoBack, BackToCurrent, ClickPage, InOrder, Responsive, SealScreens
<1>2. /\ wizard.page > 1 => wizard.encrypted
      /\ wizard.page > 5 => wizard.saved
      /\ wizard.return # 0 => wizard.saved
      /\ wizard.page = 7 \/ wizard.return = 7 => panel.inFiles = {1, 2}
      /\ wizard.saved => wizard.encrypted
  BY <1>1 DEF SealInv, PageInv
<1>3. CASE GoNext
  <2>1. CASE wizard.page = 5 /\ ~wizard.saved /\ StartSealing
    BY <1>1, <2>1, SealingStartKeeps
  <2>2. CASE PageIsDone /\ Show(wizard.page + 1)
    <3>1. /\ wizard.page # 2 /\ wizard.page # 3 /\ wizard.page # 7
          /\ wizard.page = 1 => wizard.encrypted
          /\ wizard.page = 5 => wizard.saved
          /\ wizard.page = 6 => panel.inFiles = {1, 2}
      BY <1>1, <2>2 DEF PageIsDone
    <3>2. wizard.page + 1 \in 1 .. 7
      BY <1>1, <3>1
    <3> QED
      BY <1>1, <1>2, <2>2, <3>1, <3>2, ShowKeeps
  <2> QED
    BY <1>3, <2>1, <2>2 DEF GoNext
<1>4. CASE GoBack
  <2>1. wizard.page > 1 /\ Show(wizard.page - 1) /\ ~(wizard.saved /\ wizard.page > 4)
    BY <1>4 DEF GoBack
  <2>2. wizard.page - 1 \in 1 .. 7
    BY <1>1, <2>1
  <2> QED
    BY <1>1, <1>2, <2>1, <2>2, ShowKeeps
<1>5. CASE BackToCurrent
  <2>1. wizard.return # 0 /\ Show(wizard.return) /\ wizard.return \in 1 .. 7
    BY <1>1, <1>5 DEF BackToCurrent
  <2> QED
    BY <1>1, <1>2, <2>1, ShowKeeps
<1>6. CASE ClickPage(p)
  <2>1. PICK reached \in 1 .. 7 :
          /\ reached = Reached
          /\ reached = wizard.page \/ (reached = wizard.return /\ wizard.return # 0)
    BY <1>1 DEF Reached
  <2>2. p <= reached
    BY <1>6, <2>1 DEF ClickPage
  <2>3. /\ reached > 1 => wizard.encrypted
        /\ reached > 5 => wizard.saved
        /\ reached = 7 => panel.inFiles = {1, 2}
        /\ ~wizard.saved => reached = wizard.page
    BY <1>2, <2>1
  <2>4. CASE wizard.saved /\ p < 5
    <3>1. Drawn(p, reached) /\ UNCHANGED <<worker, attempts>>
      BY <1>6, <2>1, <2>4 DEF ClickPage, Drawn
    <3>2. reached \in 0 .. 7
      BY <2>1
    <3> QED
      BY <1>1, <1>2, <2>3, <2>4, <3>1, <3>2, DrawnPageKeeps
  <2>5. CASE ~(wizard.saved /\ p < 5)
    <3>1. Show(p)
      BY <1>6, <2>5 DEF ClickPage
    <3>2. /\ p > 1 => reached > 1
          /\ p > 5 => reached > 5
          /\ p = 7 => reached = 7
          /\ p = 3 => reached >= 3
          /\ p > 3 => reached > 3
      BY <2>1, <2>2
    <3> QED
      BY <1>1, <2>3, <3>1, <3>2, ShowKeeps
  <2> QED
    BY <2>4, <2>5
<1> QED
  BY <1>3, <1>4, <1>5, <1>6

LEMMA EnterInputsKeeps ==
  ASSUME SealInv, NEW input \in Inputs, EnterInputs(input)
  PROVE  SealInv'
<1>1. /\ Responsive /\ wizard # Closed /\ wizard \in SealScreens /\ wizard.busy = "no"
      /\ wizard.return = 0 /\ wizard.page \in {2, 3} /\ wizard.form \in Form
      /\ wizard.shown \in Form
      /\ UNCHANGED <<opened, worker, attempts, panel, containers, claimed, papers, seals,
                     shareFiles, waived>>
  BY ScreenIsOpen DEF EnterInputs, InOrder, Responsive, SealScreens
<1>2. PICK page \in {2, 3}, next \in 1 .. 7 : page = wizard.page /\ next = page + 1
  BY <1>1
<1>3. PICK form \in Form :
        /\ form = [wizard.form EXCEPT ![page] = input]
        /\ form[page] = input /\ \A q \in {2, 3} : q # page => form[q] = wizard.form[q]
  <2>1. [wizard.form EXCEPT ![page] = input] \in Form
    BY <1>1, <1>2 DEF Form
  <2> QED
    BY <1>1, <1>2, <2>1 DEF Form
<1>4. PICK shown \in Form : shown = (IF page = 3 THEN form ELSE wizard.shown)
  BY <1>1
<1>5. wizard' = [wizard EXCEPT !.form = form, !.page = next, !.shown = shown]
  <2>1. page = 3 => [wizard.form EXCEPT ![3] = input] = form
    BY <1>3
  <2> QED
    BY <1>2, <1>3, <1>4, <2>1 DEF EnterInputs
<1>6. /\ wizard' \in SealScreens /\ wizard'.busy = "no" /\ wizard'.case = wizard.case
      /\ wizard'.output = wizard.output /\ wizard'.form = form /\ wizard'.shown = shown
      /\ wizard'.page = next /\ wizard'.return = 0
  BY <1>1, <1>5 DEF SealScreens
<1>7. wizard'.encrypted = wizard.encrypted /\ wizard'.saved = wizard.saved
  BY <1>1, <1>5 DEF SealScreens
<1>8. input # NotEntered
  BY WizardAssumption
<1>9. PageInv'
  <2>1. /\ wizard.encrypted
        /\ wizard.saved => wizard.encrypted
        /\ ~wizard.saved /\ page = 3 => wizard.form[2] # NotEntered
    BY <1>1, <1>2 DEF SealInv, PageInv
  <2>2. next = 3 => form[2] # NotEntered
    BY <1>2, <1>3, <1>8
  <2>3. ~wizard.saved /\ next > 3 => Entered(form, shown)
    BY <1>2, <1>3, <1>4, <1>8, <2>1 DEF Entered
  <2> QED
    BY <1>2, <1>6, <1>7, <2>1, <2>2, <2>3 DEF PageInv
<1> QED
  BY <1>1, <1>6, <1>7, <1>9, PageMoves

(* Before its run succeeds a wizard has no seal. *)
LEMMA NoSealBefore ==
  ASSUME SealInv, wizard # Closed, ~wizard.saved, ~Answered, NEW s \in seals
  PROVE  s.wizard # opened /\ s.id # SealId(wizard.case, opened)
<1>1. SealHolds(s) /\ s.id \in StoredIds
  BY DEF SealInv, StoredIds
<1> QED
  BY <1>1 DEF SealHolds, SealInv, NotYetStored

(* Page 1 at work: the chosen container is this wizard's, which has no seal. *)
LEMMA EncryptionKeeps ==
  ASSUME SealInv, wizard # Closed, ~wizard.encrypted, worker = Idle,
         wizard' \in SealScreens, wizard'.busy # "sealing", wizard'.case = wizard.case,
         wizard'.saved = wizard.saved, wizard'.return = wizard.return,
         wizard'.form = wizard.form, wizard'.shown = wizard.shown,
         wizard'.page = wizard.page \/ (wizard'.page = 2 /\ wizard'.encrypted),
         wizard'.encrypted => wizard'.output = wizard.output
                              /\ containers'[wizard.output] = WholeUnder(opened),
         OutputInv', DOMAIN containers' = SealOutputs, claimed' \in [SealOutputs -> Nat],
         \A o \in SealOutputs : \/ containers'[o] = containers[o] /\ claimed'[o] = claimed[o]
                                \/ claimed'[o] = opened,
         UNCHANGED <<opened, worker, attempts, panel, papers, seals, shareFiles, waived>>
  PROVE  SealInv'
<1>1. /\ ~wizard.saved /\ wizard.return = 0 /\ ~Answered /\ wizard' # Closed
      /\ wizard.page \in 1 .. 7 /\ wizard.page <= 1
  <2>1. wizard.page \in 1 .. 7 /\ wizard' # Closed
    BY ScreensAreOpen, ScreenIsOpen DEF SealScreens
  <2>2. ~wizard.saved /\ ~Answered
    BY DEF SealInv, PageInv, Answered
  <2>3. wizard.return = 0 /\ ~(wizard.page > 1)
    BY <2>2 DEF SealInv, PageInv
  <2> QED
    BY <2>1, <2>2, <2>3
<1>2. SealTypes'
  BY DEF SealInv, SealTypes
<1>3. PageInv'
  BY <1>1 DEF SealInv, PageInv
<1>4. RunInv' /\ PanelInv'
  BY <1>1 DEF SealInv, RunInv, PanelInv
<1>5. ~Answered' /\ StoredIds' = StoredIds
  BY <1>1, IdsKept DEF Answered
<1>6. NotYetStored'
  BY <1>1, <1>5 DEF SealInv, NotYetStored
<1>7. ASSUME NEW s \in seals PROVE SealHolds(s)' /\ Reaches(s)'
  <2>1. SealHolds(s) /\ Reaches(s) /\ s.wizard # opened /\ s.output \in SealOutputs
    BY <1>1, NoSealBefore DEF SealInv, SealTypes, SavedSeals
  <2>2. SealHolds(s)'
    BY <2>1 DEF SealHolds
  <2>3. Reaches(s)'
    BY <2>1 DEF Reaches
  <2> QED
    BY <2>2, <2>3
<1> QED
  BY <1>2, <1>3, <1>4, <1>6, <1>7 DEF SealInv

LEMMA StartEncryptionKeeps ==
  ASSUME SealInv, NEW output \in SealOutputs, StartEncryption(output)
  PROVE  SealInv'
<1>1. /\ wizard # Closed /\ wizard \in SealScreens /\ wizard.busy = "no"
      /\ ~wizard.encrypted /\ worker = Idle
  BY ScreenIsOpen DEF StartEncryption, InOrder, Responsive, SealInv, RunInv
<1>2. /\ wizard' = [wizard EXCEPT !.busy = "encrypting", !.output = output]
      /\ claimed' = [claimed EXCEPT ![output] = opened]
      /\ claimed \in [SealOutputs -> Nat] /\ opened \in Nat
      /\ DOMAIN containers = SealOutputs
      /\ UNCHANGED <<opened, worker, attempts, panel, containers, papers, seals, shareFiles,
                     waived>>
  BY WizardAssumption DEF StartEncryption, SealInv, SealTypes
<1>3. /\ wizard' \in SealScreens /\ wizard'.busy = "encrypting" /\ wizard'.output = output
      /\ wizard'.case = wizard.case /\ wizard'.page = wizard.page
      /\ wizard'.return = wizard.return /\ wizard'.form = wizard.form
      /\ wizard'.shown = wizard.shown
  BY <1>1, <1>2 DEF SealScreens
<1>4. wizard'.encrypted = wizard.encrypted /\ wizard'.saved = wizard.saved
  BY <1>1, <1>2 DEF SealScreens
<1>5. OutputInv'
  BY <1>1, <1>2, <1>3, <1>4 DEF SealInv, OutputInv
<1> QED
  BY <1>1, <1>2, <1>3, <1>4, <1>5, EncryptionKeeps

LEMMA WriteContainerKeeps ==
  ASSUME SealInv, EncryptSome \/ EncryptAll \/ EncryptStops
  PROVE  SealInv'
<1>1. /\ wizard # Closed /\ wizard \in SealScreens /\ wizard.busy = "encrypting"
      /\ ~wizard.encrypted /\ worker = Idle /\ wizard.output \in SealOutputs
      /\ claimed[wizard.output] = opened /\ opened > 0
      /\ UNCHANGED <<opened, worker, attempts, panel, claimed, papers, seals, shareFiles,
                     waived>>
  BY ScreenIsOpen DEF EncryptSome, EncryptAll, EncryptStops, WriteContainer, SealInv, RunInv,
     OutputInv
<1>2. claimed \in [SealOutputs -> Nat] /\ DOMAIN containers = SealOutputs
  BY DEF SealInv, SealTypes
<1>3. CASE EncryptSome
  <2>1. PICK file : file = Written(opened, FALSE)
    OBVIOUS
  <2>2. containers' = [containers EXCEPT ![wizard.output] = file] /\ wizard' = wizard
    BY <1>3, <2>1 DEF EncryptSome, WriteContainer
  <2>3. OutputInv'
    BY <1>1, <2>2 DEF SealInv, OutputInv
  <2> QED
    BY <1>1, <1>2, <2>2, <2>3, EncryptionKeeps
<1>4. CASE EncryptAll
  <2>1. containers' = [containers EXCEPT ![wizard.output] = WholeUnder(opened)]
    BY <1>4 DEF EncryptAll, WriteContainer, WholeUnder
  <2>2. PICK page \in 1 .. 7 : page = 2
    OBVIOUS
  <2>3. PICK encrypted \in BOOLEAN : encrypted
    OBVIOUS
  <2>4. wizard' = [wizard EXCEPT !.busy = "no", !.encrypted = encrypted, !.page = page]
    BY <1>4, <2>2, <2>3 DEF EncryptAll
  <2>5. /\ wizard' \in SealScreens /\ wizard'.busy = "no" /\ wizard'.output = wizard.output
        /\ wizard'.case = wizard.case /\ wizard'.page = page
        /\ wizard'.return = wizard.return /\ wizard'.form = wizard.form
        /\ wizard'.shown = wizard.shown
    BY <1>1, <2>4 DEF SealScreens
  <2>6. wizard'.encrypted /\ wizard'.saved = wizard.saved
    BY <1>1, <2>3, <2>4 DEF SealScreens
  <2>7. containers'[wizard.output] = WholeUnder(opened)
    BY <1>1, <1>2, <2>1
  <2>8. OutputInv'
    BY <1>1, <2>5, <2>7 DEF OutputInv
  <2>9. \A o \in SealOutputs : containers'[o] = containers[o] \/ claimed'[o] = opened
    BY <1>1, <1>2, <2>1
  <2>10. DOMAIN containers' = SealOutputs
    BY <1>2, <2>1
  <2> QED
    BY <1>1, <1>2, <2>2, <2>5, <2>6, <2>7, <2>8, <2>9, <2>10, EncryptionKeeps
<1>5. CASE EncryptStops
  <2>1. wizard' = [wizard EXCEPT !.busy = "no"] /\ UNCHANGED containers
    BY <1>5 DEF EncryptStops
  <2>2. /\ wizard' \in SealScreens /\ wizard'.busy = "no" /\ wizard'.output = wizard.output
        /\ wizard'.case = wizard.case /\ wizard'.page = wizard.page
        /\ wizard'.return = wizard.return /\ wizard'.form = wizard.form
        /\ wizard'.shown = wizard.shown
    BY <1>1, <2>1 DEF SealScreens
  <2>3. wizard'.encrypted = wizard.encrypted /\ wizard'.saved = wizard.saved
    BY <1>1, <2>1 DEF SealScreens
  <2>4. OutputInv'
    BY <1>1, <2>1, <2>2, <2>3 DEF SealInv, OutputInv
  <2> QED
    BY <1>1, <1>2, <2>1, <2>2, <2>3, <2>4, EncryptionKeeps
<1> QED
  BY <1>3, <1>4, <1>5

(* The wizard goes; the shares it had are in files, or it was left. *)
LEMMA ClosingKeeps ==
  ASSUME SealInv, Responsive, wizard' = Closed, panel' = EmptyPanel,
         RemoveUnfinished \/ UNCHANGED containers,
         waived \subseteq waived', panel.split # 0 => panel.inFiles = {1, 2} \/ opened \in waived',
         UNCHANGED <<opened, worker, attempts, claimed, papers, seals, shareFiles>>
  PROVE  SealInv'
<1>1. wizard # Closed /\ worker = Idle
  BY ScreenIsOpen DEF Responsive, SealInv, RunInv
<1>2. \A o \in SealOutputs :
        containers'[o] = containers[o] \/ (~wizard.encrypted /\ claimed[o] = opened)
  BY <1>1 DEF RemoveUnfinished, SealInv, SealTypes, OutputInv
<1>3. panel'.split = 0 /\ panel'.inFiles = {}
  BY DEF EmptyPanel
<1>4. SealTypes'
  <2>1. panel' \in [split : Nat, inFiles : SUBSET {1, 2}]
    BY DEF EmptyPanel
  <2>2. DOMAIN containers' = SealOutputs
    BY DEF RemoveUnfinished, SealInv, SealTypes
  <2> QED
    BY <2>1, <2>2 DEF SealInv, SealTypes
<1>5. PageInv' /\ OutputInv' /\ RunInv' /\ NotYetStored'
  BY <1>1 DEF PageInv, OutputInv, RunInv, NotYetStored
<1>6. PanelInv'
  BY <1>3 DEF PanelInv
<1>7. ASSUME NEW s \in seals PROVE SealHolds(s)' /\ Reaches(s)'
  <2>1. /\ SealHolds(s) /\ Reaches(s) /\ s.output \in SealOutputs /\ s.attempt # 0
        /\ panel.inFiles \subseteq {1, 2}
    BY DEF SealInv, SealTypes, SavedSeals
  <2>2. SealHolds(s)'
    <3>1. ASSUME ~wizard.encrypted PROVE s.wizard # opened
      BY <1>1, <2>1, <3>1 DEF SealHolds, Answered, SealInv, PageInv
    <3> QED
      BY <1>2, <2>1, <3>1 DEF SealHolds
  <2>3. Reaches(s)'
    <3>1. CASE panel.split = s.attempt /\ s.wizard = opened
      <4>1. ASSUME panel.inFiles = {1, 2} PROVE SharesOf(s.attempt) \subseteq shareFiles
        BY <3>1, <4>1 DEF SealInv, PanelInv, SharesOf
      <4> QED
        BY <2>1, <3>1, <4>1 DEF Reaches
    <3>2. CASE ~(panel.split = s.attempt /\ s.wizard = opened)
      BY <1>1, <2>1, <3>2 DEF Reaches, Answered
    <3> QED
      BY <3>1, <3>2
  <2> QED
    BY <2>2, <2>3
<1> QED
  BY <1>4, <1>5, <1>6, <1>7 DEF SealInv

LEMMA LeavingKeeps ==
  ASSUME SealInv, Complete \/ Cancel \/ LeaveView
  PROVE  SealInv'
<1>1. Responsive /\ wizard # Closed
  BY ScreenIsOpen DEF Complete, Cancel, LeaveView, InOrder, MayLeave, Responsive
<1>2. CASE Complete
  <2>1. panel.inFiles = {1, 2}
    BY <1>1, <1>2 DEF Complete, SealInv, PageInv
  <2> QED
    BY <1>1, <1>2, <2>1, ClosingKeeps DEF Complete
<1>3. CASE Cancel
  <2>1. panel.split = 0
    BY <1>3 DEF Cancel, SealInv, PanelInv
  <2> QED
    BY <1>1, <1>3, <2>1, ClosingKeeps DEF Cancel, CloseWizard
<1>4. CASE LeaveView
  <2>1. waived \subseteq waived' /\ (HasUnsaved => opened \in waived')
    BY <1>4 DEF LeaveView
  <2>2. panel.split # 0 => wizard.saved
    BY DEF SealInv, PanelInv
  <2> QED
    BY <1>1, <1>4, <2>1, <2>2, ClosingKeeps DEF LeaveView, CloseWizard, HasUnsaved
<1> QED
  BY <1>2, <1>3, <1>4

LEMMA OpenWizardKeeps ==
  ASSUME SealInv, NEW c \in Cases \cup {NoCase}, OpenWizard(c)
  PROVE  SealInv'
<1>1. /\ wizard = Closed /\ opened < MaxWizards /\ opened' = opened + 1
      /\ wizard' = Fresh(c)
      /\ UNCHANGED <<worker, attempts, panel, containers, claimed, papers, seals, shareFiles,
                     waived>>
  BY ScreenIsOpen DEF OpenWizard
<1>2. worker = Idle /\ opened \in Nat /\ MaxWizards \in Nat
  BY <1>1, WizardAssumption DEF SealInv, RunInv, SealTypes
<1>3. panel.split = 0
  BY <1>1 DEF SealInv, PanelInv
<1>4. PICK page \in 1 .. 7, return \in 0 .. 7 : page = 1 /\ return = 0
  OBVIOUS
<1>5. PICK encrypted \in BOOLEAN, saved \in BOOLEAN : ~encrypted /\ ~saved
  OBVIOUS
<1>6. PICK open \in {TRUE} : open
  OBVIOUS
<1>7. EmptyForm \in Form
  BY DEF EmptyForm, Form
<1>8. wizard' = [open |-> open, case |-> c, page |-> page, return |-> return, busy |-> "no",
                 output |-> NoOutput, encrypted |-> encrypted, form |-> EmptyForm,
                 shown |-> EmptyForm, saved |-> saved]
  BY <1>1, <1>4, <1>5, <1>6 DEF Fresh
<1>9. /\ wizard' \in SealScreens /\ wizard'.page = page /\ wizard'.return = return
      /\ wizard'.busy = "no" /\ wizard'.output = NoOutput /\ wizard'.case = c
  BY <1>7, <1>8 DEF SealScreens
<1>10. ~wizard'.encrypted /\ ~wizard'.saved
  BY <1>5, <1>8
<1>11. wizard' # Closed /\ ~Answered /\ ~Answered' /\ StoredIds' = StoredIds
  BY <1>1, <1>2, <1>9, IdsKept, ScreensAreOpen DEF Answered
<1>12. SealTypes'
  BY <1>1, <1>2, <1>9 DEF SealInv, SealTypes
<1>13. PageInv'
  BY <1>4, <1>9, <1>10 DEF PageInv
<1>14. RunInv' /\ PanelInv'
  BY <1>1, <1>2, <1>3, <1>9, <1>11 DEF SealInv, RunInv, PanelInv
<1>15. NotYetStored'
  <2>1. ASSUME NEW s \in seals PROVE s.id # SealId(c, opened')
    <3>1. SealHolds(s)
      BY DEF SealInv
    <3>2. PICK d \in Cases \cup {NoCase} : s.id = SealId(d, s.wizard)
      BY <3>1 DEF SealHolds
    <3>3. s.wizard \in Nat /\ s.wizard < opened' /\ s.id \in StoredIds
      BY <1>1, <1>2, <3>1 DEF SealHolds, SealInv, SealTypes, SavedSeals, StoredIds
    <3>4. CASE c = NoCase
      BY <1>1, <1>2, <3>2, <3>3, <3>4 DEF SealId
    <3>5. CASE c # NoCase
      BY <1>1, <3>3, <3>5 DEF SealId, OpenWizard
    <3> QED
      BY <3>4, <3>5
  <2> QED
    BY <1>1, <1>9, <2>1 DEF NotYetStored, StoredIds
<1>16. ASSUME NEW s \in seals PROVE SealHolds(s)' /\ Reaches(s)'
  <2>1. SealHolds(s) /\ Reaches(s) /\ s.wizard \in Nat
    BY DEF SealInv, SealTypes, SavedSeals
  <2>2. s.wizard < opened'
    BY <1>1, <1>2, <2>1 DEF SealHolds
  <2>3. SealHolds(s)'
    BY <1>1, <1>2, <2>1, <2>2 DEF SealHolds
  <2>4. Reaches(s)'
    BY <1>1, <2>1 DEF Reaches
  <2> QED
    BY <2>3, <2>4
<1>17. OutputInv'
  BY <1>1, <1>2, <1>9, <1>10 DEF OutputInv
<1> QED
  BY <1>1, <1>12, <1>13, <1>14, <1>15, <1>16, <1>17 DEF SealInv

(* The run goes on, before the seal is saved; it may replace its document. *)
LEMMA RunMoves ==
  ASSUME SealInv, worker # Idle, ~worker.ok, worker' \in SealRuns,
         worker'.wizard = worker.wizard, worker'.id = worker.id, worker'.form = worker.form,
         worker'.shown = worker.shown, worker'.output = worker.output, worker'.ok = worker.ok,
         DOMAIN papers' = SealIds, worker'.stage \in {"S6", "S7"} => papers'[worker.id] = attempts,
         \A id \in SealIds : id # worker.id => papers'[id] = papers[id],
         UNCHANGED <<wizard, opened, attempts, panel, containers, claimed, seals, shareFiles,
                     waived>>
  PROVE  SealInv'
<1>1. worker' # Idle /\ ~Answered /\ ~Answered' /\ StoredIds' = StoredIds
  BY ScreensAreOpen, IdsKept DEF Answered
<1>2. SealTypes'
  BY DEF SealInv, SealTypes
<1>3. PageInv' /\ OutputInv' /\ PanelInv'
  BY DEF SealInv, PageInv, OutputInv, PanelInv
<1>4. RunInv'
  BY <1>1 DEF SealInv, RunInv
<1>5. NotYetStored'
  BY <1>1 DEF SealInv, NotYetStored
<1>6. ASSUME NEW s \in seals PROVE SealHolds(s)' /\ Reaches(s)'
  <2>1. SealHolds(s) /\ Reaches(s) /\ s.id \in SealIds
    BY DEF SealInv, SealTypes, SavedSeals
  <2>2. s.id # worker.id
    BY <1>1, NoSealBefore DEF SealInv, RunInv
  <2>3. papers'[s.id] = papers[s.id]
    BY <2>1, <2>2
  <2>4. SealHolds(s)'
    BY <1>1, <2>1, <2>3 DEF SealHolds
  <2>5. Reaches(s)'
    BY <1>1, <2>1 DEF Reaches
  <2> QED
    BY <2>4, <2>5
<1> QED
  BY <1>2, <1>3, <1>4, <1>5, <1>6 DEF SealInv

LEMMA RunKeeps ==
  ASSUME SealInv, BuildRecord \/ SignRecord \/ SplitKey \/ SealingFails
  PROVE  SealInv'
<1>1. /\ worker \in SealRuns /\ worker # Idle /\ worker.stage \in {"S4", "S5", "S6", "S7"}
      /\ DOMAIN papers = SealIds /\ worker.id \in SealIds
      /\ UNCHANGED <<wizard, opened, attempts, panel, containers, claimed, seals, shareFiles,
                     waived>>
  <2>1. /\ worker.stage \in {"S4", "S5", "S6", "S7"}
        /\ UNCHANGED <<wizard, opened, attempts, panel, containers, claimed, seals, shareFiles,
                       waived>>
    BY DEF BuildRecord, SignRecord, SplitKey, SealingFails
  <2>2. Idle.stage = "idle"
    BY DEF Idle
  <2>3. worker \in SealRuns /\ worker # Idle /\ DOMAIN papers = SealIds
    BY <2>1, <2>2 DEF SealInv, SealTypes
  <2> QED
    BY <2>1, <2>3 DEF SealRuns
<1>2. ~worker.ok
  BY <1>1 DEF SealInv, RunInv
<1>3. PICK stage \in {"S4", "S5", "S6", "S7", "answer"} :
        /\ worker' = [worker EXCEPT !.stage = stage]
        /\ \/ UNCHANGED papers /\ (stage \in {"S6", "S7"} => papers[worker.id] = attempts)
           \/ papers' = [papers EXCEPT ![worker.id] = attempts]
  <2>1. CASE BuildRecord
    BY <2>1 DEF BuildRecord
  <2>2. CASE SignRecord
    BY <2>2 DEF SignRecord
  <2>3. CASE SplitKey
    BY <1>1, <2>3 DEF SplitKey, SealInv, RunInv
  <2>4. CASE SealingFails
    BY <2>4 DEF SealingFails
  <2> QED
    BY <2>1, <2>2, <2>3, <2>4
<1>4. /\ worker' \in SealRuns /\ worker'.stage = stage /\ worker'.wizard = worker.wizard
      /\ worker'.id = worker.id /\ worker'.form = worker.form /\ worker'.shown = worker.shown
      /\ worker'.output = worker.output
  BY <1>1, <1>3 DEF SealRuns
<1>5. worker'.ok = worker.ok
  BY <1>1, <1>3 DEF SealRuns
<1>6. /\ DOMAIN papers' = SealIds /\ (stage \in {"S6", "S7"} => papers'[worker.id] = attempts)
      /\ \A id \in SealIds : id # worker.id => papers'[id] = papers[id]
  BY <1>1, <1>3
<1> QED
  BY <1>1, <1>2, <1>4, <1>5, <1>6, RunMoves

LEMMA SaveSealKeeps ==
  ASSUME SealInv, SaveSeal
  PROVE  SealInv'
<1>1. /\ worker \in SealRuns /\ worker # Idle /\ worker.stage = "S7"
      /\ UNCHANGED <<wizard, opened, attempts, panel, containers, claimed, papers, shareFiles,
                     waived>>
  <2>1. Idle.stage = "idle"
    BY DEF Idle
  <2> QED
    BY <2>1 DEF SaveSeal, SealInv, SealTypes
<1>2. /\ wizard # Closed /\ wizard \in SealScreens /\ wizard.busy = "sealing"
      /\ worker.wizard = opened /\ worker.id = SealId(wizard.case, opened)
      /\ worker.output = wizard.output /\ Entered(worker.form, worker.shown)
      /\ papers[worker.id] = attempts /\ attempts \in Nat \ {0} /\ opened \in Nat
  BY <1>1, ScreenIsOpen, WizardAssumption DEF SealInv, RunInv, SealTypes
<1>3. ~wizard.saved /\ wizard.encrypted /\ ~worker.ok /\ ~Answered
  BY <1>1 DEF SealInv, RunInv, Answered
<1>4. /\ containers[wizard.output] = WholeUnder(opened)
      /\ wizard.case \in Cases \cup {NoCase}
  BY <1>2, <1>3 DEF SealInv, OutputInv, SealScreens
<1>5. PICK ok \in BOOLEAN : ok
  OBVIOUS
<1>6. worker' = [worker EXCEPT !.stage = "answer", !.ok = ok]
  BY <1>5 DEF SaveSeal
<1>7. /\ worker' \in SealRuns /\ worker'.stage = "answer" /\ worker'.wizard = worker.wizard
      /\ worker'.id = worker.id /\ worker'.form = worker.form /\ worker'.shown = worker.shown
      /\ worker'.output = worker.output
  BY <1>1, <1>6 DEF SealRuns
<1>8. worker'.ok
  BY <1>1, <1>5, <1>6 DEF SealRuns
<1>9. Answered' /\ worker' # Idle
  BY <1>7, <1>8, ScreensAreOpen DEF Answered
<1>10. PICK new \in SavedSeals :
         /\ seals' = seals \cup {new} /\ new.id = worker.id /\ new.wizard = opened
         /\ new.form = worker.form /\ new.shown = worker.shown
         /\ new.output = wizard.output /\ new.attempt = attempts
  <2>1. [id |-> worker.id, wizard |-> worker.wizard, form |-> worker.form,
         shown |-> worker.shown, output |-> worker.output, attempt |-> attempts] \in SavedSeals
    BY <1>1, <1>2 DEF SealRuns, SavedSeals
  <2> QED
    BY <1>2, <2>1 DEF SaveSeal
<1>11. SealTypes'
  BY <1>1, <1>7, <1>10 DEF SealInv, SealTypes
<1>12. PageInv' /\ OutputInv' /\ PanelInv'
  BY <1>1 DEF SealInv, PageInv, OutputInv, PanelInv
<1>13. RunInv'
  BY <1>1, <1>2, <1>3, <1>7, <1>9 DEF RunInv
<1>14. NotYetStored'
  BY <1>9 DEF NotYetStored
<1>15. SealHolds(new)' /\ Reaches(new)'
  <2>1. SealHolds(new)'
    BY <1>1, <1>2, <1>4, <1>9, <1>10 DEF SealHolds
  <2>2. Reaches(new)'
    BY <1>1, <1>2, <1>9, <1>10 DEF Reaches
  <2> QED
    BY <2>1, <2>2
<1>16. ASSUME NEW s \in seals PROVE SealHolds(s)' /\ Reaches(s)'
  <2>1. SealHolds(s) /\ Reaches(s) /\ s.wizard # opened
    BY <1>2, <1>3, NoSealBefore DEF SealInv
  <2>2. SealHolds(s)'
    BY <1>1, <2>1 DEF SealHolds
  <2>3. Reaches(s)'
    BY <1>1, <2>1 DEF Reaches
  <2> QED
    BY <2>2, <2>3
<1> QED
  BY <1>10, <1>11, <1>12, <1>13, <1>14, <1>15, <1>16 DEF SealInv

LEMMA DeliverSuccessKeeps ==
  ASSUME SealInv, DeliverSuccess
  PROVE  SealInv'
<1>1. /\ worker # Idle /\ worker.stage = "answer" /\ worker' = Idle
      /\ UNCHANGED <<opened, attempts, containers, claimed, papers, seals, shareFiles, waived>>
  <2>1. Idle.stage = "idle"
    BY DEF Idle
  <2> QED
    BY <2>1 DEF DeliverSuccess
<1>2. /\ wizard # Closed /\ wizard \in SealScreens /\ wizard.busy = "sealing"
      /\ AnswerDelivered /\ attempts \in Nat \ {0}
  BY <1>1, ScreenIsOpen DEF SealInv, RunInv, SealTypes, AnswerDelivered
<1>3. ~wizard.saved /\ wizard.encrypted /\ Answered
  BY <1>1 DEF SealInv, RunInv, Answered, DeliverSuccess
<1>4. panel' = [split |-> attempts, inFiles |-> {}] /\ panel.split = 0
  BY <1>2, <1>3 DEF DeliverSuccess, SealInv, PanelInv
<1>5. PICK saved \in BOOLEAN : saved
  OBVIOUS
<1>6. wizard' = [wizard EXCEPT !.busy = "no", !.saved = saved]
  BY <1>2, <1>5 DEF DeliverSuccess
<1>7. /\ wizard' \in SealScreens /\ wizard'.busy = "no" /\ wizard'.output = wizard.output
      /\ wizard'.case = wizard.case /\ wizard'.page = wizard.page
      /\ wizard'.return = wizard.return /\ wizard'.form = wizard.form
      /\ wizard'.shown = wizard.shown
  BY <1>2, <1>6 DEF SealScreens
<1>8. wizard'.encrypted = wizard.encrypted /\ wizard'.saved
  BY <1>2, <1>5, <1>6 DEF SealScreens
<1>9. wizard' # Closed /\ ~Answered'
  BY <1>1, <1>7, ScreensAreOpen DEF Answered
<1>10. SealTypes'
  BY <1>1, <1>2, <1>4, <1>7 DEF SealInv, SealTypes
<1>11. wizard.page \in 1 .. 7 /\ ~(wizard.page > 5) /\ wizard.return = 0
  <2>1. wizard.page \in 1 .. 7
    BY <1>2 DEF SealScreens
  <2> QED
    BY <1>2, <1>3, <2>1 DEF SealInv, PageInv
<1>12. PageInv'
  BY <1>2, <1>3, <1>7, <1>8, <1>11 DEF SealInv, PageInv
<1>13. OutputInv'
  BY <1>1, <1>2, <1>7, <1>8 DEF SealInv, OutputInv
<1>14. RunInv'
  BY <1>1, <1>7 DEF RunInv
<1>15. NotYetStored' /\ PanelInv'
  BY <1>4, <1>8, <1>9 DEF NotYetStored, PanelInv
<1>16. ASSUME NEW s \in seals PROVE SealHolds(s)' /\ Reaches(s)'
  <2>1. SealHolds(s) /\ Reaches(s) /\ s.attempt # 0
    BY DEF SealInv, SealTypes, SavedSeals
  <2>2. s.wizard = opened => s.attempt = attempts
    BY <1>2, <1>3, <2>1 DEF SealHolds
  <2>3. SealHolds(s)'
    BY <1>1, <1>8, <2>1 DEF SealHolds
  <2>4. Reaches(s)'
    <3>1. panel'.split = attempts
      BY <1>4
    <3> QED
      BY <1>1, <1>4, <1>9, <2>1, <2>2, <3>1 DEF Reaches
  <2> QED
    BY <2>3, <2>4
<1> QED
  BY <1>1, <1>10, <1>12, <1>13, <1>14, <1>15, <1>16 DEF SealInv

LEMMA DeliverFailureKeeps ==
  ASSUME SealInv, DeliverFailure
  PROVE  SealInv'
<1>1. /\ worker # Idle /\ worker.stage = "answer" /\ worker' = Idle
      /\ UNCHANGED <<opened, attempts, panel, containers, claimed, papers, seals, shareFiles,
                     waived>>
  <2>1. Idle.stage = "idle"
    BY DEF Idle
  <2> QED
    BY <2>1 DEF DeliverFailure
<1>2. /\ wizard # Closed /\ wizard \in SealScreens /\ wizard.busy = "sealing"
      /\ AnswerDelivered
  BY <1>1, ScreenIsOpen DEF SealInv, RunInv, AnswerDelivered
<1>3. wizard' = [wizard EXCEPT !.busy = "no"] /\ ~Answered
  BY <1>1, <1>2 DEF DeliverFailure, Answered
<1>4. /\ wizard' \in SealScreens /\ wizard'.busy = "no" /\ wizard'.output = wizard.output
      /\ wizard'.case = wizard.case /\ wizard'.page = wizard.page
      /\ wizard'.return = wizard.return /\ wizard'.form = wizard.form
      /\ wizard'.shown = wizard.shown
  BY <1>2, <1>3 DEF SealScreens
<1>5. wizard'.encrypted = wizard.encrypted /\ wizard'.saved = wizard.saved
  BY <1>2, <1>3 DEF SealScreens
<1>6. wizard' # Closed /\ ~Answered' /\ StoredIds' = StoredIds
  BY <1>1, <1>4, ScreensAreOpen, IdsKept DEF Answered
<1>7. SealTypes'
  BY <1>1, <1>4 DEF SealInv, SealTypes
<1>8. PageInv'
  BY <1>1, <1>2, <1>4, <1>5 DEF SealInv, PageInv
<1>9. OutputInv'
  BY <1>1, <1>2, <1>4, <1>5 DEF SealInv, OutputInv
<1>10. RunInv'
  BY <1>1, <1>4 DEF RunInv
<1>11. NotYetStored' /\ PanelInv'
  BY <1>1, <1>2, <1>3, <1>4, <1>5, <1>6 DEF SealInv, NotYetStored, PanelInv
<1>12. ASSUME NEW s \in seals PROVE SealHolds(s)' /\ Reaches(s)'
  <2>1. SealHolds(s) /\ Reaches(s)
    BY DEF SealInv
  <2>2. SealHolds(s)'
    BY <1>1, <1>2, <1>3, <1>5, <2>1 DEF SealHolds
  <2>3. Reaches(s)'
    BY <1>1, <1>3, <1>6, <2>1 DEF Reaches
  <2> QED
    BY <2>2, <2>3
<1> QED
  BY <1>1, <1>7, <1>8, <1>9, <1>10, <1>11, <1>12 DEF SealInv

LEMMA SaveShareKeeps ==
  ASSUME SealInv, NEW i \in {1, 2}, SaveShare(i)
  PROVE  SealInv'
<1>1. /\ shareFiles' = shareFiles \cup {<<panel.split, i>>}
      /\ panel' = [panel EXCEPT !.inFiles = @ \cup {i}]
      /\ panel \in [split : Nat, inFiles : SUBSET {1, 2}]
      /\ UNCHANGED <<wizard, opened, worker, attempts, containers, claimed, papers, seals,
                     waived>>
  BY DEF SaveShare, SealInv, SealTypes
<1>2. /\ panel' \in [split : Nat, inFiles : SUBSET {1, 2}] /\ panel'.split = panel.split
      /\ panel'.inFiles = panel.inFiles \cup {i} /\ panel.inFiles \subseteq {1, 2}
  BY <1>1
<1>3. SealTypes'
  BY <1>1, <1>2 DEF SealInv, SealTypes
<1>4. panel.inFiles = {1, 2} => panel'.inFiles = {1, 2}
  BY <1>2
<1>5. PageInv'
  BY <1>1, <1>4 DEF SealInv, PageInv
<1>6. OutputInv' /\ RunInv' /\ StoredIds' = StoredIds /\ Answered' = Answered
  BY <1>1, IdsKept DEF SealInv, OutputInv, RunInv, Answered
<1>7. NotYetStored'
  BY <1>1, <1>6 DEF SealInv, NotYetStored
<1>8. PanelInv'
  BY <1>1, <1>2 DEF SealInv, PanelInv
<1>9. ASSUME NEW s \in seals PROVE SealHolds(s)' /\ Reaches(s)'
  <2>1. SealHolds(s) /\ Reaches(s)
    BY DEF SealInv
  <2>2. SealHolds(s)'
    BY <1>1, <1>6, <2>1 DEF SealHolds
  <2>3. SharesOf(s.attempt) \subseteq shareFiles => SharesOf(s.attempt) \subseteq shareFiles'
    BY <1>1
  <2>4. Reaches(s)'
    BY <1>1, <1>2, <1>6, <2>1, <2>3 DEF Reaches
  <2> QED
    BY <2>2, <2>4
<1> QED
  BY <1>1, <1>3, <1>5, <1>6, <1>7, <1>8, <1>9 DEF SealInv

LEMMA SealInvHolds ==
  SealWizardSpec => []SealInv
<1>1. ASSUME SealWizardInit PROVE SealInv
  <2>1. wizard = Closed /\ worker = Idle /\ seals = {} /\ panel.split = 0 /\ panel.inFiles = {}
    BY <1>1 DEF SealWizardInit, EmptyPanel
  <2>2. SealTypes
    BY <1>1, WizardAssumption DEF SealWizardInit, SealTypes, EmptyPanel
  <2> QED
    BY <2>1, <2>2 DEF SealInv, PageInv, OutputInv, RunInv, NotYetStored, PanelInv
<1>2. ASSUME SealInv, SealWizardNext PROVE SealInv'
  <2>1. CASE Pages
    <3>1. ASSUME NEW i \in Inputs, EnterInputs(i) PROVE SealInv'
      BY <1>2, <3>1, EnterInputsKeeps
    <3>2. ASSUME NEW p \in 1 .. 7, GoNext \/ GoBack \/ BackToCurrent \/ ClickPage(p)
          PROVE  SealInv'
      BY <1>2, <3>2, PagesKeep
    <3>3. 1 \in 1 .. 7
      OBVIOUS
    <3> QED
      BY <1>2, <2>1, <3>1, <3>2, <3>3, LeavingKeeps DEF Pages
  <2>2. CASE SealWorker
    BY <1>2, <2>2, RunKeeps, SaveSealKeeps, DeliverSuccessKeeps, DeliverFailureKeeps
       DEF SealWorker
  <2>3. CASE ~Pages /\ ~SealWorker
    BY <1>2, <2>3, OpenWizardKeeps, StartEncryptionKeeps, WriteContainerKeeps, SaveShareKeeps,
       LeavingKeeps DEF SealWizardNext
  <2> QED
    BY <2>1, <2>2, <2>3
<1>3. ASSUME SealInv, UNCHANGED sealVars PROVE SealInv'
  <2>1. StoredIds' = StoredIds /\ Answered' = Answered
    BY <1>3, IdsKept DEF sealVars, Answered
  <2>2. SealTypes' /\ PageInv' /\ OutputInv' /\ RunInv' /\ PanelInv'
    BY <1>3 DEF sealVars, SealInv, SealTypes, PageInv, OutputInv, RunInv, PanelInv
  <2>3. NotYetStored'
    BY <1>3, <2>1 DEF sealVars, SealInv, NotYetStored
  <2>4. ASSUME NEW s \in seals PROVE SealHolds(s)' /\ Reaches(s)'
    BY <1>3, <2>1, <2>4 DEF sealVars, SealInv, SealHolds, Reaches
  <2> QED
    BY <1>3, <2>2, <2>3, <2>4 DEF sealVars, SealInv
<1> QED
  BY <1>1, <1>2, <1>3, PTL DEF SealWizardSpec

(* No order of answers, retries, visits to past pages, cancelling and       *)
(* leaving loses the shares of a saved seal or hands out another attempt's, *)
(* for every number of wizards and attempts.                                *)
THEOREM SavedSharesReachTheirHolders ==
  SealWizardSpec => []SharesReachTheirHolders
<1>1. ASSUME SealInv PROVE SharesReachTheirHolders
  <2>1. ASSUME NEW s \in seals PROVE Reaches(s)
    BY <1>1 DEF SealInv
  <2>2. Answered => worker.stage = "answer" /\ worker.ok
    BY <1>1 DEF SealInv, RunInv, Answered
  <2> QED
    BY <1>1, <2>1, <2>2, ScreenIsOpen DEF SharesReachTheirHolders, Reaches
<1> QED
  BY <1>1, SealInvHolds, PTL

(* What is saved is what was reviewed, with its own signed document and a   *)
(* whole container under the key that was split.                            *)
THEOREM SealsAreSavedAsReviewed ==
  SealWizardSpec => []SealedAsReviewed
<1>1. ASSUME SealInv PROVE SealedAsReviewed
  <2>1. ASSUME NEW s \in seals PROVE SealHolds(s)
    BY <1>1 DEF SealInv
  <2> QED
    BY <2>1 DEF SealedAsReviewed, SealHolds, Entered, WholeUnder
<1> QED
  BY <1>1, SealInvHolds, PTL

-----------------------------------------------------------------------------
(* ResealWizard: the shares in files and the records in the store.          *)

ResealScreens ==
  [open : {TRUE}, page : 1 .. 8, return : 0 .. 8,
   busy : {"no", "comparing", "encrypting", "recording", "saving"},
   failed : BOOLEAN, encrypted : BOOLEAN, recorded : BOOLEAN, saved : BOOLEAN,
   completed : BOOLEAN]
ResealRecords ==
  [history : Seq(Int), generation : Nat, files : SUBSET Files, derived : SUBSET Files,
   missing : SUBSET Files, process : Nat]
ResealProcesses ==
  [number : Nat \ {0}, loaded : ResealRecords, known : SUBSET Files, unknown : SUBSET Files,
   derived : SUBSET Files, todo : SUBSET Files, missing : SUBSET Files,
   listed : SUBSET Files, pending : SUBSET Stems, record : ResealRecords]

ResealTypes ==
  /\ reseal \in ResealScreens \cup {NoWizard}
  /\ process \in ResealProcesses \cup {NoProcess} /\ processes \in Nat
  /\ directory \subseteq Files /\ DOMAIN stemFiles = Stems
  /\ records \subseteq ResealRecords
  /\ stored \in Seq(ResealRecords) /\ Len(stored) > 0
  /\ \A k \in 1 .. Len(stored) : stored[k] \in records
  /\ others \in Nat /\ handout \in [split : Nat, inFiles : SUBSET {1, 2}]
  /\ handedOut \subseteq Nat \X {1, 2}

AtWork == reseal # NoWizard /\ ~reseal.completed
Begun == process # NoProcess

(* What the page on screen, and the one to return to, need. *)
ResealPages ==
  /\ ~AtWork => ~Begun /\ handout = NoHandout /\ (reseal # NoWizard => reseal.busy = "no")
  /\ AtWork =>
       /\ reseal.page > 1 => Begun
       /\ reseal.page > 5 \/ reseal.return > 5 => reseal.recorded
       /\ reseal.page < 5 /\ reseal.encrypted => reseal.return # 0
       /\ reseal.return # 0 => reseal.encrypted /\ reseal.return > 4
       /\ reseal.page = 8 \/ reseal.return = 8 => handout.inFiles = {1, 2}
       /\ reseal.encrypted => Begun
       /\ reseal.recorded => reseal.encrypted
       /\ reseal.saved => reseal.recorded
       /\ reseal.busy = "comparing" => Begun
       /\ reseal.busy = "encrypting" => Begun /\ ~reseal.encrypted /\ reseal.page = 5
       /\ reseal.busy = "recording" => reseal.encrypted /\ ~reseal.recorded
       /\ reseal.busy = "saving" => reseal.page = 8 /\ ~reseal.saved

(* The listed files of a process are whole in their containers. *)
WholeFrom(file, number) == [key |-> number, source |-> file, whole |-> TRUE]
WholeFiles(files, number) ==
  \A f \in files : (\A g \in files : StemOf[g] = StemOf[f] => g = f) =>
    stemFiles[StemOf[f]] = WholeFrom(f, number)

(* The process goes through its files; every derived one is accounted for. *)
ProcessInv ==
  Begun =>
    /\ process.number = processes
    /\ reseal.busy = "encrypting" \/ reseal.encrypted =>
         /\ process.derived \subseteq process.todo \cup process.listed \cup process.missing
         /\ WholeFiles(process.listed, process.number)
    /\ reseal.encrypted => process.todo = {}
    /\ \A i \in 1 .. Len(process.loaded.history) :
         -others <= process.loaded.history[i] /\ process.loaded.history[i] < processes

(* The records of the process on screen, and only they, have its event.     *)
(* They differ in their generation only if the store went on, and then      *)
(* they do not continue it.                                                 *)
IsOwn(r) == r.process = processes \/ \E i \in 1 .. Len(r.history) : r.history[i] = processes
OwnRecords ==
  Begun =>
    /\ ~reseal.saved => Stored.process # processes
    /\ reseal.recorded => process.record \in records /\ process.record.process = processes
    /\ \A r \in records : IsOwn(r) =>
         /\ reseal.encrypted /\ r.process = processes
         /\ r.history = Append(process.loaded.history, processes)
         /\ ~reseal.saved /\ IsPrefix(Stored.history, r.history) =>
              r.generation = LargerGeneration + 1

RecordHolds(r) ==
  /\ r.process <= processes
  /\ \A i \in 1 .. Len(r.history) : -others <= r.history[i] /\ r.history[i] <= processes
  /\ r.process > 0 => r.derived \subseteq r.files \cup r.missing
  /\ r.process > 0 /\ r.process = processes => WholeFiles(r.files, r.process)

Outranks(r, s) ==
  s.generation <= r.generation /\ (r.process # s.process => s.generation < r.generation)

(* A record that can still be stored outranks the stored one. *)
RecordsInv ==
  \A r \in records :
    RecordHolds(r) /\ (IsPrefix(Stored.history, r.history) => Outranks(r, Stored))

StoreInv == \A k \in 1 .. Len(stored) : \A j \in 1 .. k - 1 : Outranks(stored[k], stored[j])

HandoutInv ==
  /\ handout.split # 0 => Begun /\ reseal.recorded /\ handout.split = processes
  /\ handout.inFiles # {} => handout.split # 0
  /\ \A i \in handout.inFiles : <<handout.split, i>> \in handedOut
  /\ \A share \in handedOut :
       /\ share[1] <= processes
       /\ Begun /\ share[1] = processes => handout.split = processes
       /\ \/ share[1] \in SavedProcesses \/ share[1] \in warned
          \/ Begun /\ processes = share[1]
  /\ Begun /\ reseal.saved => processes \in SavedProcesses
  /\ \A p \in SavedProcesses : p # 0 => <<p, 1>> \in handedOut /\ <<p, 2>> \in handedOut

ResealInv ==
  /\ ResealTypes /\ ResealPages /\ ProcessInv /\ OwnRecords /\ RecordsInv /\ StoreInv
  /\ HandoutInv

-----------------------------------------------------------------------------
LEMMA ResealScreensOpen ==
  /\ \A screen \in ResealScreens : screen # NoWizard
  /\ \A proc \in ResealProcesses : proc # NoProcess
<1>1. ~NoWizard.open /\ \A screen \in ResealScreens : screen.open
  BY DEF NoWizard, ResealScreens
<1>2. NoProcess.number = 0 /\ \A proc \in ResealProcesses : proc.number # 0
  BY DEF NoProcess, ResealProcesses
<1> QED
  BY <1>1, <1>2

LEMMA ResealIsOpen ==
  ASSUME ResealInv
  PROVE  /\ reseal.open <=> reseal # NoWizard
         /\ reseal # NoWizard => reseal \in ResealScreens
         /\ Begun => process \in ResealProcesses /\ process.number = processes
         /\ ~Begun => process.number = 0
<1>1. ~NoWizard.open /\ \A screen \in ResealScreens : screen.open
  BY DEF NoWizard, ResealScreens
<1>2. NoProcess.number = 0 /\ \A proc \in ResealProcesses : proc.number # 0
  BY DEF NoProcess, ResealProcesses
<1> QED
  BY <1>1, <1>2 DEF ResealInv, ResealTypes, Begun, ProcessInv

LEMMA PrefixElements ==
  ASSUME NEW s \in Seq(Int), NEW t \in Seq(Int)
  PROVE  IsPrefix(s, t) <=> Len(s) <= Len(t) /\ \A i \in 1 .. Len(s) : s[i] = t[i]
<1>1. ASSUME IsPrefix(s, t), NEW i \in 1 .. Len(s) PROVE s[i] = t[i]
  <2>1. SubSeq(s, 1, Len(s))[i] = SubSeq(t, 1, Len(s))[i] /\ Len(s) <= Len(t)
    BY <1>1 DEF IsPrefix
  <2> QED
    BY <2>1
<1>2. ASSUME Len(s) <= Len(t), \A i \in 1 .. Len(s) : s[i] = t[i] PROVE IsPrefix(s, t)
  <2>1. SubSeq(s, 1, Len(s)) = SubSeq(t, 1, Len(s))
    BY <1>2
  <2> QED
    BY <1>2, <2>1 DEF IsPrefix
<1> QED
  BY <1>1, <1>2 DEF IsPrefix

(* The next stored record outranks all the earlier ones. *)
LEMMA StoreGrows ==
  ASSUME ResealInv, NEW r \in ResealRecords, stored' = Append(stored, r), Outranks(r, Stored)
  PROVE  /\ StoreInv' /\ Stored' = r /\ SavedProcesses' = SavedProcesses \cup {r.process}
         /\ stored' \in Seq(ResealRecords) /\ Len(stored') > 0
         /\ \A k \in 1 .. Len(stored') : stored'[k] \in records \cup {r}
<1>1. /\ stored \in Seq(ResealRecords) /\ Len(stored) \in Nat /\ Len(stored) > 0
      /\ \A k \in 1 .. Len(stored) : stored[k] \in records /\ stored[k] \in ResealRecords
  BY DEF ResealInv, ResealTypes
<1>2. /\ stored' \in Seq(ResealRecords) /\ Len(stored') = Len(stored) + 1
      /\ stored'[Len(stored) + 1] = r
      /\ \A k \in 1 .. Len(stored) : stored'[k] = stored[k]
  BY <1>1, AppendProperties
<1>3. Stored' = r /\ \A k \in 1 .. Len(stored') : stored'[k] \in records \cup {r}
  BY <1>1, <1>2 DEF Stored
<1>4. StoreInv'
  <2>1. ASSUME NEW j \in 1 .. Len(stored) PROVE Outranks(r, stored[j])
    <3>1. j = Len(stored) \/ Outranks(Stored, stored[j])
      BY <1>1, <2>1 DEF ResealInv, StoreInv, Stored
    <3>2. stored[j] \in ResealRecords /\ Stored \in ResealRecords
      BY <1>1 DEF Stored
    <3>3. stored[j].generation \in Nat /\ Stored.generation \in Nat /\ r.generation \in Nat
      BY <3>2 DEF ResealRecords
    <3> QED
      BY <3>1, <3>3 DEF Outranks, Stored
  <2>2. ASSUME NEW k \in 1 .. Len(stored'), NEW j \in 1 .. k - 1
        PROVE  Outranks(stored'[k], stored'[j])
    <3>1. CASE k = Len(stored) + 1
      BY <1>1, <1>2, <2>1, <3>1
    <3>2. CASE k # Len(stored) + 1
      <4>1. k \in 1 .. Len(stored) /\ j \in 1 .. Len(stored)
        BY <1>1, <1>2, <3>2
      <4> QED
        BY <1>2, <4>1 DEF ResealInv, StoreInv
    <3> QED
      BY <3>1, <3>2
  <2> QED
    BY <2>2 DEF StoreInv
<1>5. SavedProcesses' = SavedProcesses \cup {r.process}
  <2>1. DOMAIN stored = 1 .. Len(stored) /\ DOMAIN stored' = 1 .. Len(stored')
    BY <1>1, <1>2
  <2> QED
    BY <1>1, <1>2, <2>1 DEF SavedProcesses
<1> QED
  BY <1>1, <1>2, <1>3, <1>4, <1>5

(* The wizard, its process and, before the encryption is through, the       *)
(* containers move; the records, the store and the shares do not.           *)
LEMMA QuietKeeps ==
  ASSUME ResealInv, AtWork, reseal' \in ResealScreens, ~reseal'.completed,
         reseal.encrypted => reseal'.encrypted, reseal'.recorded = reseal.recorded,
         reseal'.saved = reseal.saved, ResealPages', ProcessInv', Begun' = Begun,
         process' \in ResealProcesses \cup {NoProcess},
         process'.loaded = process.loaded, process'.record = process.record,
         DOMAIN stemFiles' = Stems, stemFiles' = stemFiles \/ (Begun /\ ~reseal.encrypted),
         UNCHANGED <<processes, directory, others, records, stored, handout, handedOut, warned>>
  PROVE  ResealInv'
<1>1. Stored' = Stored /\ LargerGeneration' = LargerGeneration /\ SavedProcesses' = SavedProcesses
  BY DEF Stored, LargerGeneration, SavedProcesses
<1>2. ResealTypes'
  BY DEF ResealInv, ResealTypes, Stems
<1>3. \A r : IsOwn(r)' <=> IsOwn(r)
  BY DEF IsOwn
<1>4. OwnRecords'
  BY <1>1, <1>3 DEF ResealInv, OwnRecords
<1>5. RecordsInv'
  <2>1. ASSUME NEW r \in records PROVE RecordHolds(r)'
    <3>1. RecordHolds(r)
      BY DEF ResealInv, RecordsInv
    <3>2. stemFiles' = stemFiles \/ r.process # processes
      BY DEF ResealInv, OwnRecords, IsOwn
    <3> QED
      BY <3>1, <3>2 DEF RecordHolds, WholeFiles
  <2> QED
    BY <1>1, <2>1 DEF ResealInv, RecordsInv
<1>6. StoreInv'
  BY DEF ResealInv, StoreInv
<1>7. HandoutInv'
  BY <1>1 DEF ResealInv, HandoutInv
<1> QED
  BY <1>2, <1>4, <1>5, <1>6, <1>7 DEF ResealInv

LEMMA StemsOfFiles ==
  \A f \in Files : StemOf[f] \in Stems
BY DEF Stems

(* What a page needs before it is shown. *)
MayShow(page, return) ==
  /\ page > 1 => Begun
  /\ page > 5 \/ return > 5 => reseal.recorded
  /\ page < 5 /\ reseal.encrypted => return # 0
  /\ return # 0 => reseal.encrypted /\ return > 4
  /\ page = 8 \/ return = 8 => handout.inFiles = {1, 2}

LEMMA ShownKeeps ==
  ASSUME ResealInv, Free, NEW page \in 1 .. 8, NEW return \in 0 .. 8, MayShow(page, return),
         NEW work \in {"no", "comparing", "recording", "saving"}, Shown(page, return, work),
         work = "comparing" => Begun, work = "recording" => reseal.encrypted /\ ~reseal.recorded,
         work = "saving" => page = 8 /\ ~reseal.saved,
         UNCHANGED <<process, processes, outside, stemFiles, records, stored, handout, handedOut,
                     warned>>
  PROVE  ResealInv'
<1>1. AtWork /\ reseal \in ResealScreens /\ reseal.busy = "no"
  BY ResealIsOpen DEF Free, NotBusy, AtWork
<1>2. reseal' = [reseal EXCEPT !.page = page, !.return = return, !.busy = work]
  BY DEF Shown
<1>3. /\ reseal' \in ResealScreens /\ reseal'.page = page /\ reseal'.return = return
      /\ reseal'.busy = work
  BY <1>1, <1>2 DEF ResealScreens
<1>4. /\ reseal'.completed = reseal.completed /\ reseal'.encrypted = reseal.encrypted
      /\ reseal'.recorded = reseal.recorded /\ reseal'.saved = reseal.saved
  BY <1>1, <1>2 DEF ResealScreens
<1>5. UNCHANGED <<process, processes, directory, changes, others, stemFiles, records, stored,
                  handout, handedOut, warned>>
  BY DEF outside
<1>6. Begun' = Begun /\ AtWork' /\ ~reseal'.completed
  BY <1>1, <1>3, <1>4, <1>5, ResealScreensOpen DEF AtWork, Begun
<1>7. ResealPages'
  BY <1>1, <1>3, <1>4, <1>5, <1>6 DEF ResealInv, ResealPages, MayShow
<1>8. ProcessInv'
  BY <1>1, <1>3, <1>4, <1>5, <1>6 DEF ResealInv, ProcessInv, WholeFiles
<1>9. process \in ResealProcesses \cup {NoProcess} /\ DOMAIN stemFiles = Stems
  BY DEF ResealInv, ResealTypes
<1> QED
  BY <1>1, <1>3, <1>4, <1>5, <1>6, <1>7, <1>8, <1>9, QuietKeeps

LEMMA StartEncryptingKeeps ==
  ASSUME ResealInv, Free, NEW return \in 0 .. 8, MayShow(5, return), ~reseal.encrypted,
         StartEncrypting(return),
         UNCHANGED <<processes, outside, stemFiles, records, stored, handout, handedOut, warned>>
  PROVE  ResealInv'
<1>1. AtWork /\ reseal \in ResealScreens /\ reseal.busy = "no"
  BY ResealIsOpen DEF Free, NotBusy, AtWork
<1>2. PICK page \in 1 .. 8 : page = 5
  OBVIOUS
<1>3. reseal' = [reseal EXCEPT !.page = page, !.return = return, !.busy = "encrypting"]
  BY <1>2 DEF StartEncrypting, Shown
<1>4. /\ reseal' \in ResealScreens /\ reseal'.page = page /\ reseal'.return = return
      /\ reseal'.busy = "encrypting"
  BY <1>1, <1>3 DEF ResealScreens
<1>5. /\ reseal'.completed = reseal.completed /\ reseal'.encrypted = reseal.encrypted
      /\ reseal'.recorded = reseal.recorded /\ reseal'.saved = reseal.saved
  BY <1>1, <1>3 DEF ResealScreens
<1>6. UNCHANGED <<processes, directory, changes, others, stemFiles, records, stored, handout,
                  handedOut, warned>>
  BY DEF outside
<1>7. Begun /\ process \in ResealProcesses
  BY ResealIsOpen DEF MayShow
<1>8. process' = [process EXCEPT !.todo = FilesToEncrypt \intersect directory,
                                 !.missing = FilesToEncrypt \ directory,
                                 !.listed = {}, !.pending = {}]
  BY DEF StartEncrypting
<1>9. FilesToEncrypt = process.known \cup process.derived /\ FilesToEncrypt \subseteq Files
  BY <1>7 DEF FilesToEncrypt, ResealProcesses
<1>10. /\ process' \in ResealProcesses /\ process'.number = process.number
       /\ process'.loaded = process.loaded /\ process'.record = process.record
       /\ process'.derived = process.derived
       /\ process'.todo = FilesToEncrypt \intersect directory
       /\ process'.missing = FilesToEncrypt \ directory /\ process'.listed = {}
  BY <1>7, <1>8, <1>9 DEF ResealProcesses
<1>11. Begun' /\ AtWork' /\ ~reseal'.completed
  BY <1>1, <1>4, <1>5, <1>10, ResealScreensOpen DEF AtWork, Begun
<1>12. ResealPages'
  BY <1>1, <1>2, <1>4, <1>5, <1>6, <1>7, <1>11 DEF ResealInv, ResealPages, MayShow
<1>13. ProcessInv'
  <2>1. process'.derived \subseteq process'.todo \cup process'.listed \cup process'.missing
    BY <1>9, <1>10
  <2>2. WholeFiles(process.listed, process.number)'
    BY <1>10 DEF WholeFiles
  <2> QED
    BY <1>5, <1>6, <1>7, <1>10, <2>1, <2>2 DEF ResealInv, ProcessInv
<1>14. DOMAIN stemFiles = Stems
  BY DEF ResealInv, ResealTypes
<1> QED
  BY <1>1, <1>4, <1>5, <1>6, <1>7, <1>10, <1>11, <1>12, <1>13, <1>14, QuietKeeps

LEMMA ShowPageKeeps ==
  ASSUME ResealInv, Free, NEW page \in 1 .. 8, NEW return \in 0 .. 8, MayShow(page, return),
         ShowPage(page, return),
         UNCHANGED <<processes, outside, stemFiles, records, stored, handout, handedOut, warned>>
  PROVE  ResealInv'
<1>1. CASE page = 5 /\ ~reseal.encrypted
  BY <1>1, StartEncryptingKeeps DEF ShowPage
<1>2. CASE ~(page = 5 /\ ~reseal.encrypted)
  <2>1. Shown(page, return, Work(page)) /\ UNCHANGED process
    BY <1>2 DEF ShowPage
  <2>2. PICK work \in {"no", "comparing", "recording", "saving"} :
          /\ work = Work(page)
          /\ work = "comparing" => page = 2
          /\ work = "recording" => page = 5 /\ ~reseal.recorded
          /\ work = "saving" => page = 8 /\ ~reseal.saved
    <3>1. CASE page = 2
      BY <3>1 DEF Work
    <3>2. CASE page = 5
      BY <3>2 DEF Work
    <3>3. CASE page = 8
      BY <3>3 DEF Work
    <3>4. CASE page \notin {2, 5, 8}
      BY <3>4 DEF Work
    <3> QED
      BY <3>1, <3>2, <3>3, <3>4
  <2>3. page = 2 => Begun
    BY DEF MayShow
  <2>4. Shown(page, return, work)
    BY <2>1, <2>2
  <2> QED
    BY <1>2, <2>1, <2>2, <2>3, <2>4, ShownKeeps
<1> QED
  BY <1>1, <1>2

LEMMA ButtonsKeep ==
  ASSUME ResealInv, NEW p \in 1 .. 8,
         NextButton \/ BackButton \/ ReturnFromReview \/ ClickStep(p)
  PROVE  ResealInv'
<1>1. /\ Free /\ AtWork /\ reseal \in ResealScreens
      /\ UNCHANGED <<processes, outside, stemFiles, records, stored, handout, handedOut, warned>>
  BY ResealIsOpen DEF NextButton, BackButton, ReturnFromReview, ClickStep, Following, Free,
     NotBusy, AtWork
<1>2. reseal.page \in 1 .. 8 /\ reseal.return \in 0 .. 8
  BY <1>1 DEF ResealScreens
<1>3. /\ reseal.page > 1 => Begun
      /\ reseal.page > 5 \/ reseal.return > 5 => reseal.recorded
      /\ reseal.page < 5 /\ reseal.encrypted => reseal.return # 0
      /\ reseal.return # 0 => reseal.encrypted /\ reseal.return > 4
      /\ reseal.page = 8 \/ reseal.return = 8 => handout.inFiles = {1, 2}
      /\ reseal.encrypted => Begun
      /\ reseal.recorded => reseal.encrypted
  BY <1>1 DEF ResealInv, ResealPages
<1>4. PICK zero \in 0 .. 8 : zero = 0
  OBVIOUS
<1>5. CASE NextButton
  <2>1. PICK next \in 1 .. 8 :
          /\ next = NextPage
          /\ \/ next \in {2, 3} /\ reseal.page = 2
             \/ next = 5 /\ reseal.page \in {4, 5}
             \/ next = 6 /\ reseal.page = 5 /\ reseal.recorded
             \/ next = 7 /\ reseal.page = 6
             \/ next = 8 /\ reseal.page = 7 /\ handout.inFiles = {1, 2}
             \/ next = 8 /\ reseal.page = 8
    <3>1. CASE reseal.page = 2
      BY <3>1 DEF NextPage
    <3>2. CASE reseal.page = 5 /\ reseal.recorded
      BY <3>2 DEF NextPage
    <3>3. CASE reseal.page = 5 /\ ~reseal.recorded /\ reseal.encrypted
      BY <3>3 DEF NextPage
    <3>4. CASE reseal.page = 5 /\ ~reseal.recorded /\ ~reseal.encrypted
      BY <1>5, <3>4 DEF NextPage, NextButton
    <3>5. CASE reseal.page = 4
      BY <3>5 DEF NextPage
    <3>6. CASE reseal.page = 6
      BY <3>6 DEF NextPage
    <3>7. CASE reseal.page = 7
      BY <1>5, <3>7 DEF NextPage, NextButton
    <3>8. CASE reseal.page = 8
      BY <1>5, <3>8 DEF NextPage, NextButton
    <3>9. ASSUME reseal.page \notin {2, 4, 5, 6, 7, 8} PROVE FALSE
      BY <1>5, <3>9 DEF NextPage, NextButton
    <3> QED
      BY <3>1, <3>2, <3>5, <3>6, <3>7, <3>8, <3>9, <3>3, <3>4
  <2>2. ShowPage(next, zero) /\ reseal.return = 0
    BY <1>4, <1>5, <2>1 DEF NextButton, Following
  <2>3. MayShow(next, zero)
    BY <1>2, <1>3, <1>4, <2>1, <2>2 DEF MayShow
  <2> QED
    BY <1>1, <2>2, <2>3, ShowPageKeeps
<1>6. CASE BackButton
  <2>1. /\ ShowPage(reseal.page - 1, reseal.return)
        /\ reseal.return = 0 => reseal.page > 1 /\ ~(reseal.page > 4 /\ reseal.encrypted)
        /\ reseal.return # 0 => reseal.page = 2
    BY <1>6 DEF BackButton, BackEnabled
  <2>2. reseal.page - 1 \in 1 .. 8
    BY <1>2, <2>1
  <2>3. MayShow(reseal.page - 1, reseal.return)
    BY <1>2, <1>3, <2>1 DEF MayShow
  <2> QED
    BY <1>1, <1>2, <2>1, <2>2, <2>3, ShowPageKeeps
<1>7. CASE ReturnFromReview
  <2>1. reseal.return # 0 /\ ShowPage(reseal.return, zero) /\ reseal.return \in 1 .. 8
    BY <1>2, <1>4, <1>7 DEF ReturnFromReview
  <2>2. MayShow(reseal.return, zero)
    BY <1>2, <1>3, <1>4, <2>1 DEF MayShow
  <2> QED
    BY <1>1, <2>1, <2>2, ShowPageKeeps
<1>8. CASE ClickStep(p)
  <2>1. PICK reached \in 1 .. 8 :
          /\ reached = ReachedPage
          /\ reached = reseal.page \/ (reached = reseal.return /\ reseal.return # 0)
          /\ reseal.return = 0 => reached = reseal.page
          /\ reseal.return # 0 => reached = reseal.return
    BY <1>2 DEF ReachedPage
  <2>2. p <= reached
    BY <1>8, <2>1 DEF ClickStep
  <2>3. /\ reached > 1 => Begun
        /\ reached > 5 => reseal.recorded
        /\ reseal.encrypted => reached > 4
        /\ reached = 8 => handout.inFiles = {1, 2}
    BY <1>2, <1>3, <2>1
  <2>4. CASE reseal.encrypted /\ p < 5
    <3>1. ShowPage(p, reached) /\ reached \in 0 .. 8
      BY <1>8, <2>1, <2>4 DEF ClickStep, OnlyReviewed
    <3>2. MayShow(p, reached)
      BY <2>2, <2>3, <2>4 DEF MayShow
    <3> QED
      BY <1>1, <3>1, <3>2, ShowPageKeeps
  <2>5. CASE ~(reseal.encrypted /\ p < 5)
    <3>1. ShowPage(p, zero)
      BY <1>4, <1>8, <2>5 DEF ClickStep, OnlyReviewed
    <3>2. /\ p > 1 => reached > 1
          /\ p > 5 => reached > 5
          /\ p = 8 => reached = 8
      BY <2>1, <2>2
    <3>3. MayShow(p, zero)
      BY <1>4, <2>3, <2>5, <3>2 DEF MayShow
    <3> QED
      BY <1>1, <3>1, <3>3, ShowPageKeeps
  <2> QED
    BY <2>4, <2>5
<1> QED
  BY <1>5, <1>6, <1>7, <1>8

LEMMA LoadRecordKeeps ==
  ASSUME ResealInv, NEW loaded \in records, LoadRecord(loaded)
  PROVE  ResealInv'
<1>1. /\ AtWork /\ reseal \in ResealScreens /\ reseal.busy = "no" /\ reseal.page = 1
      /\ reseal.return = 0
  BY ResealIsOpen DEF LoadRecord, Following, Free, NotBusy, AtWork
<1>2. ~reseal.encrypted /\ ~reseal.recorded /\ ~reseal.saved
  BY <1>1 DEF ResealInv, ResealPages
<1>3. UNCHANGED <<directory, changes, others, stemFiles, records, stored, handout, handedOut,
                  warned>>
  BY DEF LoadRecord, outside
<1>4. /\ processes' = processes + 1 /\ processes \in Nat /\ others \in Nat
      /\ loaded \in ResealRecords /\ DOMAIN stemFiles = Stems
  BY DEF LoadRecord, ResealInv, ResealTypes
<1>5. PICK number \in Nat \ {0} : number = processes'
  BY <1>4
<1>6. process' = [number |-> number, loaded |-> loaded, known |-> {}, unknown |-> {},
                  derived |-> {}, todo |-> {}, missing |-> {}, listed |-> {}, pending |-> {},
                  record |-> loaded]
  BY <1>4, <1>5 DEF LoadRecord, NewProcess
<1>7. process' \in ResealProcesses /\ process'.number = number /\ process'.loaded = loaded
  BY <1>4, <1>6 DEF ResealProcesses
<1>8. PICK page \in 1 .. 8, return \in 0 .. 8 : page = 2 /\ return = 0
  OBVIOUS
<1>9. reseal' = [reseal EXCEPT !.page = page, !.return = return, !.busy = "comparing"]
  BY <1>8 DEF LoadRecord, Shown
<1>10. /\ reseal' \in ResealScreens /\ reseal'.page = page /\ reseal'.return = return
       /\ reseal'.busy = "comparing"
  BY <1>1, <1>9 DEF ResealScreens
<1>11. /\ reseal'.completed = reseal.completed /\ reseal'.encrypted = reseal.encrypted
       /\ reseal'.recorded = reseal.recorded /\ reseal'.saved = reseal.saved
  BY <1>1, <1>9 DEF ResealScreens
<1>12. Begun' /\ AtWork' /\ ~reseal'.completed
  BY <1>1, <1>7, <1>10, <1>11, ResealScreensOpen DEF AtWork, Begun
<1>13. handout.split = 0 /\ handout.inFiles = {}
  BY <1>1, <1>2 DEF ResealInv, HandoutInv
<1>14. Stored' = Stored /\ SavedProcesses' = SavedProcesses /\ Stored \in records
  BY <1>3 DEF Stored, SavedProcesses, ResealInv, ResealTypes
<1>15. \A r \in records :
         /\ RecordHolds(r) /\ r.process \in Nat /\ r.process <= processes
         /\ \A i \in 1 .. Len(r.history) : /\ r.history[i] \in Int /\ r.history[i] <= processes
                                           /\ -others <= r.history[i]
  <2>1. ASSUME NEW r \in records
        PROVE  r.process \in Nat /\ \A i \in 1 .. Len(r.history) : r.history[i] \in Int
    <3>1. r.process \in Nat /\ r.history \in Seq(Int)
      BY DEF ResealInv, ResealTypes, ResealRecords
    <3> QED
      BY <3>1
  <2> QED
    BY <2>1 DEF ResealInv, RecordsInv, RecordHolds
<1>16. ResealTypes'
  BY <1>3, <1>4, <1>5, <1>7, <1>10 DEF ResealInv, ResealTypes
<1>17. ResealPages'
  BY <1>2, <1>3, <1>8, <1>10, <1>11, <1>12 DEF ResealPages
<1>18. ProcessInv'
  <2>1. \A i \in 1 .. Len(loaded.history) :
          -others' <= loaded.history[i] /\ loaded.history[i] < processes'
    BY <1>3, <1>4, <1>15
  <2> QED
    BY <1>2, <1>5, <1>7, <1>10, <1>11, <2>1 DEF ProcessInv
<1>19. OwnRecords'
  <2>1. \A r \in records : ~IsOwn(r)'
    BY <1>4, <1>15 DEF IsOwn
  <2>2. Stored'.process # processes'
    BY <1>4, <1>14, <1>15
  <2> QED
    BY <1>2, <1>3, <1>11, <2>1, <2>2 DEF OwnRecords
<1>20. RecordsInv'
  <2>1. ASSUME NEW r \in records PROVE RecordHolds(r)'
    <3>1. r.process <= processes' /\ r.process # processes'
      BY <1>4, <1>15
    <3>2. \A i \in 1 .. Len(r.history) :
            -others' <= r.history[i] /\ r.history[i] <= processes'
      BY <1>3, <1>4, <1>15
    <3> QED
      BY <1>15, <3>1, <3>2 DEF RecordHolds
  <2> QED
    BY <1>3, <1>14, <2>1 DEF ResealInv, RecordsInv
<1>21. StoreInv'
  BY <1>3 DEF ResealInv, StoreInv
<1>22. HandoutInv'
  <2>1. ASSUME NEW share \in handedOut
        PROVE  /\ share[1] <= processes' /\ share[1] # processes'
               /\ share[1] \in SavedProcesses \/ share[1] \in warned
    <3>1. share[1] \in Nat /\ share[1] <= processes
      BY DEF ResealInv, ResealTypes, HandoutInv
    <3>2. ASSUME Begun PROVE processes # share[1]
      <4>1. processes # 0
        BY <3>2, ResealIsOpen DEF ResealProcesses
      <4> QED
        BY <1>13, <3>2, <4>1 DEF ResealInv, HandoutInv
    <3> QED
      BY <1>4, <3>1, <3>2 DEF ResealInv, HandoutInv
  <2> QED
    BY <1>2, <1>3, <1>11, <1>13, <1>14, <2>1 DEF ResealInv, HandoutInv
<1> QED
  BY <1>16, <1>17, <1>18, <1>19, <1>20, <1>21, <1>22 DEF ResealInv

LEMMA ComparisonKeeps ==
  ASSUME ResealInv, CompareSucceeds \/ CompareFails
  PROVE  ResealInv'
<1>1. AtWork /\ reseal \in ResealScreens /\ reseal.busy = "comparing"
  BY ResealIsOpen DEF CompareSucceeds, CompareFails, AtWork, ResealInv, ResealPages
<1>2. /\ Begun /\ process \in ResealProcesses /\ directory \subseteq Files
      /\ DOMAIN stemFiles = Stems
  BY <1>1, ResealIsOpen DEF ResealInv, ResealPages, ResealTypes
<1>3. UNCHANGED <<processes, directory, changes, others, stemFiles, records, stored, handout,
                  handedOut, warned>>
  BY DEF CompareSucceeds, CompareFails, outside
<1>4. PICK failed \in BOOLEAN : reseal' = [reseal EXCEPT !.busy = "no", !.failed = failed]
  BY DEF CompareSucceeds, CompareFails
<1>5. /\ reseal' \in ResealScreens /\ reseal'.page = reseal.page
      /\ reseal'.return = reseal.return /\ reseal'.busy = "no"
  BY <1>1, <1>4 DEF ResealScreens
<1>6. /\ reseal'.completed = reseal.completed /\ reseal'.encrypted = reseal.encrypted
      /\ reseal'.recorded = reseal.recorded /\ reseal'.saved = reseal.saved
  BY <1>1, <1>4 DEF ResealScreens
<1>7. PICK known \in SUBSET Files, unknown \in SUBSET Files :
        process' = process \/ process' = [process EXCEPT !.known = known, !.unknown = unknown]
  <2>1. CASE CompareSucceeds
    <3>1. /\ directory \intersect process.loaded.files \in SUBSET Files
          /\ directory \ process.loaded.files \in SUBSET Files
      BY <1>2
    <3> QED
      BY <2>1, <3>1 DEF CompareSucceeds
  <2>2. CASE CompareFails
    BY <2>2 DEF CompareFails
  <2> QED
    BY <2>1, <2>2
<1>8. /\ process' \in ResealProcesses /\ process'.number = process.number
      /\ process'.loaded = process.loaded /\ process'.record = process.record
      /\ process'.derived = process.derived /\ process'.todo = process.todo
      /\ process'.missing = process.missing /\ process'.listed = process.listed
  BY <1>2, <1>7 DEF ResealProcesses
<1>9. Begun' /\ AtWork' /\ ~reseal'.completed
  BY <1>1, <1>5, <1>6, <1>8, ResealScreensOpen DEF AtWork, Begun
<1>10. ResealPages'
  BY <1>1, <1>3, <1>5, <1>6, <1>9 DEF ResealInv, ResealPages
<1>11. ProcessInv'
  BY <1>2, <1>3, <1>5, <1>6, <1>8 DEF ResealInv, ProcessInv, WholeFiles
<1> QED
  BY <1>1, <1>2, <1>3, <1>5, <1>6, <1>8, <1>9, <1>10, <1>11, QuietKeeps

LEMMA ClassifyKeeps ==
  ASSUME ResealInv, NEW derived \in SUBSET Files, Classify(derived)
  PROVE  ResealInv'
<1>1. /\ AtWork /\ reseal \in ResealScreens /\ reseal.busy = "no" /\ reseal.page = 3
      /\ reseal.return = 0
  BY ResealIsOpen DEF Classify, Following, Free, NotBusy, AtWork
<1>2. ~reseal.encrypted /\ ~reseal.recorded /\ Begun
  BY <1>1 DEF ResealInv, ResealPages
<1>3. process \in ResealProcesses /\ DOMAIN stemFiles = Stems
  BY <1>2, ResealIsOpen DEF ResealInv, ResealTypes
<1>4. UNCHANGED <<processes, directory, changes, others, stemFiles, records, stored, handout,
                  handedOut, warned>>
  BY DEF Classify, outside
<1>5. PICK page \in 1 .. 8, return \in 0 .. 8 : page = 4 /\ return = 0
  OBVIOUS
<1>6. reseal' = [reseal EXCEPT !.page = page, !.return = return, !.busy = "no"]
  BY <1>5 DEF Classify, Shown
<1>7. /\ reseal' \in ResealScreens /\ reseal'.page = page /\ reseal'.return = return
      /\ reseal'.busy = "no"
  BY <1>1, <1>6 DEF ResealScreens
<1>8. /\ reseal'.completed = reseal.completed /\ reseal'.encrypted = reseal.encrypted
      /\ reseal'.recorded = reseal.recorded /\ reseal'.saved = reseal.saved
  BY <1>1, <1>6 DEF ResealScreens
<1>9. process' = process \/ process' = [process EXCEPT !.derived = derived]
  BY DEF Classify
<1>10. /\ process' \in ResealProcesses /\ process'.number = process.number
       /\ process'.loaded = process.loaded /\ process'.record = process.record
  BY <1>3, <1>9 DEF ResealProcesses
<1>11. Begun' /\ AtWork' /\ ~reseal'.completed
  BY <1>1, <1>7, <1>8, <1>10, ResealScreensOpen DEF AtWork, Begun
<1>12. ResealPages'
  BY <1>1, <1>2, <1>4, <1>5, <1>7, <1>8, <1>11 DEF ResealInv, ResealPages
<1>13. ProcessInv'
  BY <1>2, <1>4, <1>7, <1>8, <1>10 DEF ResealInv, ProcessInv
<1> QED
  BY <1>1, <1>2, <1>3, <1>4, <1>7, <1>8, <1>10, <1>11, <1>12, <1>13, QuietKeeps

(* The encryption at work: the screen stays on page 5. *)
LEMMA EncryptionMoves ==
  ASSUME ResealInv, AtWork, reseal \in ResealScreens, reseal.busy = "encrypting",
         reseal' = reseal \/ reseal' = [reseal EXCEPT !.busy = "no"],
         process' \in ResealProcesses, process'.number = process.number,
         process'.loaded = process.loaded, process'.record = process.record,
         DOMAIN stemFiles' = Stems,
         reseal' = reseal =>
           /\ process'.derived \subseteq process'.todo \cup process'.listed \cup process'.missing
           /\ WholeFiles(process.listed, process.number)',
         UNCHANGED <<processes, outside, records, stored, handout, handedOut, warned>>
  PROVE  ResealInv'
<1>1. Begun /\ ~reseal.encrypted
  BY DEF ResealInv, ResealPages
<1>2. UNCHANGED <<processes, directory, changes, others, records, stored, handout, handedOut,
                  warned>>
  BY DEF outside
<1>3. /\ reseal' \in ResealScreens /\ reseal'.page = reseal.page
      /\ reseal'.return = reseal.return
      /\ reseal'.busy = "no" \/ (reseal'.busy = "encrypting" /\ reseal' = reseal)
  BY DEF ResealScreens
<1>4. /\ reseal'.completed = reseal.completed /\ reseal'.encrypted = reseal.encrypted
      /\ reseal'.recorded = reseal.recorded /\ reseal'.saved = reseal.saved
  BY DEF ResealScreens
<1>5. Begun' /\ AtWork' /\ ~reseal'.completed
  BY <1>3, <1>4, ResealScreensOpen DEF AtWork, Begun
<1>6. ResealPages'
  BY <1>1, <1>2, <1>3, <1>4, <1>5 DEF ResealInv, ResealPages
<1>7. ProcessInv'
  BY <1>1, <1>2, <1>3, <1>4 DEF ResealInv, ProcessInv
<1> QED
  BY <1>1, <1>2, <1>3, <1>4, <1>5, <1>6, <1>7, QuietKeeps

LEMMA EncryptingKeeps ==
  ASSUME ResealInv, NEW f, EncryptFile(f) \/ EncryptionStops
  PROVE  ResealInv'
<1>1. /\ AtWork /\ reseal \in ResealScreens /\ reseal.busy = "encrypting"
      /\ UNCHANGED <<processes, outside, records, stored, handout, handedOut, warned>>
  BY ResealIsOpen DEF EncryptFile, EncryptionStops, AtWork, ResealInv, ResealPages
<1>2. /\ Begun /\ process \in ResealProcesses /\ DOMAIN stemFiles = Stems
      /\ \A g \in Files : StemOf[g] \in Stems
  BY <1>1, ResealIsOpen, StemsOfFiles DEF ResealInv, ResealPages, ResealTypes
<1>3. CASE EncryptFile(f)
  <2>1. f \in Files
    BY <1>2, <1>3 DEF EncryptFile, ResealProcesses
  <2>2. stemFiles' = [stemFiles EXCEPT ![StemOf[f]] = WholeFrom(f, process.number)]
    BY <1>3 DEF EncryptFile, StemFile, WholeFrom
  <2>3. process' = [process EXCEPT !.todo = @ \ {f}, !.listed = @ \cup {f},
                                   !.pending = @ \cup {StemOf[f]}]
    BY <1>3 DEF EncryptFile
  <2>4. /\ process' \in ResealProcesses /\ process'.number = process.number
        /\ process'.loaded = process.loaded /\ process'.record = process.record
        /\ process'.derived = process.derived /\ process'.missing = process.missing
        /\ process'.todo = process.todo \ {f} /\ process'.listed = process.listed \cup {f}
    BY <1>2, <2>3, <2>1 DEF ResealProcesses
  <2>5. process.derived \subseteq process.todo \cup process.listed \cup process.missing
    BY <1>1, <1>2 DEF ResealInv, ProcessInv
  <2>6. process'.derived \subseteq process'.todo \cup process'.listed \cup process'.missing
    BY <2>4, <2>5
  <2>7. WholeFiles(process.listed, process.number)
    BY <1>1, <1>2 DEF ResealInv, ProcessInv
  <2>8. WholeFiles(process.listed, process.number)'
    <3>1. ASSUME NEW g \in process'.listed,
                 \A h \in process'.listed : StemOf[h] = StemOf[g] => h = g
          PROVE  stemFiles'[StemOf[g]] = WholeFrom(g, process.number)
      <4>1. CASE g = f
        BY <1>2, <2>2, <2>1, <4>1
      <4>2. CASE g # f
        <5>1. g \in process.listed /\ StemOf[g] # StemOf[f] /\ g \in Files
          BY <1>2, <2>4, <2>1, <3>1, <4>2 DEF ResealProcesses
        <5>2. stemFiles[StemOf[g]] = WholeFrom(g, process.number)
          BY <2>4, <2>7, <3>1, <5>1 DEF WholeFiles
        <5> QED
          BY <1>2, <2>2, <5>1, <5>2
      <4> QED
        BY <4>1, <4>2
    <3> QED
      BY <2>4, <3>1 DEF WholeFiles
  <2>9. reseal' = reseal /\ DOMAIN stemFiles' = Stems
    BY <1>2, <1>3, <2>2 DEF EncryptFile
  <2> QED
    BY <1>1, <2>4, <2>6, <2>8, <2>9, EncryptionMoves
<1>4. CASE EncryptionStops
  <2>1. reseal' = [reseal EXCEPT !.busy = "no"] /\ reseal' # reseal
    BY <1>1, <1>4 DEF EncryptionStops, ResealScreens
  <2>2. /\ process' \in ResealProcesses /\ process'.number = process.number
        /\ process'.loaded = process.loaded /\ process'.record = process.record
    <3>1. CASE StopsBetween
      BY <1>2, <3>1 DEF StopsBetween
    <3>2. ASSUME NEW g \in process.todo, StopsWithin(g)
          PROVE  /\ process' \in ResealProcesses /\ process'.number = process.number
                 /\ process'.loaded = process.loaded /\ process'.record = process.record
      <4>1. StemOf[g] \in Stems
        BY <1>2 DEF ResealProcesses
      <4>2. process' = [process EXCEPT !.pending = @ \cup {StemOf[g]}]
        BY <3>2 DEF StopsWithin
      <4> QED
        BY <1>2, <4>1, <4>2 DEF ResealProcesses
    <3> QED
      BY <1>4, <3>1, <3>2 DEF EncryptionStops
  <2>3. DOMAIN stemFiles' = Stems
    BY <1>2, <1>4 DEF EncryptionStops, StopsBetween, StopsWithin
  <2> QED
    BY <1>1, <2>1, <2>2, <2>3, EncryptionMoves
<1> QED
  BY <1>3, <1>4

LEMMA EncryptionEndsKeeps ==
  ASSUME ResealInv, EncryptionEnds
  PROVE  ResealInv'
<1>1. /\ AtWork /\ reseal \in ResealScreens /\ reseal.busy = "encrypting" /\ process.todo = {}
      /\ UNCHANGED <<process, processes, directory, changes, others, stemFiles, records, stored,
                     handout, handedOut, warned>>
  BY ResealIsOpen DEF EncryptionEnds, AtWork, ResealInv, ResealPages, outside
<1>2. Begun /\ process \in ResealProcesses /\ DOMAIN stemFiles = Stems
  BY <1>1, ResealIsOpen DEF ResealInv, ResealPages, ResealTypes
<1>3. ~reseal.encrypted /\ ~reseal.recorded
  BY <1>1 DEF ResealInv, ResealPages
<1>4. PICK encrypted \in BOOLEAN : encrypted
  OBVIOUS
<1>5. reseal' = [reseal EXCEPT !.encrypted = encrypted, !.busy = "recording"]
  BY <1>4 DEF EncryptionEnds
<1>6. /\ reseal' \in ResealScreens /\ reseal'.page = reseal.page
      /\ reseal'.return = reseal.return /\ reseal'.busy = "recording"
  BY <1>1, <1>5 DEF ResealScreens
<1>7. /\ reseal'.completed = reseal.completed /\ reseal'.encrypted
      /\ reseal'.recorded = reseal.recorded /\ reseal'.saved = reseal.saved
  BY <1>1, <1>4, <1>5 DEF ResealScreens
<1>8. Begun' /\ AtWork' /\ ~reseal'.completed
  BY <1>1, <1>2, <1>6, <1>7, ResealScreensOpen DEF AtWork, Begun
<1>9. reseal.page = 5
  BY <1>1 DEF ResealInv, ResealPages
<1>10. ResealPages'
  BY <1>1, <1>2, <1>3, <1>6, <1>7, <1>8, <1>9 DEF ResealInv, ResealPages
<1>11. ProcessInv'
  BY <1>1, <1>2, <1>6, <1>7 DEF ResealInv, ProcessInv, WholeFiles
<1> QED
  BY <1>1, <1>2, <1>6, <1>7, <1>8, <1>10, <1>11, QuietKeeps

(* A failed attempt to record may leave its file; nothing else is changed. *)
LEMMA WorkFailsKeeps ==
  ASSUME ResealInv, AtWork, reseal \in ResealScreens, reseal' = [reseal EXCEPT !.busy = "no"],
         UNCHANGED <<process, processes, outside, stemFiles, records, stored, handout, handedOut,
                     warned>>
  PROVE  ResealInv'
<1>1. UNCHANGED <<process, processes, directory, changes, others, stemFiles, records, stored,
                  handout, handedOut, warned>>
  BY DEF outside
<1>2. process \in ResealProcesses \cup {NoProcess} /\ DOMAIN stemFiles = Stems
  BY DEF ResealInv, ResealTypes
<1>3. /\ reseal' \in ResealScreens /\ reseal'.page = reseal.page
      /\ reseal'.return = reseal.return /\ reseal'.busy = "no"
  BY DEF ResealScreens
<1>4. /\ reseal'.completed = reseal.completed /\ reseal'.encrypted = reseal.encrypted
      /\ reseal'.recorded = reseal.recorded /\ reseal'.saved = reseal.saved
  BY DEF ResealScreens
<1>5. Begun' = Begun /\ AtWork' /\ ~reseal'.completed
  BY <1>1, <1>3, <1>4, ResealScreensOpen DEF AtWork, Begun
<1>6. ResealPages'
  BY <1>1, <1>3, <1>4, <1>5 DEF ResealInv, ResealPages
<1>7. ProcessInv'
  BY <1>1, <1>3, <1>4, <1>5 DEF ResealInv, ProcessInv, WholeFiles
<1> QED
  BY <1>1, <1>2, <1>3, <1>4, <1>5, <1>6, <1>7, QuietKeeps

(* A new record continues the loaded one and outranks the stored one. *)
LEMMA NewRecordKeeps ==
  ASSUME ResealInv, AtWork, reseal \in ResealScreens, reseal.busy = "recording",
         NEW recorded \in BOOLEAN,
         reseal' = [reseal EXCEPT !.recorded = recorded, !.busy = "no"],
         records' = records \cup {NewRecord},
         recorded => process' = [process EXCEPT !.record = NewRecord],
         ~recorded => process' = process,
         UNCHANGED <<processes, outside, stemFiles, stored, handout, handedOut, warned>>
  PROVE  ResealInv'
<1>1. UNCHANGED <<processes, directory, changes, others, stemFiles, stored, handout, handedOut,
                  warned>>
  BY DEF outside
<1>2. /\ Begun /\ process \in ResealProcesses /\ DOMAIN stemFiles = Stems
      /\ process.number = processes /\ process.loaded \in ResealRecords
      /\ processes \in Nat \ {0} /\ others \in Nat /\ Stored \in ResealRecords
      /\ Stored \in records
  BY ResealIsOpen DEF ResealInv, ResealPages, ResealTypes, ResealProcesses, Stored
<1>3. reseal.encrypted /\ ~reseal.recorded /\ ~reseal.saved
  BY DEF ResealInv, ResealPages
<1>4. /\ LargerGeneration \in Nat /\ Stored.generation \in Nat
      /\ Stored.generation <= LargerGeneration
  BY <1>2 DEF LargerGeneration, ResealRecords
<1>5. PICK new \in ResealRecords :
        /\ new = NewRecord /\ new.process = processes
        /\ new.history = Append(process.loaded.history, processes)
        /\ new.generation = LargerGeneration + 1 /\ new.files = process.listed
        /\ new.derived = process.derived /\ new.missing = process.missing
  <2>1. /\ Append(process.loaded.history, process.number) \in Seq(Int)
        /\ NextGeneration = LargerGeneration + 1 /\ NextGeneration \in Nat
    BY <1>2, <1>4 DEF ResealRecords, NextGeneration
  <2>2. NewRecord \in ResealRecords
    BY <1>2, <2>1 DEF NewRecord, ResealRecords, ResealProcesses
  <2> QED
    BY <1>2, <2>1, <2>2 DEF NewRecord
<1>6. /\ reseal' \in ResealScreens /\ reseal'.page = reseal.page
      /\ reseal'.return = reseal.return /\ reseal'.busy = "no"
  BY DEF ResealScreens
<1>7. /\ reseal'.completed = reseal.completed /\ reseal'.encrypted = reseal.encrypted
      /\ reseal'.recorded = recorded /\ reseal'.saved = reseal.saved
  BY DEF ResealScreens
<1>8. /\ process' \in ResealProcesses /\ process'.number = process.number
      /\ process'.loaded = process.loaded /\ process'.derived = process.derived
      /\ process'.todo = process.todo /\ process'.missing = process.missing
      /\ process'.listed = process.listed /\ (recorded => process'.record = new)
  <2>1. process' = [process EXCEPT !.record = new] \/ (process' = process /\ ~recorded)
    BY <1>5
  <2> QED
    BY <1>2, <2>1 DEF ResealProcesses
<1>9. Begun' /\ AtWork' /\ ~reseal'.completed
  BY <1>6, <1>7, <1>8, ResealScreensOpen DEF AtWork, Begun
<1>10. /\ Stored' = Stored /\ LargerGeneration' = LargerGeneration
       /\ SavedProcesses' = SavedProcesses /\ records' = records \cup {new}
  BY <1>1, <1>5, <1>8 DEF Stored, LargerGeneration, SavedProcesses
<1>11. ResealTypes'
  BY <1>1, <1>5, <1>6, <1>8, <1>10 DEF ResealInv, ResealTypes
<1>12. ResealPages'
  BY <1>1, <1>3, <1>6, <1>7, <1>9 DEF ResealInv, ResealPages
<1>13. ProcessInv'
  BY <1>1, <1>2, <1>6, <1>7, <1>8 DEF ResealInv, ProcessInv, WholeFiles
<1>14. OwnRecords'
  <2>1. \A r : IsOwn(r)' <=> IsOwn(r)
    BY <1>1 DEF IsOwn
  <2> QED
    BY <1>2, <1>3, <1>5, <1>7, <1>8, <1>10, <1>1, <2>1 DEF ResealInv, OwnRecords
<1>15. RecordsInv'
  <2>1. ASSUME NEW r \in records PROVE RecordHolds(r)'
    BY <1>1 DEF ResealInv, RecordsInv, RecordHolds, WholeFiles
  <2>2. RecordHolds(new)'
    <3>1. new.derived \subseteq new.files \cup new.missing
      BY <1>2, <1>3, <1>5 DEF ResealInv, ProcessInv
    <3>2. WholeFiles(new.files, new.process)'
      BY <1>1, <1>2, <1>3, <1>5 DEF ResealInv, ProcessInv, WholeFiles
    <3>3. \A i \in 1 .. Len(new.history) : -others <= new.history[i] /\ new.history[i] <= processes
      <4>1. /\ process.loaded.history \in Seq(Int)
            /\ \A i \in 1 .. Len(process.loaded.history) :
                 /\ process.loaded.history[i] \in Int /\ -others <= process.loaded.history[i]
                 /\ process.loaded.history[i] < processes
        <5>1. process.loaded.history \in Seq(Int)
          BY <1>2 DEF ResealRecords
        <5>2. \A i \in 1 .. Len(process.loaded.history) :
                -others <= process.loaded.history[i] /\ process.loaded.history[i] < processes
          BY <1>2 DEF ResealInv, ProcessInv
        <5> QED
          BY <5>1, <5>2
      <4>2. /\ Len(new.history) = Len(process.loaded.history) + 1
            /\ new.history[Len(process.loaded.history) + 1] = processes
            /\ \A i \in 1 .. Len(process.loaded.history) :
                 new.history[i] = process.loaded.history[i]
        BY <1>2, <1>5, <4>1, AppendProperties
      <4>3. PICK len \in Nat, own \in Nat, low \in Nat :
              len = Len(process.loaded.history) /\ own = processes /\ low = others
        BY <1>2, <4>1
      <4>4. ASSUME NEW i \in 1 .. len + 1
            PROVE  -low <= new.history[i] /\ new.history[i] <= own
        <5>1. CASE i = len + 1
          BY <4>2, <4>3, <5>1
        <5>2. CASE i # len + 1
          <6>1. i \in 1 .. len
            BY <5>2
          <6>2. PICK e \in Int : e = new.history[i] /\ -low <= e /\ e < own
            BY <4>1, <4>2, <4>3, <6>1
          <6> QED
            BY <6>2
        <5> QED
          BY <5>1, <5>2
      <4> QED
        BY <4>2, <4>3, <4>4
    <3> QED
      BY <1>1, <1>2, <1>5, <3>1, <3>2, <3>3 DEF RecordHolds
  <2>3. Outranks(new, Stored)
    BY <1>4, <1>5 DEF Outranks
  <2> QED
    BY <1>10, <2>1, <2>2, <2>3 DEF ResealInv, RecordsInv
<1>16. StoreInv'
  BY <1>1 DEF ResealInv, StoreInv
<1>17. HandoutInv'
  <2>1. handout.split = 0 /\ ~reseal'.saved
    BY <1>3, <1>7 DEF ResealInv, HandoutInv
  <2> QED
    BY <1>1, <1>2, <1>9, <1>10, <2>1 DEF ResealInv, HandoutInv
<1> QED
  BY <1>11, <1>12, <1>13, <1>14, <1>15, <1>16, <1>17 DEF ResealInv

LEMMA RecordingKeeps ==
  ASSUME ResealInv, BuildNewRecord \/ RecordFails \/ SaveFails
  PROVE  ResealInv'
<1>1. AtWork /\ reseal \in ResealScreens
  BY ResealIsOpen DEF BuildNewRecord, RecordFails, SaveFails, AtWork, ResealInv, ResealPages
<1>2. PICK yes \in BOOLEAN, no \in BOOLEAN : yes /\ ~no
  OBVIOUS
<1>3. CASE BuildNewRecord
  <2>1. reseal' = [reseal EXCEPT !.recorded = yes, !.busy = "no"]
    BY <1>2, <1>3 DEF BuildNewRecord
  <2> QED
    BY <1>1, <1>2, <1>3, <2>1, NewRecordKeeps DEF BuildNewRecord
<1>4. CASE RecordFails
  <2>1. CASE UNCHANGED records
    BY <1>1, <1>4, <2>1, WorkFailsKeeps DEF RecordFails
  <2>2. CASE records' = records \cup {NewRecord}
    <3>1. ~reseal.recorded
      BY <1>1, <1>4 DEF RecordFails, ResealInv, ResealPages
    <3>2. reseal' = [reseal EXCEPT !.recorded = no, !.busy = "no"]
      BY <1>1, <1>2, <1>4, <3>1 DEF RecordFails, ResealScreens
    <3> QED
      BY <1>1, <1>2, <1>4, <2>2, <3>2, NewRecordKeeps DEF RecordFails
  <2> QED
    BY <1>4, <2>1, <2>2 DEF RecordFails
<1>5. CASE SaveFails
  BY <1>1, <1>5, WorkFailsKeeps DEF SaveFails
<1> QED
  BY <1>3, <1>4, <1>5

(* A step outside the wizard's screen, process, records and store. *)
LEMMA ScreenKeeps ==
  ASSUME ResealInv,
         UNCHANGED <<reseal, process, processes, stemFiles, records, stored, others>>
  PROVE  /\ ProcessInv' /\ OwnRecords' /\ RecordsInv' /\ StoreInv'
         /\ Begun' = Begun /\ AtWork' = AtWork /\ SavedProcesses' = SavedProcesses
<1>1. Stored' = Stored /\ LargerGeneration' = LargerGeneration
  BY DEF Stored, LargerGeneration
<1>2. \A r : (IsOwn(r)' <=> IsOwn(r)) /\ (RecordHolds(r)' <=> RecordHolds(r))
  BY DEF IsOwn, RecordHolds, WholeFiles
<1>3. ProcessInv'
  BY DEF ResealInv, ProcessInv, Begun, WholeFiles
<1>4. OwnRecords'
  BY <1>1, <1>2 DEF ResealInv, OwnRecords, Begun
<1>5. RecordsInv'
  BY <1>1, <1>2 DEF ResealInv, RecordsInv
<1>6. StoreInv'
  BY DEF ResealInv, StoreInv
<1> QED
  BY <1>3, <1>4, <1>5, <1>6 DEF Begun, AtWork, SavedProcesses

LEMMA SharesKeep ==
  ASSUME ResealInv, NEW i \in {1, 2}, SplitNewKey \/ SaveNewShare(i)
  PROVE  ResealInv'
<1>1. /\ reseal # NoWizard /\ reseal.page = 7
      /\ UNCHANGED <<reseal, process, processes, directory, changes, others, stemFiles, records,
                     stored, warned>>
  BY ResealIsOpen DEF SplitNewKey, SaveNewShare, Following, Free, NotBusy, outside
<1>2. /\ Begun /\ AtWork /\ process.number = processes /\ processes \in Nat \ {0}
      /\ reseal.recorded /\ handout \in [split : Nat, inFiles : SUBSET {1, 2}]
  <2>1. AtWork
    <3>1. CASE SplitNewKey
      BY <1>1, <3>1 DEF SplitNewKey, Following, Free, AtWork
    <3>2. CASE SaveNewShare(i)
      BY <1>1, <3>2 DEF SaveNewShare, AtWork, ResealInv, ResealPages, NoHandout
    <3> QED
      BY <3>1, <3>2
  <2>2. Begun /\ reseal.recorded
    BY <1>1, <2>1 DEF ResealInv, ResealPages
  <2> QED
    BY <2>1, <2>2, ResealIsOpen DEF ResealInv, ResealTypes, ResealProcesses
<1>3. CASE SplitNewKey
  <2>1. /\ handout' = [split |-> processes, inFiles |-> {}] /\ handout.split = 0
        /\ handedOut' = handedOut /\ reseal.return = 0
    BY <1>2, <1>3 DEF SplitNewKey, Following
  <2>2. handout' \in [split : Nat, inFiles : SUBSET {1, 2}]
    BY <1>2, <2>1
  <2>3. handout'.split = processes /\ handout'.inFiles = {}
    BY <2>1
  <2>4. ResealTypes'
    BY <1>1, <2>1, <2>2 DEF ResealInv, ResealTypes, Stems
  <2>5. ResealPages'
    <3>1. reseal.page # 8 /\ reseal.return # 8
      BY <1>1, <2>1
    <3> QED
      BY <1>1, <1>2, <3>1, ScreenKeeps DEF ResealInv, ResealPages
  <2>6. HandoutInv'
    BY <1>1, <1>2, <2>1, <2>3, ScreenKeeps DEF ResealInv, HandoutInv
  <2> QED
    BY <1>1, <2>4, <2>5, <2>6, ScreenKeeps DEF ResealInv
<1>4. CASE SaveNewShare(i)
  <2>1. /\ handout' = [handout EXCEPT !.inFiles = @ \cup {i}] /\ handout.split = processes
        /\ handedOut' = handedOut \cup {<<processes, i>>}
    BY <1>2, <1>4 DEF SaveNewShare, ResealInv, HandoutInv
  <2>2. /\ handout' \in [split : Nat, inFiles : SUBSET {1, 2}]
        /\ handout'.split = processes /\ handout'.inFiles = handout.inFiles \cup {i}
    BY <1>2, <2>1
  <2>3. handedOut' \subseteq Nat \X {1, 2}
    BY <1>2, <2>1 DEF ResealInv, ResealTypes
  <2>4. ResealTypes'
    BY <1>1, <2>2, <2>3 DEF ResealInv, ResealTypes, Stems
  <2>5. ResealPages'
    <3>1. handout.inFiles = {1, 2} => handout'.inFiles = {1, 2}
      BY <2>2
    <3> QED
      BY <1>1, <1>2, <3>1, ScreenKeeps DEF ResealInv, ResealPages
  <2>6. HandoutInv'
    <3>1. \A j \in handout'.inFiles : <<processes, j>> \in handedOut'
      BY <2>1, <2>2 DEF ResealInv, HandoutInv
    <3>2. \A share \in handedOut' :
            /\ share[1] <= processes
            /\ \/ share[1] \in SavedProcesses \/ share[1] \in warned
               \/ Begun /\ processes = share[1]
      BY <1>2, <2>1 DEF ResealInv, HandoutInv
    <3>3. \A p \in SavedProcesses : p # 0 => <<p, 1>> \in handedOut' /\ <<p, 2>> \in handedOut'
      BY <2>1 DEF ResealInv, HandoutInv
    <3>4. Begun /\ reseal.saved => processes \in SavedProcesses
      BY DEF ResealInv, HandoutInv
    <3> QED
      BY <1>1, <1>2, <2>2, <3>1, <3>2, <3>3, <3>4, ScreenKeeps DEF HandoutInv
  <2> QED
    BY <1>1, <2>4, <2>5, <2>6, ScreenKeeps DEF ResealInv
<1> QED
  BY <1>3, <1>4

LEMMA DirectoryKeeps ==
  ASSUME ResealInv, NEW f \in Files, ChangeDirectory(f)
  PROVE  ResealInv'
<1>1. /\ directory' \subseteq Files
      /\ UNCHANGED <<reseal, process, processes, others, stemFiles, records, stored, handout,
                     handedOut, warned>>
  BY DEF ChangeDirectory, ResealInv, ResealTypes
<1>2. ResealTypes'
  BY <1>1 DEF ResealInv, ResealTypes, Stems
<1>3. ResealPages'
  BY <1>1, ScreenKeeps DEF ResealInv, ResealPages
<1>4. HandoutInv'
  BY <1>1, ScreenKeeps DEF ResealInv, HandoutInv
<1> QED
  BY <1>1, <1>2, <1>3, <1>4, ScreenKeeps DEF ResealInv

LEMMA SaveResealKeeps ==
  ASSUME ResealInv, SaveReseal
  PROVE  ResealInv'
<1>1. /\ AtWork /\ reseal \in ResealScreens /\ reseal.busy = "saving"
      /\ UNCHANGED <<process, processes, directory, changes, others, stemFiles, records, handout,
                     handedOut, warned>>
  BY ResealIsOpen DEF SaveReseal, AtWork, ResealInv, ResealPages, outside
<1>2. /\ reseal.page = 8 /\ handout.inFiles = {1, 2} /\ ~reseal.saved /\ reseal.recorded
      /\ reseal.encrypted /\ Begun
  BY <1>1 DEF ResealInv, ResealPages
<1>3. PICK record \in records :
        /\ record = process.record /\ record.process = processes
        /\ IsPrefix(Stored.history, record.history) /\ stored' = Append(stored, record)
  BY <1>2 DEF SaveReseal, ResealInv, OwnRecords
<1>4. /\ record \in ResealRecords /\ DOMAIN stemFiles = Stems /\ process \in ResealProcesses
      /\ processes \in Nat \ {0} /\ handout.split = processes
  BY <1>2, ResealIsOpen DEF ResealInv, ResealTypes, ResealProcesses, HandoutInv
<1>5. Outranks(record, Stored) /\ IsOwn(record)
  BY <1>3 DEF ResealInv, RecordsInv, IsOwn
<1>6. /\ StoreInv' /\ Stored' = record /\ SavedProcesses' = SavedProcesses \cup {processes}
      /\ stored' \in Seq(ResealRecords) /\ Len(stored') > 0
      /\ \A k \in 1 .. Len(stored') : stored'[k] \in records
  BY <1>3, <1>4, <1>5, StoreGrows
<1>7. PICK saved \in BOOLEAN : saved
  OBVIOUS
<1>8. reseal' = [reseal EXCEPT !.saved = saved, !.busy = "no"]
  BY <1>7 DEF SaveReseal
<1>9. /\ reseal' \in ResealScreens /\ reseal'.page = reseal.page
      /\ reseal'.return = reseal.return /\ reseal'.busy = "no"
  BY <1>1, <1>8 DEF ResealScreens
<1>10. /\ reseal'.completed = reseal.completed /\ reseal'.encrypted = reseal.encrypted
       /\ reseal'.recorded = reseal.recorded /\ reseal'.saved
  BY <1>1, <1>7, <1>8 DEF ResealScreens
<1>11. Begun' /\ AtWork'
  BY <1>1, <1>2, <1>9, <1>10, ResealScreensOpen DEF AtWork, Begun
<1>12. ResealTypes'
  BY <1>1, <1>6, <1>9 DEF ResealInv, ResealTypes, Stems
<1>13. ResealPages'
  BY <1>1, <1>2, <1>9, <1>10, <1>11 DEF ResealInv, ResealPages
<1>14. ProcessInv'
  BY <1>1, <1>2, <1>9, <1>10 DEF ResealInv, ProcessInv, WholeFiles
<1>15. \A r : (IsOwn(r)' <=> IsOwn(r)) /\ (RecordHolds(r)' <=> RecordHolds(r))
  BY <1>1 DEF IsOwn, RecordHolds, WholeFiles
<1>16. OwnRecords'
  BY <1>1, <1>2, <1>10, <1>15 DEF ResealInv, OwnRecords
<1>17. RecordsInv'
  <2>1. ASSUME NEW r \in records, IsPrefix(record.history, r.history)
        PROVE  Outranks(r, record)
    <3>1. /\ record.history = Append(process.loaded.history, processes)
          /\ record.generation = LargerGeneration + 1
      BY <1>2, <1>3, <1>5 DEF ResealInv, OwnRecords
    <3>2. r \in ResealRecords /\ r.history \in Seq(Int) /\ record.history \in Seq(Int)
      BY <1>4 DEF ResealInv, ResealTypes, ResealRecords
    <3>3. PICK i \in 1 .. Len(record.history) : record.history[i] = processes
      <4>1. process.loaded.history \in Seq(Int) /\ processes \in Int
        BY <1>4 DEF ResealProcesses, ResealRecords
      <4>2. /\ Len(record.history) = Len(process.loaded.history) + 1
            /\ record.history[Len(process.loaded.history) + 1] = processes
        BY <3>1, <4>1, AppendProperties
      <4>3. Len(process.loaded.history) + 1 \in 1 .. Len(record.history)
        BY <4>1, <4>2
      <4> QED
        BY <4>2, <4>3
    <3>4. i \in 1 .. Len(r.history) /\ r.history[i] = processes
      BY <2>1, <3>2, <3>3, PrefixElements
    <3>5. IsOwn(r)
      BY <3>4 DEF IsOwn
    <3>6. r.process = processes /\ r.history = record.history
      BY <1>2, <3>1, <3>5 DEF ResealInv, OwnRecords
    <3>7. r.generation = LargerGeneration + 1
      BY <1>2, <1>3, <3>5, <3>6 DEF ResealInv, OwnRecords
    <3>8. r.generation \in Nat /\ record.generation \in Nat
      BY <1>4, <3>2 DEF ResealRecords
    <3> QED
      BY <1>3, <3>1, <3>6, <3>7, <3>8 DEF Outranks
  <2> QED
    BY <1>1, <1>6, <1>15, <2>1 DEF ResealInv, RecordsInv
<1>18. HandoutInv'
  <2>1. <<processes, 1>> \in handedOut /\ <<processes, 2>> \in handedOut
    BY <1>2, <1>4 DEF ResealInv, HandoutInv
  <2>2. \A p \in SavedProcesses' : p # 0 => <<p, 1>> \in handedOut /\ <<p, 2>> \in handedOut
    BY <1>6, <2>1 DEF ResealInv, HandoutInv
  <2>3. \A share \in handedOut :
          /\ share[1] <= processes
          /\ \/ share[1] \in SavedProcesses' \/ share[1] \in warned
             \/ Begun /\ processes = share[1]
    BY <1>6 DEF ResealInv, HandoutInv
  <2>4. \A j \in handout.inFiles : <<handout.split, j>> \in handedOut
    BY DEF ResealInv, HandoutInv
  <2>5. processes \in SavedProcesses'
    BY <1>6
  <2> QED
    BY <1>1, <1>2, <1>4, <1>10, <1>11, <2>2, <2>3, <2>4, <2>5 DEF HandoutInv
<1> QED
  BY <1>6, <1>12, <1>13, <1>14, <1>16, <1>17, <1>18 DEF ResealInv

(* The process goes: its shares are those of a saved reseal, or it was      *)
(* left after the warning.                                                  *)
LEMMA DroppingKeeps ==
  ASSUME ResealInv, reseal # NoWizard, reseal.busy = "no", reseal' \in ResealScreens \cup {NoWizard},
         ~AtWork', reseal' # NoWizard => reseal'.busy = "no",
         process' = NoProcess, handout' = NoHandout, DOMAIN stemFiles' = Stems,
         stemFiles' = stemFiles \/ (Begun /\ ~reseal.encrypted), warned \subseteq warned',
         handout.split # 0 => processes \in SavedProcesses \/ processes \in warned',
         UNCHANGED <<processes, outside, records, stored, handedOut>>
  PROVE  ResealInv'
<1>1. UNCHANGED <<processes, directory, changes, others, records, stored, handedOut>>
  BY DEF outside
<1>2. ~Begun'
  BY DEF Begun
<1>3. handout'.split = 0 /\ handout'.inFiles = {}
  BY DEF NoHandout
<1>4. Stored' = Stored /\ SavedProcesses' = SavedProcesses
  BY <1>1 DEF Stored, SavedProcesses
<1>5. ResealTypes'
  <2>1. NoHandout \in [split : Nat, inFiles : SUBSET {1, 2}]
    BY DEF NoHandout
  <2> QED
    BY <1>1, <2>1 DEF ResealInv, ResealTypes, Stems
<1>6. ResealPages'
  BY <1>2 DEF ResealPages
<1>7. ProcessInv' /\ OwnRecords'
  BY <1>2 DEF ProcessInv, OwnRecords
<1>8. RecordsInv'
  <2>1. ASSUME NEW r \in records PROVE RecordHolds(r)'
    <3>1. RecordHolds(r)
      BY DEF ResealInv, RecordsInv
    <3>2. stemFiles' = stemFiles \/ r.process # processes
      BY DEF ResealInv, OwnRecords, IsOwn
    <3> QED
      BY <1>1, <3>1, <3>2 DEF RecordHolds, WholeFiles
  <2> QED
    BY <1>1, <1>4, <2>1 DEF ResealInv, RecordsInv
<1>9. StoreInv'
  BY <1>1 DEF ResealInv, StoreInv
<1>10. HandoutInv'
  <2>1. ASSUME NEW share \in handedOut
        PROVE  share[1] <= processes /\ (share[1] \in SavedProcesses \/ share[1] \in warned')
    <3>1. share[1] <= processes
      BY DEF ResealInv, HandoutInv
    <3>2. CASE Begun /\ processes = share[1]
      <4>1. processes # 0
        BY <3>2, ResealIsOpen DEF ResealProcesses
      <4> QED
        BY <3>1, <3>2, <4>1 DEF ResealInv, HandoutInv
    <3>3. CASE ~(Begun /\ processes = share[1])
      BY <3>1, <3>3 DEF ResealInv, HandoutInv
    <3> QED
      BY <3>2, <3>3
  <2>2. \A p \in SavedProcesses : p # 0 => <<p, 1>> \in handedOut /\ <<p, 2>> \in handedOut
    BY DEF ResealInv, HandoutInv
  <2> QED
    BY <1>1, <1>2, <1>3, <1>4, <2>1, <2>2 DEF HandoutInv
<1> QED
  BY <1>5, <1>6, <1>7, <1>8, <1>9, <1>10 DEF ResealInv

LEMMA LeavingResealKeeps ==
  ASSUME ResealInv, LeaveReseal \/ CompleteReseal
  PROVE  ResealInv'
<1>1. reseal # NoWizard /\ reseal \in ResealScreens /\ reseal.busy = "no"
  BY ResealIsOpen DEF LeaveReseal, CompleteReseal, Following, Free, NotBusy
<1>2. DOMAIN stemFiles = Stems
  BY DEF ResealInv, ResealTypes
<1>3. /\ handout.split # 0 => Begun /\ reseal.recorded /\ handout.split = processes
      /\ Begun /\ reseal.saved => processes \in SavedProcesses
  BY DEF ResealInv, HandoutInv
<1>4. CASE LeaveReseal
  <2>1. /\ reseal' = NoWizard /\ process' = NoProcess /\ handout' = NoHandout
        /\ UNCHANGED <<processes, outside, records, stored, handedOut>>
        /\ stemFiles' = RemovePending \/ UNCHANGED stemFiles
        /\ warned' = IF AsksFirst THEN warned \cup {process.number} ELSE warned
    BY <1>4 DEF LeaveReseal, CloseReseal
  <2>2. DOMAIN stemFiles' = Stems /\ (stemFiles' = stemFiles \/ (Begun /\ ~reseal.encrypted))
    BY <1>2, <2>1, ResealIsOpen DEF RemovePending
  <2>3. warned \subseteq warned' /\ (AsksFirst => process.number \in warned')
    BY <2>1
  <2>4. handout.split # 0 => processes \in SavedProcesses \/ processes \in warned'
    BY <1>3, <2>3, ResealIsOpen DEF AsksFirst
  <2>5. ~AtWork'
    BY <2>1 DEF AtWork
  <2> QED
    BY <1>1, <2>1, <2>2, <2>3, <2>4, <2>5, DroppingKeeps
<1>5. CASE CompleteReseal
  <2>1. PICK yes \in BOOLEAN : yes
    OBVIOUS
  <2>2. reseal' = [reseal EXCEPT !.completed = yes]
    BY <1>5, <2>1 DEF CompleteReseal
  <2>3. reseal' \in ResealScreens /\ reseal'.busy = "no"
    BY <1>1, <2>2 DEF ResealScreens
  <2>4. ~AtWork'
    BY <1>1, <2>1, <2>2 DEF AtWork, ResealScreens
  <2>5. handout.split # 0 => processes \in SavedProcesses
    BY <1>3, <1>5 DEF CompleteReseal
  <2> QED
    BY <1>1, <1>2, <1>5, <2>3, <2>4, <2>5, DroppingKeeps DEF CompleteReseal
<1> QED
  BY <1>4, <1>5

LEMMA OpenResealKeeps ==
  ASSUME ResealInv, OpenReseal
  PROVE  ResealInv'
<1>1. /\ reseal = NoWizard /\ reseal' = NewWizard
      /\ UNCHANGED <<process, processes, directory, changes, others, stemFiles, records, stored,
                     handout, handedOut, warned>>
  BY ResealIsOpen DEF OpenReseal, outside
<1>2. ~Begun /\ ~Begun' /\ handout = NoHandout
  BY <1>1 DEF ResealInv, ResealPages, AtWork, Begun
<1>3. PICK page \in 1 .. 8, return \in 0 .. 8 : page = 1 /\ return = 0
  OBVIOUS
<1>4. PICK open \in {TRUE} : open
  OBVIOUS
<1>5. PICK no \in BOOLEAN : ~no
  OBVIOUS
<1>6. reseal' = [open |-> open, page |-> page, return |-> return, busy |-> "no", failed |-> no,
                 encrypted |-> no, recorded |-> no, saved |-> no, completed |-> no]
  BY <1>1, <1>3, <1>4, <1>5 DEF NewWizard
<1>7. /\ reseal' \in ResealScreens /\ reseal'.page = page /\ reseal'.return = return
      /\ reseal'.busy = "no"
  BY <1>6 DEF ResealScreens
<1>8. ~reseal'.encrypted /\ ~reseal'.recorded /\ ~reseal'.saved /\ ~reseal'.completed
  BY <1>6, <1>5
<1>9. AtWork'
  BY <1>7, <1>8, ResealScreensOpen DEF AtWork
<1>10. ResealTypes'
  BY <1>1, <1>7 DEF ResealInv, ResealTypes, Stems
<1>11. ResealPages'
  BY <1>3, <1>7, <1>8, <1>9 DEF ResealPages
<1>12. ProcessInv' /\ OwnRecords'
  BY <1>2 DEF ProcessInv, OwnRecords
<1>13. RecordsInv'
  <2>1. Stored' = Stored
    BY <1>1 DEF Stored
  <2>2. \A r : RecordHolds(r)' <=> RecordHolds(r)
    BY <1>1 DEF RecordHolds, WholeFiles
  <2> QED
    BY <1>1, <2>1, <2>2 DEF ResealInv, RecordsInv
<1>14. StoreInv'
  BY <1>1 DEF ResealInv, StoreInv
<1>15. HandoutInv'
  <2>1. SavedProcesses' = SavedProcesses /\ handout.split = 0
    BY <1>1, <1>2 DEF SavedProcesses, NoHandout
  <2> QED
    BY <1>1, <1>2, <2>1 DEF ResealInv, HandoutInv
<1> QED
  BY <1>10, <1>11, <1>12, <1>13, <1>14, <1>15 DEF ResealInv

(* The event of another view: nothing made before continues it. *)
LEMMA OtherEventKeeps ==
  ASSUME ResealInv, NEW record \in records, OtherEvent(record)
  PROVE  ResealInv'
<1>1. /\ UNCHANGED <<reseal, process, processes, directory, changes, stemFiles, handout,
                     handedOut, warned>>
      /\ others' = others + 1 /\ others \in Nat /\ processes \in Nat
      /\ record \in ResealRecords /\ record.history \in Seq(Int) /\ record.process \in Nat
      /\ record.process # process.number
      /\ record.process # 0 => BothHandedOut(record.process)
  BY DEF OtherEvent, ResealInv, ResealTypes, ResealRecords
<1>2. PICK fresh \in Int : fresh = -(others + 1) /\ fresh < -others /\ fresh # processes
                           /\ fresh <= processes /\ fresh = -others'
  BY <1>1
<1>3. PICK after \in ResealRecords :
        /\ stored' = Append(stored, after) /\ records' = records \cup {after}
        /\ after.history = Append(record.history, fresh)
        /\ after.generation = record.generation /\ after.files = record.files
        /\ after.derived = record.derived /\ after.missing = record.missing
        /\ after.process = record.process
  <2> DEFINE next == [record EXCEPT !.history = Append(record.history, fresh)]
  <2>1. stored' = Append(stored, next) /\ records' = records \cup {next}
    BY <1>2 DEF OtherEvent
  <2>2. Append(record.history, fresh) \in Seq(Int)
    BY <1>1, AppendProperties
  <2>3. /\ next \in ResealRecords /\ next.history = Append(record.history, fresh)
        /\ next.generation = record.generation /\ next.files = record.files
        /\ next.derived = record.derived /\ next.missing = record.missing
        /\ next.process = record.process
    BY <1>1, <2>2 DEF ResealRecords
  <2> HIDE DEF next
  <2> QED
    BY <2>1, <2>3
<1>4. /\ Len(record.history) \in Nat /\ Len(after.history) = Len(record.history) + 1
      /\ after.history[Len(record.history) + 1] = fresh
      /\ \A i \in 1 .. Len(record.history) : after.history[i] = record.history[i]
      /\ after.history \in Seq(Int)
  BY <1>1, <1>3, AppendProperties
<1>5. Outranks(record, Stored)
  BY DEF OtherEvent, ResealInv, RecordsInv
<1>6. Outranks(after, Stored)
  BY <1>3, <1>5 DEF Outranks
<1>7. /\ StoreInv' /\ Stored' = after /\ SavedProcesses' = SavedProcesses \cup {record.process}
      /\ stored' \in Seq(ResealRecords) /\ Len(stored') > 0
      /\ \A k \in 1 .. Len(stored') : stored'[k] \in records'
  BY <1>3, <1>6, StoreGrows
<1>8. ASSUME NEW r \in records PROVE ~IsPrefix(after.history, r.history)
  <2>1. SUFFICES ASSUME IsPrefix(after.history, r.history) PROVE FALSE
    OBVIOUS
  <2>2. r.history \in Seq(Int)
    BY DEF ResealInv, ResealTypes, ResealRecords
  <2>3. PICK i \in 1 .. Len(after.history) : after.history[i] = fresh
    BY <1>4
  <2>4. i \in 1 .. Len(r.history) /\ r.history[i] = fresh
    BY <1>4, <2>1, <2>2, <2>3, PrefixElements
  <2>5. -others <= r.history[i]
    BY <2>4 DEF ResealInv, RecordsInv, RecordHolds
  <2> QED
    BY <1>1, <1>2, <2>4, <2>5
<1>9. \A h \in Int : -others <= h => -others' <= h
  BY <1>1
<1>10. ASSUME NEW r \in records PROVE RecordHolds(r)'
  <2>1. RecordHolds(r) /\ r.history \in Seq(Int)
    BY DEF ResealInv, RecordsInv, ResealTypes, ResealRecords
  <2>2. \A i \in 1 .. Len(r.history) : r.history[i] \in Int
    BY <2>1
  <2> QED
    BY <1>1, <1>9, <2>1, <2>2 DEF RecordHolds, WholeFiles
<1>11. RecordHolds(after)'
  <2>1. RecordHolds(record)'
    BY <1>10
  <2>2. ASSUME NEW i \in 1 .. Len(after.history)
        PROVE  -others' <= after.history[i] /\ after.history[i] <= processes
    <3>1. CASE i = Len(record.history) + 1
      BY <1>1, <1>2, <1>4, <3>1
    <3>2. CASE i # Len(record.history) + 1
      <4>1. i \in 1 .. Len(record.history)
        BY <1>4, <3>2
      <4> QED
        BY <1>1, <1>4, <2>1, <4>1 DEF RecordHolds
    <3> QED
      BY <3>1, <3>2
  <2> QED
    BY <1>1, <1>3, <2>1, <2>2 DEF RecordHolds, WholeFiles
<1>12. RecordsInv'
  <2>1. after.generation \in Nat
    BY DEF ResealRecords
  <2>2. Outranks(after, after)
    BY <2>1 DEF Outranks
  <2> QED
    BY <1>3, <1>7, <1>8, <1>10, <1>11, <2>2 DEF RecordsInv
<1>13. ProcessInv'
  <2>1. ASSUME Begun
        PROVE  \A i \in 1 .. Len(process.loaded.history) :
                 -others' <= process.loaded.history[i] /\ process.loaded.history[i] < processes
    <3>1. process.loaded.history \in Seq(Int)
      BY <2>1, ResealIsOpen DEF ResealProcesses, ResealRecords
    <3>2. \A i \in 1 .. Len(process.loaded.history) : process.loaded.history[i] \in Int
      BY <3>1
    <3> QED
      BY <1>9, <2>1, <3>2 DEF ResealInv, ProcessInv
  <2> QED
    BY <1>1, <2>1 DEF ResealInv, ProcessInv, WholeFiles, Begun
<1>14. OwnRecords'
  <2>1. ASSUME Begun PROVE ~IsOwn(record) /\ ~IsOwn(after) /\ record.process # processes
    <3>1. record.process # processes
      BY <1>1, <2>1, ResealIsOpen
    <3>2. ~IsOwn(record)
      BY <2>1, <3>1 DEF ResealInv, OwnRecords
    <3>3. ASSUME NEW i \in 1 .. Len(after.history) PROVE after.history[i] # processes
      <4>1. CASE i = Len(record.history) + 1
        BY <1>2, <1>4, <4>1
      <4>2. CASE i # Len(record.history) + 1
        <5>1. i \in 1 .. Len(record.history)
          BY <1>4, <4>2
        <5> QED
          BY <1>4, <3>2, <5>1 DEF IsOwn
      <4> QED
        BY <4>1, <4>2
    <3> QED
      BY <1>3, <3>1, <3>2, <3>3 DEF IsOwn
  <2>2. \A r : IsOwn(r)' <=> IsOwn(r)
    BY <1>1 DEF IsOwn
  <2>3. Begun' = Begun
    BY <1>1 DEF Begun
  <2> QED
    BY <1>1, <1>3, <1>7, <1>8, <2>1, <2>2, <2>3 DEF ResealInv, OwnRecords
<1>15. ResealTypes'
  BY <1>1, <1>3, <1>7 DEF ResealInv, ResealTypes, Stems
<1>16. ResealPages'
  BY <1>1 DEF ResealInv, ResealPages, AtWork, Begun
<1>17. HandoutInv'
  <2>1. \A p \in SavedProcesses' : p # 0 => <<p, 1>> \in handedOut /\ <<p, 2>> \in handedOut
    BY <1>1, <1>7 DEF ResealInv, HandoutInv, BothHandedOut
  <2>2. Begun' = Begun
    BY <1>1 DEF Begun
  <2> QED
    BY <1>1, <1>7, <2>1, <2>2 DEF ResealInv, HandoutInv
<1> QED
  BY <1>7, <1>12, <1>13, <1>14, <1>15, <1>16, <1>17 DEF ResealInv

LEMMA ResealInvHolds ==
  ResealSpec => []ResealInv
<1>1. ASSUME ResealInit PROVE ResealInv
  <2>1. /\ reseal = NoWizard /\ process = NoProcess /\ processes = 0 /\ records = {Original}
        /\ stored = <<Original>> /\ others = 0 /\ handout = NoHandout /\ handedOut = {}
        /\ DOMAIN stemFiles = Stems /\ directory \subseteq Files
    BY <1>1, ResealAssumption DEF ResealInit
  <2>2. /\ Original \in ResealRecords /\ Original.history = <<>> /\ Original.process = 0
    BY ResealAssumption DEF Original, ResealRecords
  <2>3. /\ stored \in Seq(ResealRecords) /\ Len(stored) = 1 /\ stored[1] = Original
    BY <2>1, <2>2
  <2>4. Stored = Original /\ SavedProcesses = {0}
    BY <2>2, <2>3 DEF Stored, SavedProcesses
  <2>5. ~Begun /\ ~AtWork
    BY <2>1 DEF Begun, AtWork
  <2>6. handout \in [split : Nat, inFiles : SUBSET {1, 2}] /\ handout.split = 0
        /\ handout.inFiles = {}
    BY <2>1 DEF NoHandout
  <2>7. ResealTypes
    BY <2>1, <2>2, <2>3, <2>6 DEF ResealTypes
  <2>8. ResealPages /\ ProcessInv /\ OwnRecords
    BY <2>1, <2>5 DEF ResealPages, ProcessInv, OwnRecords
  <2>9. RecordsInv
    <3>1. RecordHolds(Original)
      BY <2>1, <2>2 DEF RecordHolds
    <3>2. Original.generation \in Nat
      BY <2>2 DEF ResealRecords
    <3>3. Outranks(Original, Original)
      BY <3>2 DEF Outranks
    <3> QED
      BY <2>1, <2>4, <3>1, <3>3 DEF RecordsInv
  <2>10. StoreInv
    BY <2>3 DEF StoreInv
  <2>11. HandoutInv
    BY <2>1, <2>4, <2>5, <2>6 DEF HandoutInv
  <2> QED
    BY <2>7, <2>8, <2>9, <2>10, <2>11 DEF ResealInv
<1>2. ASSUME ResealInv, ResealNext PROVE ResealInv'
  <2>1. CASE Encrypting
    BY <1>2, <2>1, EncryptingKeeps, EncryptionEndsKeeps, RecordingKeeps DEF Encrypting
  <2>2. CASE NextButton \/ BackButton \/ ReturnFromReview \/ \E p \in 1 .. 8 : ClickStep(p)
    <3>1. 1 \in 1 .. 8
      OBVIOUS
    <3> QED
      BY <1>2, <2>2, <3>1, ButtonsKeep
  <2>3. CASE SplitNewKey \/ \E i \in {1, 2} : SaveNewShare(i)
    <3>1. 1 \in {1, 2}
      OBVIOUS
    <3> QED
      BY <1>2, <2>3, <3>1, SharesKeep
  <2>4. CASE OpenReseal \/ CompareSucceeds \/ CompareFails \/ \E r \in records : LoadRecord(r)
    BY <1>2, <2>4, OpenResealKeeps, ComparisonKeeps, LoadRecordKeeps
  <2>5. CASE SaveReseal \/ SaveFails \/ LeaveReseal \/ CompleteReseal
    BY <1>2, <2>5, SaveResealKeeps, RecordingKeeps, LeavingResealKeeps
  <2>6. CASE \/ \E d \in SUBSET Files : Classify(d)
             \/ \E f \in Files : ChangeDirectory(f)
             \/ \E r \in records : OtherEvent(r)
    BY <1>2, <2>6, ClassifyKeeps, DirectoryKeeps, OtherEventKeeps
  <2> QED
    BY <1>2, <2>1, <2>2, <2>3, <2>4, <2>5, <2>6 DEF ResealNext
<1>3. ASSUME ResealInv, UNCHANGED resealVars PROVE ResealInv'
  <2>1. UNCHANGED <<reseal, process, processes, directory, changes, stemFiles, records, stored,
                    others, handout, handedOut, warned>>
    BY <1>3 DEF resealVars
  <2>2. ResealTypes'
    BY <1>3, <2>1 DEF ResealInv, ResealTypes, Stems
  <2>3. ResealPages' /\ HandoutInv'
    BY <1>3, <2>1, ScreenKeeps DEF ResealInv, ResealPages, HandoutInv
  <2> QED
    BY <1>3, <2>1, <2>2, <2>3, ScreenKeeps DEF ResealInv
<1> QED
  BY <1>1, <1>2, <1>3, PTL DEF ResealSpec

(* A share in a file is one of a saved reseal, of the process still on      *)
(* screen, or of one left after the warning, and a saved reseal has both    *)
(* shares in files: for every number of processes, files and events of      *)
(* other views.                                                             *)
THEOREM HandedOutSharesAreRecorded ==
  ResealSpec => []HandedOutIsRecorded
<1>1. ASSUME ResealInv PROVE HandedOutIsRecorded
  <2>1. ASSUME NEW share \in handedOut
        PROVE  \/ share[1] \in SavedProcesses
               \/ reseal.open /\ process.number = share[1]
               \/ share[1] \in warned
    <3>1. Begun => reseal # NoWizard
      BY <1>1 DEF ResealInv, ResealPages, AtWork
    <3> QED
      BY <1>1, <3>1, ResealIsOpen DEF ResealInv, HandoutInv
  <2>2. \A p \in SavedProcesses \ {0} : BothHandedOut(p)
    BY <1>1 DEF ResealInv, HandoutInv, BothHandedOut
  <2> QED
    BY <2>1, <2>2 DEF HandedOutIsRecorded
<1> QED
  BY <1>1, ResealInvHolds, PTL

(* What the store holds of a reseal is true: its generation is above that   *)
(* of every earlier one, its derived files are accounted for, and its       *)
(* containers are whole under its own key.                                  *)
THEOREM ResealRecordsAreTrue ==
  ResealSpec => []ResealRecordHolds
<1>1. ASSUME ResealInv PROVE ResealRecordHolds
  <2>1. ASSUME NEW k \in DOMAIN stored, stored[k].process > 0
        PROVE  /\ \A j \in 1 .. k - 1 : stored[j].process # stored[k].process =>
                                          stored[j].generation < stored[k].generation
               /\ stored[k].derived \subseteq stored[k].files \cup stored[k].missing
               /\ stored[k].process = processes =>
                    \A f \in stored[k].files : Lists(stored[k], f) =>
                      stemFiles[StemOf[f]] =
                        [key |-> stored[k].process, source |-> f, whole |-> TRUE]
    <3>1. k \in 1 .. Len(stored) /\ stored[k] \in records
      BY <1>1 DEF ResealInv, ResealTypes
    <3>2. RecordHolds(stored[k])
      BY <1>1, <3>1 DEF ResealInv, RecordsInv
    <3>3. \A j \in 1 .. k - 1 : stored[j].process # stored[k].process =>
                                  stored[j].generation < stored[k].generation
      BY <1>1, <3>1 DEF ResealInv, StoreInv, Outranks
    <3>4. stored[k].process = processes =>
            \A f \in stored[k].files : Lists(stored[k], f) =>
              stemFiles[StemOf[f]] = [key |-> stored[k].process, source |-> f, whole |-> TRUE]
      BY <2>1, <3>2 DEF RecordHolds, WholeFiles, WholeFrom, Lists
    <3> QED
      BY <2>1, <3>2, <3>3, <3>4 DEF RecordHolds
  <2> QED
    BY <2>1 DEF ResealRecordHolds
<1> QED
  BY <1>1, ResealInvHolds, PTL

-----------------------------------------------------------------------------
(* UnsealWizard: what is decrypted was verified, or its mismatch confirmed. *)

UnsealProcesses == [number : Nat, matched : BOOLEAN, record : BOOLEAN]
UnsealScreens ==
  [open : {TRUE}, page : UnsealPages, back : UnsealPages \cup {"none"},
   busy : {"no", "verifying", "decrypting", "recording"},
   error : BOOLEAN, matched : BOOLEAN, decrypted : BOOLEAN, recorded : BOOLEAN]

UnsealTypes ==
  /\ unseal \in UnsealScreens \cup {NoUnsealWizard}
  /\ unsealing \in UnsealProcesses
  /\ verifications \in Nat

(* What a screen says of a process: the pages behind the decryption need    *)
(* it, and what page U4 shows is of the last verification.                  *)
ScreenInv ==
  unseal # NoUnsealWizard =>
    /\ unseal.page \in {"U6", "U7"} => unseal.decrypted
    /\ unseal.back # "none" => unseal.decrypted
    /\ unseal.recorded => unseal.decrypted
    /\ unseal.busy = "recording" => unseal.decrypted
    /\ unseal.busy # "verifying" /\ ~unseal.error /\ (unseal.page # "U3" \/ unseal.decrypted) =>
         /\ unsealing.number = verifications
         /\ unseal.matched => unsealing.matched
    /\ unseal.busy = "decrypting" => unseal.page = "U5" /\ WasVerified(unsealing)

UnsealInv == UnsealTypes /\ ScreenInv /\ UnsealedAsVerified

LEMMA ScreensOpen ==
  ASSUME UnsealInv
  PROVE  /\ unseal.open => unseal \in UnsealScreens /\ unseal # NoUnsealWizard
         /\ \A screen \in UnsealScreens : screen # NoUnsealWizard
<1>1. ~NoUnsealWizard.open
  BY DEF NoUnsealWizard
<1>2. \A screen \in UnsealScreens : screen.open
  BY DEF UnsealScreens
<1> QED
  BY <1>1, <1>2 DEF UnsealInv, UnsealTypes

LEMMA VerifiedStays ==
  ASSUME confirmed \subseteq confirmed'
  PROVE  \A each : WasVerified(each) => WasVerified(each)'
BY DEF WasVerified

(* Showing a page. *)
LEMMA ShownPageKeeps ==
  ASSUME UnsealInv, AtRest, NEW page \in UnsealPages, NEW back \in UnsealPages \cup {"none"},
         ShowUnsealPage(page, back), confirmed \subseteq confirmed',
         UNCHANGED <<unsealing, verifications, decrypted, unsealed>>,
         page \in {"U6", "U7"} \/ back # "none" => unseal.decrypted,
         page = "U5" => unseal.decrypted \/ WasVerified(unsealing)',
         page # "U3" => unseal.page # "U3" \/ unseal.decrypted
  PROVE  UnsealInv'
<1>1. unseal \in UnsealScreens /\ unseal # NoUnsealWizard /\ unseal.busy = "no"
  BY ScreensOpen DEF AtRest
<1>2. PICK work \in {"no", "decrypting", "recording"} :
        /\ work = WorkOf(page)
        /\ work = "decrypting" => page = "U5" /\ ~unseal.decrypted
        /\ work = "recording" => unseal.decrypted
  <2>1. CASE page = "U5" /\ ~unseal.decrypted
    <3>1. WorkOf(page) = "decrypting"
      BY <2>1 DEF WorkOf
    <3> QED
      BY <2>1, <3>1
  <2>2. CASE page = "U5" /\ unseal.decrypted /\ ~unseal.recorded
    <3>1. WorkOf(page) = "recording"
      BY <2>2 DEF WorkOf
    <3> QED
      BY <2>2, <3>1
  <2>3. CASE page # "U5" \/ (unseal.decrypted /\ unseal.recorded)
    <3>1. WorkOf(page) = "no"
      BY <2>3 DEF WorkOf
    <3> QED
      BY <3>1
  <2> QED
    BY <2>1, <2>2, <2>3
<1>3. unseal' = [unseal EXCEPT !.page = page, !.back = back, !.busy = work]
  BY <1>2 DEF ShowUnsealPage
<1>4. /\ unseal' \in UnsealScreens /\ unseal'.page = page /\ unseal'.back = back /\ unseal'.busy = work
  BY <1>1, <1>2, <1>3 DEF UnsealScreens
<1>5. /\ unseal'.error = unseal.error /\ unseal'.matched = unseal.matched
      /\ unseal'.decrypted = unseal.decrypted /\ unseal'.recorded = unseal.recorded
  BY <1>1, <1>3 DEF UnsealScreens
<1>6. UnsealTypes'
  BY <1>4 DEF UnsealInv, UnsealTypes
<1>7. ScreenInv'
  <2>1. work = "decrypting" => WasVerified(unsealing)'
    BY <1>2
  <2>2. unseal.recorded => unseal.decrypted
    BY <1>1 DEF UnsealInv, ScreenInv
  <2>3. ~unseal.error /\ (page # "U3" \/ unseal.decrypted) =>
          /\ unsealing.number = verifications
          /\ unseal.matched => unsealing.matched
    BY <1>1 DEF UnsealInv, ScreenInv
  <2> QED
    BY <1>2, <1>4, <1>5, <2>1, <2>2, <2>3 DEF ScreenInv
<1>8. UnsealedAsVerified'
  BY VerifiedStays DEF UnsealInv, UnsealedAsVerified
<1> QED
  BY <1>6, <1>7, <1>8 DEF UnsealInv

LEMMA GoOnwardKeeps ==
  ASSUME UnsealInv, AtRest, GoOnward, UNCHANGED <<decrypted, unsealed>>
  PROVE  UnsealInv'
<1>1. unseal \in UnsealScreens /\ unseal # NoUnsealWizard /\ unseal.busy = "no"
  BY ScreensOpen DEF AtRest
<1>2. unseal.back \in UnsealPages \cup {"none"} /\ (unseal.back # "none" => unseal.decrypted)
  BY <1>1 DEF UnsealScreens, UnsealInv, ScreenInv
<1>3. CASE BeginVerification
  <2>1. /\ unseal.page = "U3" /\ verifications' = verifications + 1
        /\ unseal' = [unseal EXCEPT !.busy = "verifying"]
        /\ UNCHANGED <<unsealing, confirmed>>
    BY <1>3 DEF BeginVerification
  <2>2. /\ unseal' \in UnsealScreens /\ unseal'.busy = "verifying" /\ unseal'.page = "U3"
        /\ unseal'.back = unseal.back
    BY <1>1, <2>1 DEF UnsealScreens
  <2>3. unseal'.decrypted = unseal.decrypted /\ unseal'.recorded = unseal.recorded
    BY <1>1, <2>1 DEF UnsealScreens
  <2>4. UnsealTypes'
    BY <2>1, <2>2 DEF UnsealInv, UnsealTypes
  <2>5. ScreenInv'
    BY <1>1, <2>2, <2>3 DEF UnsealInv, ScreenInv
  <2>6. UnsealedAsVerified'
    BY <2>1, VerifiedStays DEF UnsealInv, UnsealedAsVerified
  <2> QED
    BY <2>4, <2>5, <2>6 DEF UnsealInv
<1>4. CASE PassGate
  <2>1. /\ unseal.page = "U4" /\ ShowUnsealPage("U5", unseal.back)
        /\ UNCHANGED <<unsealing, verifications>>
        /\ confirmed \subseteq confirmed'
    BY <1>4 DEF PassGate
  <2>2. WasVerified(unsealing)'
    <3>1. ~unseal.error /\ (unseal.matched \/ verifications \in confirmed')
      BY <1>4 DEF PassGate, PassesUnasked, AsksAboutMismatch
    <3>2. unsealing.number = verifications /\ (unseal.matched => unsealing.matched)
      BY <1>1, <2>1, <3>1 DEF UnsealInv, ScreenInv
    <3> QED
      BY <2>1, <3>1, <3>2 DEF WasVerified
  <2>3. "U5" \in UnsealPages /\ "U5" \notin {"U6", "U7"}
    BY DEF UnsealPages
  <2> QED
    BY <1>2, <2>1, <2>2, <2>3, ShownPageKeeps
<1>5. CASE GoOn
  <2>1. /\ UNCHANGED <<unsealing, verifications, confirmed>>
        /\ \E page \in {"U5", "U6", "U7"} :
             /\ ShowUnsealPage(page, unseal.back) /\ unseal.page \in {"U5", "U6"}
             /\ unseal.decrypted
    <3>1. unseal.page = "U6" => unseal.decrypted
      BY <1>1 DEF UnsealInv, ScreenInv
    <3>2. (IF unseal.recorded THEN "U6" ELSE "U5") \in {"U5", "U6"}
      OBVIOUS
    <3> QED
      BY <1>5, <3>1, <3>2 DEF GoOn
  <2> QED
    BY <1>2, <2>1, ShownPageKeeps DEF UnsealPages
<1> QED
  BY <1>3, <1>4, <1>5 DEF GoOnward

LEMMA WorkKeeps ==
  ASSUME UnsealInv,
         \/ \E matched \in BOOLEAN : VerificationEnds(matched)
         \/ VerificationFails \/ DecryptionEnds \/ UnsealRecordMade \/ WorkFails
  PROVE  UnsealInv'
<1>1. unseal \in UnsealScreens /\ unseal # NoUnsealWizard
  BY ScreensOpen DEF VerificationEnds, VerificationFails, DecryptionEnds, UnsealRecordMade,
                     WorkFails, Working
<1>2. CASE \E matched \in BOOLEAN : VerificationEnds(matched)
  <2>1. PICK matched \in BOOLEAN : VerificationEnds(matched)
    BY <1>2
  <2>2. /\ unsealing' = [number |-> verifications, matched |-> matched, record |-> FALSE]
        /\ unseal' = [unseal EXCEPT !.busy = "no", !.page = "U4",
                                    !.error = FALSE, !.matched = matched]
        /\ UNCHANGED <<verifications, confirmed, decrypted, unsealed>>
    BY <2>1 DEF VerificationEnds, Verified
  <2>3. /\ unseal' \in UnsealScreens /\ unseal'.busy = "no" /\ unseal'.page = "U4"
        /\ unseal'.back = unseal.back
    BY <1>1, <2>2 DEF UnsealScreens, UnsealPages
  <2>4. /\ unseal'.matched = matched /\ unseal'.decrypted = unseal.decrypted
        /\ unseal'.recorded = unseal.recorded
    BY <1>1, <2>2 DEF UnsealScreens
  <2>5. unsealing' \in UnsealProcesses /\ unsealing'.number = verifications
    BY <2>2 DEF UnsealInv, UnsealTypes, UnsealProcesses
  <2>6. unsealing'.matched = matched
    BY <2>2
  <2>7. UnsealTypes'
    BY <2>2, <2>3, <2>5 DEF UnsealInv, UnsealTypes
  <2>8. ScreenInv'
    BY <1>1, <2>2, <2>3, <2>4, <2>5, <2>6 DEF UnsealInv, ScreenInv
  <2>9. UnsealedAsVerified'
    BY <2>2, VerifiedStays DEF UnsealInv, UnsealedAsVerified
  <2> QED
    BY <2>7, <2>8, <2>9 DEF UnsealInv
<1>3. CASE VerificationFails
  <2>1. /\ unseal' = [unseal EXCEPT !.busy = "no", !.page = "U4",
                                    !.error = TRUE, !.matched = FALSE]
        /\ UNCHANGED <<unsealing, verifications, confirmed, decrypted, unsealed>>
    BY <1>3 DEF VerificationFails
  <2>2. /\ unseal' \in UnsealScreens /\ unseal'.busy = "no" /\ unseal'.page = "U4"
        /\ unseal'.back = unseal.back
    BY <1>1, <2>1 DEF UnsealScreens, UnsealPages
  <2>3. /\ unseal'.error /\ unseal'.decrypted = unseal.decrypted
        /\ unseal'.recorded = unseal.recorded
    BY <1>1, <2>1 DEF UnsealScreens
  <2>4. UnsealTypes' /\ ScreenInv'
    BY <1>1, <2>1, <2>2, <2>3 DEF UnsealInv, UnsealTypes, ScreenInv
  <2>5. UnsealedAsVerified'
    BY <2>1, VerifiedStays DEF UnsealInv, UnsealedAsVerified
  <2> QED
    BY <2>4, <2>5 DEF UnsealInv
<1>4. CASE DecryptionEnds
  <2>1. /\ unseal.busy = "decrypting" /\ decrypted' = decrypted \cup {unsealing}
        /\ unseal' = [unseal EXCEPT !.decrypted = TRUE, !.busy = "recording"]
        /\ UNCHANGED <<unsealing, verifications, confirmed, unsealed>>
    BY <1>4 DEF DecryptionEnds, Working
  <2>2. /\ unseal' \in UnsealScreens /\ unseal'.busy = "recording" /\ unseal'.page = unseal.page
        /\ unseal'.back = unseal.back
    BY <1>1, <2>1 DEF UnsealScreens
  <2>3. unseal'.error = unseal.error /\ unseal'.matched = unseal.matched
    BY <1>1, <2>1 DEF UnsealScreens
  <2>4. unseal'.decrypted
    BY <1>1, <2>1 DEF UnsealScreens
  <2>5. ScreenInv'
    BY <1>1, <2>1, <2>2, <2>3, <2>4 DEF UnsealInv, ScreenInv
  <2>6. UnsealTypes'
    BY <2>1, <2>2 DEF UnsealInv, UnsealTypes
  <2>7. UnsealedAsVerified'
    <3>1. WasVerified(unsealing)
      BY <1>1, <2>1 DEF UnsealInv, ScreenInv
    <3> QED
      BY <2>1, <3>1, VerifiedStays DEF UnsealInv, UnsealedAsVerified
  <2> QED
    BY <2>5, <2>6, <2>7 DEF UnsealInv
<1>5. CASE UnsealRecordMade
  <2>1. /\ unseal.busy = "recording" /\ unsealing \in decrypted
        /\ unsealing' = [unsealing EXCEPT !.record = TRUE]
        /\ decrypted' = (decrypted \ {unsealing}) \cup {unsealing'}
        /\ unseal' = [unseal EXCEPT !.recorded = TRUE, !.busy = "no"]
        /\ UNCHANGED <<verifications, confirmed, unsealed>>
    BY <1>5 DEF UnsealRecordMade, Working
  <2>2. unsealing \in UnsealProcesses
    BY DEF UnsealInv, UnsealTypes
  <2>3. unsealing' \in UnsealProcesses /\ unsealing'.number = unsealing.number
    BY <2>1, <2>2 DEF UnsealProcesses
  <2>4. unsealing'.matched = unsealing.matched
    BY <2>1, <2>2 DEF UnsealProcesses
  <2>5. /\ unseal' \in UnsealScreens /\ unseal'.busy = "no" /\ unseal'.page = unseal.page
        /\ unseal'.back = unseal.back
    BY <1>1, <2>1 DEF UnsealScreens
  <2>6. /\ unseal'.error = unseal.error /\ unseal'.matched = unseal.matched
        /\ unseal'.decrypted = unseal.decrypted
    BY <1>1, <2>1 DEF UnsealScreens
  <2>7. UnsealTypes'
    BY <2>1, <2>3, <2>5 DEF UnsealInv, UnsealTypes
  <2>8. ScreenInv'
    BY <1>1, <2>1, <2>3, <2>4, <2>5, <2>6 DEF UnsealInv, ScreenInv
  <2>9. UnsealedAsVerified'
    <3>1. WasVerified(unsealing)'
      BY <2>1, <2>3, <2>4 DEF UnsealInv, UnsealedAsVerified, WasVerified
    <3>2. ASSUME NEW each \in unsealed
          PROVE  each \in decrypted' /\ each.record
      <4>1. each \in decrypted /\ each.record
        BY DEF UnsealInv, UnsealedAsVerified
      <4>2. CASE each = unsealing
        <5>1. unsealing.record
          BY <4>1, <4>2
        <5>2. unsealing' = unsealing
          BY <2>1, <2>2, <5>1 DEF UnsealProcesses
        <5> QED
          BY <2>1, <4>1, <4>2, <5>2
      <4> QED
        BY <2>1, <4>1, <4>2
    <3> QED
      BY <2>1, <3>1, <3>2, VerifiedStays DEF UnsealInv, UnsealedAsVerified
  <2> QED
    BY <2>7, <2>8, <2>9 DEF UnsealInv
<1>6. CASE WorkFails
  <2>1. /\ unseal' = [unseal EXCEPT !.busy = "no"] /\ unseal.busy \in {"decrypting", "recording"}
        /\ UNCHANGED <<unsealing, verifications, confirmed, decrypted, unsealed>>
    BY <1>6 DEF WorkFails, Working
  <2>2. /\ unseal' \in UnsealScreens /\ unseal'.busy = "no" /\ unseal'.page = unseal.page
        /\ unseal'.back = unseal.back
    BY <1>1, <2>1 DEF UnsealScreens
  <2>3. /\ unseal'.error = unseal.error /\ unseal'.matched = unseal.matched
        /\ unseal'.decrypted = unseal.decrypted /\ unseal'.recorded = unseal.recorded
    BY <1>1, <2>1 DEF UnsealScreens
  <2>4. UnsealTypes' /\ ScreenInv'
    BY <1>1, <2>1, <2>2, <2>3 DEF UnsealInv, UnsealTypes, ScreenInv
  <2>5. UnsealedAsVerified'
    BY <2>1, VerifiedStays DEF UnsealInv, UnsealedAsVerified
  <2> QED
    BY <2>4, <2>5 DEF UnsealInv
<1> QED
  BY <1>2, <1>3, <1>4, <1>5, <1>6

LEMMA UnsealInvHolds == UnsealSpec => []UnsealInv
<1>1. UnsealInit => UnsealInv
  <2> SUFFICES ASSUME UnsealInit PROVE UnsealInv
    OBVIOUS
  <2>1. NoUnsealing \in UnsealProcesses
    BY DEF NoUnsealing, Verified, UnsealProcesses
  <2> QED
    BY <2>1 DEF UnsealInit, UnsealInv, UnsealTypes, ScreenInv, UnsealedAsVerified
<1>2. UnsealInv /\ [UnsealNext]_unsealVars => UnsealInv'
  <2> SUFFICES ASSUME UnsealInv, [UnsealNext]_unsealVars PROVE UnsealInv'
    OBVIOUS
  <2>1. NoUnsealing \in UnsealProcesses
    BY DEF NoUnsealing, Verified, UnsealProcesses
  <2>2. CASE OpenUnseal
    <3>1. /\ unseal' = NewUnsealWizard /\ unsealing' = NoUnsealing
          /\ UNCHANGED <<verifications, confirmed, decrypted, unsealed>>
      BY <2>2 DEF OpenUnseal
    <3>2. /\ unseal' \in UnsealScreens /\ unseal'.page = "U3" /\ unseal'.back = "none"
          /\ unseal'.busy = "no"
      BY <3>1 DEF NewUnsealWizard, UnsealScreens, UnsealPages
    <3>3. ~unseal'.decrypted /\ ~unseal'.recorded
      BY <3>1 DEF NewUnsealWizard
    <3>4. UnsealTypes' /\ ScreenInv'
      BY <2>1, <3>1, <3>2, <3>3 DEF UnsealInv, UnsealTypes, ScreenInv
    <3> QED
      BY <3>1, <3>4, VerifiedStays DEF UnsealInv, UnsealedAsVerified
  <2>3. CASE NextUnsealPage \/ ReturnKey
    BY <2>3, GoOnwardKeeps DEF NextUnsealPage, ReturnKey
  <2>4. CASE BackFromReview
    <3>1. /\ AtRest /\ unseal.back # "none" /\ ShowUnsealPage(unseal.back, "none")
          /\ UNCHANGED <<unsealing, verifications, confirmed, decrypted, unsealed>>
      BY <2>4 DEF BackFromReview
    <3>2. unseal \in UnsealScreens /\ unseal # NoUnsealWizard
      BY <3>1, ScreensOpen DEF AtRest
    <3>3. unseal.back \in UnsealPages /\ unseal.decrypted
      BY <3>1, <3>2 DEF UnsealInv, ScreenInv, UnsealScreens
    <3> QED
      BY <3>1, <3>3, ShownPageKeeps
  <2>5. ASSUME NEW page \in UnsealPages, VisitPage(page) PROVE UnsealInv'
    <3>1. /\ AtRest /\ page \in PagesBefore(unseal.page)
          /\ UNCHANGED <<unsealing, verifications, confirmed, decrypted, unsealed>>
      BY <2>5 DEF VisitPage
    <3>2. unseal \in UnsealScreens /\ unseal # NoUnsealWizard
      BY <3>1, ScreensOpen DEF AtRest
    <3>3. unseal.page \in UnsealPages /\ unseal.back \in UnsealPages \cup {"none"}
      BY <3>2 DEF UnsealScreens
    <3>4. PICK back \in UnsealPages \cup {"none"} :
            /\ ShowUnsealPage(page, back)
            /\ back # "none" => unseal.decrypted
      <4>1. unseal.back # "none" => unseal.decrypted
        BY <3>2 DEF UnsealInv, ScreenInv
      <4>2. CASE unseal.decrypted /\ page \in {"U3", "U4"}
        BY <2>5, <3>3, <4>2 DEF VisitPage
      <4>3. CASE ~(unseal.decrypted /\ page \in {"U3", "U4"})
        BY <2>5, <3>3, <4>1, <4>3 DEF VisitPage
      <4> QED
        BY <4>2, <4>3
    <3>5. /\ unseal.page # "U3" /\ page # "U7"
          /\ page \in {"U5", "U6"} => unseal.page \in {"U6", "U7"}
      BY <3>1, <3>3 DEF PagesBefore, UnsealPages
    <3>6. unseal.page \in {"U6", "U7"} => unseal.decrypted
      BY <3>2 DEF UnsealInv, ScreenInv
    <3> QED
      BY <3>1, <3>4, <3>5, <3>6, ShownPageKeeps
  <2>6. ASSUME NEW each \in savings, UnsealSaveEnds(each) PROVE UnsealInv'
    <3>1. /\ UNCHANGED <<unseal, unsealing, verifications, confirmed, decrypted>>
          /\ \/ each \in decrypted /\ each.record /\ unsealed' = unsealed \cup {each}
             \/ UNCHANGED unsealed
      BY <2>6 DEF UnsealSaveEnds, HasEveryStep
    <3>2. UnsealTypes' /\ ScreenInv'
      BY <3>1 DEF UnsealInv, UnsealTypes, ScreenInv, WasVerified
    <3>3. UnsealedAsVerified'
      BY <3>1, VerifiedStays DEF UnsealInv, UnsealedAsVerified
    <3> QED
      BY <3>2, <3>3 DEF UnsealInv
  <2>7. CASE LeaveUnseal
    <3>1. /\ unseal' = NoUnsealWizard /\ unsealing' = NoUnsealing
          /\ UNCHANGED <<verifications, confirmed, decrypted, unsealed>>
      BY <2>7 DEF LeaveUnseal
    <3>2. UnsealTypes' /\ ScreenInv'
      BY <2>1, <3>1 DEF UnsealInv, UnsealTypes, ScreenInv
    <3> QED
      BY <3>1, <3>2, VerifiedStays DEF UnsealInv, UnsealedAsVerified
  <2>8. CASE UNCHANGED unsealVars
    BY <2>8 DEF unsealVars, UnsealInv, UnsealTypes, ScreenInv, UnsealedAsVerified, WasVerified
  <2> QED
    BY <2>2, <2>3, <2>4, <2>5, <2>6, <2>7, <2>8, WorkKeeps DEF UnsealNext
<1> QED
  BY <1>1, <1>2, PTL DEF UnsealSpec

(* Nothing is decrypted unless its own verification passed or its mismatch  *)
(* was confirmed, and what is stored of an unsealing comes from one process *)
(* with all its steps, though pages are visited again, verifications fail   *)
(* and saves outlive the wizard: for any number of wizards, verifications  *)
(* and saves (gui/unseal_wizard.py, unseal_process.py).                     *)
THEOREM UnsealingsAreVerified == UnsealSpec => []UnsealedAsVerified
<1>1. UnsealInv => UnsealedAsVerified
  BY DEF UnsealInv
<1> QED
  BY <1>1, UnsealInvHolds, PTL

-----------------------------------------------------------------------------
(* ShareHandout: the files of the handed out shares, and the key they give. *)

StrictSplits ==
  {[mode |-> "strict", key |-> k, values |-> PadAndComplement(k, pad),
    wrapped |-> WrappedShares(PadAndComplement(k, pad))] : k \in Bits, pad \in Bits}
StandardSplits ==
  {[mode |-> "standard", key |-> k, values |-> Line(k, slope),
    wrapped |-> WrappedShares(Line(k, slope))] : k \in Bits, slope \in 0 .. Prime - 1}
SplitRecords == StrictSplits \cup StandardSplits

SaveRecords ==
  [at : {"chosen", "written", "claimed", "published"}, index : HandedOut,
   name : ShareNames, whole : BOOLEAN]

HandoutTypes ==
  /\ splits \in Seq(SplitRecords) /\ Len(splits) <= MaxSplits
  /\ DOMAIN savedAs = DOMAIN splits /\ savedAs \in Seq([HandedOut -> ShareNames \cup {NoName}])
  /\ DOMAIN folder = ShareNames /\ foreign \subseteq ShareNames
  /\ save \in SaveRecords \cup {NotSaving}

(* The save in progress is of a share of the split in the panel that has no *)
(* file yet; past its publishing, the chosen name bears a copy of that      *)
(* share and of no other.                                                   *)
SaveInv ==
  save # NotSaving =>
    /\ held /\ Current \in DOMAIN splits
    /\ savedAs[Current][save.index] = NoName
    /\ save.at \in {"claimed", "published"} =>
         \E w \in BOOLEAN : folder[save.name] = Copy(Current, save.index, w)
WholeCopy(s, i) == Copy(s, i, TRUE)
FilesInv ==
  \A s \in DOMAIN splits, i \in HandedOut :
    savedAs[s][i] # NoName => folder[savedAs[s][i]] = WholeCopy(s, i)
ShareFilesInv ==
  /\ HandoutTypes /\ (held => splits # <<>>)
  /\ SaveInv /\ FilesInv /\ OthersKeepTheirFiles

LEMMA KindsDiffer ==
  ASSUME NEW s, NEW i, NEW w \in BOOLEAN
  PROVE  Copy(s, i, w) # Absent /\ Copy(s, i, w) # Foreign /\ Absent # Foreign
BY DEF Copy, Absent, Foreign

LEMMA WholeCopiesAreCopies ==
  ASSUME NEW s, NEW i
  PROVE  /\ \E w \in BOOLEAN : WholeCopy(s, i) = Copy(s, i, w)
         /\ s \in 1 .. MaxSplits /\ i \in HandedOut => WholeCopy(s, i) \in WholeCopies
<1>1. \E w \in BOOLEAN : WholeCopy(s, i) = Copy(s, i, w)
  BY Zenon DEF WholeCopy
<1>2. WholeCopy(s, i).whole
  BY DEF WholeCopy, Copy
<1>3. ASSUME s \in 1 .. MaxSplits, i \in HandedOut PROVE WholeCopy(s, i) \in Copies
  <2>1. PICK w \in BOOLEAN : WholeCopy(s, i) = Copy(s, i, w)
    BY <1>1
  <2> QED
    BY <1>3, <2>1 DEF Copies
<1> QED
  BY <1>1, <1>2, <1>3 DEF WholeCopies

LEMMA CopiesDiffer ==
  ASSUME NEW s, NEW t, NEW i, NEW j, NEW v \in BOOLEAN, NEW w \in BOOLEAN,
         Copy(s, i, v) = Copy(t, j, w)
  PROVE  s = t /\ i = j
<1>1. Copy(s, i, v).split = s /\ Copy(s, i, v).index = i
  BY DEF Copy
<1>2. Copy(t, j, w).split = t /\ Copy(t, j, w).index = j
  BY DEF Copy
<1> QED
  BY <1>1, <1>2

LEMMA CurrentIsLast ==
  ASSUME HandoutTypes
  PROVE  Current = Len(splits) /\ Len(splits) \in Nat
<1>1. splits \in Seq(SplitRecords) /\ Len(splits) \in Nat /\ DOMAIN splits = 1 .. Len(splits)
  BY DEF HandoutTypes
<1>2. Cardinality(1 .. Len(splits)) = Len(splits)
  <2>1. PICK n \in Nat : n = Len(splits)
    BY <1>1
  <2>2. Cardinality(1 .. n) = IF 1 > n THEN 0 ELSE n - 1 + 1
    BY FS_Interval
  <2> QED
    BY <2>1, <2>2
<1> QED
  BY <1>1, <1>2 DEF Current

-----------------------------------------------------------------------------
(* Recovering.                                                              *)
LEMMA PointsCount ==
  ASSUME NEW indices \in SUBSET Indices, NEW values
  PROVE  Cardinality(Points(values, indices)) = Cardinality(indices)
         /\ Cardinality(indices) \in Nat /\ IsFiniteSet(indices)
<1>1. IsFiniteSet(indices)
  <2>1. \A n \in Nat : IsFiniteSet(1 .. n)
    BY FS_Interval
  <2> QED
    BY <2>1, FS_Subset DEF Indices
<1> DEFINE f == [i \in indices |-> <<i, values[i]>>]
<1>2. f \in Bijection(indices, Points(values, indices))
  <2>1. f \in [indices -> Points(values, indices)]
    BY DEF Points
  <2>2. \A i, j \in indices : i # j => f[i] # f[j]
    OBVIOUS
  <2>3. \A p \in Points(values, indices) : \E i \in indices : f[i] = p
    BY DEF Points
  <2> QED
    BY <2>1, <2>2, <2>3 DEF Bijection, Injection, Surjection, IsInjective
<1>3. Cardinality(Points(values, indices)) = Cardinality(indices)
  BY <1>1, <1>2, FS_Bijection DEF ExistsBijection
<1> QED
  BY <1>1, <1>3, FS_CardinalityType

LEMMA StrictOpens ==
  ASSUME NEW key \in Bits, NEW pad \in Bits, NEW indices \in SUBSET Indices
  PROVE  /\ Suffices("strict", indices) => Recovered("strict", Points(PadAndComplement(key, pad), indices)) = key
         /\ ~Suffices("strict", indices) => Recovered("strict", Points(PadAndComplement(key, pad), indices)) = NoKey
<1> DEFINE values == PadAndComplement(key, pad)
           points == Points(values, indices)
           owner == {p[2] : p \in {q \in points : q[1] = 1}}
           channel == {p[2] : p \in {q \in points : q[1] # 1}}
<1>1. values = [i \in Indices |-> IF i = 1 THEN pad ELSE Xor(key, pad)]
  BY DEF PadAndComplement
<1>2. points = {<<i, values[i]>> : i \in indices}
  BY DEF Points
<1>3. Cardinality(points) = Cardinality(indices) /\ Cardinality(indices) \in Nat
      /\ IsFiniteSet(indices)
  BY PointsCount
<1> HIDE DEF values, points
<1>4. /\ 1 \in indices => owner = {pad}
      /\ 1 \notin indices => owner = {}
      /\ indices \ {1} # {} => channel = {Xor(key, pad)}
  <2>1. /\ 1 \in indices => values[1] = pad
        /\ \A i \in indices \ {1} : values[i] = Xor(key, pad)
    BY <1>1
  <2>2. \A q \in points : \E i \in indices : q[1] = i /\ q[2] = values[i]
    BY <1>2
  <2>3. ASSUME NEW i \in indices
        PROVE  \E q \in points : q[1] = i /\ q[2] = values[i]
    <3>1. PICK q : q = <<i, values[i]>>
      OBVIOUS
    <3>2. q[1] = i /\ q[2] = values[i]
      BY <3>1
    <3> QED
      BY <1>2, <3>1, <3>2
  <2> QED
    BY <2>1, <2>2, <2>3
<1>5. Recovered("strict", points) =
        IF Cardinality(points) < 2 THEN NoKey
        ELSE IF Cardinality(owner) = 1 /\ Cardinality(channel) = 1
             THEN CHOOSE k \in Bits : \E a \in owner, b \in channel : k = Xor(a, b)
             ELSE NoKey
  BY DEF Recovered, Unpadded
<1> HIDE DEF owner, channel
<1> DEFINE found == Recovered("strict", points)
<1> SUFFICES /\ Suffices("strict", indices) => found = key
             /\ ~Suffices("strict", indices) => found = NoKey
  BY DEF points, values
<1> HIDE DEF found
<1>6. CASE Cardinality(indices) < 2
  BY <1>3, <1>5, <1>6 DEF Suffices, found
<1>7. CASE Cardinality(indices) >= 2 /\ 1 \notin indices
  <2>1. Cardinality(owner) # 1
    BY <1>4, <1>7, FS_EmptySet
  <2> QED
    BY <1>3, <1>5, <1>7, <2>1 DEF Suffices, found
<1>8. CASE Cardinality(indices) >= 2 /\ 1 \in indices
  <2>1. indices \ {1} # {}
    <3>1. ASSUME indices \ {1} = {} PROVE FALSE
      <4>1. indices = {1}
        BY <1>8, <3>1
      <4> QED
        BY <1>8, <4>1, FS_Singleton
    <3> QED
      BY <3>1
  <2>2. owner = {pad} /\ channel = {Xor(key, pad)}
    BY <1>4, <1>8, <2>1
  <2>3. Cardinality(owner) = 1 /\ Cardinality(channel) = 1
    BY <2>2, FS_Singleton
  <2>4. Xor(pad, Xor(key, pad)) = key
    BY DEF Bits, Xor
  <2>5. (CHOOSE k \in Bits : \E a \in owner, b \in channel : k = Xor(a, b)) = key
    <3>1. \A k \in Bits : (\E a \in owner, b \in channel : k = Xor(a, b)) <=> k = key
      BY <2>2, <2>4
    <3> QED
      BY <3>1
  <2>6. ~(Cardinality(points) < 2)
    BY <1>3, <1>8
  <2>7. Suffices("strict", indices)
    BY <1>8 DEF Suffices
  <2>8. found = CHOOSE k \in Bits : \E a \in owner, b \in channel : k = Xor(a, b)
    BY <1>5, <2>3, <2>6 DEF found
  <2> QED
    BY <2>5, <2>7, <2>8
<1> QED
  BY <1>3, <1>6, <1>7, <1>8

LEMMA StandardOpens ==
  ASSUME LinesAreRecovered, NEW key \in Bits, NEW slope \in 0 .. Prime - 1,
         NEW indices \in SUBSET Indices
  PROVE  /\ Suffices("standard", indices) => Recovered("standard", Points(Line(key, slope), indices)) = key
         /\ ~Suffices("standard", indices) => Recovered("standard", Points(Line(key, slope), indices)) = NoKey
<1>1. Cardinality(Points(Line(key, slope), indices)) = Cardinality(indices)
      /\ Cardinality(indices) \in Nat
  BY PointsCount
<1>2. Cardinality(indices) >= 2 => Interpolated(Points(Line(key, slope), indices)) = key
  BY DEF LinesAreRecovered
<1> QED
  BY <1>1, <1>2 DEF Recovered, Suffices
-----------------------------------------------------------------------------
(* What the holders have.                                                   *)
LEMMA SplitForms ==
  ASSUME NEW split \in SplitRecords
  PROVE  \/ \E k, pad \in Bits :
              /\ split.mode = "strict" /\ split.key = k /\ split.values = PadAndComplement(k, pad)
              /\ \A i \in {3, 4} : split.wrapped[i] = split.values[i]
         \/ \E k \in Bits, slope \in 0 .. Prime - 1 :
              /\ split.mode = "standard" /\ split.key = k /\ split.values = Line(k, slope)
              /\ \A i \in {3, 4} : split.wrapped[i] = split.values[i]
<1>1. CASE split \in StrictSplits
  <2>1. PICK k \in Bits, pad \in Bits :
          split = [mode |-> "strict", key |-> k, values |-> PadAndComplement(k, pad),
                   wrapped |-> WrappedShares(PadAndComplement(k, pad))]
    BY <1>1 DEF StrictSplits
  <2> QED
    BY <2>1 DEF WrappedShares
<1>2. CASE split \in StandardSplits
  <2>1. PICK k \in Bits, slope \in 0 .. Prime - 1 :
          split = [mode |-> "standard", key |-> k, values |-> Line(k, slope),
                   wrapped |-> WrappedShares(Line(k, slope))]
    BY <1>2 DEF StandardSplits
  <2> QED
    BY <2>1 DEF WrappedShares
<1> QED
  BY <1>1, <1>2 DEF SplitRecords

LEMMA HoldersPoint ==
  ASSUME HandoutTypes, FilesInv, NEW s \in DOMAIN splits,
         \A j \in HandedOut : savedAs[s][j] # NoName, NEW i \in Indices
  PROVE  PointOf(s, i) = {<<i, splits[s].values[i]>>}
<1>1. splits[s] \in SplitRecords /\ s \in 1 .. MaxSplits
  BY HandoutAssumption DEF HandoutTypes
<1>2. CASE i \in {3, 4}
  <2>1. splits[s].wrapped[i] = splits[s].values[i]
    BY <1>1, <1>2, SplitForms
  <2> QED
    BY <1>2, <2>1 DEF PointOf, Unwrapped
<1>3. CASE i \notin {3, 4}
  <2>1. i \in HandedOut
    BY <1>3 DEF Indices, HandedOut
  <2>2. PICK c : c = Copy(s, i, TRUE)
    OBVIOUS
  <2>3. c.index = i /\ c.split = s
    BY <2>2 DEF Copy
  <2>4. c = WholeCopy(s, i) /\ c \in WholeCopies
    BY <1>1, <2>1, <2>2, WholeCopiesAreCopies DEF WholeCopy
  <2>5. c \in WholeCopies /\ folder[savedAs[s][i]] = c
    BY <2>1, <2>4 DEF FilesInv
  <2>6. {folder[savedAs[s][i]]} \intersect WholeCopies = {c}
    BY <2>5
  <2>7. PointOf(s, i) = {<<d.index, splits[d.split].values[d.index]>> : d \in {c}}
    BY <1>3, <2>6 DEF PointOf
  <2> QED
    BY <2>3, <2>7
<1> QED
  BY <1>2, <1>3

LEMMA HoldersOpen ==
  ASSUME LinesAreRecovered, HandoutTypes, FilesInv
  PROVE  HandedOutSharesOpen
<1> SUFFICES ASSUME NEW s \in DOMAIN splits, \A j \in HandedOut : savedAs[s][j] # NoName,
                    NEW indices \in SUBSET Indices
             PROVE  LET found == Recovered(splits[s].mode,
                                           UNION {PointOf(s, i) : i \in indices})
                    IN IF Suffices(splits[s].mode, indices)
                       THEN found = splits[s].key ELSE found = NoKey
  BY DEF HandedOutSharesOpen
<1>1. UNION {PointOf(s, i) : i \in indices} = Points(splits[s].values, indices)
  <2>1. \A i \in indices : PointOf(s, i) = {<<i, splits[s].values[i]>>}
    BY HoldersPoint
  <2> QED
    BY <2>1 DEF Points
<1>2. splits[s] \in SplitRecords
  BY DEF HandoutTypes
<1>3. /\ Suffices(splits[s].mode, indices) =>
           Recovered(splits[s].mode, Points(splits[s].values, indices)) = splits[s].key
      /\ ~Suffices(splits[s].mode, indices) =>
           Recovered(splits[s].mode, Points(splits[s].values, indices)) = NoKey
  BY <1>2, SplitForms, StrictOpens, StandardOpens
<1> QED
  BY <1>1, <1>3

-----------------------------------------------------------------------------
(* The steps.                                                               *)
LEMMA SavedFile ==
  ASSUME ShareFilesInv, NEW s \in DOMAIN splits, NEW i \in HandedOut, savedAs[s][i] # NoName
  PROVE  savedAs[s][i] \in ShareNames /\ folder[savedAs[s][i]] = WholeCopy(s, i)
<1>1. savedAs[s] \in [HandedOut -> ShareNames \cup {NoName}]
  <2>1. savedAs \in Seq([HandedOut -> ShareNames \cup {NoName}]) /\ s \in DOMAIN savedAs
    BY DEF ShareFilesInv, HandoutTypes
  <2> QED
    BY <2>1
<1> QED
  BY <1>1 DEF ShareFilesInv, FilesInv

LEMMA SaveRecord ==
  ASSUME ShareFilesInv, save # NotSaving
  PROVE  save \in SaveRecords /\ save.index \in HandedOut /\ save.name \in ShareNames
BY DEF ShareFilesInv, HandoutTypes, SaveRecords

(* A copy is put where nothing was, or over the copy of the same share. *)
LEMMA PutKeeps ==
  ASSUME ShareFilesInv, save # NotSaving, NEW w \in BOOLEAN,
         Untaken(save.name) \/ save.at = "claimed",
         Puts(Copy(Current, save.index, w)), save' \in SaveRecords,
         save'.name = save.name, save'.index = save.index,
         UNCHANGED <<splits, held, savedAs, foreign>>
  PROVE  ShareFilesInv'
<1>1. /\ save.name \in ShareNames /\ save.index \in HandedOut /\ DOMAIN folder = ShareNames
      /\ folder' = [folder EXCEPT ![save.name] = Copy(Current, save.index, w)]
  BY SaveRecord DEF ShareFilesInv, HandoutTypes, Puts
<1>2. /\ DOMAIN folder' = ShareNames /\ folder'[save.name] = Copy(Current, save.index, w)
      /\ \A n \in ShareNames : n # save.name => folder'[n] = folder[n]
  BY <1>1
<1>3. folder[save.name] = Absent \/ \E v \in BOOLEAN : folder[save.name] = Copy(Current, save.index, v)
  BY DEF Untaken, ShareFilesInv, SaveInv
<1>4. HandoutTypes' /\ (held => splits # <<>>)'
  BY <1>2 DEF ShareFilesInv, HandoutTypes
<1>5. Current' = Current
  BY DEF Current
<1>6. SaveInv'
  BY <1>2, <1>5 DEF ShareFilesInv, SaveInv
<1>7. FilesInv'
  <2> SUFFICES ASSUME NEW s \in DOMAIN splits, NEW i \in HandedOut, savedAs[s][i] # NoName
               PROVE  folder'[savedAs[s][i]] = WholeCopy(s, i)
    BY DEF FilesInv
  <2>1. folder[savedAs[s][i]] = WholeCopy(s, i) /\ savedAs[s][i] \in ShareNames
    BY SavedFile
  <2>2. ASSUME savedAs[s][i] = save.name PROVE FALSE
    <3>1. s = Current /\ i = save.index
      BY <1>3, <2>1, <2>2, WholeCopiesAreCopies, KindsDiffer, CopiesDiffer
    <3> QED
      BY <3>1 DEF ShareFilesInv, SaveInv
  <2> QED
    BY <1>2, <2>1, <2>2
<1>8. OthersKeepTheirFiles'
  <2>1. save.name \notin foreign
    BY <1>3, KindsDiffer DEF ShareFilesInv, OthersKeepTheirFiles
  <2>2. ASSUME NEW n \in foreign PROVE folder'[n] = Foreign
    BY <1>1, <2>1 DEF ShareFilesInv, OthersKeepTheirFiles
  <2> QED
    BY <2>2 DEF OthersKeepTheirFiles
<1> QED
  BY <1>4, <1>6, <1>7, <1>8 DEF ShareFilesInv

LEMMA RemovalKeeps ==
  ASSUME ShareFilesInv, save.at \in {"claimed", "published"}, save # NotSaving,
         RemoveTarget, save' = NotSaving, UNCHANGED <<splits, held, savedAs, foreign>>
  PROVE  ShareFilesInv'
<1>1. save.name \in ShareNames /\ save.index \in HandedOut /\ DOMAIN folder = ShareNames
  BY SaveRecord DEF ShareFilesInv, HandoutTypes
<1>2. folder' = [folder EXCEPT ![save.name] = Absent] \/ folder' = folder
  BY DEF RemoveTarget, Puts
<1>3. \E v \in BOOLEAN : folder[save.name] = Copy(Current, save.index, v)
  BY DEF ShareFilesInv, SaveInv
<1>4. HandoutTypes' /\ (held => splits # <<>>)' /\ SaveInv'
  BY <1>1, <1>2 DEF ShareFilesInv, HandoutTypes, SaveInv
<1>5. FilesInv'
  <2> SUFFICES ASSUME NEW s \in DOMAIN splits, NEW i \in HandedOut, savedAs[s][i] # NoName
               PROVE  folder'[savedAs[s][i]] = WholeCopy(s, i)
    BY DEF FilesInv
  <2>1. folder[savedAs[s][i]] = WholeCopy(s, i) /\ savedAs[s][i] \in ShareNames
    BY SavedFile
  <2>2. ASSUME savedAs[s][i] = save.name PROVE FALSE
    <3>1. s = Current /\ i = save.index
      BY <1>3, <2>1, <2>2, WholeCopiesAreCopies, CopiesDiffer
    <3> QED
      BY <3>1 DEF ShareFilesInv, SaveInv
  <2> QED
    BY <1>1, <1>2, <2>1, <2>2
<1>6. OthersKeepTheirFiles'
  <2>1. save.name \notin foreign
    BY <1>3, KindsDiffer DEF ShareFilesInv, OthersKeepTheirFiles
  <2>2. ASSUME NEW n \in foreign PROVE folder'[n] = Foreign
    <3>1. folder[n] = Foreign /\ n # save.name /\ n \in ShareNames
      BY <2>1, <2>2 DEF ShareFilesInv, HandoutTypes, OthersKeepTheirFiles
    <3>2. folder'[n] = folder[n]
      BY <1>1, <1>2, <3>1
    <3> QED
      BY <3>1, <3>2
  <2> QED
    BY <2>2 DEF OthersKeepTheirFiles
<1> QED
  BY <1>4, <1>5, <1>6 DEF ShareFilesInv

(* The save ends without a file, or goes on before there is one. *)
LEMMA QuietStepKeeps ==
  ASSUME ShareFilesInv, save' \in SaveRecords \cup {NotSaving},
         save' # NotSaving => /\ save'.at \in {"chosen", "written"} /\ held'
                              /\ Current \in DOMAIN splits /\ savedAs[Current][save'.index] = NoName,
         UNCHANGED <<splits, savedAs, folder, foreign>>, held' => held
  PROVE  ShareFilesInv'
<1>1. Current' = Current
  BY DEF Current
<1>2. HandoutTypes' /\ (held => splits # <<>>)' /\ FilesInv' /\ OthersKeepTheirFiles'
  BY DEF ShareFilesInv, HandoutTypes, FilesInv, OthersKeepTheirFiles
<1>3. SaveInv'
  BY <1>1 DEF SaveInv
<1> QED
  BY <1>2, <1>3 DEF ShareFilesInv

LEMMA ChooseKeeps ==
  ASSUME ShareFilesInv, NEW i \in HandedOut, NEW n \in ShareNames, Choose(i, n)
  PROVE  ShareFilesInv'
<1>1. /\ save' = [at |-> "chosen", index |-> i, name |-> n, whole |-> FALSE]
      /\ savedAs[Current][i] = NoName /\ UNCHANGED <<splits, savedAs, folder, foreign, held>>
  BY DEF Choose
<1>2. held
  BY DEF Choose
<1>3. save' \in SaveRecords /\ save'.at = "chosen" /\ save'.index = i
  BY <1>1 DEF SaveRecords
<1>4. Current \in DOMAIN splits
  <2>1. splits # <<>> /\ splits \in Seq(SplitRecords) /\ HandoutTypes
    BY <1>2 DEF ShareFilesInv, HandoutTypes
  <2> QED
    BY <2>1, CurrentIsLast
<1> QED
  BY <1>1, <1>2, <1>3, <1>4, QuietStepKeeps

LEMMA SaveStepKeeps ==
  ASSUME ShareFilesInv, SaveStep
  PROVE  ShareFilesInv'
<1>1. ASSUME NEW w \in BOOLEAN, WriteTemp(w) PROVE ShareFilesInv'
  <2>1. save # NotSaving /\ save.at = "chosen" /\ save' = [save EXCEPT !.at = "written", !.whole = w]
        /\ UNCHANGED <<splits, held, savedAs, folder, foreign>>
    BY <1>1 DEF WriteTemp, NotSaving
  <2>2. save' \in SaveRecords /\ save'.at = "written" /\ save'.index = save.index
    BY <2>1, SaveRecord DEF SaveRecords
  <2> QED
    BY <2>1, <2>2, QuietStepKeeps DEF ShareFilesInv, SaveInv
<1>2. ASSUME NEW w \in BOOLEAN, WriteClaimed(w) PROVE ShareFilesInv'
  <2>1. save # NotSaving /\ save.at = "claimed" /\ save' = [save EXCEPT !.at = "published"]
        /\ UNCHANGED <<splits, held, savedAs, foreign>>
    BY <1>2 DEF WriteClaimed, NotSaving
  <2>2. Puts(Copy(Current, save.index, w))
    BY <1>2 DEF WriteClaimed
  <2>3. save' \in SaveRecords /\ save'.name = save.name /\ save'.index = save.index
    BY <2>1, SaveRecord DEF SaveRecords
  <2> QED
    BY <2>1, <2>2, <2>3, PutKeeps
<1>3. ASSUME PublishTemp PROVE ShareFilesInv'
  <2>1. save # NotSaving /\ Untaken(save.name) /\ save' = [save EXCEPT !.at = "published"]
        /\ UNCHANGED <<splits, held, savedAs, foreign>>
    BY <1>3 DEF PublishTemp, NotSaving
  <2>2. PICK w \in BOOLEAN : Puts(Copy(Current, save.index, w))
    <3>1. save.whole \in BOOLEAN
      BY <2>1, SaveRecord DEF SaveRecords
    <3> QED
      BY <1>3, <3>1 DEF PublishTemp
  <2>3. save' \in SaveRecords /\ save'.name = save.name /\ save'.index = save.index
    BY <2>1, SaveRecord DEF SaveRecords
  <2> QED
    BY <2>1, <2>2, <2>3, PutKeeps
<1>4. ASSUME ClaimName PROVE ShareFilesInv'
  <2>1. save # NotSaving /\ Untaken(save.name) /\ save' = [save EXCEPT !.at = "claimed"]
        /\ UNCHANGED <<splits, held, savedAs, foreign>>
    BY <1>4 DEF ClaimName, NotSaving
  <2>2. PICK w \in BOOLEAN : Puts(Copy(Current, save.index, w))
    BY <1>4 DEF ClaimName
  <2>3. save' \in SaveRecords /\ save'.name = save.name /\ save'.index = save.index
    BY <2>1, SaveRecord DEF SaveRecords
  <2> QED
    BY <2>1, <2>2, <2>3, PutKeeps
<1>5. ASSUME TempFails \/ PublishFails PROVE ShareFilesInv'
  BY <1>5, QuietStepKeeps DEF TempFails, PublishFails, Fails
<1>6. ASSUME ClaimedFails \/ VerifyFails PROVE ShareFilesInv'
  BY <1>6, RemovalKeeps DEF ClaimedFails, VerifyFails, Fails, NotSaving
<1>7. ASSUME Verify PROVE ShareFilesInv'
  <2>1. /\ save # NotSaving /\ save.at = "published" /\ save' = NotSaving
        /\ folder[save.name] = WholeCopy(Current, save.index)
        /\ savedAs' = [savedAs EXCEPT ![Current] = [savedAs[Current] EXCEPT ![save.index] = save.name]]
        /\ UNCHANGED <<splits, held, folder, foreign>>
    BY <1>7 DEF Verify, ReadsBack, NotSaving, WholeCopy
  <2>2. /\ save.name \in ShareNames /\ save.index \in HandedOut /\ Current \in DOMAIN splits
    BY <2>1, SaveRecord DEF ShareFilesInv, SaveInv
  <2>3. /\ savedAs \in Seq([HandedOut -> ShareNames \cup {NoName}])
        /\ DOMAIN savedAs = DOMAIN splits
    BY DEF ShareFilesInv, HandoutTypes
  <2>4. PICK chosen \in [HandedOut -> ShareNames \cup {NoName}] :
          chosen = [savedAs[Current] EXCEPT ![save.index] = save.name]
    <3>1. savedAs[Current] \in [HandedOut -> ShareNames \cup {NoName}]
      BY <2>2, <2>3
    <3> QED
      BY <2>2, <3>1
  <2>5. /\ savedAs' \in Seq([HandedOut -> ShareNames \cup {NoName}])
        /\ DOMAIN savedAs' = DOMAIN splits /\ savedAs'[Current] = chosen
        /\ \A s \in DOMAIN splits : s # Current => savedAs'[s] = savedAs[s]
    BY <2>1, <2>2, <2>3, <2>4, ExceptSeq
  <2>6. HandoutTypes' /\ (held => splits # <<>>)'
    BY <2>1, <2>5 DEF ShareFilesInv, HandoutTypes
  <2>7. SaveInv' /\ OthersKeepTheirFiles'
    BY <2>1 DEF ShareFilesInv, SaveInv, OthersKeepTheirFiles
  <2>8. FilesInv'
    <3> SUFFICES ASSUME NEW s \in DOMAIN splits, NEW i \in HandedOut, savedAs'[s][i] # NoName
                 PROVE  folder[savedAs'[s][i]] = WholeCopy(s, i)
      BY <2>1 DEF FilesInv
    <3>1. CASE s = Current /\ i = save.index
      BY <2>1, <2>2, <2>3, <2>4, <2>5, <3>1
    <3>2. CASE ~(s = Current /\ i = save.index)
      <4>1. savedAs'[s][i] = savedAs[s][i]
        BY <2>2, <2>3, <2>4, <2>5, <3>2
      <4> QED
        BY <4>1 DEF ShareFilesInv, FilesInv
    <3> QED
      BY <3>1, <3>2
  <2> QED
    BY <2>6, <2>7, <2>8 DEF ShareFilesInv
<1> QED
  BY <1>1, <1>2, <1>3, <1>4, <1>5, <1>6, <1>7, ChooseKeeps DEF SaveStep

LEMMA SplitKeeps ==
  ASSUME ShareFilesInv, NEW mode, NEW key, NEW chance, NEW pair,
         SplitForHolders(mode, key, chance, pair),
         [mode |-> mode, key |-> key, values |-> Values(mode, key, chance),
          wrapped |-> WrappedShares(Values(mode, key, chance))] \in SplitRecords
  PROVE  ShareFilesInv'
<1>1. PICK split \in SplitRecords :
        split = [mode |-> mode, key |-> key, values |-> Values(mode, key, chance),
                 wrapped |-> WrappedShares(Values(mode, key, chance))]
  OBVIOUS
<1>2. /\ splits' = Append(splits, split) /\ save = NotSaving /\ save' = NotSaving
      /\ savedAs' = Append(savedAs, NotSavedYet) /\ Current < MaxSplits
      /\ UNCHANGED <<folder, foreign>>
  BY <1>1 DEF SplitForHolders
<1>3. /\ splits \in Seq(SplitRecords) /\ Current = Len(splits) /\ Len(splits) \in Nat
      /\ savedAs \in Seq([HandedOut -> ShareNames \cup {NoName}])
      /\ DOMAIN savedAs = DOMAIN splits /\ Len(savedAs) = Len(splits)
  BY CurrentIsLast DEF ShareFilesInv, HandoutTypes
<1>4. PICK none \in [HandedOut -> ShareNames \cup {NoName}] :
        none = NotSavedYet /\ \A i \in HandedOut : none[i] = NoName
  <2>1. /\ NotSavedYet \in [HandedOut -> ShareNames \cup {NoName}]
        /\ \A i \in HandedOut : NotSavedYet[i] = NoName
    BY DEF NotSavedYet
  <2> QED
    BY <2>1
<1>5. /\ splits' \in Seq(SplitRecords) /\ Len(splits') = Len(splits) + 1 /\ splits' # <<>>
  BY <1>2, <1>3, AppendProperties
<1>6. /\ savedAs' \in Seq([HandedOut -> ShareNames \cup {NoName}])
      /\ Len(savedAs') = Len(splits) + 1 /\ savedAs'[Len(splits) + 1] = none
      /\ \A s \in 1 .. Len(splits) : savedAs'[s] = savedAs[s]
  BY <1>2, <1>3, <1>4, AppendProperties
<1>7. HandoutTypes'
  BY <1>2, <1>3, <1>5, <1>6, HandoutAssumption DEF ShareFilesInv, HandoutTypes
<1>8. FilesInv'
  <2> SUFFICES ASSUME NEW s \in DOMAIN splits', NEW i \in HandedOut, savedAs'[s][i] # NoName
               PROVE  folder[savedAs'[s][i]] = WholeCopy(s, i)
    BY <1>2 DEF FilesInv
  <2>1. s \in 1 .. Len(splits) + 1
    BY <1>5
  <2>2. s # Len(splits) + 1
    BY <1>4, <1>6
  <2>3. s \in 1 .. Len(splits) /\ s \in DOMAIN splits
    BY <1>3, <2>1, <2>2
  <2> QED
    BY <1>6, <2>3 DEF ShareFilesInv, FilesInv
<1> QED
  BY <1>2, <1>5, <1>7, <1>8 DEF ShareFilesInv, SaveInv, OthersKeepTheirFiles

LEMMA OthersStepKeeps ==
  ASSUME ShareFilesInv, NEW n \in ShareNames, OtherCreates(n) \/ OtherRemoves(n)
  PROVE  ShareFilesInv'
<1>1. /\ folder[n] \in {Absent, Foreign} /\ folder' \in {[folder EXCEPT ![n] = Absent],
                                                         [folder EXCEPT ![n] = Foreign]}
      /\ UNCHANGED <<splits, held, savedAs, save>> /\ DOMAIN folder = ShareNames
  BY DEF OtherCreates, OtherRemoves, ShareFilesInv, HandoutTypes
<1>2. /\ DOMAIN folder' = ShareNames
      /\ \A m \in ShareNames : m # n => folder'[m] = folder[m]
  BY <1>1
<1>3. HandoutTypes' /\ (held => splits # <<>>)' /\ Current' = Current
  BY <1>1, <1>2 DEF ShareFilesInv, HandoutTypes, Current, OtherCreates, OtherRemoves
<1>4. SaveInv'
  <2>1. ASSUME save # NotSaving, NEW w \in BOOLEAN, folder[save.name] = Copy(Current, save.index, w)
        PROVE  folder'[save.name] = Copy(Current, save.index, w)
    BY <1>1, <1>2, <2>1, SaveRecord, KindsDiffer
  <2> QED
    BY <1>1, <1>3, <2>1 DEF ShareFilesInv, SaveInv
<1>5. FilesInv'
  <2> SUFFICES ASSUME NEW s \in DOMAIN splits, NEW i \in HandedOut, savedAs[s][i] # NoName
               PROVE  folder'[savedAs[s][i]] = WholeCopy(s, i)
    BY <1>1 DEF FilesInv
  <2>1. folder[savedAs[s][i]] = WholeCopy(s, i) /\ savedAs[s][i] \in ShareNames
    BY SavedFile
  <2> QED
    BY <1>1, <1>2, <2>1, WholeCopiesAreCopies, KindsDiffer
<1>6. OthersKeepTheirFiles'
  <2>1. CASE OtherCreates(n)
    BY <1>1, <1>2, <2>1 DEF OtherCreates, ShareFilesInv, OthersKeepTheirFiles
  <2>2. CASE OtherRemoves(n)
    BY <1>1, <1>2, <2>2 DEF OtherRemoves, ShareFilesInv, OthersKeepTheirFiles
  <2> QED
    BY <2>1, <2>2
<1> QED
  BY <1>3, <1>4, <1>5, <1>6 DEF ShareFilesInv

LEMMA HandoutInvHolds == HandoutSpec => []ShareFilesInv
<1>1. HandoutInit => ShareFilesInv
  <2> SUFFICES ASSUME HandoutInit PROVE ShareFilesInv
    OBVIOUS
  <2>1. /\ splits = <<>> /\ savedAs = <<>> /\ save = NotSaving /\ foreign = {} /\ ~held
        /\ folder = [n \in ShareNames |-> Absent]
    BY DEF HandoutInit
  <2>2. Len(splits) = 0 /\ DOMAIN splits = {} /\ DOMAIN savedAs = {} /\ DOMAIN folder = ShareNames
    BY <2>1
  <2> QED
    BY <2>1, <2>2, HandoutAssumption
    DEF ShareFilesInv, HandoutTypes, SaveInv, FilesInv, OthersKeepTheirFiles
<1>2. ShareFilesInv /\ [HandoutNext]_handoutVars => ShareFilesInv'
  <2> SUFFICES ASSUME ShareFilesInv, [HandoutNext]_handoutVars PROVE ShareFilesInv'
    OBVIOUS
  <2>1. ASSUME NEW key \in Bits, NEW pad \in Bits, SplitForHolders("strict", key, pad, HandedOut)
        PROVE  ShareFilesInv'
    <3>1. [mode |-> "strict", key |-> key, values |-> Values("strict", key, pad),
           wrapped |-> WrappedShares(Values("strict", key, pad))] \in SplitRecords
      BY DEF SplitRecords, StrictSplits, Values
    <3> QED
      BY <2>1, <3>1, SplitKeeps
  <2>2. ASSUME NEW key \in Bits, NEW slope \in 0 .. Prime - 1, NEW pair,
               SplitForHolders("standard", key, slope, pair)
        PROVE  ShareFilesInv'
    <3>1. [mode |-> "standard", key |-> key, values |-> Values("standard", key, slope),
           wrapped |-> WrappedShares(Values("standard", key, slope))] \in SplitRecords
      BY DEF SplitRecords, StandardSplits, Values
    <3> QED
      BY <2>2, <3>1, SplitKeeps
  <2>3. ASSUME UNCHANGED <<splits, savedAs, folder, foreign>>, save' = NotSaving \/ save' = save,
               held' = held \/ (~held' /\ save' = NotSaving)
        PROVE  ShareFilesInv'
    <3>1. held' => held
      BY <2>3
    <3>2. HandoutTypes' /\ (held => splits # <<>>)' /\ FilesInv' /\ OthersKeepTheirFiles'
      BY <2>3, <3>1 DEF ShareFilesInv, HandoutTypes, FilesInv, OthersKeepTheirFiles
    <3>3. SaveInv'
      <4>1. CASE save' = NotSaving
        BY <4>1 DEF SaveInv
      <4>2. CASE save' = save /\ held' = held
        BY <2>3, <4>2 DEF ShareFilesInv, SaveInv, Current
      <4> QED
        BY <2>3, <4>1, <4>2
    <3> QED
      BY <3>2, <3>3 DEF ShareFilesInv
  <2>4. ASSUME CompleteHandout \/ LeavePanel \/ EndApplication PROVE ShareFilesInv'
    BY <2>3, <2>4 DEF CompleteHandout, LeavePanel, DropShares, EndApplication
  <2>5. ASSUME NEW outcome, InitMasterKey(outcome) PROVE ShareFilesInv'
    BY <2>3, <2>5 DEF InitMasterKey
  <2>6. CASE UNCHANGED handoutVars
    BY <2>3, <2>6 DEF handoutVars
  <2> QED
    BY <2>1, <2>2, <2>4, <2>5, <2>6, SaveStepKeeps, OthersStepKeeps DEF HandoutNext
<1> QED
  BY <1>1, <1>2, PTL DEF HandoutSpec

(* Every handed out share whose save was reported lies whole in its file,   *)
(* and with the shares of the institutions gives back the key to every set *)
(* of holders that suffices and, in strict mode, to no other; no file of   *)
(* another program is replaced or removed (desktop/share_file.py,           *)
(* share_handout.py): for every number of splits, names and failures, and   *)
(* for every prime over which two points of a line give back its key.       *)
THEOREM HandedOutSharesGiveTheKey ==
  ASSUME LinesAreRecovered
  PROVE  HandoutSpec => []SharesAreSavedApart
<1>1. ShareFilesInv => SharesAreSavedApart
  BY HoldersOpen DEF ShareFilesInv, SharesAreSavedApart
<1> QED
  BY <1>1, HandoutInvHolds, PTL

===============================================================================
