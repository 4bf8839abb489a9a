---------------------------- MODULE ResealWizard ----------------------------
(***************************************************************************)
(* The desktop's reseal wizard and the process behind it, for one seal.    *)
(*                                                                         *)
(* Page 1 loads a record of the seal and begins a new process.  Page 2     *)
(* compares a directory with it, page 3 classifies what is unknown, page 5 *)
(* encrypts every known or derived file under a new key and then builds    *)
(* the new record, page 7 splits the key and hands shares 1 and 2 out, and *)
(* page 8 saves.  Going back before the encryption, visiting past pages    *)
(* after it, errors and retries at every step, and leaving are all there;  *)
(* meanwhile files come and go, and another event of the seal may be       *)
(* saved.                                                                  *)
(***************************************************************************)
EXTENDS Integers, Sequences, FiniteSets, SequencesExt

CONSTANTS
  Files,             \* files that may be in the directory
  OriginalFiles,     \* those the sealing record lists
  StemOf,            \* their names without extension: the container's name
  MaxProcesses,      \* bound: records loaded
  MaxChanges,        \* bound: changes of the directory
  MaxOtherEvents,    \* bound: events of the seal saved meanwhile
  MaxPolicyGeneration

ASSUME ResealAssumption ==
  /\ OriginalFiles \subseteq Files
  /\ MaxProcesses \in Nat /\ MaxChanges \in Nat /\ MaxOtherEvents \in Nat
  /\ MaxPolicyGeneration \in Nat \ {0}

VARIABLES
  reseal,          \* the wizard on screen
  process,         \* its process; the number is also its key, split and event
  processes,       \* processes begun
  directory,       \* the files in the target directory
  changes,
  stemFiles,       \* containers in the output directory, by stem
  records,         \* records of this seal that exist as files
  stored,          \* the records of the seal in the local store, oldest first
  others,          \* how many of them another view saved
  handout,         \* the shares waiting to be saved to files
  handedOut,       \* shares written to files
  warned           \* history: processes left although warned

resealVars == <<reseal, process, processes, directory, changes, stemFiles,
                records, stored, others, handout, handedOut, warned>>
outside == <<directory, changes, others>>

-----------------------------------------------------------------------------
NoWizard == [open |-> FALSE]
NewWizard ==
  [open |-> TRUE, page |-> 1, return |-> 0, busy |-> "no", failed |-> FALSE,
   encrypted |-> FALSE, recorded |-> FALSE, saved |-> FALSE,
   completed |-> FALSE]

NoProcess == [number |-> 0]
NewProcess(loaded) ==
  [number |-> processes + 1, loaded |-> loaded, known |-> {}, unknown |-> {},
   derived |-> {}, todo |-> {}, missing |-> {}, listed |-> {}, pending |-> {},
   record |-> loaded]

NoStemFile == [key |-> 0, whole |-> FALSE]
StemFile(file, whole) ==
  [key |-> process.number, source |-> file, whole |-> whole]
Stems == {StemOf[f] : f \in Files}

Original == [history |-> <<>>, generation |-> 1, files |-> OriginalFiles,
             derived |-> {}, missing |-> {}, process |-> 0]
Stored == stored[Len(stored)]

NoHandout == [split |-> 0, inFiles |-> {}]

ResealInit ==
  /\ reseal = NoWizard
  /\ process = NoProcess
  /\ processes = 0
  /\ directory = OriginalFiles
  /\ changes = 0
  /\ stemFiles = [s \in Stems |-> NoStemFile]
  /\ records = {Original}
  /\ stored = <<Original>>
  /\ others = 0
  /\ handout = NoHandout
  /\ handedOut = {}
  /\ warned = {}

OpenReseal ==
  /\ ~reseal.open
  /\ reseal' = NewWizard
  /\ UNCHANGED <<process, processes, outside, stemFiles, records, stored,
                 handout, handedOut, warned>>

-----------------------------------------------------------------------------
(* Showing a page starts the work of that page.                             *)

NotBusy == reseal.open /\ reseal.busy = "no"
Free == NotBusy /\ ~reseal.completed
Following == Free /\ reseal.return = 0

FilesToEncrypt == process.known \union process.derived

Shown(page, return, work) ==
  reseal' = [reseal EXCEPT !.page = page, !.return = return, !.busy = work]

StartEncrypting(return) ==
  /\ Shown(5, return, "encrypting")
  /\ process' = [process EXCEPT !.todo = FilesToEncrypt \intersect directory,
                                !.missing = FilesToEncrypt \ directory,
                                !.listed = {}, !.pending = {}]

Work(page) ==
  CASE page = 2 -> "comparing"
    [] page = 5 /\ ~reseal.recorded -> "recording"
    [] page = 8 /\ ~reseal.saved -> "saving"
    [] OTHER -> "no"

ShowPage(page, return) ==
  IF page = 5 /\ ~reseal.encrypted
  THEN StartEncrypting(return)
  ELSE Shown(page, return, Work(page)) /\ UNCHANGED process

-----------------------------------------------------------------------------
(* Page 1.  The record must be the stored one or a later one of the seal.   *)
LoadRecord(record) ==
  /\ Following
  /\ reseal.page = 1
  /\ processes < MaxProcesses
  /\ IsPrefix(Stored.history, record.history)
  /\ processes' = processes + 1
  /\ process' = NewProcess(record)
  /\ Shown(2, 0, "comparing")
  /\ UNCHANGED <<outside, stemFiles, records, stored, handout, handedOut,
                 warned>>

(* Page 2: every visit compares again, a visit after the encryption too.    *)
CompareSucceeds ==
  /\ reseal.open /\ reseal.busy = "comparing"
  /\ process' = [process EXCEPT
       !.known = directory \intersect process.loaded.files,
       !.unknown = directory \ process.loaded.files]
  /\ reseal' = [reseal EXCEPT !.busy = "no", !.failed = FALSE]
  /\ UNCHANGED <<processes, outside, stemFiles, records, stored, handout,
                 handedOut, warned>>

CompareFails ==
  /\ reseal.open /\ reseal.busy = "comparing"
  /\ reseal' = [reseal EXCEPT !.busy = "no", !.failed = TRUE]
  /\ UNCHANGED <<process, processes, outside, stemFiles, records, stored,
                 handout, handedOut, warned>>

(* Page 3: every unknown file is derived or excluded.  Without one, what    *)
(* an earlier visit classified stays.                                       *)
Classify(derived) ==
  /\ Following
  /\ reseal.page = 3
  /\ derived \subseteq process.unknown
  /\ process' = IF process.unknown = {} THEN process
                ELSE [process EXCEPT !.derived = derived]
  /\ Shown(4, 0, "no")
  /\ UNCHANGED <<processes, outside, stemFiles, records, stored, handout,
                 handedOut, warned>>

-----------------------------------------------------------------------------
(* Page 5: one container after the other.  A cancel or an error stops the   *)
(* run, perhaps with the next container begun; it is tried again from       *)
(* page 4.                                                                  *)

EncryptFile(file) ==
  /\ reseal.open /\ reseal.busy = "encrypting"
  /\ file \in process.todo
  /\ stemFiles' = [stemFiles EXCEPT ![StemOf[file]] = StemFile(file, TRUE)]
  /\ process' = [process EXCEPT !.todo = @ \ {file},
                                !.listed = @ \union {file},
                                !.pending = @ \union {StemOf[file]}]
  /\ UNCHANGED <<reseal, processes, outside, records, stored, handout,
                 handedOut, warned>>

StopsBetween == UNCHANGED <<process, stemFiles>>

StopsWithin(file) ==
  /\ process' = [process EXCEPT !.pending = @ \union {StemOf[file]}]
  /\ \/ stemFiles' = [stemFiles EXCEPT ![StemOf[file]] = StemFile(file, FALSE)]
     \/ UNCHANGED stemFiles

EncryptionStops ==
  /\ reseal.open /\ reseal.busy = "encrypting"
  /\ StopsBetween \/ \E f \in process.todo : StopsWithin(f)
  /\ reseal' = [reseal EXCEPT !.busy = "no"]
  /\ UNCHANGED <<processes, outside, records, stored, handout, handedOut,
                 warned>>

EncryptionEnds ==
  /\ reseal.open /\ reseal.busy = "encrypting"
  /\ process.todo = {}
  /\ reseal' = [reseal EXCEPT !.encrypted = TRUE, !.busy = "recording"]
  /\ UNCHANGED <<process, processes, outside, stemFiles, records, stored,
                 handout, handedOut, warned>>

(* The record: the history goes on, and the generation is the one after     *)
(* the larger of the loaded and the stored record's.                        *)
LargerGeneration ==
  IF process.loaded.generation > Stored.generation
  THEN process.loaded.generation ELSE Stored.generation

NextGeneration == LargerGeneration + 1

NewRecord ==
  [history |-> Append(process.loaded.history, process.number),
   generation |-> NextGeneration, files |-> process.listed,
   derived |-> process.derived, missing |-> process.missing,
   process |-> process.number]

BuildNewRecord ==
  /\ reseal.open /\ reseal.busy = "recording"
  /\ LargerGeneration < MaxPolicyGeneration
  /\ process' = [process EXCEPT !.record = NewRecord]
  /\ records' = records \union {NewRecord}
  /\ reseal' = [reseal EXCEPT !.recorded = TRUE, !.busy = "no"]
  /\ UNCHANGED <<processes, outside, stemFiles, stored, handout, handedOut,
                 warned>>

(* An error may come after the record file was written. *)
RecordFails ==
  /\ reseal.open /\ reseal.busy = "recording"
  /\ \/ UNCHANGED records
     \/ /\ LargerGeneration < MaxPolicyGeneration
        /\ records' = records \union {NewRecord}
  /\ reseal' = [reseal EXCEPT !.busy = "no"]
  /\ UNCHANGED <<process, processes, outside, stemFiles, stored, handout,
                 handedOut, warned>>

-----------------------------------------------------------------------------
(* Page 7: the first Next splits the key; the shares are saved to files.    *)
SplitNewKey ==
  /\ Following
  /\ reseal.page = 7
  /\ handout.split = 0
  /\ handout' = [split |-> process.number, inFiles |-> {}]
  /\ UNCHANGED <<reseal, process, processes, outside, stemFiles, records,
                 stored, handedOut, warned>>

SaveNewShare(i) ==
  /\ reseal.open /\ reseal.page = 7
  /\ handout.split # 0
  /\ i \notin handout.inFiles
  /\ handedOut' = handedOut \union {<<handout.split, i>>}
  /\ handout' = [handout EXCEPT !.inFiles = @ \union {i}]
  /\ UNCHANGED <<reseal, process, processes, outside, stemFiles, records,
                 stored, warned>>

(* Page 8: the store takes only a record that continues its own.            *)
SaveReseal ==
  /\ reseal.open /\ reseal.busy = "saving"
  /\ IsPrefix(Stored.history, process.record.history)
  /\ stored' = Append(stored, process.record)
  /\ reseal' = [reseal EXCEPT !.saved = TRUE, !.busy = "no"]
  /\ UNCHANGED <<process, processes, outside, stemFiles, records, handout,
                 handedOut, warned>>

SaveFails ==
  /\ reseal.open /\ reseal.busy = "saving"
  /\ reseal' = [reseal EXCEPT !.busy = "no"]
  /\ UNCHANGED <<process, processes, outside, stemFiles, records, stored,
                 handout, handedOut, warned>>

-----------------------------------------------------------------------------
(* The Next button elsewhere, and the other ways round.                     *)

NextPage ==
  CASE reseal.page = 2 /\ reseal.failed -> 2
    [] reseal.page = 2 /\ ~reseal.failed -> 3
    [] reseal.page = 4 -> 5
    [] reseal.page = 5 /\ reseal.recorded -> 6
    [] reseal.page = 5 /\ reseal.encrypted /\ ~reseal.recorded -> 5
    [] reseal.page = 6 -> 7
    [] reseal.page = 7 /\ handout.inFiles = {1, 2} -> 8
    [] reseal.page = 8 /\ ~reseal.saved -> 8
    [] OTHER -> 0

NextButton ==
  /\ Following
  /\ NextPage # 0
  /\ ShowPage(NextPage, 0)
  /\ UNCHANGED <<processes, outside, stemFiles, records, stored, handout,
                 handedOut, warned>>

(* The comparison enables the Back button of a page under review. *)
BackEnabled ==
  IF reseal.return = 0
  THEN reseal.page > 1 /\ ~(reseal.page > 4 /\ reseal.encrypted)
  ELSE reseal.page = 2

BackButton ==
  /\ Free
  /\ BackEnabled
  /\ ShowPage(reseal.page - 1, reseal.return)
  /\ UNCHANGED <<processes, outside, stemFiles, records, stored, handout,
                 handedOut, warned>>

ReachedPage == IF reseal.return = 0 THEN reseal.page ELSE reseal.return

ReviewsNothing(page) == FALSE   \* mutant: past pages stay open to change

OnlyReviewed(page) == reseal.encrypted /\ page < 5

ClickStep(page) ==
  /\ Free
  /\ page <= ReachedPage /\ page # reseal.page
  /\ ShowPage(page, IF OnlyReviewed(page) THEN ReachedPage ELSE 0)
  /\ UNCHANGED <<processes, outside, stemFiles, records, stored, handout,
                 handedOut, warned>>

ReturnFromReview ==
  /\ Free
  /\ reseal.return # 0
  /\ ShowPage(reseal.return, 0)
  /\ UNCHANGED <<processes, outside, stemFiles, records, stored, handout,
                 handedOut, warned>>

-----------------------------------------------------------------------------
(* Leaving removes the unfinished containers of the last run.               *)
RemovePending ==
  IF reseal.encrypted \/ process.number = 0 THEN stemFiles
  ELSE [s \in Stems |-> IF s \in process.pending THEN NoStemFile
                        ELSE stemFiles[s]]

AsksForUnsaved == handout.split # 0 /\ handout.inFiles # {1, 2}   \* mutant

AsksFirst == handout.split # 0 /\ (handout.inFiles # {1, 2} \/ ~reseal.saved)

CloseReseal ==
  /\ \/ stemFiles' = RemovePending
     \/ UNCHANGED stemFiles        \* removal failed
  /\ warned' = IF AsksFirst THEN warned \union {process.number} ELSE warned
  /\ reseal' = NoWizard
  /\ process' = NoProcess
  /\ handout' = NoHandout
  /\ UNCHANGED <<processes, outside, records, stored, handedOut>>

(* Cancel, a menu, Exit or the window's X: refused while busy, and both     *)
(* ask first.  Cancel is refused for a saved reseal, a menu is not.         *)
LeaveReseal == NotBusy /\ CloseReseal

(* Completing drops the process and the shares and then fails: the columns  *)
(* of the case are read as of a sealing.  The wizard stays on screen, with *)
(* nothing left to work on.                                                *)
CompleteReseal ==
  /\ Following
  /\ reseal.page = 8
  /\ reseal.saved
  /\ reseal' = [reseal EXCEPT !.completed = TRUE]
  /\ process' = NoProcess
  /\ handout' = NoHandout
  /\ UNCHANGED <<processes, outside, stemFiles, records, stored, handedOut,
                 warned>>

-----------------------------------------------------------------------------
(* Around the wizard.  Another event saved is an unsealing whose view was   *)
(* left while its worker still ran; it needs shares 1 and 2 of what it      *)
(* unseals, for 3 and 4 exist only once a reseal is saved.                  *)
BothHandedOut(p) == {<<p, 1>>, <<p, 2>>} \subseteq handedOut

ChangeDirectory(file) ==
  /\ changes < MaxChanges
  /\ changes' = changes + 1
  /\ directory' = IF file \in directory THEN directory \ {file}
                  ELSE directory \union {file}
  /\ UNCHANGED <<reseal, process, processes, stemFiles, records, stored,
                 others, handout, handedOut, warned>>

OtherEvent(record) ==
  /\ others < MaxOtherEvents
  /\ record.process # process.number
  /\ record.process # 0 => BothHandedOut(record.process)
  /\ IsPrefix(Stored.history, record.history)
  /\ others' = others + 1
  /\ LET after == [record EXCEPT !.history = Append(@, -(others + 1))]
     IN  stored' = Append(stored, after) /\ records' = records \union {after}
  /\ UNCHANGED <<reseal, process, processes, directory, changes, stemFiles,
                 handout, handedOut, warned>>

Encrypting ==
  \/ \E f \in Files : EncryptFile(f)
  \/ EncryptionStops \/ EncryptionEnds
  \/ BuildNewRecord \/ RecordFails

ResealNext ==
  \/ OpenReseal
  \/ \E r \in records : LoadRecord(r)
  \/ CompareSucceeds \/ CompareFails
  \/ \E d \in SUBSET Files : Classify(d)
  \/ Encrypting
  \/ SplitNewKey
  \/ \E i \in {1, 2} : SaveNewShare(i)
  \/ SaveReseal \/ SaveFails
  \/ NextButton \/ BackButton \/ ReturnFromReview
  \/ \E p \in 1 .. 8 : ClickStep(p)
  \/ LeaveReseal \/ CompleteReseal
  \/ \E f \in Files : ChangeDirectory(f)
  \/ \E r \in records : OtherEvent(r)

ResealSpec == ResealInit /\ [][ResealNext]_resealVars

-----------------------------------------------------------------------------
(* Work belongs to its page, later pages need what earlier ones produced,  *)
(* and pages before the encryption are only reviewed after it.             *)
ResealWizardTypeOK ==
  /\ processes \in 0 .. MaxProcesses /\ changes \in 0 .. MaxChanges
  /\ directory \subseteq Files
  /\ stored # <<>>
  /\ reseal.open /\ ~reseal.completed =>
       /\ reseal.page > 1 => process.number > 0
       /\ reseal.page > 5 => reseal.recorded
       /\ reseal.page < 5 /\ reseal.encrypted => reseal.return > 4
       /\ reseal.saved => reseal.recorded /\ handout.inFiles = {1, 2}
       /\ reseal.busy = "comparing" => reseal.page = 2
       /\ reseal.busy = "saving" => reseal.page = 8 /\ handout.inFiles = {1, 2}
  /\ handout.split # 0 => reseal.open /\ handout.split = process.number

(* The shares in files and the records in the store agree.  A share that   *)
(* was handed out is one of a saved reseal, or its wizard is still open,   *)
(* or it was left after the warning; and a saved reseal has both shares in *)
(* files.                                                                  *)
SavedProcesses == {stored[k].process : k \in DOMAIN stored}
HandedOutIsRecorded ==
  /\ \A share \in handedOut :
       \/ share[1] \in SavedProcesses
       \/ reseal.open /\ process.number = share[1]
       \/ share[1] \in warned
  /\ \A p \in SavedProcesses \ {0} : BothHandedOut(p)

(* What the store holds of a reseal is true.  Its policy's generation is   *)
(* above that of every reseal stored before.  Every derived file it lists  *)
(* was sealed, unless it was missing when the encryption began.  Its       *)
(* containers hold the files it lists, whole and under the key that was    *)
(* split, until another process begins; two listed files of one stem are   *)
(* excluded, for they share a container.                                   *)
Lists(record, file) ==
  /\ file \in record.files
  /\ \A f \in record.files : StemOf[f] = StemOf[file] => f = file

ResealRecordHolds ==
  \A k \in DOMAIN stored :
    LET record == stored[k] IN
    record.process > 0 =>
      /\ \A j \in 1 .. k - 1 :
           stored[j].process # record.process =>
             stored[j].generation < record.generation
      /\ record.derived \subseteq record.files \union record.missing
      /\ record.process = processes =>
           \A f \in record.files : Lists(record, f) =>
             stemFiles[StemOf[f]] =
               [key |-> record.process, source |-> f, whole |-> TRUE]

=============================================================================
