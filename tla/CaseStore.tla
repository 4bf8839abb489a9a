------------------------------ MODULE CaseStore ------------------------------
(***************************************************************************)
(* The table seal_records of one desktop: the rows that registrations,     *)
(* wizards and the application write and replace, and the columns the case *)
(* manager lists them by.                                                  *)
(*                                                                         *)
(* A record is the history of its seal, each event a step and its number.  *)
(* One view is on screen at a time; the save of an unsealing goes on when  *)
(* its view is left.  A sealing is never started from a registered case:   *)
(* the case manager lists such a case as sealed, and refuses.              *)
(***************************************************************************)
EXTENDS Integers, Sequences, FiniteSets, SequencesExt

CONSTANTS
  DrawnIds,      \* identifiers that may be drawn
  MaxEvents     \* bound: events made

ASSUME CaseStoreAssumption == MaxEvents \in Nat

VARIABLES
  rows,         \* identifier -> its row
  recordFiles,  \* records written to files
  events,       \* events made
  view,         \* the wizard on screen
  leftSave,     \* an unsealing that was left while it is saved, or NoView
  completed     \* history: seals whose last saved step was then completed

caseVars == <<rows, recordFiles, events, view, leftSave, completed>>

-----------------------------------------------------------------------------
Steps == {"Sealing", "Unsealing", "Resealing"}

Count(history, step) == Cardinality({e \in DOMAIN history : history[e].step = step})

(* history.summary: S{n}U{m}R{k}. *)
Summary(history) == [step \in Steps |-> Count(history, step)]

Unsealed == [step \in Steps |-> IF step = "Sealing" THEN 1 ELSE 0]   \* S1U0R0

(* The columns default to no names and S1U0R0; a registration writes its    *)
(* names and an empty status, which the lists show as the default.         *)
DefaultColumns == [named |-> FALSE, status |-> Unsealed]
RegisteredColumns == [named |-> TRUE, status |-> Unsealed]
ColumnsOf(history) == [named |-> TRUE, status |-> Summary(history)]

NoRow == [holds |-> "nothing"]
Registered == [holds |-> "case", columns |-> RegisteredColumns]
Blank == [holds |-> "blank", columns |-> DefaultColumns]
Row(history, columns) ==
  [holds |-> "record", history |-> history, columns |-> columns]

NoView == [step |-> "none"]
NewView(step, id, base) ==
  [step |-> step, id |-> id, base |-> base, history |-> <<>>, saved |-> FALSE]

CaseStoreInit ==
  /\ rows = [id \in DrawnIds |-> NoRow]
  /\ recordFiles = {}
  /\ events = 0
  /\ view = NoView
  /\ leftSave = NoView
  /\ completed = {}

-----------------------------------------------------------------------------
(* The case manager.                                                        *)

(* A drawn identifier that has a row is drawn again. *)
RegisterCase(id) ==
  /\ view = NoView
  /\ rows[id] = NoRow
  /\ rows' = [rows EXCEPT ![id] = Registered]
  /\ completed' = completed \ {id}
  /\ UNCHANGED <<recordFiles, events, view, leftSave>>

DeleteCase(id) ==
  /\ view = NoView
  /\ rows[id] # NoRow
  /\ rows' = [rows EXCEPT ![id] = NoRow]
  /\ UNCHANGED <<recordFiles, events, view, leftSave, completed>>

-----------------------------------------------------------------------------
(* The wizards.                                                             *)

(* S4 draws an identifier without a row. *)
OpenSealView(id) ==
  /\ view = NoView
  /\ rows[id] = NoRow
  /\ view' = NewView("Sealing", id, <<>>)
  /\ UNCHANGED <<rows, recordFiles, events, leftSave, completed>>

(* U3, R1: the file's history must begin with the stored record's. *)
OpenRecordView(step, file) ==
  /\ view = NoView
  /\ rows[file.id].holds = "record" =>
       IsPrefix(rows[file.id].history, file.history)
  /\ view' = NewView(step, file.id, file.history)
  /\ UNCHANGED <<rows, recordFiles, events, leftSave, completed>>

(* S4 and S5, U6, R6: the record of the new event goes to a file. *)
MakeViewRecord ==
  /\ view # NoView
  /\ view.history = <<>>
  /\ events < MaxEvents
  /\ events' = events + 1
  /\ LET history == Append(view.base, [step |-> view.step, number |-> events + 1])
     IN  /\ recordFiles' = recordFiles \cup {[id |-> view.id, history |-> history]}
         /\ view' = [view EXCEPT !.history = history]
  /\ UNCHANGED <<rows, leftSave, completed>>

(* Under the write lock: a row is only replaced by a record that continues  *)
(* its history, and the row of a registered or blank case by none.         *)
LongerHistory(id, history) ==   \* mutant: only the lengths are compared
  rows[id].holds = "record" => Len(history) >= Len(rows[id].history)

Replaceable(id, history) ==
  \/ rows[id] = NoRow
  \/ rows[id].holds = "record" /\ IsPrefix(rows[id].history, history)

(* S7 writes the columns in the same transaction; U7 and R8 insert the row, *)
(* or replace it, with the columns at their defaults.                      *)
Save(saving) ==
  /\ Replaceable(saving.id, saving.history)
  /\ rows' = [rows EXCEPT ![saving.id] =
       Row(saving.history, IF saving.step = "Sealing"
                           THEN ColumnsOf(saving.history) ELSE DefaultColumns)]
  /\ completed' = completed \ {saving.id}

SaveViewRecord ==
  /\ view # NoView
  /\ view.history # <<>>
  /\ ~view.saved \/ view.step = "Unsealing"
  /\ Save(view)
  /\ view' = [view EXCEPT !.saved = TRUE]
  /\ UNCHANGED <<recordFiles, events, leftSave>>

(* The application: a row is inserted if there is none, then the columns    *)
(* and the record are updated and the view is closed.                      *)
CompleteSealing ==
  /\ view.step = "Sealing" /\ view.saved
  /\ rows' = [rows EXCEPT ![view.id] = Row(view.history, ColumnsOf(view.history))]
  /\ view' = NoView
  /\ completed' = completed \cup {view.id}
  /\ UNCHANGED <<recordFiles, events, leftSave>>

(* For the other steps the update fails, for it takes the investigator for  *)
(* a sealing's; the inserted row stays and the view stays on screen.       *)
CompleteOther ==
  /\ view.step \in {"Unsealing", "Resealing"}
  /\ view.history # <<>>
  /\ view.saved \/ view.step = "Unsealing"
  /\ rows' = IF rows[view.id] = NoRow THEN [rows EXCEPT ![view.id] = Blank]
             ELSE rows
  /\ completed' = IF view.saved THEN completed \cup {view.id} ELSE completed
  /\ UNCHANGED <<recordFiles, events, view, leftSave>>

(* An unsealing may be left while U7 runs. *)
LeaveCaseView ==
  /\ view # NoView
  /\ view' = NoView
  /\ \/ UNCHANGED leftSave
     \/ /\ view.step = "Unsealing" /\ view.history # <<>>
        /\ leftSave = NoView
        /\ leftSave' = view
  /\ UNCHANGED <<rows, recordFiles, events, completed>>

LeftSaveEnds ==
  /\ leftSave # NoView
  /\ Save(leftSave) \/ UNCHANGED <<rows, completed>>
  /\ leftSave' = NoView
  /\ UNCHANGED <<recordFiles, events, view>>

CaseStoreNext ==
  \/ \E id \in DrawnIds : RegisterCase(id) \/ DeleteCase(id) \/ OpenSealView(id)
  \/ \E step \in {"Unsealing", "Resealing"}, file \in recordFiles :
       OpenRecordView(step, file)
  \/ MakeViewRecord \/ SaveViewRecord
  \/ CompleteSealing \/ CompleteOther
  \/ LeaveCaseView \/ LeftSaveEnds

CaseStoreSpec == CaseStoreInit /\ [][CaseStoreNext]_caseVars

-----------------------------------------------------------------------------
(* A row holds one seal's record or none, every stored record was written   *)
(* to a file, and a view on screen that is saved has its row.              *)
CaseStoreTypeOK ==
  /\ events \in 0 .. MaxEvents
  /\ \A id \in DrawnIds : rows[id].holds = "record" =>
       [id |-> id, history |-> rows[id].history] \in recordFiles
  /\ completed \subseteq DrawnIds

(* A row keeps its seal: a stored record is followed only by one that       *)
(* continues it, and a registered case by nothing, until the case is       *)
(* deleted; though identifiers may be drawn again, old files are loaded    *)
(* again, and a save may end after its view was left.                      *)
Follows(row, next) ==
  \/ next = NoRow
  \/ row.holds = "case" /\ next = row
  \/ row.holds = "record" /\ next.holds = "record"
     /\ IsPrefix(row.history, next.history)
  \/ row.holds \in {"nothing", "blank"}

RowKeepsItsSeal ==
  [][\A id \in DrawnIds : Follows(rows[id], rows'[id])]_caseVars

(* What a completed step saved is listed as what it is: the columns of its *)
(* row are named and count the events of the record (gui/app.py, "status   *)
(* is derived from the accumulated history summary").                      *)
CompletedCaseIsListed ==
  \A id \in completed : rows[id].holds = "record" =>
    rows[id].columns = ColumnsOf(rows[id].history)

=============================================================================
