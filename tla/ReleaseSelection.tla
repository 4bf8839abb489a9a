--------------------------- MODULE ReleaseSelection ---------------------------
(***************************************************************************)
(* Which stored record a release decision rests on                         *)
(* (web/release_selection.py, select_record), beside the sync endpoint     *)
(* that stores those records.                                              *)
(*                                                                         *)
(* A selection takes no lock: it reads the mark, then the event ids, then  *)
(* one record at a time, and may write the enrollment and a missing mark,  *)
(* each in a transaction of its own that may fail.  Submissions are        *)
(* decided in between.                                                     *)
(***************************************************************************)
EXTENDS SyncAdmission, FiniteSetsExt

CONSTANT Readers   \* release requests in progress at the same time

(* What a scan chooses: an event and the policy its record carries. *)
Choice == [event : Events, policy : Policies]

ASSUME ReadersAssumption == IsFiniteSet(Readers) /\ None \notin Choice

VARIABLE reader

svars == <<vars, reader>>

(* A selection in progress: the mark it read, the events it has yet to     *)
(* read, the event and the policy it has chosen, and (history) the policy  *)
(* of the stored maximum and whether the seal was protected at its start.  *)
NotReading == [phase |-> "idle"]

SelectionInit == Init /\ reader = [g \in Readers |-> NotReading]

Protected == mark # None \/ enrolled

(* find_high_water. *)
BeginSelection(g) ==
  /\ reader[g] = NotReading
  /\ reader' = [reader EXCEPT ![g] =
       [phase |-> "listing", mark |-> mark, todo |-> {}, choice |-> None,
        floor |-> StoredMaximum(rows), protected |-> Protected]]
  /\ UNCHANGED vars

(* The event ids are read up front. *)
ListEvents(g) ==
  /\ reader[g].phase = "listing"
  /\ reader' = [reader EXCEPT ![g].phase = "scanning",
                              ![g].todo = {e \in Events : rows[e] # None}]
  /\ UNCHANGED vars

(* Mutant of Chooses: without a mark, the newest authenticated record wins. *)
ChoosesNewest(g, e) ==
  LET found == Assess(caPinned, rows[e].record)
  IN  /\ found # None
      /\ IF reader[g].mark # None THEN found = reader[g].mark
         ELSE reader[g].choice = None

(* Whether the record found at e becomes the choice: with a mark, the      *)
(* first one that carries exactly its policy; without one, a generation    *)
(* above the choice so far.                                                *)
Chooses(g, e) ==
  LET found == Assess(caPinned, rows[e].record)
      choice == reader[g].choice
  IN  /\ found # None
      /\ IF reader[g].mark # None THEN found = reader[g].mark
         ELSE choice = None \/ Generation[found] > Generation[choice.policy]

(* The newest record not yet read is read and classified.  With a mark the *)
(* reading stops at the record that carries it.                            *)
ReadRecord(g) ==
  /\ reader[g].phase = "scanning"
  /\ reader[g].todo # {}
  /\ LET e == Max(reader[g].todo)
         chosen == [event |-> e, policy |-> Assess(caPinned, rows[e].record)]
     IN  reader' = [reader EXCEPT
           ![g].todo = IF Chooses(g, e) /\ reader[g].mark # None
                       THEN {} ELSE @ \ {e},
           ![g].choice = IF Chooses(g, e) THEN chosen ELSE @]
  /\ UNCHANGED vars

(* Mutant of NothingChosen: only the enrollment is consulted. *)
NothingChosenUnmarked(g) ==
  /\ reader[g].phase = "scanning"
  /\ reader[g].todo = {}
  /\ reader[g].choice = None
  /\ reader' = [reader EXCEPT ![g].phase =
       IF enrolled THEN "denied" ELSE "fallback"]
  /\ UNCHANGED vars

(* No usable record: a protected seal is denied, any other falls back to *)
(* the newest record (v1.0.1).                                           *)
NothingChosen(g) ==
  /\ reader[g].phase = "scanning"
  /\ reader[g].todo = {}
  /\ reader[g].choice = None
  /\ reader' = [reader EXCEPT ![g].phase =
       IF reader[g].mark # None \/ enrolled THEN "denied" ELSE "fallback"]
  /\ UNCHANGED vars

(* The chosen record enrolls the seal; a failed write is only logged. *)
EnrollChosen(g) ==
  /\ reader[g].phase = "scanning"
  /\ reader[g].todo = {}
  /\ reader[g].choice # None
  /\ enrolled' \in {enrolled, TRUE}
  /\ reader' = [reader EXCEPT ![g].phase =
       IF reader[g].mark = None THEN "marking" ELSE "chosen"]
  /\ UNCHANGED <<caPinned, caseRow, rows, wrapped, mark, claimed, now, sent,
                 handler, claims>>

(* Mutant of BackfillMark: an existing mark is overwritten. *)
BackfillOverMark(g) ==
  /\ reader[g].phase = "marking"
  /\ mark' \in {mark, reader[g].choice.policy}
  /\ reader' = [reader EXCEPT ![g].phase = "chosen"]
  /\ UNCHANGED <<caPinned, caseRow, rows, wrapped, enrolled, claimed, now,
                 sent, handler, claims>>

(* After a full scan the choice seeds the mark, if there is still none; a *)
(* failed write is only logged.                                           *)
BackfillMark(g) ==
  /\ reader[g].phase = "marking"
  /\ mark' \in {mark, IF mark = None THEN reader[g].choice.policy ELSE mark}
  /\ reader' = [reader EXCEPT ![g].phase = "chosen"]
  /\ UNCHANGED <<caPinned, caseRow, rows, wrapped, enrolled, claimed, now,
                 sent, handler, claims>>

EndSelection(g) ==
  /\ reader[g].phase \in {"chosen", "denied", "fallback"}
  /\ reader' = [reader EXCEPT ![g] = NotReading]
  /\ UNCHANGED vars

Select(g) ==
  \/ BeginSelection(g)
  \/ ListEvents(g)
  \/ ReadRecord(g)
  \/ NothingChosen(g)
  \/ EnrollChosen(g)
  \/ BackfillMark(g)
  \/ EndSelection(g)

(* A restart ends the selections in progress with the requests. *)
HostStep ==
  \/ /\ Next
     /\ caPinned' = caPinned
     /\ UNCHANGED reader
  \/ /\ Restart
     /\ reader' = [g \in Readers |-> NotReading]

SelectionNext == HostStep \/ \E g \in Readers : Select(g)

SelectionSpec == SelectionInit /\ [][SelectionNext]_svars

-----------------------------------------------------------------------------
(* Properties. *)

(* A seal that had an authenticated record when the selection began is     *)
(* decided on a policy of no lower generation, however many submissions    *)
(* were admitted while it read; while a CA is pinned, none of them has it  *)
(* denied or sent to the fallback.                                         *)
SelectionNotStale ==
  \A g \in Readers :
    /\ reader[g].phase = "chosen" /\ reader[g].floor # None =>
         Generation[reader[g].floor] <= Generation[reader[g].choice.policy]
    /\ reader[g].phase \in {"denied", "fallback"} /\ caPinned =>
         reader[g].floor = None

(* A seal that had a mark or an enrollment when the selection began never  *)
(* falls back to a record without an authenticated policy, with or without *)
(* a CA pinned.                                                            *)
ProtectedNeverFallsBack ==
  \A g \in Readers : reader[g].phase = "fallback" => ~reader[g].protected

(* The mark, once set, never names a lower generation and is never lost:   *)
(* the one write of it outside the seal's lock cannot undo an admission.   *)
MarkStep ==
  mark # None => mark' # None /\ Generation[mark] <= Generation[mark']
MarkNeverLowered == [][MarkStep]_svars
=============================================================================
