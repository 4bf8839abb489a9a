---------------------------- MODULE ReleaseProofs -----------------------------
(***************************************************************************)
(* The release gate: first the selection of the record a release goes by,  *)
(* beside the sync endpoint, for any number of releases, submissions and   *)
(* records; then the shares of a seal and the keys released from them, for *)
(* any number of uploads, generations, splits and rows of shares, any      *)
(* unlock times and any accuracy of the time stamps.                       *)
(***************************************************************************)
EXTENDS ReleaseSelection, ShareRelease, SyncHistoryProofs

-----------------------------------------------------------------------------
(* ReleaseSelection: a selection writes only the enrollment and a missing  *)
(* mark.  The first part needs no assumption on the configured CA; the     *)
(* second is about a host from which a pinned CA is never removed.         *)

Reading ==
  [phase : {"listing", "scanning", "marking", "chosen", "denied", "fallback"},
   mark : Policies \cup {None}, todo : SUBSET Events, choice : Choice \cup {None},
   floor : Policies \cup {None}, protected : BOOLEAN]

ReaderTypeOK == reader \in [Readers -> {NotReading} \cup Reading]

(* What protected the seal at the start still does: the mark was read, and *)
(* an enrollment is never lost.                                            *)
ProtectionIsSeen(g) ==
  reader[g].protected => reader[g].mark # None \/ enrolled

(* The events yet to be read have a record: none is ever deleted. *)
TodoIsStored(g) == \A e \in reader[g].todo : rows[e] # None

(* A selection that goes on has chosen, and none that was protected fell   *)
(* back.                                                                   *)
PhaseFits(g) ==
  LET r == reader[g]
  IN  /\ r.phase \in {"marking", "chosen"} => r.choice # None /\ r.todo = {}
      /\ r.phase = "marking" => r.mark = None
      /\ r.phase = "listing" => r.choice = None
      /\ r.phase \in {"denied", "fallback"} => r.choice = None
      /\ r.phase = "fallback" => ~r.protected

SelectionInv ==
  /\ AssessedInv
  /\ ReaderTypeOK
  /\ \A g \in Readers : reader[g] # NotReading =>
       ProtectionIsSeen(g) /\ TodoIsStored(g) /\ PhaseFits(g)

-----------------------------------------------------------------------------
(* Typing. *)

(* The newest of the events yet to be read is one of them. *)
LEMMA NewestIsThere ==
  ASSUME NEW S \in SUBSET Events, S # {}
  PROVE  Max(S) \in S
<1>1. S \subseteq 0 .. MaxEvent
  BY RecordsAssumption DEF Events
<1>2. \E x \in S : \A y \in S : y <= x
  BY <1>1, GreatestNatural, RecordsAssumption
<1>3. \E x \in S : \A y \in S : x >= y
  BY <1>1, <1>2, RecordsAssumption
<1> QED
  BY <1>3 DEF Max

(* The type of the enrollment. *)
LEMMA EnrolledType == TypeOK => enrolled \in BOOLEAN
BY Zenon DEF TypeOK

(* A selection in progress is told from an idle reader by its phase. *)
LEMMA ReadingPhase ==
  ASSUME ReaderTypeOK, NEW g \in Readers
  PROVE  /\ reader[g] = NotReading <=> reader[g].phase = "idle"
         /\ reader[g].phase # "idle" => reader[g] \in Reading
BY DEF ReaderTypeOK, NotReading, Reading

(* What a reading of one record leaves. *)
LEMMA ReadRecordGives ==
  ASSUME SelectionInv, NEW g \in Readers, ReadRecord(g)
  PROVE  LET e == Max(reader[g].todo)
             found == Assess(caPinned, rows[e].record)
         IN  /\ e \in reader[g].todo /\ e \in Events
             /\ reader[g] \in Reading /\ reader[g].phase = "scanning"
             /\ reader' = [reader EXCEPT ![g] = reader'[g]]
             /\ reader'[g] \in Reading
             /\ \A f \in {"phase", "mark", "floor", "protected"} :
                  reader'[g][f] = reader[g][f]
             /\ Chooses(g, e) =>
                  /\ reader'[g].choice = [event |-> e, policy |-> found]
                  /\ found # None
                  /\ reader'[g].todo = IF reader[g].mark # None THEN {}
                                       ELSE reader[g].todo \ {e}
             /\ ~Chooses(g, e) =>
                  /\ reader'[g].choice = reader[g].choice
                  /\ reader'[g].todo = reader[g].todo \ {e}
<1> DEFINE e == Max(reader[g].todo)
           found == Assess(caPinned, rows[e].record)
           todo == IF Chooses(g, e) /\ reader[g].mark # None
                   THEN {} ELSE reader[g].todo \ {e}
           choice == IF Chooses(g, e) THEN [event |-> e, policy |-> found]
                     ELSE reader[g].choice
<1>1. reader[g] \in Reading /\ reader[g].phase = "scanning"
  BY ReadingPhase DEF SelectionInv, ReadRecord
<1>2. e \in reader[g].todo /\ e \in Events
  BY <1>1, NewestIsThere DEF ReadRecord, Reading
<1>3. reader' = [reader EXCEPT ![g].todo = todo, ![g].choice = choice]
  BY DEF ReadRecord
<1>4. todo \in SUBSET Events
  BY <1>1 DEF Reading
<1>5. Chooses(g, e) => found # None
  BY DEF Chooses
<1>6. found \in Policies \cup {None}
  <2>1. rows[e] # None
    BY <1>1, <1>2, ReadingPhase DEF SelectionInv, TodoIsStored
  <2>2. rows[e].record \in Records
    BY <1>2, <2>1 DEF SelectionInv, AssessedInv, TypeOK, Rows
  <2> QED
    BY <2>2, AssessType DEF SelectionInv, AssessedInv, TypeOK
<1>7. choice \in Choice \cup {None}
  BY <1>1, <1>2, <1>5, <1>6 DEF Reading, Choice
<1> HIDE DEF todo, choice, e, found
<1>8. /\ reader'[g] \in Reading
      /\ reader' = [reader EXCEPT ![g] = reader'[g]]
      /\ reader'[g].todo = todo /\ reader'[g].choice = choice
      /\ reader'[g].phase = reader[g].phase /\ reader'[g].mark = reader[g].mark
      /\ reader'[g].floor = reader[g].floor
      /\ reader'[g].protected = reader[g].protected
  BY <1>1, <1>3, <1>4, <1>7 DEF SelectionInv, ReaderTypeOK, Reading
<1> QED
  BY <1>1, <1>2, <1>5, <1>8 DEF todo, choice, e, found

-----------------------------------------------------------------------------
(* The steps of the host and of a selection. *)

(* No step of the endpoint deletes a record or an enrollment. *)
LEMMA HostKeepsRows ==
  ASSUME AssessedInv, [Next]_vars
  PROVE  /\ AssessedInv'
         /\ \A e \in Events : rows[e] # None => rows'[e] # None
         /\ enrolled => enrolled'
<1>1. AssessedInv'
  BY TypeStep, AssessedStep DEF AssessedInv
<1>2. \A e \in Events : rows[e] # None => rows'[e] # None
  <2>1. ASSUME NEW h \in Handlers, Storing(h)
        PROVE  \A e \in Events : rows[e] # None => rows'[e] # None
    <3>1. PICK row \in Rows : row # None /\ rows' = [rows EXCEPT ![handler[h].offer.event] = row]
      BY <2>1, StoringRow
    <3> QED
      BY <3>1 DEF AssessedInv, TypeOK
  <2>2. ASSUME NEW h \in Handlers, Complete(h)
        PROVE  rows' = rows
    BY <2>2 DEF Complete
  <2> QED
    BY <2>1, <2>2, RowsChangeOnlyByStoring
<1>3. enrolled => enrolled'
  BY EnrolledInStep DEF EnrolledStep
<1> QED
  BY <1>1, <1>2, <1>3

(* What a step of one selection does: its reader moves, the rows and the   *)
(* requests stay, and at most the enrollment or a missing mark is written. *)
LEMMA SelectMoves ==
  ASSUME SelectionInv, NEW g \in Readers, Select(g)
  PROVE  /\ reader' = [reader EXCEPT ![g] = reader'[g]]
         /\ reader'[g] \in {NotReading} \cup Reading
         /\ UNCHANGED <<caPinned, caseRow, rows, wrapped, claimed, now, sent,
                        handler, claims>>
         /\ enrolled' \in BOOLEAN /\ (enrolled => enrolled')
         /\ mark' \in {mark, reader[g].choice.policy}
         /\ mark' # mark =>
              /\ mark = None /\ enrolled' = enrolled
              /\ reader[g].phase = "marking" /\ reader'[g].phase = "chosen"
         /\ reader'[g] # NotReading =>
              (ProtectionIsSeen(g) /\ TodoIsStored(g) /\ PhaseFits(g))'
<1> DEFINE same == UNCHANGED <<caPinned, caseRow, rows, wrapped, claimed, now,
                               sent, handler, claims>>
<1>0. TypeOK /\ reader \in [Readers -> {NotReading} \cup Reading]
  BY DEF SelectionInv, AssessedInv, ReaderTypeOK
<1>00. reader[g] # NotReading =>
         ProtectionIsSeen(g) /\ TodoIsStored(g) /\ PhaseFits(g)
  BY DEF SelectionInv
<1>1. CASE BeginSelection(g)
  <2> DEFINE r == [phase |-> "listing", mark |-> mark, todo |-> {}, choice |-> None,
                   floor |-> StoredMaximum(rows), protected |-> Protected]
  <2>1. reader' = [reader EXCEPT ![g] = r] /\ UNCHANGED vars
    BY <1>1 DEF BeginSelection
  <2>2. StoredMaximum(rows) \in Policies \cup {None} /\ Protected \in BOOLEAN
    BY <1>0, StoredMaximumIsMaximum DEF TypeOK, Protected
  <2>3. r \in Reading
    BY <1>0, <2>2 DEF Reading, TypeOK
  <2>4. reader'[g] = r
    BY <1>0, <2>1
  <2>5. r.protected => mark # None \/ enrolled
    BY Zenon DEF Protected
  <2>6. /\ r.mark = mark /\ r.todo = {} /\ r.choice = None /\ r.phase = "listing"
        /\ enrolled' = enrolled
    BY <2>1 DEF vars, tables
  <2>7. (ProtectionIsSeen(g) /\ TodoIsStored(g) /\ PhaseFits(g))'
    <3> HIDE DEF r
    <3> QED
      BY <2>4, <2>5, <2>6 DEF ProtectionIsSeen, TodoIsStored, PhaseFits
  <2> QED
    BY <1>0, <2>1, <2>3, <2>4, <2>7 DEF vars, tables, TypeOK
<1>2. CASE ListEvents(g)
  <2> DEFINE stored == {e \in Events : rows[e] # None}
  <2>1. reader' = [reader EXCEPT ![g].phase = "scanning", ![g].todo = stored]
        /\ UNCHANGED vars /\ reader[g] \in Reading
    BY <1>2, ReadingPhase DEF ListEvents, SelectionInv
  <2>2. /\ reader'[g] \in Reading /\ reader'[g].phase = "scanning"
        /\ reader'[g].todo = stored
        /\ reader'[g].protected = reader[g].protected
        /\ reader'[g].mark = reader[g].mark
        /\ reader' = [reader EXCEPT ![g] = reader'[g]]
    <3> HIDE DEF stored
    <3>1. stored \in SUBSET Events
      BY DEF stored
    <3> QED
      BY <1>0, <2>1, <3>1 DEF Reading
  <2>3. (ProtectionIsSeen(g) /\ TodoIsStored(g) /\ PhaseFits(g))'
    <3>1. reader[g].protected => reader[g].mark # None \/ enrolled
      BY <1>00, <1>2 DEF ListEvents, ProtectionIsSeen, NotReading
    <3>2. \A e \in stored : rows'[e] # None
      BY <2>1 DEF vars, tables
    <3>3. enrolled' = enrolled
      BY <2>1 DEF vars, tables
    <3> HIDE DEF stored
    <3> QED
      BY <2>2, <3>1, <3>2, <3>3 DEF ProtectionIsSeen, TodoIsStored, PhaseFits
  <2> QED
    BY <1>0, <2>1, <2>2, <2>3 DEF vars, tables, TypeOK
<1>3. CASE ReadRecord(g)
  <2>1. /\ reader[g] \in Reading /\ reader[g].phase = "scanning"
        /\ reader' = [reader EXCEPT ![g] = reader'[g]] /\ reader'[g] \in Reading
        /\ reader'[g].phase = "scanning" /\ reader'[g].mark = reader[g].mark
        /\ reader'[g].protected = reader[g].protected
        /\ reader'[g].todo \subseteq reader[g].todo
    BY <1>3, ReadRecordGives
  <2>2. (ProtectionIsSeen(g) /\ TodoIsStored(g) /\ PhaseFits(g))'
    <3>1. UNCHANGED <<rows, enrolled>>
      BY <1>3 DEF ReadRecord, vars, tables
    <3> QED
      BY <1>00, <2>1, <3>1 DEF ProtectionIsSeen, TodoIsStored, PhaseFits, NotReading
  <2> QED
    BY <1>0, <1>3, <2>1, <2>2 DEF ReadRecord, vars, tables, TypeOK
<1>4. CASE NothingChosen(g)
  <2> DEFINE phase == IF reader[g].mark # None \/ enrolled THEN "denied" ELSE "fallback"
  <2>1. reader' = [reader EXCEPT ![g].phase = phase]
        /\ UNCHANGED vars /\ reader[g] \in Reading
    BY <1>4, ReadingPhase DEF NothingChosen, SelectionInv
  <2>2. /\ reader'[g] \in Reading /\ reader'[g].phase = phase
        /\ reader'[g].todo = reader[g].todo /\ reader'[g].choice = None
        /\ reader'[g].protected = reader[g].protected
        /\ reader'[g].mark = reader[g].mark
        /\ reader' = [reader EXCEPT ![g] = reader'[g]]
    <3>1. phase \in {"denied", "fallback"} /\ reader[g].choice = None
      BY <1>4 DEF NothingChosen
    <3> HIDE DEF phase
    <3> QED
      BY <1>0, <2>1, <3>1 DEF Reading
  <2>3. (ProtectionIsSeen(g) /\ TodoIsStored(g) /\ PhaseFits(g))'
    BY <1>4, <2>1, <2>2 DEF ProtectionIsSeen, TodoIsStored, PhaseFits, vars, tables,
                            SelectionInv, NothingChosen, NotReading
  <2> QED
    BY <1>0, <2>1, <2>2, <2>3 DEF vars, tables, TypeOK
<1>5. CASE EnrollChosen(g)
  <2> DEFINE phase == IF reader[g].mark = None THEN "marking" ELSE "chosen"
  <2>1. /\ reader' = [reader EXCEPT ![g].phase = phase]
        /\ enrolled' = enrolled \/ enrolled' = TRUE
        /\ mark' = mark
        /\ reader[g].todo = {} /\ reader[g].choice # None
        /\ same /\ reader[g] \in Reading
    BY <1>5, ReadingPhase DEF EnrollChosen, SelectionInv
  <2>0. enrolled' \in BOOLEAN /\ (enrolled => enrolled')
    <3>1. enrolled \in BOOLEAN
      BY EnrolledType DEF SelectionInv, AssessedInv
    <3>2. enrolled' = enrolled \/ enrolled' = TRUE
      BY <2>1
    <3>3. CASE enrolled' = enrolled
      BY <3>1, <3>3, Zenon
    <3>4. CASE enrolled' = TRUE
      BY <3>4, Zenon
    <3> QED
      BY <3>2, <3>3, <3>4
  <2>2. /\ reader'[g] \in Reading /\ reader'[g].phase = phase
        /\ reader'[g].todo = {} /\ reader'[g].choice # None
        /\ reader'[g].protected = reader[g].protected
        /\ reader'[g].mark = reader[g].mark
        /\ reader' = [reader EXCEPT ![g] = reader'[g]]
    <3>1. phase \in {"marking", "chosen"}
      OBVIOUS
    <3> HIDE DEF phase
    <3> QED
      BY <1>0, <2>1, <3>1 DEF Reading
  <2>3. (ProtectionIsSeen(g) /\ TodoIsStored(g) /\ PhaseFits(g))'
    <3>1. reader[g].protected => reader[g].mark # None \/ enrolled'
      BY <1>00, <1>5, <2>0 DEF EnrollChosen, ProtectionIsSeen, NotReading
    <3>2. phase \in {"marking", "chosen"} /\ (phase = "marking" => reader[g].mark = None)
      OBVIOUS
    <3> HIDE DEF phase
    <3> QED
      BY <2>2, <3>1, <3>2 DEF ProtectionIsSeen, TodoIsStored, PhaseFits
  <2> QED
    BY <2>0, <2>1, <2>2, <2>3
<1>6. CASE BackfillMark(g)
  <2>1. /\ reader' = [reader EXCEPT ![g].phase = "chosen"]
        /\ mark' = mark \/ (mark = None /\ mark' = reader[g].choice.policy)
        /\ enrolled' = enrolled /\ reader[g].phase = "marking"
        /\ same /\ reader[g] \in Reading
    BY <1>6, ReadingPhase DEF BackfillMark, SelectionInv
  <2>2. /\ reader'[g] \in Reading /\ reader'[g].phase = "chosen"
        /\ reader'[g].todo = reader[g].todo /\ reader'[g].choice = reader[g].choice
        /\ reader'[g].protected = reader[g].protected
        /\ reader'[g].mark = reader[g].mark
        /\ reader' = [reader EXCEPT ![g] = reader'[g]]
    BY <1>0, <2>1 DEF Reading
  <2>3. (ProtectionIsSeen(g) /\ TodoIsStored(g) /\ PhaseFits(g))'
    BY <2>1, <2>2 DEF ProtectionIsSeen, TodoIsStored, PhaseFits, SelectionInv,
                      NotReading
  <2> QED
    BY <1>0, <2>1, <2>2, <2>3 DEF TypeOK
<1>7. CASE EndSelection(g)
  BY <1>0, <1>7 DEF EndSelection, vars, tables, TypeOK
<1> QED
  BY <1>1, <1>2, <1>3, <1>4, <1>5, <1>6, <1>7 DEF Select

(* What is decided under TypeOK stays so when a selection writes. *)
LEMMA SelectKeepsAssessed ==
  ASSUME SelectionInv, NEW g \in Readers, Select(g)
  PROVE  AssessedInv'
<1>1. /\ UNCHANGED <<caPinned, caseRow, rows, wrapped, claimed, now, sent,
                     handler, claims>>
      /\ enrolled' \in BOOLEAN
      /\ mark' = mark \/ mark' = reader[g].choice.policy
      /\ mark' # mark => reader[g].phase = "marking"
  BY SelectMoves
<1>2. mark' \in Policies \cup {None}
  <2>1. CASE mark' = mark
    BY <2>1 DEF SelectionInv, AssessedInv, TypeOK
  <2>2. CASE mark' # mark
    <3>1. reader[g].choice # None /\ reader[g] \in Reading
      BY <1>1, <2>2, ReadingPhase DEF SelectionInv, PhaseFits, NotReading
    <3> QED
      BY <1>1, <2>2, <3>1 DEF Reading, Choice
  <2> QED
    BY <2>1, <2>2
<1>3. TypeOK'
  BY <1>1, <1>2 DEF SelectionInv, AssessedInv, TypeOK
<1>4. AdmittedIsAssessed'
  BY <1>1 DEF SelectionInv, AssessedInv, AdmittedIsAssessed
<1> QED
  BY <1>3, <1>4 DEF AssessedInv

(* A step of the host or of one selection keeps the invariant. *)
LEMMA SelectionInvStep ==
  ASSUME SelectionInv, [SelectionNext]_svars
  PROVE  SelectionInv'
<1>1. CASE [Next]_vars /\ (UNCHANGED reader \/ reader' = [g \in Readers |-> NotReading])
  <2>1. /\ AssessedInv'
        /\ \A e \in Events : rows[e] # None => rows'[e] # None
        /\ enrolled => enrolled'
    BY <1>1, HostKeepsRows DEF SelectionInv
  <2>2. CASE UNCHANGED reader
    <3>1. ReaderTypeOK'
      BY <2>2 DEF SelectionInv, ReaderTypeOK
    <3>2. ASSUME NEW g \in Readers, reader'[g] # NotReading
          PROVE  (ProtectionIsSeen(g) /\ TodoIsStored(g) /\ PhaseFits(g))'
      <4>1. /\ ProtectionIsSeen(g) /\ TodoIsStored(g) /\ PhaseFits(g)
            /\ reader[g] \in Reading /\ reader'[g] = reader[g]
        BY <2>2, <3>2 DEF SelectionInv, ReaderTypeOK
      <4>2. reader[g].todo \subseteq Events
        BY <4>1 DEF Reading
      <4> QED
        BY <2>1, <4>1, <4>2 DEF ProtectionIsSeen, TodoIsStored, PhaseFits
    <3> QED
      BY <2>1, <3>1, <3>2 DEF SelectionInv
  <2>3. CASE reader' = [g \in Readers |-> NotReading]
    BY <2>1, <2>3 DEF SelectionInv, ReaderTypeOK
  <2> QED
    BY <1>1, <2>2, <2>3
<1>2. ASSUME NEW g \in Readers, Select(g)
      PROVE  SelectionInv'
  <2>1. /\ reader' = [reader EXCEPT ![g] = reader'[g]]
        /\ reader'[g] \in {NotReading} \cup Reading
        /\ rows' = rows /\ (enrolled => enrolled')
        /\ reader'[g] # NotReading =>
             (ProtectionIsSeen(g) /\ TodoIsStored(g) /\ PhaseFits(g))'
    BY <1>2, SelectMoves
  <2>2. ReaderTypeOK'
    BY <2>1 DEF SelectionInv, ReaderTypeOK
  <2>3. ASSUME NEW f \in Readers, f # g, reader'[f] # NotReading
        PROVE  (ProtectionIsSeen(f) /\ TodoIsStored(f) /\ PhaseFits(f))'
    <3>1. reader'[f] = reader[f]
      BY <2>1, <2>3 DEF SelectionInv, ReaderTypeOK
    <3>2. ProtectionIsSeen(f) /\ TodoIsStored(f) /\ PhaseFits(f)
      BY <2>3, <3>1 DEF SelectionInv
    <3> QED
      BY <2>1, <3>1, <3>2 DEF ProtectionIsSeen, TodoIsStored, PhaseFits
  <2> QED
    BY <1>2, <2>1, <2>2, <2>3, SelectKeepsAssessed DEF SelectionInv
<1>3. CASE UNCHANGED svars
  BY <1>1, <1>3 DEF svars
<1>4. CASE HostStep
  <2>1. Restart => Next
    BY DEF Next
  <2> QED
    BY <1>1, <1>4, <2>1 DEF HostStep
<1> QED
  BY <1>2, <1>3, <1>4 DEF SelectionNext

(* The invariant of the selections holds in every reachable state. *)
LEMMA SelectionInvCorrect == SelectionSpec => []SelectionInv
<1>1. SelectionInit => SelectionInv
  <2> SUFFICES ASSUME SelectionInit PROVE SelectionInv
    OBVIOUS
  <2>1. TypeOK /\ AdmittedIsAssessed
    BY InitType DEF SelectionInit, Init, AdmittedIsAssessed, Idle
  <2> QED
    BY <2>1 DEF SelectionInit, SelectionInv, AssessedInv, ReaderTypeOK
<1>2. SelectionInv /\ [SelectionNext]_svars => SelectionInv'
  BY SelectionInvStep
<1> QED
  BY <1>1, <1>2, PTL DEF SelectionSpec

-----------------------------------------------------------------------------
(* What holds with any CA setting. *)

(* A seal that had a mark or an enrollment when a selection began never    *)
(* falls back to a record without an authenticated policy: the selection   *)
(* read the mark, or finds the enrollment, which is never lost.            *)
THEOREM ProtectedSealsNeverFallBack == SelectionSpec => []ProtectedNeverFallsBack
<1>1. SelectionInv => ProtectedNeverFallsBack
  BY DEF SelectionInv, ProtectedNeverFallsBack, PhaseFits, NotReading
<1> QED
  BY <1>1, SelectionInvCorrect, PTL

(* A step beside the selections is a step of the endpoint. *)
LEMMA HostOrSelect ==
  ASSUME [SelectionNext]_svars
  PROVE  [Next]_vars \/ \E g \in Readers : Select(g)
BY DEF SelectionNext, HostStep, svars, Next

(* The mark, once set, never names a lower generation and is never lost:   *)
(* a selection writes it outside the lock, but only where there is none.   *)
THEOREM MarkIsNeverLowered == SelectionSpec => MarkNeverLowered
<1>1. SelectionInv /\ [SelectionNext]_svars => [MarkStep]_svars
  <2> SUFFICES ASSUME SelectionInv, [SelectionNext]_svars PROVE MarkStep
    OBVIOUS
  <2>1. CASE [Next]_vars
    BY <2>1, MarkRisesInStep DEF SelectionInv, MarkRises, MarkStep
  <2>2. ASSUME NEW g \in Readers, Select(g)
        PROVE  MarkStep
    <3>1. mark # None => mark' = mark
      BY <2>2, SelectMoves
    <3>2. mark # None => Generation[mark] \in Int
      BY RecordsAssumption DEF SelectionInv, AssessedInv, TypeOK
    <3> QED
      BY <3>1, <3>2 DEF MarkStep
  <2> QED
    BY <2>1, <2>2, HostOrSelect
<1> QED
  BY <1>1, SelectionInvCorrect, PTL DEF SelectionSpec, MarkNeverLowered

(* An authenticated record is not replaced by a selection either. *)
THEOREM AuthenticRecordsOutlastSelections == SelectionSpec => AuthenticRecordsStay
<1>1. SelectionInv /\ [SelectionNext]_svars => [AuthenticRecordsStayStep]_vars
  <2> SUFFICES ASSUME SelectionInv, [SelectionNext]_svars
               PROVE  AuthenticRecordsStayStep
    OBVIOUS
  <2>1. CASE [Next]_vars
    BY <2>1, AuthenticRecordsStayInStep DEF SelectionInv
  <2>2. ASSUME NEW g \in Readers, Select(g)
        PROVE  AuthenticRecordsStayStep
    BY <2>2, SelectMoves DEF AuthenticRecordsStayStep
  <2> QED
    BY <2>1, <2>2, HostOrSelect
<1> QED
  BY <1>1, SelectionInvCorrect, PTL DEF SelectionSpec, AuthenticRecordsStay

(* ... and a seal enrolled by a selection takes authenticated records only. *)
THEOREM SelectionsKeepEnrollment == SelectionSpec => EnrolledSealStaysAuthenticated
<1>1. SelectionInv /\ [SelectionNext]_svars => [EnrolledStep]_vars
  <2> SUFFICES ASSUME SelectionInv, [SelectionNext]_svars
               PROVE  EnrolledStep
    OBVIOUS
  <2>1. CASE [Next]_vars
    BY <2>1, EnrolledInStep DEF SelectionInv
  <2>2. ASSUME NEW g \in Readers, Select(g)
        PROVE  EnrolledStep
    BY <2>2, SelectMoves DEF EnrolledStep
  <2> QED
    BY <2>1, <2>2, HostOrSelect
<1> QED
  BY <1>1, SelectionInvCorrect, PTL DEF SelectionSpec, EnrolledSealStaysAuthenticated

-----------------------------------------------------------------------------
(* The mark and the selections, where a pinned CA is never removed.        *)
(*                                                                         *)
(* The mark a selection fills in must be the maximum although records were *)
(* admitted while it read.  It is, because an authenticated admission sets *)
(* the mark itself: while there is none, no authenticated record is added, *)
(* and the choice outranks all that was read.                              *)

Carries(e, policy) == e \in AuthenticEvents(rows) /\ PolicyOf[rows[e].record] = policy

(* What the selection has to find: the mark it read, or else the maximum *)
(* there was when it began.                                              *)
Target(g) == IF reader[g].mark # None THEN reader[g].mark ELSE reader[g].floor

(* The choice is no lower. *)
Reached(g, policy) ==
  reader[g].choice # None /\ Generation[policy] <= Generation[reader[g].choice.policy]

ChoiceIsStored(g) ==
  reader[g].choice # None =>
    caPinned /\ Carries(reader[g].choice.event, reader[g].choice.policy)

TargetInReach(g) ==
  LET r == reader[g] IN
  caPinned /\ Target(g) # None =>
    /\ r.floor # None => Generation[r.floor] <= Generation[Target(g)]
    /\ r.phase = "listing" => \E e \in Events : Carries(e, Target(g))
    /\ r.phase = "scanning" => Reached(g, Target(g)) \/ \E e \in r.todo : Carries(e, Target(g))
    /\ r.phase \notin {"listing", "scanning"} => Reached(g, Target(g))

(* As long as there is no mark. *)
NothingMissed(g) ==
  LET r == reader[g] IN
  r.phase \in {"scanning", "marking"} /\ r.mark = None /\ caPinned /\ mark = None =>
    \A e \in AuthenticEvents(rows) \ r.todo : Reached(g, PolicyOf[rows[e].record])

GuardedInv ==
  /\ SelectionInv
  /\ MarkInv
  /\ \A g \in Readers : reader[g] # NotReading =>
       ChoiceIsStored(g) /\ TargetInReach(g) /\ NothingMissed(g)

(* An authenticated record still carries its policy after any step. *)
LEMMA CarriedStays ==
  ASSUME AssessedInv, AuthenticRecordsStayStep, NEW e \in Events, NEW policy,
         Carries(e, policy)
  PROVE  Carries(e, policy)'
BY DEF AuthenticRecordsStayStep, Carries, AuthenticEvents

(* The stored records by the types of the invariant. *)
LEMMA CarriedType ==
  ASSUME AssessedInv, NEW e \in AuthenticEvents(rows)
  PROVE  /\ e \in Events /\ rows[e] # None /\ rows[e].record \in Records
         /\ Authentic(rows[e].record) /\ PolicyOf[rows[e].record] \in Policies
         /\ Generation[PolicyOf[rows[e].record]] \in Nat
         /\ caPinned => Assess(caPinned, rows[e].record) = PolicyOf[rows[e].record]
<1>1. /\ e \in Events /\ rows[e] # None /\ rows[e].record \in Records
      /\ Authentic(rows[e].record)
  BY DEF AuthenticEvents, AssessedInv, TypeOK, Rows
<1>2. PolicyOf[rows[e].record] \in Policies
  BY <1>1, AuthenticPolicy
<1>3. Generation[PolicyOf[rows[e].record]] \in Nat
  BY <1>2, RecordsAssumption
<1> QED
  BY <1>1, <1>2, <1>3 DEF Assess

(* While a CA is pinned and no mark is set, no authenticated record is     *)
(* added.                                                                  *)
LEMMA UnmarkedAddsNone ==
  ASSUME MarkInv, [Next]_vars, caPinned, mark' = None
  PROVE  /\ AuthenticEvents(rows') = AuthenticEvents(rows)
         /\ \A e \in AuthenticEvents(rows) : rows'[e] = rows[e]
<1>1. ASSUME NEW h \in Handlers, Storing(h)
      PROVE  /\ AuthenticEvents(rows') = AuthenticEvents(rows)
             /\ \A e \in AuthenticEvents(rows) : rows'[e] = rows[e]
  <2> DEFINE o == handler[h].offer
             row == [type |-> o.type, record |-> o.record]
  <2>1. /\ handler[h].digest = Assess(caPinned, row.record)
        /\ o.event \in Events /\ row \in Rows /\ row # None
        /\ o.event \notin AuthenticEvents(rows)
        /\ rows' = [rows EXCEPT ![o.event] = row]
        /\ mark' = RaisedMark(h)
    BY <1>1, StoringRow DEF MarkInv
  <2>2. row.record \in Records /\ rows \in [Events -> Rows \cup {None}]
    BY <2>1 DEF MarkInv, AssessedInv, TypeOK, Rows
  <2>3. handler[h].digest = None
    <3>1. SUFFICES ASSUME handler[h].digest # None PROVE FALSE
      OBVIOUS
    <3>2. mark' = PolicyOf[row.record] /\ Authentic(row.record)
      BY <1>1, <2>1, <3>1, StoredOutranks
    <3> QED
      BY <2>2, <3>2, AuthenticPolicy, RecordsAssumption
  <2>4. ~Authentic(row.record)
    BY <2>1, <2>2, <2>3, DigestIsAuthentic DEF MarkInv, AssessedInv, TypeOK
  <2>5. AuthenticEvents(rows') = AuthenticEvents(rows)
    BY <2>1, <2>2, <2>4, StoredRow DEF AuthenticEvents
  <2> QED
    BY <2>1, <2>2, <2>5 DEF AuthenticEvents
<1>2. ASSUME NEW h \in Handlers, Complete(h)
      PROVE  rows' = rows
  BY <1>2 DEF Complete
<1> QED
  BY <1>1, <1>2, RowsChangeOnlyByStoring

(* A step of the endpoint leaves what a selection in progress relies on. *)
LEMMA HostKeepsReach ==
  ASSUME GuardedInv, [Next]_vars, caPinned' = caPinned,
         NEW g \in Readers, reader[g] # NotReading, reader'[g] = reader[g]
  PROVE  (ChoiceIsStored(g) /\ TargetInReach(g) /\ NothingMissed(g))'
<1>1. /\ AssessedInv /\ MarkInv /\ reader[g] \in Reading
      /\ ChoiceIsStored(g) /\ TargetInReach(g) /\ NothingMissed(g)
  BY DEF GuardedInv, SelectionInv, ReaderTypeOK
<1>2. AuthenticRecordsStayStep /\ MarkRises
  BY <1>1, AuthenticRecordsStayInStep, MarkRisesInStep
<1>3. \A e \in Events : \A policy : Carries(e, policy) => Carries(e, policy)'
  BY <1>1, <1>2, CarriedStays
<1>4. Target(g)' = Target(g) /\ \A policy : Reached(g, policy)' = Reached(g, policy)
  BY DEF Target, Reached
<1>5. ChoiceIsStored(g)'
  <2>1. reader[g].choice # None => reader[g].choice.event \in Events
    BY <1>1 DEF Reading, Choice
  <2> QED
    BY <1>1, <1>3, <2>1 DEF ChoiceIsStored
<1>6. TargetInReach(g)'
  <2>1. reader[g].todo \subseteq Events
    BY <1>1 DEF Reading
  <2> QED
    BY <1>1, <1>3, <1>4, <2>1 DEF TargetInReach
<1>7. NothingMissed(g)'
  <2>1. SUFFICES ASSUME reader[g].phase \in {"scanning", "marking"},
                        reader[g].mark = None, caPinned, mark' = None,
                        NEW e \in AuthenticEvents(rows') \ reader[g].todo
                 PROVE  Reached(g, PolicyOf[rows'[e].record])
    BY <1>4 DEF NothingMissed
  <2>2. mark = None
    BY <1>2, <2>1 DEF MarkRises
  <2>3. e \in AuthenticEvents(rows) \ reader[g].todo /\ rows'[e] = rows[e]
    BY <1>1, <2>1, UnmarkedAddsNone
  <2> QED
    BY <1>1, <2>1, <2>2, <2>3 DEF NothingMissed
<1> QED
  BY <1>5, <1>6, <1>7

(* When a selection begins, the mark it reads and the maximum at that time *)
(* are carried by stored records, and the mark is not below the maximum.   *)
LEMMA BeginningReaches ==
  ASSUME GuardedInv, NEW g \in Readers, BeginSelection(g)
  PROVE  (ChoiceIsStored(g) /\ TargetInReach(g) /\ NothingMissed(g))'
<1> DEFINE floor == StoredMaximum(rows)
<1>1. /\ reader'[g].phase = "listing" /\ reader'[g].mark = mark
      /\ reader'[g].choice = None /\ reader'[g].floor = floor
      /\ UNCHANGED <<rows, caPinned, mark>>
  BY DEF BeginSelection, vars, tables, GuardedInv, SelectionInv, ReaderTypeOK
<1>2. /\ rows \in [Events -> Rows \cup {None}]
      /\ AssessedInv /\ mark \in Policies \cup {None}
      /\ mark # None => IsMaximum(mark, rows)
  BY DEF GuardedInv, SelectionInv, AssessedInv, TypeOK, MarkInv, MarkIsStoredMaximum
<1>3. /\ floor \in Policies \cup {None}
      /\ floor = None <=> AuthenticEvents(rows) = {}
      /\ floor # None => IsMaximum(floor, rows)
  BY <1>2, StoredMaximumIsMaximum
<1> HIDE DEF floor
<1>4. ASSUME NEW policy, IsMaximum(policy, rows)
      PROVE  \E e \in Events : Carries(e, policy)
  BY <1>4 DEF IsMaximum, Carries, AuthenticEvents
<1>5. mark # None /\ floor # None => Generation[floor] <= Generation[mark]
  <2> SUFFICES ASSUME mark # None, floor # None
               PROVE  Generation[floor] <= Generation[mark]
    OBVIOUS
  <2>1. PICK e \in AuthenticEvents(rows) : PolicyOf[rows[e].record] = floor
    BY <1>3 DEF IsMaximum
  <2> QED
    BY <1>2, <2>1 DEF IsMaximum, GenerationOf
<1>6. floor # None => Generation[floor] <= Generation[floor]
  BY <1>3, RecordsAssumption
<1>7. Target(g)' = IF mark # None THEN mark ELSE floor
  BY <1>1 DEF Target
<1>8. TargetInReach(g)'
  <2>1. Target(g)' # None => \E e \in Events : Carries(e, Target(g)')
    BY <1>2, <1>3, <1>4, <1>7
  <2>2. \A e \in Events : \A policy : Carries(e, policy)' <=> Carries(e, policy)
    BY <1>1 DEF Carries, AuthenticEvents
  <2>3. Target(g)' # None /\ floor # None => Generation[floor] <= Generation[Target(g)']
    BY <1>5, <1>6, <1>7
  <2> QED
    BY <1>1, <2>1, <2>2, <2>3 DEF TargetInReach
<1> QED
  BY <1>1, <1>8 DEF ChoiceIsStored, NothingMissed

(* A record that carries what the selection has to find is among those *)
(* listed.                                                             *)
LEMMA ListingReaches ==
  ASSUME GuardedInv, NEW g \in Readers, ListEvents(g)
  PROVE  (ChoiceIsStored(g) /\ TargetInReach(g) /\ NothingMissed(g))'
<1> DEFINE stored == {e \in Events : rows[e] # None}
<1>1. /\ reader[g] \in Reading /\ reader[g] # NotReading
      /\ ChoiceIsStored(g) /\ TargetInReach(g)
      /\ reader[g].phase = "listing"
  BY ReadingPhase DEF ListEvents, GuardedInv, SelectionInv
<1>2. /\ reader' = [reader EXCEPT ![g].phase = "scanning", ![g].todo = stored]
      /\ UNCHANGED <<rows, caPinned, mark>>
  BY DEF ListEvents, vars, tables
<1> HIDE DEF stored
<1>3. /\ reader'[g].phase = "scanning" /\ reader'[g].todo = stored
      /\ reader'[g].mark = reader[g].mark /\ reader'[g].floor = reader[g].floor
      /\ reader'[g].choice = reader[g].choice
  BY <1>1, <1>2 DEF GuardedInv, SelectionInv, ReaderTypeOK, Reading
<1>4. AuthenticEvents(rows) \subseteq stored
  BY DEF AuthenticEvents, stored
<1>5. \A e, policy : Carries(e, policy)' <=> Carries(e, policy)
  BY <1>2 DEF Carries, AuthenticEvents
<1>6. Target(g)' = Target(g)
  BY <1>3 DEF Target
<1>7. TargetInReach(g)'
  BY <1>1, <1>2, <1>3, <1>4, <1>5, <1>6 DEF TargetInReach, Carries
<1>8. NothingMissed(g)'
  BY <1>2, <1>3, <1>4 DEF NothingMissed, AuthenticEvents
<1>9. ChoiceIsStored(g)'
  BY <1>1, <1>2, <1>3, <1>5 DEF ChoiceIsStored
<1> QED
  BY <1>7, <1>8, <1>9

(* Reading a record keeps the choice the highest of those read. *)
LEMMA ReadingReaches ==
  ASSUME GuardedInv, NEW g \in Readers, ReadRecord(g)
  PROVE  (ChoiceIsStored(g) /\ TargetInReach(g) /\ NothingMissed(g))'
<1> DEFINE e == Max(reader[g].todo)
           found == Assess(caPinned, rows[e].record)
           ReachedNow(p) == /\ reader'[g].choice # None
                            /\ Generation[p] <= Generation[reader'[g].choice.policy]
<1>1. /\ e \in reader[g].todo /\ e \in Events
      /\ reader[g] \in Reading /\ reader[g].phase = "scanning"
      /\ reader'[g] \in Reading /\ reader'[g].phase = "scanning"
      /\ reader'[g].mark = reader[g].mark /\ reader'[g].floor = reader[g].floor
      /\ Chooses(g, e) =>
           /\ reader'[g].choice = [event |-> e, policy |-> found]
           /\ found # None
           /\ reader'[g].todo = IF reader[g].mark # None THEN {}
                                ELSE reader[g].todo \ {e}
      /\ ~Chooses(g, e) =>
           /\ reader'[g].choice = reader[g].choice
           /\ reader'[g].todo = reader[g].todo \ {e}
  BY ReadRecordGives DEF GuardedInv
<1>2. Chooses(g, e) <=>
        /\ found # None
        /\ IF reader[g].mark # None THEN found = reader[g].mark
           ELSE \/ reader[g].choice = None
                \/ Generation[found] > Generation[reader[g].choice.policy]
  BY DEF Chooses
<1>3. /\ AssessedInv /\ ChoiceIsStored(g) /\ TargetInReach(g) /\ NothingMissed(g)
      /\ UNCHANGED <<rows, caPinned, mark>> /\ rows[e] # None
  BY <1>1, ReadingPhase DEF GuardedInv, SelectionInv, TodoIsStored, ReadRecord, vars, tables
<1>4. /\ found # None => Carries(e, found) /\ found \in Policies /\ caPinned
      /\ caPinned /\ e \in AuthenticEvents(rows) => found = PolicyOf[rows[e].record]
  <2>1. rows[e].record \in Records /\ caPinned \in BOOLEAN
    BY <1>1, <1>3 DEF AssessedInv, TypeOK, Rows
  <2> QED
    BY <1>1, <1>3, <2>1, CarriedType, DigestIsAuthentic DEF Carries, AuthenticEvents
<1>41. Chooses(g, e) => /\ reader'[g].choice # None
                        /\ reader'[g].choice.policy = found
  <2>1. found # None => [event |-> e, policy |-> found] \in Choice
    BY <1>1, <1>4 DEF Choice
  <2> HIDE DEF e, found
  <2> QED
    BY <1>1, <2>1, ReadersAssumption
<1> HIDE DEF e, found
<1>5. reader[g].choice # None =>
        reader[g].choice.policy \in Policies /\ Generation[reader[g].choice.policy] \in Nat
  BY <1>1, RecordsAssumption DEF Reading, Choice
<1>6. found # None => Generation[found] \in Nat
  BY <1>4, RecordsAssumption
<1>7. ASSUME NEW policy \in Policies, Reached(g, policy), reader[g].mark = None
      PROVE  ReachedNow(policy)
  <2>1. Generation[policy] \in Nat
    BY RecordsAssumption
  <2> QED
    BY <1>1, <1>2, <1>41, <1>5, <1>6, <1>7, <2>1 DEF Reached
<1>8. reader[g].mark = None /\ found # None => ReachedNow(found)
  BY <1>1, <1>2, <1>41, <1>5, <1>6 DEF Reached
<1>9. \A f, policy : Carries(f, policy)' <=> Carries(f, policy)
  BY <1>3 DEF Carries, AuthenticEvents
<1>10. ChoiceIsStored(g)'
  BY <1>1, <1>3, <1>4, <1>9 DEF ChoiceIsStored
<1>11. NothingMissed(g)'
  <2>1. SUFFICES ASSUME reader[g].mark = None, caPinned, mark = None,
                        NEW f \in AuthenticEvents(rows) \ reader'[g].todo
                 PROVE  ReachedNow(PolicyOf[rows[f].record])
    BY <1>1, <1>3 DEF NothingMissed, Reached
  <2>2. CASE f = e
    <3>1. found = PolicyOf[rows[f].record] /\ PolicyOf[rows[f].record] \in Policies
      BY <1>3, <1>4, <2>1, <2>2, CarriedType
    <3>2. found # None
      BY <3>1, RecordsAssumption
    <3> QED
      BY <1>3, <1>8, <2>1, <3>1, <3>2
  <2>3. CASE f # e
    <3>1. f \notin reader[g].todo
      BY <1>1, <2>1, <2>3
    <3>2. Reached(g, PolicyOf[rows[f].record])
      BY <1>1, <1>3, <2>1, <3>1 DEF NothingMissed
    <3>3. PolicyOf[rows[f].record] \in Policies
      BY <1>3, <2>1, CarriedType
    <3> QED
      BY <1>3, <1>7, <2>1, <3>2, <3>3
  <2> QED
    BY <2>2, <2>3
<1>12. TargetInReach(g)'
  <2> DEFINE target == Target(g)
  <2>1. Target(g)' = target
    BY <1>1 DEF Target
  <2>2. SUFFICES ASSUME caPinned, target # None
                 PROVE  \/ ReachedNow(target)
                        \/ \E f \in reader'[g].todo : Carries(f, target)
    BY <1>1, <1>3, <1>9, <2>1 DEF TargetInReach, Reached
  <2>3. target \in Policies /\ Generation[target] \in Nat
    <3>1. target \in Policies
      BY <1>1, <2>2 DEF Target, Reading
    <3> QED
      BY <3>1, RecordsAssumption
  <2>4. Reached(g, target) \/ \E f \in reader[g].todo : Carries(f, target)
    BY <1>1, <1>3, <2>2 DEF TargetInReach
  <2>5. Carries(e, target) => found = target
    BY <1>4, <2>2 DEF Carries
  <2> HIDE DEF target
  <2>6. CASE reader[g].mark = None
    <3>1. CASE Reached(g, target)
      BY <1>7, <2>3, <2>6, <3>1
    <3>2. ASSUME NEW f \in reader[g].todo, Carries(f, target)
          PROVE  ReachedNow(target) \/ \E t \in reader'[g].todo : Carries(t, target)
      <4>1. CASE f = e
        BY <1>8, <2>2, <2>5, <2>6, <3>2, <4>1
      <4>2. CASE f # e
        BY <1>1, <2>6, <3>2, <4>2
      <4> QED
        BY <4>1, <4>2
    <3> QED
      BY <2>4, <3>1, <3>2
  <2>7. CASE reader[g].mark # None
    <3>1. target = reader[g].mark
      BY <2>7 DEF target, Target
    <3>2. CASE Chooses(g, e)
      BY <1>2, <1>41, <2>3, <2>7, <3>1, <3>2 DEF Reached
    <3>3. CASE ~Chooses(g, e)
      <4>1. ~Carries(e, target)
        BY <1>2, <2>2, <2>5, <2>7, <3>1, <3>3
      <4> QED
        BY <1>1, <2>4, <3>3, <4>1 DEF Reached
    <3> QED
      BY <3>2, <3>3
  <2> QED
    BY <2>6, <2>7
<1> QED
  BY <1>10, <1>11, <1>12

(* After the last record the choice outranks what was to be found. *)
LEMMA EndingReaches ==
  ASSUME GuardedInv, NEW g \in Readers,
         NothingChosen(g) \/ EnrollChosen(g) \/ BackfillMark(g)
  PROVE  (ChoiceIsStored(g) /\ TargetInReach(g) /\ NothingMissed(g))'
<1>1. /\ reader[g] \in Reading /\ reader[g] # NotReading
      /\ ChoiceIsStored(g) /\ TargetInReach(g) /\ NothingMissed(g)
      /\ reader[g].phase = "scanning" =>
           reader[g].todo = {} /\ (NothingChosen(g) => reader[g].choice = None)
  BY ReadingPhase DEF NothingChosen, EnrollChosen, BackfillMark, GuardedInv, SelectionInv
<1>2. UNCHANGED <<rows, caPinned>>
  BY DEF NothingChosen, EnrollChosen, BackfillMark, vars, tables
<1>3. /\ reader' = [reader EXCEPT ![g].phase = reader'[g].phase]
      /\ reader[g].phase \in {"scanning", "marking"}
      /\ reader'[g].phase \in {"marking", "chosen", "denied", "fallback"}
      /\ reader'[g].phase = "marking" => reader[g].phase = "scanning" /\ mark' = mark
  <2>1. PICK phase \in {"marking", "chosen", "denied", "fallback"} :
          /\ reader' = [reader EXCEPT ![g].phase = phase]
          /\ reader[g].phase \in {"scanning", "marking"}
          /\ phase = "marking" => reader[g].phase = "scanning" /\ mark' = mark
    <3>1. CASE NothingChosen(g)
      BY <3>1 DEF NothingChosen
    <3>2. CASE EnrollChosen(g)
      BY <3>2 DEF EnrollChosen
    <3>3. CASE BackfillMark(g)
      BY <3>3 DEF BackfillMark
    <3> QED
      BY <3>1, <3>2, <3>3
  <2>2. reader'[g].phase = phase
    BY <1>1, <2>1 DEF GuardedInv, SelectionInv, ReaderTypeOK, Reading
  <2> QED
    BY <2>1, <2>2
<1>4. /\ reader'[g].todo = reader[g].todo /\ reader'[g].choice = reader[g].choice
      /\ reader'[g].mark = reader[g].mark /\ reader'[g].floor = reader[g].floor
  BY <1>1, <1>3 DEF GuardedInv, SelectionInv, ReaderTypeOK, Reading
<1>5. /\ \A f, policy : Carries(f, policy)' <=> Carries(f, policy)
      /\ \A policy : Reached(g, policy)' <=> Reached(g, policy)
      /\ Target(g)' = Target(g)
  BY <1>2, <1>4 DEF Carries, AuthenticEvents, Reached, Target
<1>6. ChoiceIsStored(g)'
  BY <1>1, <1>2, <1>4, <1>5 DEF ChoiceIsStored
<1>7. TargetInReach(g)'
  BY <1>1, <1>2, <1>3, <1>4, <1>5 DEF TargetInReach
<1>8. NothingMissed(g)'
  BY <1>1, <1>2, <1>3, <1>4, <1>5 DEF NothingMissed
<1> QED
  BY <1>6, <1>7, <1>8

(* The mark a selection fills in is the stored maximum. *)
LEMMA SelectKeepsMark ==
  ASSUME GuardedInv, NEW g \in Readers, Select(g)
  PROVE  MarkInv'
<1>1. /\ AssessedInv' /\ MarkInv
      /\ UNCHANGED <<rows, caPinned>>
      /\ mark' = mark \/ mark' = reader[g].choice.policy
      /\ mark' # mark => mark = None /\ reader[g].phase = "marking"
  BY SelectMoves, SelectKeepsAssessed DEF GuardedInv
<1>2. CASE mark' = mark
  BY <1>1, <1>2 DEF MarkInv, MarkNeedsCa, MarkIsStoredMaximum, IsMaximum, AuthenticEvents
<1>3. CASE mark' # mark
  <2> DEFINE c == reader[g].choice
  <2>1. /\ reader[g].phase = "marking" /\ reader[g] # NotReading
        /\ mark = None /\ mark' = c.policy
    BY <1>1, <1>3 DEF NotReading
  <2>2. /\ c # None /\ reader[g].todo = {} /\ reader[g].mark = None
        /\ ChoiceIsStored(g) /\ NothingMissed(g) /\ AssessedInv
    BY <2>1 DEF GuardedInv, SelectionInv, PhaseFits
  <2>3. /\ caPinned /\ Carries(c.event, c.policy)
        /\ \A e \in AuthenticEvents(rows) :
             GenerationOf(rows[e].record) <= Generation[c.policy]
    BY <2>1, <2>2 DEF ChoiceIsStored, NothingMissed, Reached, GenerationOf
  <2>4. IsMaximum(c.policy, rows)
    BY <2>3 DEF IsMaximum, Carries
  <2> QED
    BY <1>1, <2>1, <2>3, <2>4 DEF MarkInv, MarkNeedsCa, MarkIsStoredMaximum,
         IsMaximum, AuthenticEvents
<1> QED
  BY <1>2, <1>3

(* Every step keeps the invariant of mark and selections. *)
LEMMA GuardedStep ==
  ASSUME ~CaMayBeUnpinned, GuardedInv, [SelectionNext]_svars
  PROVE  GuardedInv'
<1>1. SelectionInv'
  BY SelectionInvStep DEF GuardedInv
<1>2. CASE [Next]_vars /\ caPinned' = caPinned /\ UNCHANGED reader
  <2>1. MarkInv'
    BY <1>2, MarkInvStep DEF GuardedInv
  <2> QED
    BY <1>1, <1>2, <2>1, HostKeepsReach DEF GuardedInv
<1>3. CASE Restart /\ reader' = [g \in Readers |-> NotReading]
  <2>1. MarkInv'
    BY <1>3, MarkInvStep DEF GuardedInv, Next
  <2> QED
    BY <1>1, <1>3, <2>1 DEF GuardedInv
<1>4. ASSUME NEW g \in Readers, Select(g)
      PROVE  GuardedInv'
  <2>1. MarkInv'
    BY <1>4, SelectKeepsMark
  <2>2. ASSUME reader'[g] # NotReading
        PROVE  (ChoiceIsStored(g) /\ TargetInReach(g) /\ NothingMissed(g))'
    <3>1. ~EndSelection(g)
      BY <2>2 DEF EndSelection, GuardedInv, SelectionInv, ReaderTypeOK
    <3> QED
      BY <1>4, <3>1, BeginningReaches, ListingReaches, ReadingReaches, EndingReaches
         DEF Select
  <2>3. ASSUME NEW f \in Readers, f # g, reader'[f] # NotReading
        PROVE  (ChoiceIsStored(f) /\ TargetInReach(f) /\ NothingMissed(f))'
    <3>1. /\ reader'[f] = reader[f] /\ UNCHANGED <<rows, caPinned>>
          /\ mark' # mark => mark = None
      BY <1>4, <2>3, SelectMoves DEF GuardedInv, SelectionInv, ReaderTypeOK
    <3>2. ChoiceIsStored(f) /\ TargetInReach(f) /\ NothingMissed(f)
      BY <2>3, <3>1 DEF GuardedInv
    <3> QED
      BY <3>1, <3>2 DEF ChoiceIsStored, TargetInReach, NothingMissed, Carries,
           AuthenticEvents, Reached, Target
  <2> QED
    BY <1>1, <2>1, <2>2, <2>3 DEF GuardedInv
<1>5. CASE UNCHANGED svars
  BY <1>2, <1>5 DEF svars, vars
<1> QED
  BY <1>2, <1>3, <1>4, <1>5 DEF SelectionNext, HostStep

(* Where a pinned CA is never removed. *)
LEMMA GuardedCorrect ==
  ASSUME ~CaMayBeUnpinned
  PROVE  SelectionSpec => []GuardedInv
<1>1. SelectionInit => GuardedInv
  <2> SUFFICES ASSUME SelectionInit PROVE GuardedInv
    OBVIOUS
  <2>1. AssessedInv
    BY InitType DEF SelectionInit, Init, AssessedInv, AdmittedIsAssessed, Idle
  <2>2. mark = None /\ reader = [g \in Readers |-> NotReading]
    BY DEF SelectionInit, Init
  <2> QED
    BY <2>1, <2>2 DEF GuardedInv, SelectionInv, ReaderTypeOK, MarkInv, MarkNeedsCa,
         MarkIsStoredMaximum
<1>2. GuardedInv /\ [SelectionNext]_svars => GuardedInv'
  BY GuardedStep
<1> QED
  BY <1>1, <1>2, PTL DEF SelectionSpec

(* The selections leave the mark the stored maximum, although they fill in *)
(* a missing one outside the seal's lock, while submissions are admitted.  *)
THEOREM FilledMarkIsTheStoredMaximum ==
  ASSUME ~CaMayBeUnpinned
  PROVE  SelectionSpec => []MarkIsStoredMaximum
<1>1. GuardedInv => MarkIsStoredMaximum
  BY DEF GuardedInv, MarkInv
<1> QED
  BY <1>1, GuardedCorrect, PTL

(* A release is decided on a policy of no lower generation than the seal's *)
(* highest when the selection began, and is denied or falls back only when *)
(* there was none, however many submissions are admitted while it reads.   *)
THEOREM SelectionIsNotStale ==
  ASSUME ~CaMayBeUnpinned
  PROVE  SelectionSpec => []SelectionNotStale
<1>1. GuardedInv => SelectionNotStale
  <2> SUFFICES ASSUME GuardedInv, NEW g \in Readers,
                      reader[g].phase \in {"chosen", "denied", "fallback"}
               PROVE  /\ reader[g].phase = "chosen" /\ reader[g].floor # None =>
                           Generation[reader[g].floor] <= Generation[reader[g].choice.policy]
                      /\ reader[g].phase \in {"denied", "fallback"} /\ caPinned =>
                           reader[g].floor = None
    BY DEF SelectionNotStale
  <2>1. /\ reader[g] \in Reading /\ reader[g] # NotReading
        /\ ChoiceIsStored(g) /\ TargetInReach(g) /\ PhaseFits(g)
    BY ReadingPhase DEF GuardedInv, SelectionInv
  <2>2. reader[g].floor # None => Target(g) # None
    BY DEF Target
  <2>3. SUFFICES ASSUME caPinned, reader[g].floor # None
                 PROVE  /\ reader[g].phase = "chosen"
                        /\ Generation[reader[g].floor] <= Generation[reader[g].choice.policy]
    BY <2>1 DEF PhaseFits, ChoiceIsStored
  <2>4. /\ Generation[reader[g].floor] <= Generation[Target(g)]
        /\ reader[g].choice # None
        /\ Generation[Target(g)] <= Generation[reader[g].choice.policy]
    BY <2>1, <2>2, <2>3 DEF TargetInReach, Reached
  <2>5. /\ reader[g].floor \in Policies /\ Target(g) \in Policies
        /\ reader[g].choice.policy \in Policies
    BY <2>1, <2>2, <2>3, <2>4 DEF Reading, Target, Choice
  <2>6. Generation[reader[g].floor] <= Generation[reader[g].choice.policy]
    BY <2>4, <2>5, RecordsAssumption
  <2> QED
    BY <2>1, <2>4, <2>6 DEF PhaseFits
<1> QED
  BY <1>1, GuardedCorrect, PTL

-----------------------------------------------------------------------------
(* ShareRelease.  The invariant has four parts: what the variables hold;   *)
(* that an id names one row for ever; that an upload which will be stored  *)
(* is tagged with the seal's generation, although the mark is read before  *)
(* the lock and may be seeded without it; and what a release has computed  *)
(* so far.                                                                 *)

(* An id names one row, in the table, on a page and in a release. *)
KnownRows == shares \cup shown \cup release.before

IdsNameRows ==
  /\ \A a \in KnownRows : a.id <= lastId
  /\ \A a, b \in KnownRows : a.id = b.id => a = b

(* What an upload will store is tagged with the generation of this moment, *)
(* and the mark a release may seed is that generation.                     *)
TagsAreCurrent ==
  /\ \A u \in Uploads :
       /\ upload[u].at = "lock" /\ highWater = {} => upload[u].stored = Top(Readable)
       /\ upload[u].at = "store" =>
            writing = u /\ upload[u].stored = CurrentGeneration
  /\ release.at = "seed" /\ highWater = {} => release.policy = Top(Readable)

Undecided == {"none", "resolve", "seed", "owner", "decide", "stamp", "unwrap"}

(* Nothing is released or missed before the decision; what the standard    *)
(* path decides on are all the owner's rows it began with that are left; a *)
(* token was accepted only after the unlock time; an answer is audited.    *)
DecisionIsSound ==
  /\ release.at \in Undecided => release.key = {} /\ ~release.missed
  /\ \A row \in release.before : row.slot = 1
  /\ release.at = "decide" /\ release.path = "standard" =>
       release.before \cap shares \subseteq release.rows
  /\ release.at = "unwrap" => release.time >= Unlock[release.policy]
  /\ release.path = "timelock" => release.at # "decide"
  /\ KeyOfThePolicy /\ GenuineShareIsFound /\ TimelockNeverEarly /\ KeyIsAudited

ShareInv ==
  /\ ReleaseTypeOK
  /\ IdsNameRows
  /\ TagsAreCurrent
  /\ DecisionIsSound

-------------------------------------------------------------------------------
(* Top is a generation; of one generation it is that one. *)
LEMMA TopIsGeneration ==
  ASSUME NEW S \in SUBSET Generations
  PROVE  /\ Top(S) \in Generations
         /\ \A g \in Generations : S = {g} => Top(S) = g
<1>1. CASE S = {}
  BY <1>1, ReleaseConstants DEF Top, Generations
<1>2. CASE S # {}
  <2>1. \E g \in S : \A h \in S : h <= g
    BY <1>2, GreatestNatural, ReleaseConstants DEF Generations
  <2> QED BY <1>2, <2>1 DEF Top
<1> QED BY <1>1, <1>2

LEMMA CurrentIsGeneration ==
  ASSUME ReleaseTypeOK
  PROVE  /\ CurrentGeneration \in Generations
         /\ Top(Readable) \in Generations
         /\ \A g \in Generations : highWater = {g} => CurrentGeneration = g
<1>1. Readable \in SUBSET Generations /\ highWater \in SUBSET Generations
  BY DEF ReleaseTypeOK, Readable
<1>2. Top(Readable) \in Generations /\ Top(highWater) \in Generations
  BY <1>1, TopIsGeneration
<1>3. \A g \in Generations : highWater = {g} => Top(highWater) = g
  BY <1>1, TopIsGeneration
<1> QED BY <1>2, <1>3 DEF CurrentGeneration

(* The key of shares of one split is that split's. *)
LEMMA KeyOfSplit ==
  ASSUME NEW used, \A s \in used : s.of \in Generations
  PROVE  KeyOf(used) \in SUBSET Keys
BY ReleaseConstants DEF KeyOf, Keys, Generations, Another

(* What matches a commitment gives its key or nothing. *)
LEMMA MatchingGives ==
  ASSUME NEW tries, NEW policy \in Generations
  PROVE  LET key == UNION {KeyOf(used) : used \in Matching(tries, policy)}
         IN  key = {} \/ key = {policy}
BY DEF Matching

-------------------------------------------------------------------------------
(* Typing. *)

(* The three parts of ReleaseTypeOK. *)
TablesTyped ==
  /\ pinned \in BOOLEAN
  /\ records \subseteq Generations
  /\ highWater \in {{}} \cup {{g} : g \in Generations}
  /\ shares \subseteq Row /\ lastId \in 0..MaxRows
  /\ shown \subseteq Row
  /\ removals \subseteq 1..MaxRows

Stages == {"none", "mark", "scan", "lock", "store"}

UploadsTyped ==
  /\ writing \in Uploads \cup {"free"}
  /\ upload \in [Uploads -> [at : Stages, stored : Generations]]

ReleaseType ==
  [at : {"none", "resolve", "seed", "owner", "decide", "stamp", "unwrap",
         "audit", "answer"},
   path : {"standard", "timelock", "admin"},
   status : {"unknown", "verified", "expired", "unauthenticated", "blocked"},
   policy : Generations, rows : SUBSET Row, before : SUBSET Row,
   key : SUBSET Keys, missed : BOOLEAN, audited : BOOLEAN,
   time : 0..ReleaseMaxClock]


LEMMA TypeParts ==
  /\ ReleaseTypeOK <=> TablesTyped /\ UploadsTyped /\ release \in ReleaseType
  /\ ReleaseTypeOK' <=> TablesTyped' /\ UploadsTyped' /\ release' \in ReleaseType
BY DEF ReleaseTypeOK, TablesTyped, UploadsTyped, Stages, ReleaseType

(* A step that sets one upload to a well-typed one. *)
LEMMA OneUploadTyped ==
  ASSUME UploadsTyped, NEW u \in Uploads, NEW at \in Stages,
         NEW stored \in Generations,
         \/ upload' = [upload EXCEPT ![u].at = at, ![u].stored = stored]
         \/ upload' = [upload EXCEPT ![u].at = at]
         \/ upload' = [upload EXCEPT ![u] = NoUpload]
  PROVE  upload' \in [Uploads -> [at : Stages, stored : Generations]]
<1>1. NoUpload \in [at : Stages, stored : Generations]
  BY ReleaseConstants DEF NoUpload, Stages, Generations
<1> QED BY <1>1 DEF UploadsTyped

(* What the steps of an upload write is well typed. *)
LEMMA UploadTyped ==
  ASSUME TablesTyped, UploadsTyped, NEW u \in Uploads, UploadStep(u),
         CurrentGeneration \in Generations, Top(Readable) \in Generations
  PROVE  TablesTyped' /\ UploadsTyped' /\ release' = release
<1>1. 0 \in Generations /\ upload[u].stored \in Generations
  BY ReleaseConstants DEF Generations, UploadsTyped
<1>2. CASE BeginUpload(u)
  BY <1>1, <1>2, OneUploadTyped
     DEF BeginUpload, TablesTyped, UploadsTyped, Stages, recordVars, shareVars
<1>3. CASE ReadMark(u)
  <2>1. PICK at \in Stages : upload' = [upload EXCEPT ![u].at = at]
    BY <1>3 DEF ReadMark, Stages
  <2> QED BY <1>1, <1>3, <2>1, OneUploadTyped
             DEF ReadMark, TablesTyped, UploadsTyped, recordVars, shareVars
<1>4. CASE ReadStored(u)
  <2>1. upload' = [upload EXCEPT ![u].at = "lock", ![u].stored = Top(Readable)]
    BY <1>4 DEF ReadStored
  <2>2. upload' \in [Uploads -> [at : Stages, stored : Generations]]
    BY <2>1, OneUploadTyped DEF Stages
  <2> QED BY <1>4, <2>2 DEF ReadStored, TablesTyped, UploadsTyped, recordVars, shareVars
<1>5. CASE LockUpload(u)
  <2>1. TagUnderLock(u) \in Generations
    BY <1>1 DEF TagUnderLock, CurrentGeneration
  <2>2. upload' = [upload EXCEPT ![u].at = "store", ![u].stored = TagUnderLock(u)]
    BY <1>5 DEF LockUpload
  <2>3. upload' \in [Uploads -> [at : Stages, stored : Generations]]
    BY <2>1, <2>2, OneUploadTyped DEF Stages
  <2> QED BY <1>5, <2>3 DEF LockUpload, TablesTyped, UploadsTyped, recordVars, shareVars
<1>6. CASE \E slot \in Slots, of \in Generations : StoreShare(u, slot, of)
  <2>1. PICK slot \in Slots, of \in Generations : StoreShare(u, slot, of)
    BY <1>6
  <2> DEFINE row == [id |-> lastId + 1, slot |-> slot,
                     tag |-> upload[u].stored, of |-> of]
  <2>2. \/ shares' = shares /\ lastId' = lastId
        \/ shares' = shares \cup {row} /\ lastId' = lastId + 1 /\ lastId < MaxRows
    BY <2>1 DEF StoreShare
  <2>3. lastId < MaxRows => row \in Row
    BY <1>1, ReleaseConstants DEF Row, TablesTyped
  <2>4. shares' \subseteq Row /\ lastId' \in 0..MaxRows
    BY <2>2, <2>3, ReleaseConstants DEF TablesTyped
  <2>5. /\ writing' = "free" /\ upload' = [upload EXCEPT ![u] = NoUpload]
        /\ UNCHANGED <<pinned, records, highWater, removals, shown, release>>
    BY <2>1 DEF StoreShare, recordVars
  <2> QED BY <1>1, <2>4, <2>5, OneUploadTyped DEF TablesTyped, UploadsTyped, Stages
<1>7. CASE FailUpload(u)
  BY <1>1, <1>7, OneUploadTyped
     DEF FailUpload, TablesTyped, UploadsTyped, Stages, recordVars, shareVars
<1> QED BY <1>2, <1>3, <1>4, <1>5, <1>6, <1>7 DEF UploadStep

LEMMA NoReleaseTyped == NoRelease \in ReleaseType
BY ReleaseConstants DEF NoRelease, ReleaseType, Generations

LEMMA GenerationsAreKeys ==
  ASSUME NEW g \in Generations
  PROVE  {g} \in SUBSET Keys
BY ReleaseConstants DEF Generations, Keys

LEMMA CombineTyped ==
  ASSUME release \in ReleaseType, NEW tries, NEW genuine \in BOOLEAN,
         NEW policy \in Generations, Combine(tries, genuine, policy)
  PROVE  /\ release' \in ReleaseType
         /\ release'.at = "audit"
         /\ release'.key = {} \/ release'.key = {policy}
         /\ release'.missed = (genuine /\ Matching(tries, policy) = {})
         /\ release'.before = IF release'.missed THEN release.before ELSE {}
         /\ \A f \in {"path", "status", "policy", "time", "audited"} :
              release'[f] = release[f]
<1> DEFINE key == UNION {KeyOf(used) : used \in Matching(tries, policy)}
           missed == genuine /\ Matching(tries, policy) = {}
<1>1. key = {} \/ key = {policy}
  BY MatchingGives
<1>2. key \in SUBSET Keys
  BY <1>1, GenerationsAreKeys
<1>3. missed \in BOOLEAN
  OBVIOUS
<1>4. release' = [release EXCEPT !.at = "audit", !.rows = {}, !.key = key,
                    !.missed = missed, !.before = IF missed THEN @ ELSE {}]
  BY DEF Combine
<1> HIDE DEF key, missed
<1>5. /\ release' \in ReleaseType
      /\ release'.at = "audit" /\ release'.key = key /\ release'.missed = missed
      /\ release'.before = IF missed THEN release.before ELSE {}
      /\ release'.path = release.path /\ release'.status = release.status
      /\ release'.policy = release.policy /\ release'.time = release.time
      /\ release'.audited = release.audited
  BY <1>2, <1>3, <1>4 DEF ReleaseType
<1> QED BY <1>1, <1>5 DEF missed

(* What no step of a release touches. *)
Others == <<pinned, records, shareVars, uploadVars, shown>>

(* The steps of a release that only move it, and the ones that decide.     *)
LEMMA ReleaseTyped ==
  ASSUME TablesTyped, UploadsTyped, release \in ReleaseType, ReleaseStep,
         CurrentGeneration \in Generations
  PROVE  /\ release' \in ReleaseType
         /\ highWater' \in {{}} \cup {{g} : g \in Generations}
         /\ UNCHANGED Others
<1>1. 0 \in Generations
  BY ReleaseConstants DEF Generations
<1>0. highWater \in {{}} \cup {{g} : g \in Generations}
  BY DEF TablesTyped
<1>2. ASSUME NEW path \in {"standard", "timelock", "admin"}, BeginRelease(path)
      PROVE  release' \in ReleaseType /\ UNCHANGED highWater /\ UNCHANGED Others
  <2>1. OwnerRows(shares) \subseteq Row /\ shares \subseteq Row
    BY DEF OwnerRows, TablesTyped
  <2> DEFINE begun == IF path = "admin" THEN shares ELSE {}
             before == IF path = "standard" THEN OwnerRows(shares) ELSE {}
  <2>2. release' = [NoRelease EXCEPT !.at = "resolve", !.path = path,
                                     !.rows = begun, !.before = before]
    BY <1>2 DEF BeginRelease
  <2>3. begun \in SUBSET Row /\ before \in SUBSET Row
    BY <2>1
  <2>4. release' \in ReleaseType
    <3> HIDE DEF begun, before
    <3> QED BY <2>2, <2>3, NoReleaseTyped DEF ReleaseType
  <2> QED BY <1>2, <2>4 DEF BeginRelease, Others, recordVars
<1>3. CASE ResolvePolicy
  <2>1. PICK status \in {"verified", "expired", "unauthenticated", "blocked"} :
           release' = [release EXCEPT
            !.status = status,
            !.policy = IF status \in {"verified", "expired"}
                       THEN CurrentGeneration ELSE 0,
            !.at = IF status \in {"verified", "expired"} THEN "seed"
                   ELSE NextAfterPolicy]
    BY <1>3 DEF ResolvePolicy
  <2> DEFINE policy == IF status \in {"verified", "expired"}
                        THEN CurrentGeneration ELSE 0
             at == IF status \in {"verified", "expired"} THEN "seed"
                   ELSE NextAfterPolicy
  <2>2. policy \in Generations /\ at \in {"seed", "decide", "owner"}
    BY <1>1 DEF NextAfterPolicy
  <2>3. release' = [release EXCEPT !.status = status, !.policy = policy, !.at = at]
    BY <2>1
  <2>4. release' \in ReleaseType
    <3> HIDE DEF policy, at
    <3> QED BY <2>2, <2>3 DEF ReleaseType
  <2> QED BY <1>0, <1>3, <2>4 DEF ResolvePolicy, Others, recordVars
<1>4. CASE SeedMark
  <2>1. release' = [release EXCEPT !.at = NextAfterPolicy]
        /\ (highWater' = highWater \/ highWater' = {release.policy})
        /\ UNCHANGED Others
    BY <1>4 DEF SeedMark, Others
  <2> QED BY <2>1 DEF NextAfterPolicy, ReleaseType, TablesTyped
<1>5. CASE DenyRelease
  <2>1. release' \in ReleaseType
    BY <1>5, NoReleaseTyped DEF DenyRelease, ReleaseType
  <2> QED BY <1>0, <1>5, <2>1 DEF DenyRelease, Others, recordVars
<1>6. CASE ReadOwner
  <2>1. OwnerRows(shares) \subseteq Row
    BY DEF OwnerRows, TablesTyped
  <2>2. PICK at \in {"stamp", "decide"} :
          release' = [release EXCEPT !.rows = OwnerRows(shares), !.at = at]
    BY <1>6 DEF ReadOwner
  <2>3. release' \in ReleaseType
    BY <2>1, <2>2 DEF ReleaseType
  <2> QED BY <1>0, <1>6, <2>3 DEF ReadOwner, Others, recordVars
<1>7. ASSUME NEW time \in 0..ReleaseMaxClock, NEW genTime, StampPolicy(time, genTime)
      PROVE  release' \in ReleaseType /\ UNCHANGED highWater /\ UNCHANGED Others
  <2>1. release' \in ReleaseType
    BY <1>7 DEF StampPolicy, ReleaseType
  <2> QED BY <1>7, <2>1 DEF StampPolicy, Others, recordVars
<1>8. CASE DecideAdmin
  <2>1. release.policy \in Generations
    BY DEF ReleaseType
  <2> QED BY <1>0, <1>8, <2>1, CombineTyped DEF DecideAdmin, Others, recordVars
<1>9. CASE DecideUnauthenticated
  <2>1. PICK row \in release.rows, other \in release.rows :
          release' = [release EXCEPT !.at = "audit", !.rows = {},
                                       !.key = KeyOf({row, other})]
    BY <1>9 DEF DecideUnauthenticated, AdminRows
  <2>2. row.of \in Generations /\ other.of \in Generations
    BY <2>1 DEF ReleaseType, Row
  <2>3. KeyOf({row, other}) \in SUBSET Keys
    BY <2>2, KeyOfSplit
  <2>4. release' \in ReleaseType
    BY <2>1, <2>3 DEF ReleaseType
  <2> QED BY <1>0, <1>9, <2>4 DEF DecideUnauthenticated, Others, recordVars
<1>10. ASSUME NEW s2 \in Generations, UnwrapAndCombine(s2)
       PROVE  release' \in ReleaseType /\ UNCHANGED highWater /\ UNCHANGED Others
  <2>1. release.policy \in Generations
    BY DEF ReleaseType
  <2> QED BY <1>10, <2>1, CombineTyped DEF UnwrapAndCombine, Others, recordVars
<1>11. ASSUME NEW s2 \in Generations, NEW g \in Generations, DecideStandard(s2, g)
       PROVE  release' \in ReleaseType /\ UNCHANGED highWater /\ UNCHANGED Others
  BY <1>11, CombineTyped DEF DecideStandard, Others, recordVars
<1>12. CASE WriteAudit
  <2>1. release' \in ReleaseType
    BY <1>12 DEF WriteAudit, ReleaseType
  <2> QED BY <1>0, <1>12, <2>1 DEF WriteAudit, Others, recordVars
<1>13. CASE FailAudit
  <2>1. release' \in ReleaseType
    BY <1>13, NoReleaseTyped DEF FailAudit, WithoutAudit, ReleaseType
  <2> QED BY <1>0, <1>13, <2>1 DEF FailAudit, Others, recordVars
<1>14. CASE AnswerRelease
  BY <1>0, <1>14, NoReleaseTyped DEF AnswerRelease, Others, recordVars
<1> QED BY <1>0, <1>2, <1>3, <1>4, <1>5, <1>6, <1>7, <1>8, <1>9, <1>10, <1>11,
           <1>12, <1>13, <1>14 DEF ReleaseStep

LEMMA ReleaseTypeStep ==
  ASSUME ReleaseTypeOK, ShareReleaseNext
  PROVE  ReleaseTypeOK'
<1>1. TablesTyped /\ UploadsTyped /\ release \in ReleaseType
  BY TypeParts
<1>2. CurrentGeneration \in Generations /\ Top(Readable) \in Generations
  BY CurrentIsGeneration
<1>3. NoUpload \in [at : Stages, stored : Generations]
  BY ReleaseConstants DEF NoUpload, Stages, Generations
<1>4. ASSUME NEW g \in Generations, AdmitPolicy(g)
      PROVE  TablesTyped' /\ UploadsTyped' /\ release' \in ReleaseType
  BY <1>1, <1>4 DEF AdmitPolicy, TablesTyped, UploadsTyped, shareVars, uploadVars
<1>5. ASSUME NEW u \in Uploads, UploadStep(u)
      PROVE  TablesTyped' /\ UploadsTyped' /\ release' \in ReleaseType
  BY <1>1, <1>2, <1>5, UploadTyped
<1>6. ASSUME NEW row \in shares, ShowShare(row)
      PROVE  TablesTyped' /\ UploadsTyped' /\ release' \in ReleaseType
  BY <1>1, <1>6
     DEF ShowShare, TablesTyped, UploadsTyped, recordVars, shareVars, uploadVars
<1>7. ASSUME NEW seen \in shown, RemoveShare(seen)
      PROVE  TablesTyped' /\ UploadsTyped' /\ release' \in ReleaseType
  <2>1. PICK row \in shares :
          shares' = shares \ {row} /\ removals' = removals \cup {row.id}
    BY <1>7 DEF RemoveShare
  <2>2. row.id \in 1..MaxRows
    BY <1>1 DEF TablesTyped, Row
  <2> QED BY <1>1, <1>7, <2>1, <2>2
             DEF RemoveShare, TablesTyped, UploadsTyped, recordVars, uploadVars
<1>8. CASE ReleaseStep
  <2>1. /\ release' \in ReleaseType
        /\ highWater' \in {{}} \cup {{g} : g \in Generations}
        /\ UNCHANGED Others
    BY <1>1, <1>2, <1>8, ReleaseTyped
  <2> QED BY <1>1, <2>1, TypeParts
             DEF Others, TablesTyped, UploadsTyped, shareVars, uploadVars
<1>9. CASE RestartHost
  <2>1. /\ upload' = [u \in Uploads |-> NoUpload] /\ writing' = "free"
        /\ pinned' \in BOOLEAN /\ release' = NoRelease
        /\ UNCHANGED <<records, highWater, shares, lastId, removals, shown>>
    BY <1>9 DEF RestartHost, shareVars
  <2>2. upload' \in [Uploads -> [at : Stages, stored : Generations]]
    BY <1>3, <2>1
  <2> QED BY <1>1, <2>1, <2>2, NoReleaseTyped, TypeParts DEF TablesTyped, UploadsTyped
<1> QED BY <1>4, <1>5, <1>6, <1>7, <1>8, <1>9, TypeParts DEF ShareReleaseNext

-------------------------------------------------------------------------------
(* Ids. *)

(* What becomes of the rows a release remembers from before it began.      *)
LEMMA BeforeStep ==
  ASSUME ReleaseTypeOK, ReleaseStep
  PROVE  release'.before \subseteq release.before \cup shares
<1>0. release \in ReleaseType /\ NoRelease \in ReleaseType /\ NoRelease.before = {}
  BY TypeParts, NoReleaseTyped DEF NoRelease
<1>1. ASSUME NEW path, BeginRelease(path)
      PROVE  release'.before \subseteq shares
  <2> DEFINE before == IF path = "standard" THEN OwnerRows(shares) ELSE {}
  <2>1. before \subseteq shares
    BY DEF OwnerRows
  <2>2. release'.before = before
    <3> HIDE DEF before
    <3> QED BY <1>0, <1>1 DEF BeginRelease, ReleaseType, before
  <2> QED BY <2>1, <2>2
<1>2. CASE ResolvePolicy \/ SeedMark
  BY <1>0, <1>2 DEF ResolvePolicy, SeedMark, ReleaseType
<1>3. CASE DenyRelease \/ FailAudit \/ AnswerRelease
  BY <1>0, <1>3 DEF DenyRelease, FailAudit, WithoutAudit, AnswerRelease, ReleaseType
<1>4. CASE ReadOwner
  BY <1>0, <1>4 DEF ReadOwner, ReleaseType
<1>5. ASSUME NEW time, NEW genTime, StampPolicy(time, genTime)
      PROVE  release'.before = release.before
  BY <1>0, <1>5 DEF StampPolicy, ReleaseType
<1>6. ASSUME NEW tries, NEW genuine \in BOOLEAN, NEW policy \in Generations,
             Combine(tries, genuine, policy)
      PROVE  release'.before \subseteq release.before
  BY <1>0, <1>6, CombineTyped
<1>7. CASE DecideAdmin
  <2>1. release.policy \in Generations
    BY <1>0 DEF ReleaseType
  <2> QED BY <1>6, <1>7, <2>1 DEF DecideAdmin
<1>8. CASE DecideUnauthenticated
  BY <1>0, <1>8 DEF DecideUnauthenticated, ReleaseType
<1>9. ASSUME NEW s2 \in Generations, UnwrapAndCombine(s2)
      PROVE  release'.before \subseteq release.before
  <2>1. release.policy \in Generations
    BY <1>0 DEF ReleaseType
  <2> QED BY <1>6, <1>9, <2>1 DEF UnwrapAndCombine
<1>10. ASSUME NEW s2 \in Generations, NEW g \in Generations, DecideStandard(s2, g)
       PROVE  release'.before \subseteq release.before
  <2>1. (PolicyVerified /\ s2 = g) \in BOOLEAN
    OBVIOUS
  <2> QED BY <1>6, <1>10, <2>1 DEF DecideStandard
<1>11. CASE WriteAudit
  BY <1>0, <1>11 DEF WriteAudit, ReleaseType
<1> QED BY <1>1, <1>2, <1>3, <1>4, <1>5, <1>7, <1>8, <1>9, <1>10, <1>11
        DEF ReleaseStep

(* Without a new row ids go on naming rows. *)
LEMMA FewerRows ==
  ASSUME IdsNameRows, KnownRows' \subseteq KnownRows, lastId' = lastId
  PROVE  IdsNameRows'
BY DEF IdsNameRows

LEMMA IdsStep ==
  ASSUME ReleaseTypeOK, IdsNameRows, ShareReleaseNext
  PROVE  IdsNameRows'
<1>1. ASSUME NEW g, AdmitPolicy(g)
      PROVE  KnownRows' \subseteq KnownRows /\ lastId' = lastId
  BY <1>1 DEF AdmitPolicy, KnownRows, shareVars
<1>2. ASSUME NEW u, BeginUpload(u) \/ ReadMark(u) \/ ReadStored(u) \/ LockUpload(u)
                    \/ FailUpload(u)
      PROVE  KnownRows' \subseteq KnownRows /\ lastId' = lastId
  BY <1>2 DEF BeginUpload, ReadMark, ReadStored, LockUpload, FailUpload, KnownRows,
              shareVars
<1>3. ASSUME NEW u, NEW slot, NEW of, StoreShare(u, slot, of)
      PROVE  IdsNameRows'
  <2> DEFINE new == [id |-> lastId + 1, slot |-> slot,
                     tag |-> upload[u].stored, of |-> of]
  <2>1. \/ KnownRows' = KnownRows /\ lastId' = lastId
        \/ KnownRows' = KnownRows \cup {new} /\ lastId' = lastId + 1
    BY <1>3 DEF StoreShare, KnownRows
  <2>2. \A a \in KnownRows : a.id \in Int /\ a.id <= lastId
    BY DEF ReleaseTypeOK, IdsNameRows, KnownRows, Row
  <2>3. lastId \in Int /\ new.id = lastId + 1
    BY DEF ReleaseTypeOK
  <2>4. \A a, b \in KnownRows : a.id = b.id => a = b
    BY DEF IdsNameRows
  <2> HIDE DEF new
  <2>5. CASE KnownRows' = KnownRows \cup {new} /\ lastId' = lastId + 1
    BY <2>2, <2>3, <2>4, <2>5 DEF IdsNameRows
  <2> QED BY <2>1, <2>5, FewerRows
<1>4. ASSUME NEW row \in shares, ShowShare(row)
      PROVE  KnownRows' \subseteq KnownRows /\ lastId' = lastId
  BY <1>4 DEF ShowShare, KnownRows, shareVars
<1>5. ASSUME NEW seen, RemoveShare(seen)
      PROVE  KnownRows' \subseteq KnownRows /\ lastId' = lastId
  BY <1>5 DEF RemoveShare, KnownRows
<1>6. CASE ReleaseStep
  <2>1. UNCHANGED <<shareVars, shown>>
    BY <1>6, ReleaseTyped, TypeParts, CurrentIsGeneration DEF Others
  <2>2. KnownRows' \subseteq KnownRows /\ lastId' = lastId
    BY <1>6, <2>1, BeforeStep DEF KnownRows, shareVars
  <2> QED BY <2>2, FewerRows
<1>7. CASE RestartHost
  <2>1. release'.before = {}
    BY <1>7 DEF RestartHost, NoRelease
  <2>2. KnownRows' \subseteq KnownRows /\ lastId' = lastId
    BY <1>7, <2>1 DEF RestartHost, KnownRows, shareVars
  <2> QED BY <2>2, FewerRows
<1> QED BY <1>1, <1>2, <1>3, <1>4, <1>5, <1>6, <1>7, FewerRows
        DEF ShareReleaseNext, UploadStep

-------------------------------------------------------------------------------
(* Tags. *)

(* A step that leaves the records, the mark and the uploads alone. *)
LEMMA TagsKept ==
  ASSUME TagsAreCurrent, UNCHANGED <<recordVars, uploadVars>>,
         release' = release \/ release'.at # "seed"
  PROVE  TagsAreCurrent'
<1>1. /\ UNCHANGED <<pinned, records, highWater, writing, upload>>
  BY DEF recordVars, uploadVars
<1>2. CurrentGeneration' = CurrentGeneration /\ Top(Readable)' = Top(Readable)
  BY <1>1 DEF CurrentGeneration, Readable, Top
<1> QED BY <1>1, <1>2 DEF TagsAreCurrent

(* A step of one upload: it is tagged under the lock as the others are. *)
LEMMA TagsUpload ==
  ASSUME ReleaseTypeOK, TagsAreCurrent, NEW u \in Uploads, UploadStep(u)
  PROVE  TagsAreCurrent'
<1>1. /\ UploadsTyped /\ "free" \notin Uploads /\ DOMAIN upload = Uploads
      /\ \A v \in Uploads : DOMAIN upload[v] = {"at", "stored"}
  BY TypeParts, ReleaseConstants DEF UploadsTyped
<1>2. UNCHANGED <<recordVars, release>>
  BY DEF UploadStep, BeginUpload, ReadMark, ReadStored, LockUpload, StoreShare,
         FailUpload
<1>3. /\ CurrentGeneration' = CurrentGeneration /\ Top(Readable)' = Top(Readable)
      /\ highWater' = highWater
  BY <1>2 DEF recordVars, CurrentGeneration, Readable, Top
<1>4. \A v \in Uploads \ {u} : upload'[v] = upload[v]
  BY <1>1 DEF UploadStep, BeginUpload, ReadMark, ReadStored, LockUpload, StoreShare,
              FailUpload
<1>5. \A v \in Uploads \ {u} : writing = v => writing' = v
  BY <1>1 DEF UploadStep, BeginUpload, ReadMark, ReadStored, LockUpload, StoreShare,
              FailUpload, TagsAreCurrent
<1>6. /\ upload'[u].at = "lock" /\ highWater = {} =>
           upload'[u].stored = Top(Readable)
      /\ upload'[u].at = "store" =>
           writing' = u /\ upload'[u].stored = CurrentGeneration
  <2>1. CASE BeginUpload(u)
    BY <1>1, <2>1 DEF BeginUpload
  <2>2. CASE ReadMark(u)
    BY <1>1, <2>2 DEF ReadMark
  <2>3. CASE ReadStored(u)
    BY <1>1, <2>3 DEF ReadStored
  <2>4. CASE LockUpload(u)
    <3>1. upload[u].at = "lock" /\ writing' = u
      BY <2>4 DEF LockUpload
    <3>2. upload'[u].at = "store" /\ upload'[u].stored = TagUnderLock(u)
      BY <1>1, <2>4 DEF LockUpload
    <3>3. TagUnderLock(u) = CurrentGeneration
      BY <3>1 DEF TagUnderLock, CurrentGeneration, TagsAreCurrent
    <3> QED BY <3>1, <3>2, <3>3
  <2>5. ASSUME NEW slot, NEW of, StoreShare(u, slot, of)
        PROVE  upload'[u].at = "none"
    BY <1>1, <2>5 DEF StoreShare, NoUpload
  <2>6. CASE FailUpload(u)
    BY <1>1, <2>6 DEF FailUpload, NoUpload
  <2> QED BY <2>1, <2>2, <2>3, <2>4, <2>5, <2>6 DEF UploadStep
<1> QED BY <1>2, <1>3, <1>4, <1>5, <1>6 DEF TagsAreCurrent

(* The steps of a release: only _backfill_mark writes what uploads read. *)
LEMMA TagsRelease ==
  ASSUME ReleaseTypeOK, TagsAreCurrent, ReleaseStep
  PROVE  TagsAreCurrent'
<1>0. release \in ReleaseType /\ NoRelease \in ReleaseType
  BY TypeParts, NoReleaseTyped
<1>1. CASE SeedMark
  <2>1. /\ UNCHANGED <<pinned, records, writing, upload>>
        /\ highWater' = highWater \/ (highWater = {} /\ highWater' = {release.policy})
    BY <1>1 DEF SeedMark, uploadVars
  <2>2. release'.at # "seed" /\ release.at = "seed"
    BY <1>0, <1>1 DEF SeedMark, NextAfterPolicy, ReleaseType
  <2>3. CASE highWater' = highWater
    BY <2>1, <2>2, <2>3, TagsKept DEF recordVars, uploadVars
  <2>4. CASE highWater = {} /\ highWater' = {release.policy}
    <3>1. release.policy = Top(Readable) /\ release.policy \in Generations
      BY <1>0, <2>2, <2>4 DEF TagsAreCurrent, ReleaseType
    <3>2. Top({release.policy}) = release.policy
      BY <3>1, TopIsGeneration
    <3>3. CurrentGeneration = Top(Readable)
      BY <2>4 DEF CurrentGeneration
    <3>4. CurrentGeneration' = Top({release.policy})
      BY <2>4 DEF CurrentGeneration
    <3>5. CurrentGeneration' = CurrentGeneration
      BY <3>1, <3>2, <3>3, <3>4
    <3> QED BY <2>1, <2>2, <2>4, <3>5 DEF TagsAreCurrent
  <2> QED BY <2>1, <2>3, <2>4
<1>2. CASE ResolvePolicy
  <2>1. UNCHANGED <<pinned, records, highWater, writing, upload>>
    BY <1>2 DEF ResolvePolicy, recordVars, uploadVars
  <2>2. release'.at = "seed" => release'.policy = CurrentGeneration
    BY <1>0, <1>2 DEF ResolvePolicy, NextAfterPolicy, ReleaseType
  <2>3. CurrentGeneration' = CurrentGeneration /\ Top(Readable)' = Top(Readable)
    BY <2>1 DEF CurrentGeneration, Readable, Top
  <2>4. highWater = {} => CurrentGeneration = Top(Readable)
    BY DEF CurrentGeneration
  <2> QED BY <2>1, <2>2, <2>3, <2>4 DEF TagsAreCurrent
<1>3. ASSUME NEW path, BeginRelease(path)
      PROVE  release'.at # "seed" /\ UNCHANGED <<recordVars, uploadVars>>
  BY <1>0, <1>3 DEF BeginRelease, ReleaseType
<1>4. CASE DenyRelease \/ FailAudit \/ AnswerRelease \/ WriteAudit
  <2>1. release'.at # "seed"
    BY <1>0, <1>4
       DEF DenyRelease, FailAudit, WithoutAudit, AnswerRelease, WriteAudit, NoRelease,
           ReleaseType
  <2> QED BY <1>4, <2>1, TagsKept DEF DenyRelease, FailAudit, AnswerRelease, WriteAudit
<1>5. CASE ReadOwner
  <2>1. release'.at # "seed"
    BY <1>0, <1>5 DEF ReadOwner, ReleaseType
  <2> QED BY <1>5, <2>1, TagsKept DEF ReadOwner
<1>6. ASSUME NEW time, NEW genTime, StampPolicy(time, genTime)
      PROVE  release'.at # "seed" /\ UNCHANGED <<recordVars, uploadVars>>
  BY <1>0, <1>6 DEF StampPolicy, ReleaseType
<1>7. ASSUME NEW tries, NEW genuine, NEW policy, Combine(tries, genuine, policy)
      PROVE  release'.at # "seed"
  BY <1>0, <1>7 DEF Combine, ReleaseType
<1>8. CASE DecideAdmin
  BY <1>7, <1>8, TagsKept DEF DecideAdmin
<1>9. CASE DecideUnauthenticated
  <2>1. release'.at # "seed"
    BY <1>0, <1>9 DEF DecideUnauthenticated, ReleaseType
  <2> QED BY <1>9, <2>1, TagsKept DEF DecideUnauthenticated
<1>10. ASSUME NEW s2, UnwrapAndCombine(s2)
       PROVE  release'.at # "seed" /\ UNCHANGED <<recordVars, uploadVars>>
  BY <1>7, <1>10 DEF UnwrapAndCombine
<1>11. ASSUME NEW s2, NEW g, DecideStandard(s2, g)
       PROVE  release'.at # "seed" /\ UNCHANGED <<recordVars, uploadVars>>
  BY <1>7, <1>11 DEF DecideStandard
<1> QED BY <1>1, <1>2, <1>3, <1>4, <1>5, <1>6, <1>8, <1>9, <1>10, <1>11, TagsKept
        DEF ReleaseStep

LEMMA TagsStep ==
  ASSUME ReleaseTypeOK, TagsAreCurrent, ShareReleaseNext
  PROVE  TagsAreCurrent'
<1>1. ASSUME NEW g \in Generations, AdmitPolicy(g)
      PROVE  TagsAreCurrent'
  <2>1. /\ writing = "free" /\ highWater' # {}
        /\ UNCHANGED <<writing, upload>>
    BY <1>1 DEF AdmitPolicy, uploadVars
  <2>2. \A u \in Uploads : upload[u].at # "store"
    BY <2>1, ReleaseConstants DEF TagsAreCurrent
  <2> QED BY <2>1, <2>2 DEF TagsAreCurrent
<1>2. ASSUME NEW u \in Uploads, UploadStep(u)
      PROVE  TagsAreCurrent'
  BY <1>2, TagsUpload
<1>3. ASSUME NEW row \in shares, ShowShare(row)
      PROVE  TagsAreCurrent'
  BY <1>3, TagsKept DEF ShowShare
<1>4. ASSUME NEW seen \in shown, RemoveShare(seen)
      PROVE  TagsAreCurrent'
  BY <1>4, TagsKept DEF RemoveShare
<1>5. CASE ReleaseStep
  BY <1>5, TagsRelease
<1>6. CASE RestartHost
  BY <1>6 DEF RestartHost, NoUpload, NoRelease, TagsAreCurrent
<1> QED BY <1>1, <1>2, <1>3, <1>4, <1>5, <1>6 DEF ShareReleaseNext

-------------------------------------------------------------------------------
(* Decisions. *)

(* A step beside the release: rows of before it began are not added to. *)
LEMMA DecisionKept ==
  ASSUME DecisionIsSound, release' = release,
         release.before \cap shares' \subseteq shares
  PROVE  DecisionIsSound'
<1>1. KeyOfThePolicy' = KeyOfThePolicy /\ TimelockNeverEarly' = TimelockNeverEarly
      /\ KeyIsAudited' = KeyIsAudited
  BY DEF KeyOfThePolicy, TimelockNeverEarly, KeyIsAudited, PolicyVerified
<1>2. GenuineShareIsFound => GenuineShareIsFound'
  BY DEF GenuineShareIsFound
<1> QED BY <1>1, <1>2 DEF DecisionIsSound

(* A step that only moves an undecided release, or gives it up. *)
LEMMA StillUndecided ==
  ASSUME release'.key = {}, ~release'.missed,
         \A row \in release'.before : row.slot = 1,
         release'.at # "decide", release'.at # "unwrap"
  PROVE  DecisionIsSound'
BY DEF DecisionIsSound, KeyOfThePolicy, GenuineShareIsFound, TimelockNeverEarly,
       KeyIsAudited

(* A decision: the key is the policy's, and none was missed. *)
LEMMA DecidedSoundly ==
  ASSUME ~release'.missed, release'.before = {}, release'.at = "audit",
         release'.key # {} /\ PolicyVerified' => release'.key = {release'.policy},
         release'.key # {} /\ release'.path = "timelock" =>
           release'.time >= Unlock[release'.policy]
  PROVE  DecisionIsSound'
BY DEF DecisionIsSound, KeyOfThePolicy, GenuineShareIsFound, TimelockNeverEarly,
       KeyIsAudited, Undecided

(* The genuine pair of shares gives the key they are shares of. *)
LEMMA GenuinePairMatches ==
  ASSUME NEW row, NEW g \in Generations, NEW tries,
         row.slot = 1, row.of = g, {row, Presented(2, g)} \in tries
  PROVE  Matching(tries, g) # {}
<1>1. Presented(2, g).of = g
  BY DEF Presented
<1>2. KeyOf({row, Presented(2, g)}) = {g}
  BY <1>1 DEF KeyOf
<1> QED BY <1>2 DEF Matching

LEMMA DecisionRelease ==
  ASSUME ReleaseTypeOK, DecisionIsSound, ReleaseStep
  PROVE  DecisionIsSound'
<1>0. /\ release \in ReleaseType /\ NoRelease \in ReleaseType
      /\ NoRelease.key = {} /\ NoRelease.missed = FALSE /\ NoRelease.before = {}
      /\ NoRelease.at = "none"
  BY TypeParts, NoReleaseTyped DEF NoRelease
<1>1. ASSUME NEW path, BeginRelease(path)
      PROVE  DecisionIsSound'
  <2> DEFINE before == IF path = "standard" THEN OwnerRows(shares) ELSE {}
  <2>1. \A row \in before : row.slot = 1
    BY DEF OwnerRows
  <2>2. release'.before = before /\ release'.key = {} /\ release'.missed = FALSE
        /\ release'.at = "resolve"
    <3> HIDE DEF before
    <3> QED BY <1>0, <1>1 DEF BeginRelease, ReleaseType, before
  <2> HIDE DEF before
  <2> QED BY <2>1, <2>2, StillUndecided
<1>2. CASE ResolvePolicy \/ SeedMark
  <2>1. /\ release'.key = release.key /\ release'.missed = release.missed
        /\ release'.before = release.before /\ release'.path = release.path
        /\ release.at \in {"resolve", "seed"}
        /\ release'.at \in {"seed", "owner", "decide"}
        /\ release'.at = "decide" => release.path = "admin"
    BY <1>0, <1>2 DEF ResolvePolicy, SeedMark, NextAfterPolicy, ReleaseType
  <2>2. release'.key = {} /\ ~release'.missed /\ \A row \in release'.before : row.slot = 1
    BY <2>1 DEF DecisionIsSound, Undecided
  <2> QED BY <2>1, <2>2 DEF DecisionIsSound, KeyOfThePolicy, GenuineShareIsFound,
                            TimelockNeverEarly, KeyIsAudited
<1>3. CASE DenyRelease \/ FailAudit \/ AnswerRelease
  <2>1. /\ release'.key = {} /\ ~release'.missed /\ release'.before = {}
        /\ release'.at \in {"audit", "answer", "none"}
    BY <1>0, <1>3 DEF DenyRelease, FailAudit, WithoutAudit, AnswerRelease, ReleaseType
  <2> QED BY <2>1, StillUndecided
<1>4. CASE ReadOwner
  <2>1. /\ release'.rows = OwnerRows(shares)
        /\ release'.at = IF release.path = "timelock" THEN "stamp" ELSE "decide"
        /\ release'.key = release.key /\ release'.missed = release.missed
        /\ release'.before = release.before /\ release'.path = release.path
        /\ release.at = "owner" /\ shares' = shares
    BY <1>0, <1>4 DEF ReadOwner, ReleaseType, shareVars
  <2>2. release'.key = {} /\ ~release'.missed /\ \A row \in release'.before : row.slot = 1
    BY <2>1 DEF DecisionIsSound, Undecided
  <2>3. release'.before \cap shares' \subseteq release'.rows
    BY <2>1, <2>2 DEF OwnerRows
  <2> QED BY <2>1, <2>2, <2>3
             DEF DecisionIsSound, KeyOfThePolicy, GenuineShareIsFound,
                 TimelockNeverEarly, KeyIsAudited
<1>5. ASSUME NEW time \in 0..ReleaseMaxClock,
             NEW genTime \in (0 - Accuracy)..(ReleaseMaxClock + Accuracy),
             StampPolicy(time, genTime)
      PROVE  DecisionIsSound'
  <2>1. /\ release'.time = time /\ release'.policy = release.policy
        /\ release'.key = release.key /\ release'.missed = release.missed
        /\ release'.before = release.before /\ release'.at = "unwrap"
        /\ release.at = "stamp"
    BY <1>0, <1>5 DEF StampPolicy, ReleaseType
  <2>2. release'.key = {} /\ ~release'.missed /\ \A row \in release'.before : row.slot = 1
    BY <2>1 DEF DecisionIsSound, Undecided
  <2>3. time >= Unlock[release.policy]
    <3>1. /\ genTime - time \in (0 - Accuracy)..Accuracy
          /\ genTime - Accuracy >= Unlock[release.policy]
      BY <1>5 DEF StampPolicy, NotBefore
    <3>2. release.policy \in Generations /\ Unlock[release.policy] \in Nat
          /\ Accuracy \in Nat /\ ReleaseMaxClock \in Nat
      BY <1>0, ReleaseConstants DEF ReleaseType
    <3> QED BY <3>1, <3>2
  <2> QED BY <2>1, <2>2, <2>3
             DEF DecisionIsSound, KeyOfThePolicy, GenuineShareIsFound,
                 TimelockNeverEarly, KeyIsAudited
<1>6. ASSUME NEW s2 \in Generations, UnwrapAndCombine(s2)
      PROVE  DecisionIsSound'
  <2>1. release.policy \in Generations /\ FALSE \in BOOLEAN
    BY <1>0 DEF ReleaseType
  <2>2. PICK tries : Combine(tries, FALSE, release.policy)
    BY <1>6 DEF UnwrapAndCombine
  <2>3. /\ release'.at = "audit" /\ release'.before = {} /\ ~release'.missed
        /\ release'.key = {} \/ release'.key = {release.policy}
        /\ release'.policy = release.policy /\ release'.time = release.time
    BY <1>0, <2>1, <2>2, CombineTyped
  <2>4. release.time >= Unlock[release.policy]
    BY <1>6 DEF UnwrapAndCombine, DecisionIsSound
  <2> QED BY <2>3, <2>4, DecidedSoundly
<1>7. CASE DecideAdmin
  <2>1. release.policy \in Generations /\ FALSE \in BOOLEAN
    BY <1>0 DEF ReleaseType
  <2>2. release.path = "admin" /\ Combine(AdminTries, FALSE, release.policy)
    BY <1>7 DEF DecideAdmin
  <2>3. /\ release'.at = "audit" /\ release'.before = {} /\ ~release'.missed
        /\ release'.key = {} \/ release'.key = {release.policy}
        /\ release'.policy = release.policy /\ release'.path = "admin"
    BY <1>0, <2>1, <2>2, CombineTyped
  <2> QED BY <2>3, DecidedSoundly
<1>8. CASE DecideUnauthenticated
  <2>1. /\ release.status = "unauthenticated" /\ release.path = "admin"
        /\ release.at = "decide"
    BY <1>8 DEF DecideUnauthenticated
  <2>2. /\ release'.at = "audit" /\ release'.missed = release.missed
        /\ release'.status = release.status /\ release'.path = release.path
        /\ release'.before = release.before
    BY <1>0, <1>8 DEF DecideUnauthenticated, ReleaseType
  <2>3. ~release'.missed /\ \A row \in release'.before : row.slot = 1
    BY <2>1, <2>2 DEF DecisionIsSound, Undecided
  <2> QED BY <2>1, <2>2, <2>3
             DEF DecisionIsSound, KeyOfThePolicy, GenuineShareIsFound,
                 TimelockNeverEarly, KeyIsAudited, PolicyVerified, Undecided
<1>9. ASSUME NEW s2 \in Generations, NEW g \in Generations, DecideStandard(s2, g)
      PROVE  DecisionIsSound'
  <2> DEFINE tries == OwnerTries({Presented(2, s2)})
             genuine == PolicyVerified /\ s2 = g
  <2>1. /\ release.at = "decide" /\ release.path = "standard"
        /\ PolicyVerified => g = release.policy
        /\ Combine(tries, genuine, g) /\ shares' = shares
    BY <1>9 DEF DecideStandard, shareVars
  <2>2. genuine \in BOOLEAN
    OBVIOUS
  <2>3. /\ release'.at = "audit"
        /\ release'.key = {} \/ release'.key = {g}
        /\ release'.missed = (genuine /\ Matching(tries, g) = {})
        /\ release'.before = IF release'.missed THEN release.before ELSE {}
        /\ release'.path = "standard" /\ release'.policy = release.policy
        /\ release'.status = release.status
    <3> HIDE DEF tries, genuine
    <3> QED BY <1>0, <2>1, <2>2, CombineTyped
  <2>4. PolicyVerified' = PolicyVerified
    BY <2>3 DEF PolicyVerified
  <2>5. KeyOfThePolicy'
    BY <2>1, <2>3, <2>4 DEF KeyOfThePolicy
  <2>6. GenuineShareIsFound'
    <3>1. SUFFICES ASSUME release'.missed, NEW row \in release.before \cap shares,
                          row.slot = 1, row.of = g
                   PROVE  FALSE
      BY <2>1, <2>3 DEF GenuineShareIsFound
    <3>2. row \in release.rows /\ s2 = g
      BY <2>1, <2>3, <3>1 DEF DecisionIsSound
    <3>3. {row, Presented(2, g)} \in tries
      BY <3>2 DEF OwnerTries
    <3>4. Matching(tries, g) # {}
      BY <3>1, <3>3, GenuinePairMatches
    <3> QED BY <2>3, <3>1, <3>4
  <2>7. \A row \in release'.before : row.slot = 1
    BY <2>3 DEF DecisionIsSound
  <2> HIDE DEF tries, genuine
  <2>8. TimelockNeverEarly' /\ KeyIsAudited'
    BY <2>3 DEF TimelockNeverEarly, KeyIsAudited
  <2> QED BY <2>3, <2>5, <2>6, <2>7, <2>8 DEF DecisionIsSound, Undecided
<1>10. CASE WriteAudit
  <2>1. /\ release'.key = release.key /\ release'.path = release.path
        /\ release'.status = release.status /\ release'.policy = release.policy
        /\ release'.time = release.time
        /\ release'.at = "answer" /\ release'.audited /\ ~release'.missed
        /\ release'.before = {}
    BY <1>0, <1>10 DEF WriteAudit, ReleaseType
  <2>2. KeyOfThePolicy' /\ TimelockNeverEarly'
    BY <2>1 DEF DecisionIsSound, KeyOfThePolicy, TimelockNeverEarly, PolicyVerified
  <2>3. GenuineShareIsFound' /\ KeyIsAudited'
    BY <2>1 DEF GenuineShareIsFound, KeyIsAudited
  <2> QED BY <2>1, <2>2, <2>3 DEF DecisionIsSound, Undecided
<1> QED BY <1>1, <1>2, <1>3, <1>4, <1>5, <1>6, <1>7, <1>8, <1>9, <1>10
        DEF ReleaseStep

LEMMA DecisionStep ==
  ASSUME ReleaseTypeOK, IdsNameRows, DecisionIsSound, ShareReleaseNext
  PROVE  DecisionIsSound'
<1>1. ASSUME NEW g, AdmitPolicy(g)
      PROVE  DecisionIsSound'
  BY <1>1, DecisionKept DEF AdmitPolicy, shareVars
<1>2. ASSUME NEW u, BeginUpload(u) \/ ReadMark(u) \/ ReadStored(u) \/ LockUpload(u)
                    \/ FailUpload(u)
      PROVE  DecisionIsSound'
  <2>1. release' = release /\ shares' = shares
    BY <1>2 DEF BeginUpload, ReadMark, ReadStored, LockUpload, FailUpload, shareVars
  <2> QED BY <2>1, DecisionKept
<1>3. ASSUME NEW u, NEW slot, NEW of, StoreShare(u, slot, of)
      PROVE  DecisionIsSound'
  <2> DEFINE new == [id |-> lastId + 1, slot |-> slot,
                     tag |-> upload[u].stored, of |-> of]
  <2>1. release' = release /\ shares' \subseteq shares \cup {new}
    BY <1>3 DEF StoreShare
  <2>2. new \notin release.before
    <3>1. \A row \in release.before : row.id <= lastId
      BY DEF IdsNameRows, KnownRows
    <3>2. lastId \in Int /\ new.id = lastId + 1
      BY DEF ReleaseTypeOK
    <3> HIDE DEF new
    <3> QED BY <3>1, <3>2
  <2> HIDE DEF new
  <2> QED BY <2>1, <2>2, DecisionKept
<1>4. ASSUME NEW row, ShowShare(row)
      PROVE  DecisionIsSound'
  BY <1>4, DecisionKept DEF ShowShare, shareVars
<1>5. ASSUME NEW seen, RemoveShare(seen)
      PROVE  DecisionIsSound'
  BY <1>5, DecisionKept DEF RemoveShare
<1>6. CASE ReleaseStep
  BY <1>6, DecisionRelease
<1>7. CASE RestartHost
  <2>1. /\ release'.key = {} /\ ~release'.missed /\ release'.before = {}
        /\ release'.at = "none"
    BY <1>7 DEF RestartHost, NoRelease
  <2> QED BY <2>1, StillUndecided
<1> QED BY <1>1, <1>2, <1>3, <1>4, <1>5, <1>6, <1>7
        DEF ShareReleaseNext, UploadStep

-------------------------------------------------------------------------------
(* The invariant. *)

LEMMA ShareInit ==
  ASSUME ShareReleaseInit
  PROVE  ShareInv
<1>1. ReleaseTypeOK
  <2>1. TablesTyped
    <3>1. \A g \in records : Top(records) \in Generations
      BY TopIsGeneration DEF ShareReleaseInit
    <3> QED BY <3>1, ReleaseConstants DEF ShareReleaseInit, TablesTyped
  <2>2. UploadsTyped
    BY ReleaseConstants
       DEF ShareReleaseInit, UploadsTyped, NoUpload, Stages, Generations
  <2> QED BY <2>1, <2>2, NoReleaseTyped, TypeParts DEF ShareReleaseInit
<1>2. IdsNameRows
  BY DEF ShareReleaseInit, NoRelease, IdsNameRows, KnownRows
<1>3. TagsAreCurrent
  BY DEF ShareReleaseInit, NoRelease, NoUpload, TagsAreCurrent
<1>4. DecisionIsSound
  BY DEF ShareReleaseInit, NoRelease, DecisionIsSound, KeyOfThePolicy,
         GenuineShareIsFound, TimelockNeverEarly, KeyIsAudited
<1> QED BY <1>1, <1>2, <1>3, <1>4 DEF ShareInv

LEMMA ShareStep ==
  ASSUME ShareInv, [ShareReleaseNext]_shareReleaseVars
  PROVE  ShareInv'
<1>1. CASE ShareReleaseNext
  BY <1>1, ReleaseTypeStep, IdsStep, TagsStep, DecisionStep DEF ShareInv
<1>2. CASE UNCHANGED shareReleaseVars
  <2>1. UNCHANGED <<pinned, records, highWater, shares, lastId, removals, writing,
                    upload, shown, release>>
    BY <1>2 DEF shareReleaseVars, recordVars, shareVars, uploadVars
  <2>2. ReleaseTypeOK'
    BY <2>1 DEF ShareInv, ReleaseTypeOK
  <2>3. IdsNameRows'
    BY <2>1 DEF ShareInv, IdsNameRows, KnownRows
  <2>4. TagsAreCurrent'
    BY <2>1, TagsKept DEF ShareInv, recordVars, uploadVars
  <2>5. DecisionIsSound'
    BY <2>1, DecisionKept DEF ShareInv
  <2> QED BY <2>2, <2>3, <2>4, <2>5 DEF ShareInv
<1> QED BY <1>1, <1>2

(* In every behaviour of uploads, removals, admissions, releases and       *)
(* restarts the tables, the uploads and the release are well-formed, ids   *)
(* name rows, tags are current and decisions are sound.                    *)
THEOREM ShareInvariant == ShareReleaseSpec => []ShareInv
<1>1. ShareReleaseInit => ShareInv
  BY ShareInit
<1>2. ShareInv /\ [ShareReleaseNext]_shareReleaseVars => ShareInv'
  BY ShareStep
<1> QED BY <1>1, <1>2, PTL DEF ShareReleaseSpec

(* A key released on an authenticated policy is the key of that policy,    *)
(* and the genuine pair of shares is never passed over                     *)
(* (web/release_shares.py: first_match).                                   *)
THEOREM RightKey == ShareReleaseSpec => []RightKeyIsReleased
<1>1. ShareInv => RightKeyIsReleased
  BY DEF ShareInv, DecisionIsSound, RightKeyIsReleased
<1> QED BY <1>1, ShareInvariant, PTL

(* The time-locked path gives no key before the unlock time of its policy, *)
(* for every accuracy of the authority and every clock of the host         *)
(* (web/release_gate.py: the timelock path).                               *)
THEOREM NeverEarly == ShareReleaseSpec => []TimelockNeverEarly
<1>1. ShareInv => TimelockNeverEarly
  BY DEF ShareInv, DecisionIsSound
<1> QED BY <1>1, ShareInvariant, PTL

(* No key is answered without its audit row (web/release_gate.py: _finish).*)
THEOREM Audited == ShareReleaseSpec => []KeyIsAudited
<1>1. ShareInv => KeyIsAudited
  BY DEF ShareInv, DecisionIsSound
<1> QED BY <1>1, ShareInvariant, PTL

(* A share enters the store under the generation of that moment and leaves *)
(* it only as the row a page showed, with its audit entry                  *)
(* (web/share_upload.py, web/share_removal.py).                            *)
THEOREM SharesChange == ShareReleaseSpec => SharesChangeAsShown
<1>1. ASSUME ShareInv, [ShareReleaseNext]_shareReleaseVars
      PROVE  [TaggedCurrent /\ TakenAsShown]_shareReleaseVars
  <2>1. ASSUME NEW u \in Uploads, NEW slot, NEW of, StoreShare(u, slot, of)
        PROVE  TaggedCurrent /\ TakenAsShown
    <3> DEFINE new == [id |-> lastId + 1, slot |-> slot,
                       tag |-> upload[u].stored, of |-> of]
    <3>1. shares' = shares \/ shares' = shares \cup {new}
      BY <2>1 DEF StoreShare
    <3>2. new.tag = CurrentGeneration
      BY <1>1, <2>1 DEF StoreShare, ShareInv, TagsAreCurrent
    <3> HIDE DEF new
    <3> QED BY <3>1, <3>2 DEF TaggedCurrent, TakenAsShown
  <2>2. ASSUME NEW seen \in shown, RemoveShare(seen)
        PROVE  TaggedCurrent /\ TakenAsShown
    <3>1. PICK row \in shares : /\ row.id = seen.id
                                /\ shares' = shares \ {row}
                                /\ removals' = removals \cup {row.id}
      BY <2>2 DEF RemoveShare, SameRow
    <3>2. row = seen
      BY <1>1, <3>1 DEF ShareInv, IdsNameRows, KnownRows
    <3> QED BY <3>1, <3>2 DEF TaggedCurrent, TakenAsShown
  <2>3. ASSUME shares' = shares
        PROVE  TaggedCurrent /\ TakenAsShown
    BY <2>3 DEF TaggedCurrent, TakenAsShown
  <2>4. ASSUME NEW u, BeginUpload(u) \/ ReadMark(u) \/ ReadStored(u) \/ LockUpload(u)
                      \/ FailUpload(u)
        PROVE  shares' = shares
    BY <2>4 DEF BeginUpload, ReadMark, ReadStored, LockUpload, FailUpload, shareVars
  <2>5. ASSUME NEW g, AdmitPolicy(g)
        PROVE  shares' = shares
    BY <2>5 DEF AdmitPolicy, shareVars
  <2>6. ASSUME NEW row, ShowShare(row)
        PROVE  shares' = shares
    BY <2>6 DEF ShowShare, shareVars
  <2>7. CASE ReleaseStep
    <3>1. UNCHANGED Others
      BY <1>1, <2>7, ReleaseTyped, TypeParts, CurrentIsGeneration DEF ShareInv
    <3>2. shares' = shares
      BY <3>1 DEF Others, shareVars
    <3> QED BY <2>3, <3>2
  <2>8. CASE RestartHost
    <3>1. shares' = shares
      BY <2>8 DEF RestartHost, shareVars
    <3> QED BY <2>3, <3>1
  <2> QED BY <1>1, <2>1, <2>2, <2>3, <2>4, <2>5, <2>6, <2>7, <2>8
          DEF ShareReleaseNext, UploadStep
<1> QED BY <1>1, ShareInvariant, PTL DEF ShareReleaseSpec, SharesChangeAsShown

===============================================================================
