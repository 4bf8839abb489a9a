--------------------------- MODULE SealOutboxProofs ---------------------------
(***************************************************************************)
(* A row marked as sent is held by its backend exactly as it was queued:   *)
(* for any number of wizards, push runs, backends and requests on their    *)
(* way, with cases deleted and made again.                                 *)
(***************************************************************************)
EXTENDS SealOutbox, SequenceTheorems, TLAPS

Histories == Seq(Nat)

Runs ==
  [stage : {"resting", "pushing", "waiting"}, todo : SUBSET Rows,
   row : Rows \cup {NoRow}, connection : Connections \cup {0},
   answer : {"none", "ok", "refused"}]

DeliveryTypes ==
  /\ local \in Histories
  /\ files \subseteq Histories
  /\ stamps \in Nat
  /\ wizard \in [Wizards ->
       [stage : {"closed", "working", "saved"},
        unseals : BOOLEAN, base : Histories, record : Histories]]
  /\ queued \in [Backends -> [Events -> Histories]]
  /\ held \in [Backends -> [Events -> Histories]]
  /\ sent \subseteq Rows
  /\ pusher \in [Pushers -> Runs]
  /\ network \subseteq
       [connection : Connections, backend : Backends, event : Events,
        record : Histories]

IsQueued(row) == queued[row[1]][row[2]] # Nothing
IsHeld(row) == held[row[1]][row[2]] = queued[row[1]][row[2]]

(* A row that is sent or on a run's list exists. *)
ListedIsQueued ==
  /\ \A row \in sent : IsQueued(row)
  /\ \A p \in Pushers : \A row \in pusher[p].todo : IsQueued(row)

(* A run has a connection while it waits for the answer about one of its   *)
(* rows, and none otherwise.                                               *)
RunsHoldTheirRow ==
  \A p \in Pushers :
    /\ pusher[p].stage # "resting" => pusher[p].row \in pusher[p].todo
    /\ pusher[p].stage # "waiting" =>
         pusher[p].connection = 0 /\ pusher[p].answer = "none"

(* A request on its way carries a queued record, and the run that waits on *)
(* its connection waits for that row.                                      *)
RequestsMatch ==
  \A m \in network :
    /\ m.record # Nothing
    /\ m.record = queued[m.backend][m.event]
    /\ \A p \in Pushers : pusher[p].connection = m.connection =>
                            pusher[p].row = <<m.backend, m.event>>

(* What a run was told is held, is held. *)
AnswersAreTrue ==
  \A p \in Pushers : pusher[p].answer = "ok" => IsHeld(pusher[p].row)

DeliveryInv ==
  /\ DeliveryTypes
  /\ ListedIsQueued
  /\ RunsHoldTheirRow
  /\ RequestsMatch
  /\ AnswersAreTrue
  /\ SentIsHeld

-----------------------------------------------------------------------------
(* What a wizard does leaves the runs alone and never changes a queued row. *)
QueuedIsKept ==
  /\ \A row \in Rows : IsQueued(row) =>
       queued'[row[1]][row[2]] = queued[row[1]][row[2]]
  /\ UNCHANGED <<sent, pusher, network, held>>

LEMMA RowParts ==
  ASSUME NEW row \in Rows
  PROVE  row[1] \in Backends /\ row[2] \in Events /\ row = <<row[1], row[2]>>
BY DEF Rows

LEMMA WizardsKeepDelivery ==
  ASSUME DeliveryInv, DeliveryTypes', QueuedIsKept
  PROVE  DeliveryInv'
<1>1. ListedIsQueued'
  <2>1. \A row \in Rows : IsQueued(row) => IsQueued(row)'
    BY DEF QueuedIsKept, IsQueued
  <2>2. sent \subseteq Rows /\ \A p \in Pushers : pusher[p].todo \subseteq Rows
    BY DEF DeliveryInv, DeliveryTypes, Runs
  <2> QED BY <2>1, <2>2 DEF DeliveryInv, ListedIsQueued, QueuedIsKept
<1>2. RunsHoldTheirRow'
  BY DEF DeliveryInv, RunsHoldTheirRow, QueuedIsKept
<1>3. RequestsMatch'
  <2> SUFFICES ASSUME NEW m \in network PROVE m.record = queued'[m.backend][m.event]
    BY DEF DeliveryInv, RequestsMatch, QueuedIsKept
  <2>1. <<m.backend, m.event>> \in Rows
    BY DEF DeliveryInv, DeliveryTypes, Rows
  <2> QED BY <2>1 DEF DeliveryInv, RequestsMatch, QueuedIsKept, IsQueued
<1>4. AnswersAreTrue'
  <2> SUFFICES ASSUME NEW p \in Pushers, pusher[p].answer = "ok"
               PROVE  IsHeld(pusher[p].row)'
    BY DEF AnswersAreTrue, QueuedIsKept
  <2>1. pusher[p].row \in pusher[p].todo /\ pusher[p].todo \subseteq Rows
    BY DEF DeliveryInv, DeliveryTypes, Runs, RunsHoldTheirRow
  <2> QED BY <2>1 DEF DeliveryInv, AnswersAreTrue, ListedIsQueued, QueuedIsKept,
                      IsQueued, IsHeld
<1>5. SentIsHeld'
  <2>1. sent \subseteq Rows
    BY DEF DeliveryInv, DeliveryTypes
  <2> QED BY <2>1 DEF DeliveryInv, SentIsHeld, ListedIsQueued, QueuedIsKept,
                      IsQueued
<1> QED BY <1>1, <1>2, <1>3, <1>4, <1>5 DEF DeliveryInv

LEMMA ClosedType ==
  Closed \in [stage : {"closed", "working", "saved"},
              unseals : BOOLEAN, base : Histories, record : Histories]
BY DEF Closed, Nothing, Histories

LEMMA BeginSealKeeps ==
  ASSUME DeliveryInv, NEW w \in Wizards, BeginSeal(w)
  PROVE  DeliveryInv'
<1>1. DeliveryTypes' BY DEF BeginSeal, DeliveryInv, DeliveryTypes
<1>2. QueuedIsKept BY DEF BeginSeal, QueuedIsKept
<1> QED BY <1>1, <1>2, WizardsKeepDelivery

LEMMA LoadRecordKeeps ==
  ASSUME DeliveryInv, NEW w \in Wizards, NEW base \in files,
         NEW unseals \in BOOLEAN, LoadRecord(w, base, unseals)
  PROVE  DeliveryInv'
<1>1. DeliveryTypes'
  BY DEF LoadRecord, DeliveryInv, DeliveryTypes, Nothing, Histories
<1>2. QueuedIsKept BY DEF LoadRecord, QueuedIsKept
<1> QED BY <1>1, <1>2, WizardsKeepDelivery

LEMMA MakeRecordKeeps ==
  ASSUME DeliveryInv, NEW w \in Wizards, NEW complete \in BOOLEAN,
         MakeRecord(w, complete)
  PROVE  DeliveryInv'
<1> DEFINE record == Append(wizard[w].base, stamps + 1)
<1>1. record \in Histories /\ Nothing \in Histories
  BY DEF DeliveryInv, DeliveryTypes, Histories, Nothing
<1> HIDE DEF record
<1>2. /\ files' = files \cup {record}
      /\ wizard' = [wizard EXCEPT ![w].record = IF complete THEN record
                                                ELSE Nothing]
      /\ stamps' = stamps + 1
      /\ UNCHANGED <<local, queued, sent, pusher, network, held>>
  BY DEF MakeRecord, record
<1>3. DeliveryTypes'
  <2>1. (IF complete THEN record ELSE Nothing) \in Histories
    BY <1>1
  <2>2. wizard' \in [Wizards ->
          [stage : {"closed", "working", "saved"},
           unseals : BOOLEAN, base : Histories, record : Histories]]
    BY <1>2, <2>1 DEF DeliveryInv, DeliveryTypes
  <2> QED BY <1>1, <1>2, <2>2 DEF DeliveryInv, DeliveryTypes
<1>4. QueuedIsKept BY <1>2 DEF QueuedIsKept
<1> QED BY <1>3, <1>4, WizardsKeepDelivery

(* A save adds rows, and refuses to replace one by another record. *)
LEMMA SaveRecordKeepsRows ==
  ASSUME DeliveryInv, NEW w \in Wizards, NEW backends \in Configurations,
         SaveRecord(w, backends)
  PROVE  QueuedIsKept /\ DeliveryTypes'
<1> DEFINE record == wizard[w].record
<1>1. record \in Histories
  BY DEF DeliveryInv, DeliveryTypes
<1>2. /\ ~Conflicts(record, backends)
      /\ local' = record
      /\ queued' = [b \in Backends |->
           IF b \in backends
           THEN [queued[b] EXCEPT ![Len(record)] = record]
           ELSE queued[b]]
      /\ UNCHANGED <<files, stamps, sent, pusher, network, held>>
  BY DEF SaveRecord
<1>3. wizard' = [wizard EXCEPT ![w].stage = "saved"]
  BY DEF SaveRecord
<1> HIDE DEF record
<1>4. wizard' \in [Wizards ->
        [stage : {"closed", "working", "saved"},
         unseals : BOOLEAN, base : Histories, record : Histories]]
  BY <1>3 DEF DeliveryInv, DeliveryTypes
<1>5. queued' \in [Backends -> [Events -> Histories]]
  BY <1>1, <1>2 DEF DeliveryInv, DeliveryTypes
<1>6. DeliveryTypes'
  BY <1>1, <1>2, <1>4, <1>5 DEF DeliveryInv, DeliveryTypes
<1>7. ASSUME NEW row \in Rows, IsQueued(row)
      PROVE  queued'[row[1]][row[2]] = queued[row[1]][row[2]]
  <2>1. row[1] \in Backends /\ row[2] \in Events
    BY RowParts
  <2>2. CASE row[1] \in backends /\ row[2] = Len(record)
    <3>1. queued[row[1]][row[2]] = record
      BY <1>2, <1>7, <2>2 DEF Conflicts, IsQueued
    <3> QED BY <1>2, <2>1, <2>2, <3>1 DEF DeliveryInv, DeliveryTypes
  <2>3. CASE ~(row[1] \in backends /\ row[2] = Len(record))
    BY <1>2, <2>1, <2>3 DEF DeliveryInv, DeliveryTypes
  <2> QED BY <2>2, <2>3
<1>8. QueuedIsKept BY <1>2, <1>7 DEF QueuedIsKept
<1> QED BY <1>6, <1>8

LEMMA SaveRecordKeeps ==
  ASSUME DeliveryInv, NEW w \in Wizards, NEW backends \in Configurations,
         SaveRecord(w, backends)
  PROVE  DeliveryInv'
BY SaveRecordKeepsRows, WizardsKeepDelivery

LEMMA CompleteSealKeeps ==
  ASSUME DeliveryInv, NEW w \in Wizards, CompleteSeal(w)
  PROVE  DeliveryInv'
<1>1. DeliveryTypes'
  BY ClosedType DEF CompleteSeal, DeliveryInv, DeliveryTypes
<1>2. QueuedIsKept BY DEF CompleteSeal, QueuedIsKept
<1> QED BY <1>1, <1>2, WizardsKeepDelivery

LEMMA CompletionFailsKeeps ==
  ASSUME DeliveryInv, NEW w \in Wizards, CompletionFails(w)
  PROVE  DeliveryInv'
<1>1. Placeholder \in Histories
  BY DEF Placeholder, Histories
<1>2. DeliveryTypes'
  BY <1>1 DEF CompletionFails, DeliveryInv, DeliveryTypes
<1>3. QueuedIsKept BY DEF CompletionFails, QueuedIsKept
<1> QED BY <1>2, <1>3, WizardsKeepDelivery

LEMMA LeaveWizardKeeps ==
  ASSUME DeliveryInv, NEW w \in Wizards, LeaveWizard(w)
  PROVE  DeliveryInv'
<1>1. DeliveryTypes'
  BY ClosedType DEF LeaveWizard, DeliveryInv, DeliveryTypes
<1>2. QueuedIsKept BY DEF LeaveWizard, QueuedIsKept
<1> QED BY <1>1, <1>2, WizardsKeepDelivery

LEMMA DeleteCaseKeeps ==
  ASSUME DeliveryInv, DeleteCase
  PROVE  DeliveryInv'
<1>1. DeliveryTypes'
  BY DEF DeleteCase, DeliveryInv, DeliveryTypes, Nothing, Histories
<1>2. QueuedIsKept BY DEF DeleteCase, QueuedIsKept
<1> QED BY <1>1, <1>2, WizardsKeepDelivery

-----------------------------------------------------------------------------
(* What the runs do.  A run that proceeds holds no connection, and any row *)
(* it goes on with is one of those left.                                   *)
LEMMA ProceedKeeps ==
  ASSUME DeliveryInv, NEW p \in Pushers, NEW todo \in SUBSET Rows,
         \A row \in todo : IsQueued(row),
         Proceed(p, todo),
         sent' \subseteq Rows,
         \A row \in sent' : IsQueued(row) /\ IsHeld(row),
         UNCHANGED <<local, files, stamps, wizard, queued, network, held>>
  PROVE  DeliveryInv'
<1> DEFINE GoesOn(run) ==
      /\ pusher' = [pusher EXCEPT ![p] = run]
      /\ run.todo \subseteq todo
      /\ run.stage # "resting" => run.row \in run.todo
      /\ run.connection = 0 /\ run.answer = "none"
<1>1. PICK run \in Runs : GoesOn(run)
  <2>1. CASE todo = {} /\ pusher' = [pusher EXCEPT ![p] = Resting]
    <3>1. Resting \in Runs /\ GoesOn(Resting)
      BY <2>1 DEF Resting, Runs
    <3> QED BY <3>1
  <2>2. ASSUME NEW row \in todo,
               pusher' = [pusher EXCEPT ![p] =
                 [stage |-> "pushing", todo |-> todo, row |-> row,
                  connection |-> 0, answer |-> "none"]]
        PROVE  \E run \in Runs : GoesOn(run)
    <3> DEFINE next == [stage |-> "pushing", todo |-> todo, row |-> row,
                        connection |-> 0, answer |-> "none"]
    <3>1. next \in Runs /\ GoesOn(next)
      BY <2>2 DEF Runs
    <3> QED BY <3>1
  <2> QED BY <2>1, <2>2 DEF Proceed
<1>2. pusher \in [Pushers -> Runs]
  BY DEF DeliveryInv, DeliveryTypes
<1>3. pusher'[p] = run /\ \A q \in Pushers \ {p} : pusher'[q] = pusher[q]
  BY <1>1, <1>2
<1>4. DeliveryTypes'
  <2>1. pusher' \in [Pushers -> Runs]
    BY <1>1, <1>2
  <2> QED BY <2>1 DEF DeliveryInv, DeliveryTypes
<1>5. ListedIsQueued'
  BY <1>1, <1>3 DEF DeliveryInv, ListedIsQueued, IsQueued
<1>6. RunsHoldTheirRow'
  BY <1>1, <1>3 DEF DeliveryInv, RunsHoldTheirRow
<1>7. RequestsMatch'
  <2> SUFFICES ASSUME NEW m \in network, NEW q \in Pushers,
                      pusher'[q].connection = m.connection
               PROVE  pusher'[q].row = <<m.backend, m.event>>
    BY DEF DeliveryInv, RequestsMatch
  <2>1. m.connection # 0
    BY OutboxAssumption DEF DeliveryInv, DeliveryTypes
  <2>2. q # p
    BY <1>1, <1>3, <2>1
  <2> QED BY <1>3, <2>2 DEF DeliveryInv, RequestsMatch
<1>8. AnswersAreTrue'
  BY <1>1, <1>3 DEF DeliveryInv, AnswersAreTrue, IsHeld
<1>9. SentIsHeld'
  BY DEF SentIsHeld, IsHeld
<1> QED BY <1>4, <1>5, <1>6, <1>7, <1>8, <1>9 DEF DeliveryInv

(* The facts about the rows already sent that such a step starts from. *)
LEMMA SentIsQueuedAndHeld ==
  ASSUME DeliveryInv
  PROVE  sent \subseteq Rows /\ \A row \in sent : IsQueued(row) /\ IsHeld(row)
BY DEF DeliveryInv, DeliveryTypes, ListedIsQueued, SentIsHeld, IsHeld

(* What is left of a run's list after some of its rows are dropped. *)
LEMMA RestIsQueued ==
  ASSUME DeliveryInv, NEW p \in Pushers, NEW todo \in SUBSET pusher[p].todo
  PROVE  todo \in SUBSET Rows /\ \A row \in todo : IsQueued(row)
<1>1. pusher[p].todo \subseteq Rows
  BY DEF DeliveryInv, DeliveryTypes, Runs
<1>2. \A row \in pusher[p].todo : IsQueued(row)
  BY DEF DeliveryInv, ListedIsQueued
<1> QED BY <1>1, <1>2

LEMMA ListPendingKeeps ==
  ASSUME DeliveryInv, NEW p \in Pushers, ListPending(p)
  PROVE  DeliveryInv'
<1>1. Pending \in SUBSET Rows /\ \A row \in Pending : IsQueued(row)
  BY DEF Pending, IsQueued
<1>2. Proceed(p, Pending) /\ UNCHANGED <<desktop, network, held>>
  BY DEF ListPending
<1> QED BY <1>1, <1>2, SentIsQueuedAndHeld, ProceedKeeps DEF desktop

LEMMA SkipGroupKeeps ==
  ASSUME DeliveryInv, NEW p \in Pushers, NEW backends \in Configurations,
         SkipGroup(p, backends)
  PROVE  DeliveryInv'
<1> DEFINE rest == WithoutGroup(pusher[p].todo, pusher[p].row)
<1>1. rest \in SUBSET pusher[p].todo
  BY DEF WithoutGroup
<1>2. Proceed(p, rest) /\ UNCHANGED <<desktop, network, held>>
  BY DEF SkipGroup
<1> HIDE DEF rest
<1>3. rest \in SUBSET Rows /\ \A row \in rest : IsQueued(row)
  BY <1>1, RestIsQueued
<1> QED BY <1>2, <1>3, SentIsQueuedAndHeld, ProceedKeeps DEF desktop

LEMMA RecordFailureKeeps ==
  ASSUME DeliveryInv, NEW p \in Pushers, RecordFailure(p)
  PROVE  DeliveryInv'
<1> DEFINE rest == WithoutGroup(pusher[p].todo, pusher[p].row)
<1>1. rest \in SUBSET pusher[p].todo
  BY DEF WithoutGroup
<1>2. Proceed(p, rest) /\ UNCHANGED <<desktop, network, held>>
  BY DEF RecordFailure
<1> HIDE DEF rest
<1>3. rest \in SUBSET Rows /\ \A row \in rest : IsQueued(row)
  BY <1>1, RestIsQueued
<1> QED BY <1>2, <1>3, SentIsQueuedAndHeld, ProceedKeeps DEF desktop

(* Stopping is proceeding with nothing left. *)
LEMMA StopPushingKeeps ==
  ASSUME DeliveryInv, NEW p \in Pushers, StopPushing(p)
  PROVE  DeliveryInv'
<1>1. Proceed(p, {}) /\ UNCHANGED <<desktop, network, held>>
  BY DEF StopPushing, Proceed
<1>2. {} \in SUBSET Rows /\ \A row \in {} : IsQueued(row)
  OBVIOUS
<1> QED BY <1>1, <1>2, SentIsQueuedAndHeld, ProceedKeeps DEF desktop

(* The row that becomes sent is the one the answer was about. *)
LEMMA RecordSuccessKeeps ==
  ASSUME DeliveryInv, NEW p \in Pushers, RecordSuccess(p)
  PROVE  DeliveryInv'
<1> DEFINE row == pusher[p].row
           rest == pusher[p].todo \ {row}
<1>1. row \in pusher[p].todo
  BY DEF RecordSuccess, Acknowledged, DeliveryInv, RunsHoldTheirRow
<1>2. row \in Rows /\ IsQueued(row)
  BY <1>1, RestIsQueued
<1>3. IsHeld(row)
  BY DEF RecordSuccess, Acknowledged, DeliveryInv, AnswersAreTrue
<1>4. /\ sent' = sent \cup {row}
      /\ Proceed(p, rest)
      /\ UNCHANGED <<local, files, stamps, wizard, queued, network, held>>
  BY DEF RecordSuccess
<1>5. rest \in SUBSET Rows /\ \A other \in rest : IsQueued(other)
  BY RestIsQueued
<1> HIDE DEF row, rest
<1>6. sent' \subseteq Rows /\ \A other \in sent' : IsQueued(other) /\ IsHeld(other)
  BY <1>2, <1>3, <1>4, SentIsQueuedAndHeld
<1> QED BY <1>4, <1>5, <1>6, ProceedKeeps

(* A run takes a connection nobody uses, and sends the row as it is queued. *)
LEMMA SendKeeps ==
  ASSUME DeliveryInv, NEW p \in Pushers, NEW c \in Connections, Send(p, c)
  PROVE  DeliveryInv'
<1> DEFINE row == pusher[p].row
           request == [connection |-> c, backend |-> row[1], event |-> row[2],
                       record |-> queued[row[1]][row[2]]]
<1>1. /\ pusher[p].stage = "pushing"
      /\ \A m \in network : m.connection # c
      /\ \A q \in Pushers : pusher[q].connection # c
      /\ network' = network \cup {request}
      /\ pusher' = [pusher EXCEPT ![p].stage = "waiting", ![p].connection = c]
      /\ UNCHANGED <<local, files, stamps, wizard, queued, sent, held>>
  BY DEF Send, Request, desktop
<1>2. row \in pusher[p].todo /\ pusher[p].answer = "none"
  BY <1>1 DEF DeliveryInv, RunsHoldTheirRow
<1>3. row \in Rows /\ IsQueued(row)
  BY <1>2, RestIsQueued
<1>4. /\ row[1] \in Backends /\ row[2] \in Events /\ row = <<row[1], row[2]>>
      /\ queued[row[1]][row[2]] \in Histories \ {Nothing}
  BY <1>3, RowParts DEF DeliveryInv, DeliveryTypes, IsQueued
<1>5. pusher \in [Pushers -> Runs]
  BY DEF DeliveryInv, DeliveryTypes
<1>6. /\ pusher'[p].stage = "waiting" /\ pusher'[p].connection = c
      /\ pusher'[p].row = row /\ pusher'[p].todo = pusher[p].todo
      /\ pusher'[p].answer = "none"
      /\ \A q \in Pushers \ {p} : pusher'[q] = pusher[q]
  BY <1>1, <1>2, <1>5 DEF Runs
<1>7. pusher' \in [Pushers -> Runs]
  BY <1>1, <1>5 DEF Runs
<1> HIDE DEF row
<1>8. DeliveryTypes'
  BY <1>1, <1>4, <1>7 DEF DeliveryInv, DeliveryTypes
<1>9. ListedIsQueued'
  BY <1>1, <1>6 DEF DeliveryInv, ListedIsQueued, IsQueued
<1>10. RunsHoldTheirRow'
  BY <1>1, <1>2, <1>6 DEF DeliveryInv, RunsHoldTheirRow
<1>11. RequestsMatch'
  <2> SUFFICES ASSUME NEW m \in network'
               PROVE  /\ m.record # Nothing
                      /\ m.record = queued[m.backend][m.event]
                      /\ \A q \in Pushers :
                           pusher'[q].connection = m.connection =>
                             pusher'[q].row = <<m.backend, m.event>>
    BY <1>1 DEF RequestsMatch
  <2>1. CASE m \in network
    BY <1>1, <1>6, <2>1 DEF DeliveryInv, RequestsMatch
  <2>2. CASE m = request
    <3>1. /\ m.record = queued[row[1]][row[2]] /\ m.connection = c
          /\ m.backend = row[1] /\ m.event = row[2]
      BY <2>2
    <3> QED BY <1>1, <1>4, <1>6, <3>1
  <2> QED BY <1>1, <2>1, <2>2
<1>12. AnswersAreTrue'
  <2> SUFFICES ASSUME NEW q \in Pushers, pusher'[q].answer = "ok"
               PROVE  held[pusher'[q].row[1]][pusher'[q].row[2]] =
                        queued[pusher'[q].row[1]][pusher'[q].row[2]]
    BY <1>1 DEF AnswersAreTrue, IsHeld
  <2>1. pusher'[q] = pusher[q]
    BY <1>6
  <2> QED BY <2>1 DEF DeliveryInv, AnswersAreTrue, IsHeld
<1>13. SentIsHeld'
  BY <1>1 DEF DeliveryInv, SentIsHeld
<1> QED BY <1>8, <1>9, <1>10, <1>11, <1>12, <1>13 DEF DeliveryInv

(* An answer changes no run but the one that waits on the connection, and  *)
(* of that run only what it was told.                                      *)
LEMMA AnsweredRuns ==
  ASSUME DeliveryInv, NEW m \in network, NEW answer \in {"ok", "refused"},
         Answered(m, answer)
  PROVE  /\ pusher' \in [Pushers -> Runs]
         /\ \A q \in Pushers :
              /\ pusher'[q].stage = pusher[q].stage
              /\ pusher'[q].todo = pusher[q].todo
              /\ pusher'[q].row = pusher[q].row
              /\ pusher'[q].connection = pusher[q].connection
              /\ \/ pusher'[q].answer = pusher[q].answer
                 \/ /\ pusher[q].connection = m.connection
                    /\ pusher'[q].answer = answer
<1>1. pusher \in [Pushers -> Runs]
  BY DEF DeliveryInv, DeliveryTypes
<1>2. CASE UNCHANGED pusher
  BY <1>1, <1>2
<1>3. ASSUME NEW p \in Pushers, pusher[p].connection = m.connection,
             pusher' = [pusher EXCEPT ![p].answer = answer]
      PROVE  /\ pusher' \in [Pushers -> Runs]
             /\ \A q \in Pushers \ {p} : pusher'[q] = pusher[q]
             /\ pusher'[p] = [pusher[p] EXCEPT !.answer = answer]
  BY <1>1, <1>3 DEF Runs
<1>4. \A q \in Pushers : pusher[q] \in Runs
  BY <1>1
<1>5. ASSUME NEW p \in Pushers, pusher[p].connection = m.connection,
             pusher' = [pusher EXCEPT ![p].answer = answer]
      PROVE  \A q \in Pushers :
              /\ pusher'[q].stage = pusher[q].stage
              /\ pusher'[q].todo = pusher[q].todo
              /\ pusher'[q].row = pusher[q].row
              /\ pusher'[q].connection = pusher[q].connection
              /\ \/ pusher'[q].answer = pusher[q].answer
                 \/ /\ pusher[q].connection = m.connection
                    /\ pusher'[q].answer = answer
  BY <1>3, <1>4, <1>5 DEF Runs
<1> QED BY <1>2, <1>3, <1>5 DEF Answered

(* What an answer keeps, whatever the backend stored: the runs still hold  *)
(* their rows, and the requests left still match them.                     *)
LEMMA AnsweredKeeps ==
  ASSUME DeliveryInv, NEW m \in network, NEW answer \in {"ok", "refused"},
         Answered(m, answer), network' = network \ {m}, UNCHANGED desktop,
         held' \in [Backends -> [Events -> Histories]]
  PROVE  DeliveryTypes' /\ ListedIsQueued' /\ RunsHoldTheirRow' /\ RequestsMatch'
<1>1. DeliveryTypes'
  BY AnsweredRuns DEF DeliveryInv, DeliveryTypes, desktop
<1>2. ListedIsQueued'
  BY AnsweredRuns DEF DeliveryInv, ListedIsQueued, IsQueued, desktop
<1>3. RunsHoldTheirRow'
  <2> SUFFICES ASSUME NEW p \in Pushers
               PROVE  /\ pusher'[p].stage # "resting" =>
                           pusher'[p].row \in pusher'[p].todo
                      /\ pusher'[p].stage # "waiting" =>
                           /\ pusher'[p].connection = 0
                           /\ pusher'[p].answer = "none"
    BY DEF RunsHoldTheirRow
  <2>1. m.connection # 0
    BY OutboxAssumption DEF DeliveryInv, DeliveryTypes
  <2> QED BY <2>1, AnsweredRuns DEF DeliveryInv, RunsHoldTheirRow
<1>4. RequestsMatch'
  BY AnsweredRuns DEF DeliveryInv, RequestsMatch, desktop
<1> QED BY <1>1, <1>2, <1>3, <1>4

(* A backend never replaces what it holds, so what was sent or acknowledged *)
(* stays held; and what it acknowledges now is the row the run waits for.  *)
LEMMA AcceptKeeps ==
  ASSUME DeliveryInv, NEW m \in network, Accept(m)
  PROVE  DeliveryInv'
<1>1. /\ held[m.backend][m.event] \in {Nothing, m.record}
      /\ held' = [held EXCEPT ![m.backend][m.event] = m.record]
      /\ network' = network \ {m}
      /\ Answered(m, "ok")
      /\ UNCHANGED <<queued, sent>> /\ UNCHANGED desktop
  BY DEF Accept, desktop
<1>2. /\ m.backend \in Backends /\ m.event \in Events /\ m.record \in Histories
      /\ held \in [Backends -> [Events -> Histories]]
  BY DEF DeliveryInv, DeliveryTypes
<1>3. held' \in [Backends -> [Events -> Histories]]
  BY <1>1, <1>2
<1>4. DeliveryTypes' /\ ListedIsQueued' /\ RunsHoldTheirRow' /\ RequestsMatch'
  BY <1>1, <1>3, AnsweredKeeps
<1>5. m.record = queued[m.backend][m.event]
  BY DEF DeliveryInv, RequestsMatch
<1>6. held'[m.backend][m.event] = queued[m.backend][m.event]
  BY <1>1, <1>2, <1>5
<1>7. ASSUME NEW row \in Rows, IsHeld(row)
      PROVE  held'[row[1]][row[2]] = queued[row[1]][row[2]]
  <2>1. row[1] \in Backends /\ row[2] \in Events /\ row = <<row[1], row[2]>>
    BY RowParts
  <2>2. CASE row = <<m.backend, m.event>>
    BY <1>6, <2>2
  <2>3. CASE row # <<m.backend, m.event>>
    BY <1>1, <1>2, <1>7, <2>1, <2>3 DEF IsHeld
  <2> QED BY <2>2, <2>3
<1>8. AnswersAreTrue'
  <2> SUFFICES ASSUME NEW p \in Pushers, pusher'[p].answer = "ok"
               PROVE  held'[pusher[p].row[1]][pusher[p].row[2]] =
                        queued[pusher[p].row[1]][pusher[p].row[2]]
    BY <1>1, AnsweredRuns DEF AnswersAreTrue, IsHeld
  <2>1. CASE pusher[p].answer = "ok"
    <3>1. pusher[p].row \in pusher[p].todo /\ IsHeld(pusher[p].row)
      BY <2>1 DEF DeliveryInv, RunsHoldTheirRow, AnswersAreTrue
    <3>2. pusher[p].row \in Rows
      BY <3>1, RestIsQueued
    <3> QED BY <1>7, <3>1, <3>2
  <2>2. CASE pusher[p].answer # "ok"
    <3>1. pusher[p].connection = m.connection
      BY <1>1, <2>2, AnsweredRuns
    <3>2. pusher[p].row = <<m.backend, m.event>>
      BY <3>1 DEF DeliveryInv, RequestsMatch
    <3> QED BY <1>6, <3>2
  <2> QED BY <2>1, <2>2
<1>9. SentIsHeld'
  <2>1. \A row \in sent : row \in Rows /\ IsHeld(row)
    BY SentIsQueuedAndHeld
  <2> QED BY <1>1, <1>7, <2>1 DEF SentIsHeld, IsHeld
<1> QED BY <1>4, <1>8, <1>9 DEF DeliveryInv

LEMMA RefuseKeeps ==
  ASSUME DeliveryInv, NEW m \in network, Refuse(m)
  PROVE  DeliveryInv'
<1>1. /\ network' = network \ {m}
      /\ Answered(m, "refused")
      /\ UNCHANGED <<queued, sent, held>> /\ UNCHANGED desktop
  BY DEF Refuse, desktop
<1>2. held' \in [Backends -> [Events -> Histories]]
  BY <1>1 DEF DeliveryInv, DeliveryTypes
<1>3. DeliveryTypes' /\ ListedIsQueued' /\ RunsHoldTheirRow' /\ RequestsMatch'
  BY <1>1, <1>2, AnsweredKeeps
<1>4. AnswersAreTrue'
  <2> SUFFICES ASSUME NEW p \in Pushers, pusher'[p].answer = "ok"
               PROVE  IsHeld(pusher[p].row)
    BY <1>1, AnsweredRuns DEF AnswersAreTrue, IsHeld
  <2> QED BY <1>1, AnsweredRuns DEF DeliveryInv, AnswersAreTrue
<1>5. SentIsHeld'
  BY <1>1 DEF DeliveryInv, SentIsHeld
<1> QED BY <1>3, <1>4, <1>5 DEF DeliveryInv

LEMMA LoseKeeps ==
  ASSUME DeliveryInv, NEW m \in network, Lose(m)
  PROVE  DeliveryInv'
BY DEF Lose, desktop, DeliveryInv, DeliveryTypes, ListedIsQueued, IsQueued,
       RunsHoldTheirRow, RequestsMatch, AnswersAreTrue, SentIsHeld, IsHeld

-----------------------------------------------------------------------------
LEMMA InitDelivery ==
  ASSUME Init
  PROVE  DeliveryInv
<1>1. Closed \in [stage : {"closed", "working", "saved"},
                  unseals : BOOLEAN, base : Histories, record : Histories]
  BY ClosedType
<1>2. Resting \in Runs /\ Nothing \in Histories
  BY DEF Resting, Runs, Nothing, Histories
<1>3. DeliveryTypes
  BY <1>1, <1>2 DEF Init, DeliveryTypes
<1>4. ListedIsQueued /\ RunsHoldTheirRow /\ AnswersAreTrue
  BY DEF Init, ListedIsQueued, RunsHoldTheirRow, AnswersAreTrue, Resting
<1>5. RequestsMatch /\ SentIsHeld
  BY DEF Init, RequestsMatch, SentIsHeld
<1> QED BY <1>3, <1>4, <1>5 DEF DeliveryInv

LEMMA WizardKeeps ==
  ASSUME DeliveryInv, NEW w \in Wizards, Wizard(w)
  PROVE  DeliveryInv'
BY BeginSealKeeps, LoadRecordKeeps, MakeRecordKeeps, SaveRecordKeeps,
   CompleteSealKeeps, CompletionFailsKeeps, LeaveWizardKeeps DEF Wizard

LEMMA PusherKeeps ==
  ASSUME DeliveryInv, NEW p \in Pushers, Pusher(p)
  PROVE  DeliveryInv'
BY ListPendingKeeps, SkipGroupKeeps, SendKeeps, RecordSuccessKeeps,
   RecordFailureKeeps, StopPushingKeeps DEF Pusher

LEMMA NextDelivery ==
  ASSUME DeliveryInv, [Next]_vars
  PROVE  DeliveryInv'
<1>1. CASE UNCHANGED vars
  BY <1>1 DEF vars, DeliveryInv, DeliveryTypes, ListedIsQueued, IsQueued,
              RunsHoldTheirRow, RequestsMatch, AnswersAreTrue, SentIsHeld, IsHeld
<1>2. CASE Next
  BY <1>2, WizardKeeps, DeleteCaseKeeps, PusherKeeps, AcceptKeeps, RefuseKeeps,
     LoseKeeps DEF Next
<1> QED BY <1>1, <1>2

(* A row of the outbox is marked as sent only when its backend holds the   *)
(* record that was queued: whatever files the wizards load, however the    *)
(* runs overlap, stop and repeat, and whatever answers are late or lost.   *)
THEOREM SentRowsAreHeld == Spec => []SentIsHeld
<1>1. Init => DeliveryInv
  BY InitDelivery
<1>2. DeliveryInv /\ [Next]_vars => DeliveryInv'
  BY NextDelivery
<1>3. DeliveryInv => SentIsHeld
  BY DEF DeliveryInv
<1> QED BY <1>1, <1>2, <1>3, PTL DEF Spec

-----------------------------------------------------------------------------
(* Record and delivery intent are one save, where every process has the    *)
(* backends configured.  A sealing is completed over whatever is stored by *)
(* then, so what a wizard holds as saved must have been queued too.        *)
LengthsFit ==
  /\ stamps <= MaxStamps
  /\ \A record \in files : Len(record) <= stamps
  /\ \A w \in Wizards : Len(wizard[w].base) <= stamps /\ Len(wizard[w].record) <= stamps

IsQueuedEverywhere(record) == \A b \in Backends : queued[b][Len(record)] = record

SavedIsQueued ==
  \A w \in Wizards : wizard[w].stage = "saved" =>
    wizard[w].record # Nothing /\ IsQueuedEverywhere(wizard[w].record)

StoringInv ==
  DeliveryInv /\ LengthsFit /\ SavedIsQueued /\ StoredRecordIsQueued

LEMMA InitStoring ==
  ASSUME Init
  PROVE  StoringInv
<1>1. DeliveryInv
  BY InitDelivery
<1>2. LengthsFit
  BY OutboxAssumption DEF Init, LengthsFit, Closed, Nothing
<1>3. SavedIsQueued /\ StoredRecordIsQueued
  BY DEF Init, SavedIsQueued, StoredRecordIsQueued, Closed
<1> QED BY <1>1, <1>2, <1>3 DEF StoringInv

LEMMA QueuedStays ==
  ASSUME StoringInv, QueuedIsKept, NEW record \in Histories, record # Nothing,
         Len(record) <= stamps, IsQueuedEverywhere(record)
  PROVE  IsQueuedEverywhere(record)'
<1> SUFFICES ASSUME NEW b \in Backends
             PROVE  queued'[b][Len(record)] = record
  BY DEF IsQueuedEverywhere
<1>1. Len(record) \in Events
  <2>1. Len(record) \in Nat /\ Len(record) # 0
    BY DEF Histories, Nothing
  <2> QED BY <2>1, OutboxAssumption
          DEF StoringInv, LengthsFit, DeliveryInv, DeliveryTypes, Events
<1>2. <<b, Len(record)>> \in Rows /\ queued[b][Len(record)] = record
  BY <1>1 DEF Rows, IsQueuedEverywhere
<1>3. IsQueued(<<b, Len(record)>>)
  BY <1>2 DEF IsQueued
<1> QED BY <1>2, <1>3 DEF QueuedIsKept

LEMMA SaveRecordStores ==
  ASSUME StoringInv, NEW w \in Wizards, SaveRecord(w, Backends), DeliveryInv',
         QueuedIsKept
  PROVE  StoringInv'
<1> DEFINE record == wizard[w].record
<1>1. /\ record \in Histories /\ record # Nothing /\ Len(record) <= stamps
      /\ Len(record) \in Events
  <2>1. record \in Histories /\ record # Nothing /\ Len(record) <= stamps
    BY DEF SaveRecord, StoringInv, DeliveryInv, DeliveryTypes, LengthsFit
  <2>2. Len(record) \in Nat /\ Len(record) # 0
    BY <2>1 DEF Histories, Nothing
  <2> QED BY <2>1, <2>2, OutboxAssumption
          DEF StoringInv, LengthsFit, DeliveryInv, DeliveryTypes, Events
<1>2. /\ local' = record
      /\ queued' = [b \in Backends |-> [queued[b] EXCEPT ![Len(record)] = record]]
      /\ wizard' = [wizard EXCEPT ![w].stage = "saved"]
      /\ UNCHANGED <<files, stamps>>
  BY DEF SaveRecord
<1>3. IsQueuedEverywhere(record)'
  BY <1>1, <1>2 DEF IsQueuedEverywhere, StoringInv, DeliveryInv, DeliveryTypes
<1>4. \A v \in Wizards : wizard'[v].record = wizard[v].record
                         /\ wizard'[v].base = wizard[v].base
  BY <1>2 DEF StoringInv, DeliveryInv, DeliveryTypes
<1>5. LengthsFit'
  BY <1>2, <1>4 DEF StoringInv, LengthsFit
<1>6. SavedIsQueued'
  <2> SUFFICES ASSUME NEW v \in Wizards, wizard'[v].stage = "saved"
               PROVE  /\ wizard'[v].record # Nothing
                      /\ IsQueuedEverywhere(wizard[v].record)'
    BY <1>4 DEF SavedIsQueued, IsQueuedEverywhere
  <2>1. CASE v = w
    BY <1>1, <1>3, <1>4, <2>1 DEF IsQueuedEverywhere
  <2>2. CASE v # w
    <3>1. wizard'[v] = wizard[v]
      BY <1>2, <2>2
    <3>2. /\ wizard[v].record \in Histories /\ wizard[v].record # Nothing
          /\ Len(wizard[v].record) <= stamps
          /\ IsQueuedEverywhere(wizard[v].record)
      BY <3>1 DEF StoringInv, SavedIsQueued, LengthsFit, DeliveryInv, DeliveryTypes
    <3> HIDE DEF record
    <3> QED BY <3>1, <3>2, QueuedStays
  <2> QED BY <2>1, <2>2
<1>7. StoredRecordIsQueued'
  BY <1>2, <1>3 DEF StoredRecordIsQueued, IsQueuedEverywhere
<1> QED BY <1>5, <1>6, <1>7 DEF StoringInv

LEMMA MakeRecordStores ==
  ASSUME StoringInv, NEW w \in Wizards, NEW complete \in BOOLEAN,
         MakeRecord(w, complete), DeliveryInv'
  PROVE  StoringInv'
<1> DEFINE record == Append(wizard[w].base, stamps + 1)
<1>1. /\ wizard[w].base \in Histories /\ Len(wizard[w].base) <= stamps
      /\ stamps \in Nat /\ stamps < MaxStamps
  BY DEF MakeRecord, StoringInv, DeliveryInv, DeliveryTypes, LengthsFit
<1>2. Len(record) <= stamps + 1 /\ Len(Nothing) <= stamps + 1
  BY <1>1 DEF Histories, Nothing
<1>3. /\ files' = files \cup {record}
      /\ wizard' = [wizard EXCEPT ![w].record = IF complete THEN record
                                                ELSE Nothing]
      /\ stamps' = stamps + 1
      /\ UNCHANGED <<local, queued>>
      /\ wizard[w].stage = "working"
  BY DEF MakeRecord
<1>4. LengthsFit'
  <2>1. stamps' <= MaxStamps
    BY <1>1, <1>3, OutboxAssumption
  <2>2. \A file \in files : Len(file) \in Nat /\ Len(file) <= stamps
    BY DEF StoringInv, LengthsFit, DeliveryInv, DeliveryTypes, Histories
  <2>3. \A v \in Wizards :
          /\ Len(wizard[v].base) \in Nat /\ Len(wizard[v].base) <= stamps
          /\ Len(wizard[v].record) \in Nat /\ Len(wizard[v].record) <= stamps
    BY DEF StoringInv, LengthsFit, DeliveryInv, DeliveryTypes, Histories
  <2> HIDE DEF record
  <2>4. \A file \in files' : Len(file) <= stamps'
    BY <1>1, <1>2, <1>3, <2>2
  <2>5. ASSUME NEW v \in Wizards
        PROVE  Len(wizard'[v].base) <= stamps' /\ Len(wizard'[v].record) <= stamps'
    <3>1. wizard'[v].base = wizard[v].base
          /\ wizard'[v].record \in {wizard[v].record, record, Nothing}
      BY <1>3 DEF StoringInv, DeliveryInv, DeliveryTypes
    <3> QED BY <1>1, <1>2, <1>3, <2>3, <3>1
  <2> QED BY <2>1, <2>4, <2>5 DEF LengthsFit
<1>5. SavedIsQueued'
  <2>1. \A v \in Wizards : wizard'[v].stage = "saved" =>
                             v # w /\ wizard'[v] = wizard[v]
    BY <1>3 DEF StoringInv, DeliveryInv, DeliveryTypes
  <2> QED BY <1>3, <2>1 DEF StoringInv, SavedIsQueued, IsQueuedEverywhere
<1>6. StoredRecordIsQueued'
  BY <1>3 DEF StoringInv, StoredRecordIsQueued
<1> QED BY <1>4, <1>5, <1>6 DEF StoringInv

LEMMA WizardStores ==
  ASSUME StoringInv, Configurations = {Backends}, NEW w \in Wizards, Wizard(w),
         DeliveryInv'
  PROVE  StoringInv'
<1> USE DEF StoringInv, LengthsFit, SavedIsQueued, StoredRecordIsQueued,
            IsQueuedEverywhere
<1>1. wizard \in [Wizards ->
        [stage : {"closed", "working", "saved"},
         unseals : BOOLEAN, base : Histories, record : Histories]]
      /\ stamps \in Nat /\ Closed.stage = "closed"
      /\ Len(Closed.base) = 0 /\ Len(Closed.record) = 0
  BY DEF DeliveryInv, DeliveryTypes, Closed, Nothing
<1>2. CASE BeginSeal(w)
  BY <1>1, <1>2 DEF BeginSeal
<1>3. CASE \E base \in files, unseals \in BOOLEAN : LoadRecord(w, base, unseals)
  <2> PICK base \in files, unseals \in BOOLEAN : LoadRecord(w, base, unseals)
    BY <1>3
  <2>1. Len(Nothing) = 0
    BY DEF Nothing
  <2> QED BY <1>1, <2>1 DEF LoadRecord
<1>4. CASE \E complete \in BOOLEAN : MakeRecord(w, complete)
  BY <1>4, MakeRecordStores
<1>5. CASE \E backends \in Configurations : SaveRecord(w, backends)
  <2>1. SaveRecord(w, Backends)
    BY <1>5
  <2>2. QueuedIsKept
    BY <2>1, SaveRecordKeepsRows
  <2> QED BY <2>1, <2>2, SaveRecordStores
<1>6. CASE CompleteSeal(w)
  BY <1>1, <1>6 DEF CompleteSeal
<1>7. CASE CompletionFails(w)
  BY <1>7 DEF CompletionFails
<1>8. CASE LeaveWizard(w)
  BY <1>1, <1>8 DEF LeaveWizard
<1> QED BY <1>2, <1>3, <1>4, <1>5, <1>6, <1>7, <1>8 DEF Wizard

LEMMA NextStores ==
  ASSUME StoringInv, Configurations = {Backends}, [Next]_vars
  PROVE  StoringInv'
<1>1. DeliveryInv'
  BY NextDelivery DEF StoringInv
<1>2. CASE \E w \in Wizards : Wizard(w)
  BY <1>1, <1>2, WizardStores
<1>3. CASE UNCHANGED <<local, files, stamps, wizard, queued>>
  BY <1>1, <1>3 DEF StoringInv, LengthsFit, SavedIsQueued, StoredRecordIsQueued,
                    IsQueuedEverywhere
<1>4. CASE DeleteCase
  BY <1>1, <1>4 DEF DeleteCase, StoringInv, LengthsFit, SavedIsQueued,
                    StoredRecordIsQueued, IsQueuedEverywhere
<1>5. CASE \E p \in Pushers : Pusher(p)
  BY <1>3, <1>5 DEF Pusher, ListPending, SkipGroup, Send, RecordSuccess,
                    RecordFailure, StopPushing, desktop
<1>6. CASE \E m \in network : Accept(m) \/ Refuse(m) \/ Lose(m)
  BY <1>3, <1>6 DEF Accept, Refuse, Lose, desktop
<1>7. CASE UNCHANGED vars
  BY <1>3, <1>7 DEF vars
<1> QED BY <1>2, <1>4, <1>5, <1>6, <1>7 DEF Next

(* Where every process has the backends configured, the stored record was   *)
(* queued for each of them, through failed saves, deleted cases, completed *)
(* and abandoned wizards: a record is never stored without its delivery.   *)
THEOREM StoredIsQueued ==
  ASSUME Configurations = {Backends}
  PROVE  Spec => []StoredRecordIsQueued
<1>1. Init => StoringInv
  BY InitStoring
<1>2. StoringInv /\ [Next]_vars => StoringInv'
  BY NextStores
<1>3. StoringInv => StoredRecordIsQueued
  BY DEF StoringInv
<1> QED BY <1>1, <1>2, <1>3, PTL DEF Spec

-----------------------------------------------------------------------------
(* One application, and no case deleted: what the backends hold of the     *)
(* seal is one growing history.                                            *)

StoredWhenSaved ==
  \A w \in Wizards : wizard[w].stage = "saved" => local = wizard[w].record /\ local # Nothing
QueuedContinue ==
  \A b \in Backends, e \in Events : queued[b][e] # Nothing =>
    Len(queued[b][e]) = e /\ IsPrefix(queued[b][e], local)
HeldIsQueued ==
  \A b \in Backends, e \in Events : held[b][e] \in {Nothing, queued[b][e]}

(* Nothing earlier is left out: not by a run, by a request, by a backend.  *)
EarlierHeld(b, e) ==
  \A f \in Events : f < e /\ queued[b][f] # Nothing => held[b][f] # Nothing
RunsInOrder ==
  \A p \in Pushers :
    /\ pusher[p].stage # "resting" => IsFirst(pusher[p].row, pusher[p].todo)
    /\ \A b \in Backends, e, f \in Events :
         <<b, e>> \in pusher[p].todo /\ f < e /\ queued[b][f] # Nothing =>
           <<b, f>> \in pusher[p].todo \/ held[b][f] # Nothing
RequestsInOrder == \A m \in network : EarlierHeld(m.backend, m.event)

StoredInv == DeliveryInv /\ StoredWhenSaved /\ QueuedContinue
OrderInv == HeldIsQueued /\ RunsInOrder /\ RequestsInOrder /\ HeldInOrder

(* Prefixes. *)
LEMMA PrefixByElements ==
  ASSUME NEW s \in Histories, NEW t \in Histories
  PROVE  IsPrefix(s, t) <=> Len(s) <= Len(t) /\ \A i \in 1 .. Len(s) : s[i] = t[i]
<1>1. s \in Seq(Nat) /\ t \in Seq(Nat) /\ Len(s) \in Nat /\ Len(t) \in Nat
  BY DEF Histories
<1>2. ASSUME Len(s) <= Len(t)
      PROVE  SubSeq(s, 1, Len(s)) = SubSeq(t, 1, Len(s)) <=> \A i \in 1 .. Len(s) : s[i] = t[i]
  <2>1. SubSeq(s, 1, Len(s)) = s
    BY <1>1, SubSeqFull
  <2> DEFINE r == SubSeq(t, 1, Len(s))
  <2>2. \A i \in 1 .. Len(s) : t[i] \in Nat
    BY <1>1, <1>2
  <2>3. r \in Seq(Nat) /\ Len(r) = Len(s) /\ \A i \in 1 .. Len(s) : r[i] = t[i]
    <3>1. /\ r \in Seq(Nat) /\ Len(r) = (IF 1 <= Len(s) THEN Len(s) - 1 + 1 ELSE 0)
          /\ \A i \in 1 .. Len(s) - 1 + 1 : r[i] = t[1 + i - 1]
      BY <1>1, <2>2, SubSeqProperties
    <3> HIDE DEF r
    <3>2. Len(r) = Len(s) /\ Len(s) - 1 + 1 = Len(s)
      BY <1>1, <3>1
    <3>3. ASSUME NEW i \in 1 .. Len(s)
          PROVE  r[i] = t[i]
      <4>1. i \in Nat /\ 1 + i - 1 = i
        BY <1>1
      <4> QED
        BY <3>1, <3>2, <4>1
    <3> QED
      BY <3>1, <3>2, <3>3
  <2> HIDE DEF r
  <2>4. s = r <=> \A i \in 1 .. Len(s) : s[i] = r[i]
    BY <1>1, <2>3, SeqEqual
  <2>5. s = r <=> \A i \in 1 .. Len(s) : s[i] = t[i]
    BY <2>3, <2>4
  <2> QED
    BY <2>1, <2>5 DEF r
<1> QED
  BY <1>2 DEF IsPrefix

LEMMA PrefixIsTransitive ==
  ASSUME NEW s \in Histories, NEW t \in Histories, NEW u \in Histories,
         IsPrefix(s, t), IsPrefix(t, u)
  PROVE  IsPrefix(s, u)
<1>1. Len(s) \in Nat /\ Len(t) \in Nat /\ Len(u) \in Nat
  BY DEF Histories
<1>2. Len(s) <= Len(t) /\ Len(t) <= Len(u)
  BY PrefixByElements
<1>3. \A i \in 1 .. Len(s) : s[i] = t[i]
  BY PrefixByElements
<1>4. \A i \in 1 .. Len(t) : t[i] = u[i]
  BY PrefixByElements
<1>5. \A i \in 1 .. Len(s) : s[i] = u[i]
  BY <1>1, <1>2, <1>3, <1>4
<1> QED
  BY <1>1, <1>2, <1>5, PrefixByElements

LEMMA ShorterIsPrefix ==
  ASSUME NEW s \in Histories, NEW t \in Histories, NEW u \in Histories,
         IsPrefix(s, u), IsPrefix(t, u), Len(s) <= Len(t)
  PROVE  IsPrefix(s, t)
<1>1. Len(s) \in Nat /\ Len(t) \in Nat
  BY DEF Histories
<1>2. \A i \in 1 .. Len(s) : s[i] = u[i]
  BY PrefixByElements
<1>3. \A i \in 1 .. Len(t) : t[i] = u[i]
  BY PrefixByElements
<1>4. \A i \in 1 .. Len(s) : s[i] = t[i]
  BY <1>1, <1>2, <1>3
<1> QED
  BY <1>4, PrefixByElements

-----------------------------------------------------------------------------
(* Every save continues the stored record, so a new row is a last one.     *)
LaterRows ==
  \A b \in Backends, e \in Events : queued'[b][e] # Nothing =>
    \/ queued'[b][e] = queued[b][e]
    \/ \A c \in Backends, f \in Events : queued[c][f] # Nothing => f <= e

LEMMA SaveContinues ==
  ASSUME \A v, u \in Wizards : v = u,
         StoredInv, NEW w \in Wizards, NEW backends \in Configurations,
         SaveRecord(w, backends), DeliveryInv'
  PROVE  StoredInv' /\ LaterRows
<1> DEFINE record == wizard[w].record
<1>1. /\ record \in Histories /\ record # Nothing /\ local \in Histories
      /\ Len(record) \in Nat /\ Len(local) \in Nat
      /\ queued \in [Backends -> [Events -> Histories]]
  BY DEF SaveRecord, StoredInv, DeliveryInv, DeliveryTypes, Histories
<1>2. /\ IsPrefix(local, record)
      /\ local' = record
      /\ queued' = [b \in Backends |->
           IF b \in backends
           THEN [queued[b] EXCEPT ![Len(record)] = record]
           ELSE queued[b]]
      /\ wizard' = [wizard EXCEPT ![w].stage = "saved"]
  BY DEF SaveRecord, Continues
<1>3. wizard'[w].record = record
  BY <1>2 DEF StoredInv, DeliveryInv, DeliveryTypes
<1>4. StoredWhenSaved'
  BY <1>1, <1>2, <1>3 DEF StoredWhenSaved
<1> HIDE DEF record
<1>5. ASSUME NEW b \in Backends, NEW e \in Events
      PROVE  queued'[b][e] = queued[b][e] \/ (e = Len(record) /\ queued'[b][e] = record)
  BY <1>1, <1>2
<1>6. ASSUME NEW b \in Backends, NEW e \in Events, queued[b][e] # Nothing
      PROVE  /\ Len(queued[b][e]) = e /\ IsPrefix(queued[b][e], record)
             /\ e <= Len(record)
  <2>1. queued[b][e] \in Histories /\ Len(queued[b][e]) = e /\ IsPrefix(queued[b][e], local)
    BY <1>1, <1>6 DEF StoredInv, QueuedContinue
  <2>2. IsPrefix(queued[b][e], record)
    BY <1>1, <1>2, <2>1, PrefixIsTransitive
  <2> QED
    BY <1>1, <2>1, <2>2, PrefixByElements
<1>7. IsPrefix(record, record)
  BY <1>1, PrefixByElements
<1>8. QueuedContinue'
  BY <1>2, <1>5, <1>6, <1>7 DEF QueuedContinue
<1>9. LaterRows
  BY <1>5, <1>6 DEF LaterRows
<1> QED
  BY <1>4, <1>8, <1>9 DEF StoredInv

LEMMA WizardContinues ==
  ASSUME \A v, u \in Wizards : v = u,
         StoredInv, NEW w \in Wizards, Wizard(w), DeliveryInv'
  PROVE  StoredInv' /\ LaterRows /\ UNCHANGED <<pusher, network, held>>
<1>1. /\ wizard \in [Wizards ->
           [stage : {"closed", "working", "saved"},
            unseals : BOOLEAN, base : Histories, record : Histories]]
      /\ Closed.stage = "closed"
  BY DEF StoredInv, DeliveryInv, DeliveryTypes, Closed
<1>2. ASSUME local' = local, queued' = queued, StoredWhenSaved',
             UNCHANGED <<pusher, network, held>>
      PROVE  StoredInv' /\ LaterRows /\ UNCHANGED <<pusher, network, held>>
  BY <1>2 DEF StoredInv, QueuedContinue, LaterRows
<1>3. CASE BeginSeal(w)
  <2>1. wizard'[w].stage = "working"
    BY <1>1, <1>3 DEF BeginSeal
  <2> QED
    BY <1>2, <1>3, <2>1 DEF BeginSeal, StoredWhenSaved
<1>4. ASSUME NEW base \in files, NEW unseals \in BOOLEAN, LoadRecord(w, base, unseals)
      PROVE  StoredInv' /\ LaterRows /\ UNCHANGED <<pusher, network, held>>
  <2>1. wizard'[w].stage = "working"
    BY <1>1, <1>4 DEF LoadRecord
  <2> QED
    BY <1>2, <1>4, <2>1 DEF LoadRecord, StoredWhenSaved
<1>5. ASSUME NEW complete \in BOOLEAN, MakeRecord(w, complete)
      PROVE  StoredInv' /\ LaterRows /\ UNCHANGED <<pusher, network, held>>
  <2>1. PICK r : wizard' = [wizard EXCEPT ![w].record = r]
    BY <1>5 DEF MakeRecord
  <2>2. wizard'[w].stage = "working"
    BY <1>1, <1>5, <2>1 DEF MakeRecord
  <2> QED
    BY <1>2, <1>5, <2>2 DEF MakeRecord, StoredWhenSaved
<1>6. ASSUME NEW backends \in Configurations, SaveRecord(w, backends)
      PROVE  StoredInv' /\ LaterRows /\ UNCHANGED <<pusher, network, held>>
  BY <1>6, SaveContinues DEF SaveRecord
<1>7. CASE CompleteSeal(w)
  <2>1. local' = local /\ wizard'[w].stage = "closed"
    BY <1>1, <1>7 DEF CompleteSeal, StoredInv, StoredWhenSaved
  <2> QED
    BY <1>2, <1>7, <2>1 DEF CompleteSeal, StoredWhenSaved
<1>8. CASE CompletionFails(w)
  <2>1. local = Nothing /\ wizard' = wizard /\ queued' = queued
        /\ UNCHANGED <<pusher, network, held>>
    BY <1>8 DEF CompletionFails
  <2>2. \A v \in Wizards : wizard[v].stage # "saved"
    BY <2>1 DEF StoredInv, StoredWhenSaved
  <2>3. \A b \in Backends, e \in Events : queued[b][e] = Nothing
    <3>1. ASSUME NEW b \in Backends, NEW e \in Events, queued[b][e] # Nothing
          PROVE  FALSE
      <4>1. Len(queued[b][e]) = e /\ Len(queued[b][e]) <= Len(local)
        BY <3>1 DEF StoredInv, QueuedContinue, IsPrefix
      <4>2. Len(local) = 0 /\ e \in Nat /\ e >= 1
        BY <2>1, OutboxAssumption DEF Nothing, Events
      <4> QED
        BY <4>1, <4>2
    <3> QED
      BY <3>1
  <2> QED
    BY <2>1, <2>2, <2>3 DEF StoredInv, StoredWhenSaved, QueuedContinue, LaterRows
<1>9. CASE LeaveWizard(w)
  <2>1. wizard'[w].stage = "closed"
    BY <1>1, <1>9 DEF LeaveWizard
  <2> QED
    BY <1>2, <1>9, <2>1 DEF LeaveWizard, StoredWhenSaved
<1> QED
  BY <1>3, <1>4, <1>5, <1>6, <1>7, <1>8, <1>9 DEF Wizard

(* Such a row is behind no run, request or held record. *)
LEMMA LaterRowsKeepOrder ==
  ASSUME StoredInv, OrderInv, QueuedIsKept, LaterRows, UNCHANGED <<pusher, network, held>>,
         DeliveryInv'
  PROVE  OrderInv'
<1>1. /\ queued \in [Backends -> [Events -> Histories]]
      /\ held \in [Backends -> [Events -> Histories]]
      /\ pusher \in [Pushers -> Runs]
      /\ \A e \in Events : e \in Nat
  BY OutboxAssumption DEF StoredInv, DeliveryInv, DeliveryTypes, Events
<1>2. ASSUME NEW b \in Backends, NEW e \in Events, queued[b][e] # Nothing
      PROVE  queued'[b][e] = queued[b][e]
  <2>1. <<b, e>> \in Rows /\ IsQueued(<<b, e>>)
    BY <1>2 DEF Rows, IsQueued
  <2> QED
    BY <2>1 DEF QueuedIsKept
<1>3. ASSUME NEW b \in Backends, NEW e \in Events, NEW f \in Events,
             f < e, queued[b][e] # Nothing, queued'[b][f] # Nothing
      PROVE  queued[b][f] # Nothing
  BY <1>1, <1>3 DEF LaterRows
<1>4. HeldIsQueued'
  BY <1>2 DEF OrderInv, HeldIsQueued
<1>5. ASSUME NEW b \in Backends, NEW e \in Events, held[b][e] # Nothing
      PROVE  queued[b][e] # Nothing
  BY <1>5 DEF OrderInv, HeldIsQueued
<1>6. HeldInOrder'
  BY <1>3, <1>5 DEF OrderInv, HeldInOrder
<1>7. \A p \in Pushers : \A b \in Backends, e \in Events :
        <<b, e>> \in pusher[p].todo => queued[b][e] # Nothing
  BY DEF StoredInv, DeliveryInv, ListedIsQueued, IsQueued
<1>8. RunsInOrder'
  BY <1>3, <1>7 DEF OrderInv, RunsInOrder
<1>9. \A m \in network : m.backend \in Backends /\ m.event \in Events
                         /\ queued[m.backend][m.event] # Nothing
  BY DEF StoredInv, DeliveryInv, DeliveryTypes, RequestsMatch
<1>10. RequestsInOrder'
  BY <1>3, <1>9 DEF OrderInv, RequestsInOrder, EarlierHeld
<1> QED
  BY <1>4, <1>6, <1>8, <1>10 DEF OrderInv

-----------------------------------------------------------------------------
(* The runs. *)
LEMMA ProceedInOrder ==
  ASSUME StoredInv, OrderInv, NEW p \in Pushers, NEW todo \in SUBSET Rows, Proceed(p, todo),
         UNCHANGED <<queued, network, held>>,
         \A b \in Backends, e, f \in Events :
           <<b, e>> \in todo /\ f < e /\ queued[b][f] # Nothing =>
             <<b, f>> \in todo \/ held[b][f] # Nothing
  PROVE  OrderInv'
<1>1. pusher \in [Pushers -> Runs]
  BY DEF StoredInv, DeliveryInv, DeliveryTypes
<1>2. /\ \A q \in Pushers : q # p => pusher'[q] = pusher[q]
      /\ \/ pusher'[p] = Resting
         \/ /\ pusher'[p].todo = todo
            /\ IsFirst(pusher'[p].row, todo)
  BY <1>1 DEF Proceed
<1>3. Resting.stage = "resting" /\ Resting.todo = {}
  BY DEF Resting
<1>4. RunsInOrder'
  BY <1>2, <1>3 DEF OrderInv, RunsInOrder
<1> QED
  BY <1>4 DEF OrderInv, HeldIsQueued, RequestsInOrder, EarlierHeld, HeldInOrder

LEMMA PusherInOrder ==
  ASSUME StoredInv, OrderInv, NEW p \in Pushers, Pusher(p)
  PROVE  OrderInv'
<1>1. /\ pusher \in [Pushers -> Runs]
      /\ pusher[p].todo \subseteq Rows /\ queued \in [Backends -> [Events -> Histories]]
  BY DEF StoredInv, DeliveryInv, DeliveryTypes, Runs
<1>2. CASE ListPending(p)
  <2>1. Proceed(p, Pending) /\ UNCHANGED <<queued, network, held>>
    BY <1>2 DEF ListPending, desktop
  <2>2. Pending \subseteq Rows
    BY DEF Pending
  <2>3. ASSUME NEW b \in Backends, NEW f \in Events, queued[b][f] # Nothing,
               <<b, f>> \notin Pending
        PROVE  held[b][f] # Nothing
    <3>1. <<b, f>> \in sent
      BY <2>3 DEF Pending, Rows
    <3> QED
      BY <2>3, <3>1 DEF StoredInv, DeliveryInv, SentIsHeld
  <2> QED
    BY <2>1, <2>2, <2>3, ProceedInOrder
<1>3. ASSUME Proceed(p, WithoutGroup(pusher[p].todo, pusher[p].row)),
             UNCHANGED <<queued, network, held>>
      PROVE  OrderInv'
  <2> DEFINE rest == WithoutGroup(pusher[p].todo, pusher[p].row)
  <2>1. rest \subseteq Rows
    BY <1>1 DEF WithoutGroup
  <2>2. \A b \in Backends, e, f \in Events :
           <<b, e>> \in rest /\ f < e /\ queued[b][f] # Nothing =>
             <<b, f>> \in rest \/ held[b][f] # Nothing
    BY DEF OrderInv, RunsInOrder, WithoutGroup
  <2> HIDE DEF rest
  <2> QED
    BY <1>3, <2>1, <2>2, ProceedInOrder DEF rest
<1>4. CASE RecordFailure(p) \/ \E backends \in Configurations : SkipGroup(p, backends)
  BY <1>3, <1>4 DEF RecordFailure, SkipGroup, desktop
<1>5. CASE RecordSuccess(p)
  <2> DEFINE row == pusher[p].row
             rest == pusher[p].todo \ {row}
  <2>1. row \in Rows /\ IsQueued(row) /\ IsHeld(row)
    <3>1. row \in pusher[p].todo
      BY <1>5 DEF RecordSuccess, Acknowledged, StoredInv, DeliveryInv, RunsHoldTheirRow
    <3>2. row \in Rows /\ IsQueued(row)
      BY <1>1, <3>1 DEF StoredInv, DeliveryInv, ListedIsQueued
    <3> QED
      BY <1>5, <3>2 DEF RecordSuccess, Acknowledged, StoredInv, DeliveryInv, AnswersAreTrue
  <2>2. Proceed(p, rest) /\ UNCHANGED <<queued, network, held>>
    BY <1>5 DEF RecordSuccess
  <2>3. rest \subseteq Rows
    BY <1>1
  <2>4. \A b \in Backends, f \in Events : <<b, f>> = row => held[b][f] # Nothing
    BY <2>1 DEF IsQueued, IsHeld
  <2>5. \A b \in Backends, e, f \in Events :
           <<b, e>> \in rest /\ f < e /\ queued[b][f] # Nothing =>
             <<b, f>> \in rest \/ held[b][f] # Nothing
    BY <2>4 DEF OrderInv, RunsInOrder
  <2> HIDE DEF rest
  <2> QED
    BY <2>2, <2>3, <2>5, ProceedInOrder
<1>6. CASE StopPushing(p)
  <2>1. Resting.stage = "resting" /\ Resting.todo = {}
    BY DEF Resting
  <2>2. UNCHANGED <<queued, network, held>> /\ pusher' = [pusher EXCEPT ![p] = Resting]
    BY <1>6 DEF StopPushing, desktop
  <2>3. pusher'[p] = Resting /\ \A q \in Pushers : q # p => pusher'[q] = pusher[q]
    BY <1>1, <2>2
  <2>4. RunsInOrder'
    BY <2>1, <2>2, <2>3 DEF OrderInv, RunsInOrder
  <2> QED
    BY <2>2, <2>4 DEF OrderInv, HeldIsQueued, RequestsInOrder, EarlierHeld, HeldInOrder
<1>7. ASSUME NEW c \in Connections, Send(p, c)
      PROVE  OrderInv'
  <2> DEFINE row == pusher[p].row
  <2>1. /\ pusher[p].stage = "pushing"
        /\ network' = network \cup {Request(c, row)}
        /\ pusher' = [pusher EXCEPT ![p].stage = "waiting", ![p].connection = c]
        /\ UNCHANGED <<queued, held>>
    BY <1>7 DEF Send, desktop
  <2>2. \A q \in Pushers : pusher'[q].row = pusher[q].row /\ pusher'[q].todo = pusher[q].todo
                           /\ (pusher'[q].stage # "resting" => pusher[q].stage # "resting")
    BY <1>1, <2>1 DEF Runs
  <2>3. RunsInOrder'
    BY <2>1, <2>2 DEF OrderInv, RunsInOrder
  <2>4. row \in pusher[p].todo /\ row \in Rows
    BY <1>1, <2>1 DEF StoredInv, DeliveryInv, RunsHoldTheirRow
  <2>5. EarlierHeld(row[1], row[2])
    <3>1. row[1] \in Backends /\ row[2] \in Events /\ row = <<row[1], row[2]>>
      BY <2>4, RowParts
    <3>2. ASSUME NEW f \in Events, f < row[2], queued[row[1]][f] # Nothing
          PROVE  held[row[1]][f] # Nothing
      <4>1. <<row[1], f>> \in pusher[p].todo \/ held[row[1]][f] # Nothing
        BY <2>4, <3>1, <3>2 DEF OrderInv, RunsInOrder
      <4>2. ASSUME <<row[1], f>> \in pusher[p].todo
            PROVE  FALSE
        <5>1. row[1] \in Nat /\ row[2] \in Nat /\ f \in Nat
          <6>1. \A e \in Events : e \in Nat
            BY OutboxAssumption DEF Events
          <6>2. \A b \in Backends : b \in Nat
            BY OutboxAssumption
          <6> QED
            BY <3>1, <6>1, <6>2
        <5>2. PICK other : other = <<row[1], f>>
          OBVIOUS
        <5>3. other # row /\ other[1] = row[1] /\ other[2] = f
          BY <3>1, <3>2, <5>1, <5>2
        <5>4. IsFirst(row, pusher[p].todo)
          BY <2>1 DEF OrderInv, RunsInOrder
        <5>5. row[1] < other[1] \/ (row[1] = other[1] /\ row[2] < other[2])
          BY <4>2, <5>2, <5>3, <5>4 DEF IsFirst
        <5> QED
          BY <3>2, <5>1, <5>3, <5>5
      <4> QED
        BY <4>1, <4>2
    <3> QED
      BY <3>2 DEF EarlierHeld
  <2>6. Request(c, row).backend = row[1] /\ Request(c, row).event = row[2]
    BY DEF Request
  <2> HIDE DEF row
  <2>7. RequestsInOrder'
    BY <2>1, <2>5, <2>6 DEF OrderInv, RequestsInOrder, EarlierHeld
  <2> QED
    BY <2>1, <2>3, <2>7 DEF OrderInv, HeldIsQueued, HeldInOrder
<1> QED
  BY <1>2, <1>4, <1>5, <1>6, <1>7 DEF Pusher

LEMMA AnswersInOrder ==
  ASSUME StoredInv, OrderInv, NEW m \in network, Accept(m) \/ Refuse(m) \/ Lose(m)
  PROVE  OrderInv'
<1>1. /\ held \in [Backends -> [Events -> Histories]]
      /\ m.backend \in Backends /\ m.event \in Events
      /\ m.record = queued[m.backend][m.event] /\ m.record # Nothing
      /\ network' = network \ {m} /\ queued' = queued
  BY DEF StoredInv, DeliveryInv, DeliveryTypes, RequestsMatch, Accept, Refuse, Lose, desktop
<1>2. \A p \in Pushers : /\ pusher'[p].stage = pusher[p].stage
                         /\ pusher'[p].todo = pusher[p].todo
                         /\ pusher'[p].row = pusher[p].row
  BY AnsweredRuns DEF StoredInv, Accept, Refuse, Lose
<1>3. \/ held' = held
      \/ held' = [held EXCEPT ![m.backend][m.event] = m.record]
  BY DEF Accept, Refuse, Lose
<1>4. ASSUME NEW b \in Backends, NEW e \in Events
      PROVE  \/ held'[b][e] = held[b][e]
             \/ b = m.backend /\ e = m.event /\ held'[b][e] = m.record
  BY <1>1, <1>3
<1>5. HeldIsQueued'
  BY <1>1, <1>4 DEF OrderInv, HeldIsQueued
<1>6. \A b \in Backends, e \in Events : held[b][e] # Nothing => held'[b][e] # Nothing
  BY <1>1, <1>4
<1>7. RunsInOrder'
  BY <1>1, <1>2, <1>6 DEF OrderInv, RunsInOrder
<1>8. \A x \in network : x.backend \in Backends
  BY DEF StoredInv, DeliveryInv, DeliveryTypes
<1>9. RequestsInOrder'
  BY <1>1, <1>6, <1>8 DEF OrderInv, RequestsInOrder, EarlierHeld
<1>10. HeldInOrder'
  BY <1>1, <1>4, <1>6 DEF OrderInv, RequestsInOrder, EarlierHeld, HeldInOrder
<1> QED
  BY <1>5, <1>7, <1>9, <1>10 DEF OrderInv

-----------------------------------------------------------------------------

HistoryInv == StoredInv /\ OrderInv

LEMMA NextContinues ==
  ASSUME \A v, w \in Wizards : v = w, ~CaseMayBeDeleted, HistoryInv, [Next]_vars
  PROVE  HistoryInv'
<1>1. DeliveryInv'
  BY NextDelivery DEF HistoryInv, StoredInv
<1>2. ASSUME NEW w \in Wizards, Wizard(w)
      PROVE  HistoryInv'
  <2>1. StoredInv' /\ LaterRows /\ UNCHANGED <<pusher, network, held>>
    BY <1>1, <1>2, WizardContinues DEF HistoryInv
  <2>2. QueuedIsKept
    <3>1. DeliveryInv
      BY DEF HistoryInv, StoredInv
    <3>2. ASSUME NEW backends \in Configurations, SaveRecord(w, backends)
          PROVE  QueuedIsKept
      BY <3>1, <3>2, SaveRecordKeepsRows
    <3> QED
      BY <1>2, <3>2 DEF Wizard, BeginSeal, LoadRecord, MakeRecord, CompleteSeal,
         CompletionFails, LeaveWizard, QueuedIsKept
  <2> QED
    BY <1>1, <2>1, <2>2, LaterRowsKeepOrder DEF HistoryInv
<1>3. ASSUME UNCHANGED <<local, wizard, queued>>
      PROVE  StoredInv'
  BY <1>1, <1>3 DEF HistoryInv, StoredInv, StoredWhenSaved, QueuedContinue
<1>4. ASSUME NEW p \in Pushers, Pusher(p)
      PROVE  HistoryInv'
  <2>1. UNCHANGED <<local, wizard, queued>>
    BY <1>4 DEF Pusher, ListPending, SkipGroup, Send, RecordSuccess, RecordFailure,
       StopPushing, desktop
  <2> QED
    BY <1>3, <1>4, <2>1, PusherInOrder DEF HistoryInv
<1>5. ASSUME NEW m \in network, Accept(m) \/ Refuse(m) \/ Lose(m)
      PROVE  HistoryInv'
  <2>1. UNCHANGED <<local, wizard, queued>>
    BY <1>5 DEF Accept, Refuse, Lose, desktop
  <2> QED
    BY <1>3, <1>5, <2>1, AnswersInOrder DEF HistoryInv
<1>6. CASE UNCHANGED vars
  BY <1>3, <1>6 DEF vars, HistoryInv, OrderInv, HeldIsQueued, RunsInOrder, RequestsInOrder,
     EarlierHeld, HeldInOrder
<1>7. CASE DeleteCase
  BY <1>7 DEF DeleteCase
<1> QED
  BY <1>2, <1>4, <1>5, <1>6, <1>7 DEF Next

(* With one application and no case deleted, what the backends hold of a   *)
(* seal is one history: no record overtakes an earlier one, and of two the *)
(* later continues the earlier, for any number of runs, backends and       *)
(* configurations, with answers late, lost or repeated.                    *)
THEOREM HeldStaysOneHistory ==
  ASSUME \A v, w \in Wizards : v = w, ~CaseMayBeDeleted
  PROVE  Spec => []HeldIsOneHistory
<1>1. ASSUME Init
      PROVE  HistoryInv
  <2>1. DeliveryInv
    BY <1>1, InitDelivery
  <2>2. Closed.stage = "closed" /\ Resting.stage = "resting" /\ Resting.todo = {}
    BY DEF Closed, Resting
  <2>3. StoredInv
    BY <1>1, <2>1, <2>2 DEF Init, StoredInv, StoredWhenSaved, QueuedContinue
  <2>4. OrderInv
    BY <1>1, <2>2 DEF Init, OrderInv, HeldIsQueued, RunsInOrder, RequestsInOrder, HeldInOrder
  <2> QED
    BY <2>3, <2>4 DEF HistoryInv
<1>2. HistoryInv /\ [Next]_vars => HistoryInv'
  BY NextContinues
<1>3. ASSUME HistoryInv
      PROVE  HeldIsOneHistory
  <2>1. ASSUME NEW b \in Backends, NEW c \in Backends, NEW e \in Events, NEW f \in Events,
               e <= f, held[b][e] # Nothing, held[c][f] # Nothing
        PROVE  IsPrefix(held[b][e], held[c][f])
    <3>1. /\ held[b][e] = queued[b][e] /\ held[c][f] = queued[c][f]
          /\ held[b][e] \in Histories /\ held[c][f] \in Histories /\ local \in Histories
      BY <1>3, <2>1 DEF HistoryInv, OrderInv, HeldIsQueued, StoredInv, DeliveryInv, DeliveryTypes
    <3>2. /\ Len(held[b][e]) = e /\ IsPrefix(held[b][e], local)
          /\ Len(held[c][f]) = f /\ IsPrefix(held[c][f], local)
      BY <1>3, <2>1, <3>1 DEF HistoryInv, StoredInv, QueuedContinue
    <3> QED
      BY <2>1, <3>1, <3>2, ShorterIsPrefix
  <2> QED
    BY <1>3, <2>1 DEF HistoryInv, OrderInv, HeldIsOneHistory, HeldContinues
<1> QED
  BY <1>1, <1>2, <1>3, PTL DEF Spec

===============================================================================
