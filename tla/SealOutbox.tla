----------------------------- MODULE SealOutbox -----------------------------
(***************************************************************************)
(* One seal on one desktop: the wizards that seal, unseal and reseal it,   *)
(* the stored record they replace, the outbox rows they queue with it, the *)
(* runs that push the rows to the backends, and what the backends hold.    *)
(*                                                                         *)
(* A record is the sequence of its history events; an event is the stamp   *)
(* it was made with.  The number of a record's last event is its length,   *)
(* and a row of the outbox belongs to that number and a backend.           *)
(***************************************************************************)
EXTENDS Integers, Sequences, FiniteSets, SequencesExt

CONSTANTS
  Wizards,          \* wizard processes
  Pushers,          \* runs of push_pending, of a wizard or the command line
  Backends,         \* numbers, in the order of the backends' names
  Connections,      \* names of HTTP exchanges
  Configurations,   \* sets of backends a process may find configured
  CaseMayBeDeleted, \* whether the case may be deleted from the database
  MaxStamps         \* bound: events made

ASSUME OutboxAssumption ==
  /\ Backends \subseteq Nat
  /\ Connections \subseteq Nat \ {0}
  /\ Configurations \subseteq SUBSET Backends
  /\ CaseMayBeDeleted \in BOOLEAN
  /\ MaxStamps \in Nat

VARIABLES
  local,    \* the stored record of the seal, <<>> without a row
  files,    \* record files written so far
  stamps,   \* events made so far
  wizard,   \* what each wizard holds
  queued,   \* backend -> event number -> record of the row, or <<>>
  sent,     \* the rows marked as sent
  pusher,   \* what each push run holds
  network,  \* requests on their way
  held      \* backend -> event number -> record the backend stored, or <<>>

desktop == <<local, files, stamps, wizard, queued, sent>>
vars == <<local, files, stamps, wizard, queued, sent, pusher, network, held>>

-----------------------------------------------------------------------------
Events == 1 .. MaxStamps
Nothing == <<>>
Placeholder == <<0>>   \* a row without a record; no history continues it

Closed == [stage |-> "closed", unseals |-> FALSE, base |-> Nothing,
           record |-> Nothing]
NoRow == <<0, 0>>
Resting == [stage |-> "resting", todo |-> {}, row |-> NoRow, connection |-> 0,
            answer |-> "none"]

Init ==
  /\ local = Nothing
  /\ files = {}
  /\ stamps = 0
  /\ wizard = [w \in Wizards |-> Closed]
  /\ queued = [b \in Backends |-> [e \in Events |-> Nothing]]
  /\ sent = {}
  /\ pusher = [p \in Pushers |-> Resting]
  /\ network = {}
  /\ held = [b \in Backends |-> [e \in Events |-> Nothing]]

-----------------------------------------------------------------------------
(* The wizards.                                                             *)

(* The history rule: a stored record may only be replaced by one whose     *)
(* first events are its own.  Without a stored record anything goes.       *)
ContinuesSeal(record) ==   \* mutant: only the first event is compared
  \A e \in DOMAIN local : e = 1 => record[e] = local[e]

Continues(record) == IsPrefix(local, record)

(* S1: a new seal; its identifier was drawn for this wizard alone. *)
BeginSeal(w) ==
  /\ wizard[w] = Closed
  /\ stamps = 0
  /\ \A v \in Wizards : wizard[v] = Closed
  /\ wizard' = [wizard EXCEPT ![w].stage = "working"]
  /\ UNCHANGED <<local, files, stamps, queued, sent, pusher, network, held>>

(* U3, R1: a record file is loaded to unseal or reseal from.  Without a     *)
(* stored record, or with a row that has none, it is not compared.         *)
LoadRecord(w, base, unseals) ==
  /\ wizard[w] = Closed
  /\ local = Placeholder \/ Continues(base)
  /\ wizard' = [wizard EXCEPT ![w] = [stage |-> "working", unseals |-> unseals,
                                      base |-> base, record |-> Nothing]]
  /\ UNCHANGED <<local, files, stamps, queued, sent, pusher, network, held>>

(* S5, U6, R6: the new record is written to a file.  When the step or, at a *)
(* sealing, a later one fails, a retry makes another record.               *)
MakeRecord(w, complete) ==
  /\ wizard[w].stage = "working"
  /\ wizard[w].record = Nothing \/ wizard[w].base = Nothing
  /\ stamps < MaxStamps
  /\ LET record == Append(wizard[w].base, stamps + 1)
     IN  /\ files' = files \cup {record}
         /\ wizard' = [wizard EXCEPT ![w].record = IF complete THEN record
                                                   ELSE Nothing]
  /\ stamps' = stamps + 1
  /\ UNCHANGED <<local, queued, sent, pusher, network, held>>

(* A row of the same event that holds another record refuses the save. *)
Conflicts(record, backends) ==
  \E b \in backends : queued[b][Len(record)] \notin {Nothing, record}

(* S7, U7, R8: one transaction checks the history, replaces the stored     *)
(* record and queues it.  If anything is refused it rolls back.  U7 runs   *)
(* each time its page is shown.                                            *)
SaveRecord(w, backends) ==
  LET record == wizard[w].record
  IN  /\ record # Nothing
      /\ wizard[w].stage = "working" \/ wizard[w].unseals
      /\ Continues(record)
      /\ ~Conflicts(record, backends)
      /\ local' = record
      /\ queued' = [b \in Backends |->
           IF b \in backends
           THEN [queued[b] EXCEPT ![Len(record)] = record]
           ELSE queued[b]]
      /\ wizard' = [wizard EXCEPT ![w].stage = "saved"]
      /\ UNCHANGED <<files, stamps, sent, pusher, network, held>>

(* A saved sealing is completed: the case columns are updated, and the     *)
(* stored record with them, without a check.                               *)
CompleteSeal(w) ==
  /\ wizard[w].base = Nothing
  /\ wizard[w].stage = "saved"
  /\ local' = wizard[w].record
  /\ wizard' = [wizard EXCEPT ![w] = Closed]
  /\ UNCHANGED <<files, stamps, queued, sent, pusher, network, held>>

CompletionUpdates(w) ==   \* mutant: as for a sealing, also when not saved
  /\ wizard[w].base # Nothing
  /\ wizard[w].record # Nothing
  /\ wizard[w].stage = "saved" \/ wizard[w].unseals
  /\ local' = wizard[w].record
  /\ wizard' = [wizard EXCEPT ![w] = Closed]
  /\ UNCHANGED <<files, stamps, queued, sent, pusher, network, held>>

(* Completing an unsealing, saved or not, or a saved resealing fails: the   *)
(* investigator is text there, and the columns are read as of a sealing.   *)
(* A seal without a row is left with one that has no record.               *)
CompletionFails(w) ==
  /\ wizard[w].base # Nothing
  /\ wizard[w].record # Nothing
  /\ wizard[w].stage = "saved" \/ wizard[w].unseals
  /\ local = Nothing
  /\ local' = Placeholder
  /\ UNCHANGED <<files, stamps, wizard, queued, sent, pusher, network, held>>

(* The wizard is left, its save has failed, or its process ends. *)
LeaveWizard(w) ==
  /\ wizard[w] # Closed
  /\ wizard' = [wizard EXCEPT ![w] = Closed]
  /\ UNCHANGED <<local, files, stamps, queued, sent, pusher, network, held>>

(* The case manager deletes the row; files and outbox stay. *)
DeleteCase ==
  /\ CaseMayBeDeleted
  /\ local # Nothing
  /\ local' = Nothing
  /\ UNCHANGED <<files, stamps, wizard, queued, sent, pusher, network, held>>

-----------------------------------------------------------------------------
(* The push runs.  A run reads the pending rows once, per backend in event *)
(* order, and leaves a backend's rows at the first that fails.  A wizard   *)
(* starts one after its save; the command line starts one on demand.       *)

Rows == {<<b, e>> : b \in Backends, e \in Events}

PendingNewest ==   \* mutant: only the newest row of a backend
  {row \in Rows : /\ queued[row[1]][row[2]] # Nothing /\ row \notin sent
                  /\ \A e \in Events : e > row[2] => queued[row[1]][e] = Nothing}

Pending == {row \in Rows : queued[row[1]][row[2]] # Nothing /\ row \notin sent}

IsFirst(row, todo) ==
  \A other \in todo \ {row} :
    \/ row[1] < other[1]
    \/ row[1] = other[1] /\ row[2] < other[2]

(* The run goes on with the first of the rows left, or ends. *)
Proceed(p, todo) ==
  \/ todo = {} /\ pusher' = [pusher EXCEPT ![p] = Resting]
  \/ \E row \in todo :
       /\ IsFirst(row, todo)
       /\ pusher' = [pusher EXCEPT ![p] =
            [stage |-> "pushing", todo |-> todo, row |-> row,
             connection |-> 0, answer |-> "none"]]

WithoutGroup(todo, failed) == {row \in todo : row[1] # failed[1]}

ListPending(p) ==
  /\ pusher[p] = Resting
  /\ Pending # {}
  /\ Proceed(p, Pending)
  /\ UNCHANGED <<desktop, network, held>>

(* The rows of a backend that is not configured in this process stay. *)
SkipGroup(p, backends) ==
  /\ pusher[p].stage = "pushing"
  /\ pusher[p].row[1] \notin backends
  /\ Proceed(p, WithoutGroup(pusher[p].todo, pusher[p].row))
  /\ UNCHANGED <<desktop, network, held>>

(* The body of a row: its record, under the number of its last event. *)
Request(c, row) ==
  [connection |-> c, backend |-> row[1], event |-> row[2],
   record |-> queued[row[1]][row[2]]]

Send(p, c) ==
  LET row == pusher[p].row
  IN  /\ pusher[p].stage = "pushing"
      /\ \A m \in network : m.connection # c
      /\ \A q \in Pushers : pusher[q].connection # c
      /\ network' = network \cup {Request(c, row)}
      /\ pusher' = [pusher EXCEPT ![p].stage = "waiting", ![p].connection = c]
      /\ UNCHANGED <<desktop, held>>

RecordAnswer(p) ==   \* mutant: every answer counts as an acknowledgement
  /\ pusher[p].stage = "waiting"
  /\ pusher[p].answer # "none"
  /\ sent' = sent \cup {pusher[p].row}
  /\ Proceed(p, pusher[p].todo \ {pusher[p].row})
  /\ UNCHANGED <<local, files, stamps, wizard, queued, network, held>>

Acknowledged(p) == pusher[p].stage = "waiting" /\ pusher[p].answer = "ok"

RecordSuccess(p) ==
  /\ Acknowledged(p)
  /\ sent' = sent \cup {pusher[p].row}
  /\ Proceed(p, pusher[p].todo \ {pusher[p].row})
  /\ UNCHANGED <<local, files, stamps, wizard, queued, network, held>>

(* Nothing goes out: no usable key or secret, an address that is not safe, *)
(* or a record outside the backend's contract.                             *)
NotSent(p) == pusher[p].stage = "pushing"

(* No answer in time, a refusal, or an answer that acknowledges nothing. *)
NotAcknowledged(p) == pusher[p].stage = "waiting" /\ pusher[p].answer # "ok"

(* The row keeps its status, and its backend's later rows wait with it. *)
RecordFailure(p) ==
  /\ NotSent(p) \/ NotAcknowledged(p)
  /\ Proceed(p, WithoutGroup(pusher[p].todo, pusher[p].row))
  /\ UNCHANGED <<desktop, network, held>>

(* The process ends, or the outcome cannot be written. *)
StopPushing(p) ==
  /\ pusher[p] # Resting
  /\ pusher' = [pusher EXCEPT ![p] = Resting]
  /\ UNCHANGED <<desktop, network, held>>

-----------------------------------------------------------------------------
(* The backends, and the network between.  A backend stores a record for an *)
(* event that has none, acknowledges the one it holds, and may refuse; the *)
(* answer reaches the run that still waits for it, or is lost.             *)

Answered(m, answer) ==
  \/ UNCHANGED pusher
  \/ \E p \in Pushers :
       /\ pusher[p].connection = m.connection
       /\ pusher' = [pusher EXCEPT ![p].answer = answer]

Accept(m) ==
  /\ held[m.backend][m.event] \in {Nothing, m.record}
  /\ held' = [held EXCEPT ![m.backend][m.event] = m.record]
  /\ network' = network \ {m}
  /\ Answered(m, "ok")
  /\ UNCHANGED desktop

Refuse(m) ==
  /\ network' = network \ {m}
  /\ Answered(m, "refused")
  /\ UNCHANGED <<desktop, held>>

Lose(m) ==
  /\ network' = network \ {m}
  /\ UNCHANGED <<desktop, pusher, held>>

-----------------------------------------------------------------------------
Wizard(w) ==
  \/ BeginSeal(w)
  \/ \E base \in files, unseals \in BOOLEAN : LoadRecord(w, base, unseals)
  \/ \E complete \in BOOLEAN : MakeRecord(w, complete)
  \/ \E backends \in Configurations : SaveRecord(w, backends)
  \/ CompleteSeal(w)
  \/ CompletionFails(w)
  \/ LeaveWizard(w)

Pusher(p) ==
  \/ ListPending(p)
  \/ \E backends \in Configurations : SkipGroup(p, backends)
  \/ \E c \in Connections : Send(p, c)
  \/ RecordSuccess(p)
  \/ RecordFailure(p)
  \/ StopPushing(p)

Next ==
  \/ \E w \in Wizards : Wizard(w)
  \/ DeleteCase
  \/ \E p \in Pushers : Pusher(p)
  \/ \E m \in network : Accept(m) \/ Refuse(m) \/ Lose(m)

Spec == Init /\ [][Next]_vars

(* An operator who keeps retrying, runs that are not always stopped, a     *)
(* time limit on every request, requests that do not stay on their way for *)
(* ever, and a backend that answers in time again and again.               *)
AnsweredInTime(p, b) ==
  \E m \in network :
    /\ m.backend = b
    /\ Accept(m)
    /\ pusher[p].connection = m.connection
    /\ pusher'[p].answer = "ok"

Arrives(c) ==
  \E m \in network : m.connection = c /\ (Accept(m) \/ Refuse(m) \/ Lose(m))

FairSpec ==
  /\ Spec
  /\ \A c \in Connections : WF_vars(Arrives(c))
  /\ \A p \in Pushers :
       /\ WF_vars(ListPending(p))
       /\ SF_vars(\E c \in Connections : Send(p, c))
       /\ SF_vars(RecordSuccess(p))
       /\ WF_vars(RecordFailure(p))
       /\ \A b \in Backends : SF_vars(AnsweredInTime(p, b))

-----------------------------------------------------------------------------
(* A row is marked as sent only when the backend holds its record: through *)
(* lost answers, late requests, runs that overlap or end in the middle.    *)
SentIsHeld ==
  \A row \in sent : held[row[1]][row[2]] = queued[row[1]][row[2]]

HeldInOrder ==
  \A b \in Backends, e, f \in Events :
    (f < e /\ held[b][e] # Nothing /\ queued[b][f] # Nothing) =>
      held[b][f] # Nothing

HeldContinues ==
  \A b, c \in Backends, e, f \in Events :
    (e <= f /\ held[b][e] # Nothing /\ held[c][f] # Nothing) =>
      IsPrefix(held[b][e], held[c][f])

(* What the backends hold of a seal is one history: no record overtakes (a *)
(* backend that holds an event holds every earlier one queued for it), and *)
(* of two records the later continues the earlier, whatever files the      *)
(* wizards had loaded, whichever backends were configured when a record    *)
(* was saved, and however pushes overlap.                                  *)
HeldIsOneHistory == HeldInOrder /\ HeldContinues

(* Where every process has the backends configured, the stored record is   *)
(* one that was queued for each: record and delivery intent are one save,   *)
(* also after the case was deleted and its seal continued from a file.     *)
StoredRecordIsQueued ==
  local \notin {Nothing, Placeholder} =>
    \A b \in Backends : queued[b][Len(local)] = local

(* Everything that was queued is eventually marked as sent: no refused or  *)
(* lost row blocks the queue for good.                                     *)
EverythingIsDelivered ==
  \A b \in Backends, e \in Events :
    queued[b][e] # Nothing ~> <<b, e>> \in sent

=============================================================================
