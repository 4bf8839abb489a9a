---------------------------- MODULE SchemaUpgrade ----------------------------
(***************************************************************************)
(* Start-up of the release host on a database of an earlier version: the   *)
(* missing tables and columns (web/models/db_models.py, migrations.py),    *)
(* then the table key_shares, whose slots hold one share per generation    *)
(* since that column exists (web/models/share_schema.py).  SQLite rebuilds *)
(* the table in one transaction, MariaDB changes it in three statements.   *)
(*                                                                         *)
(* Every process does this at each start, so one may start while another   *)
(* does or while others already serve uploads and removals, and each may   *)
(* stop anywhere.  All processes reach the one database that is            *)
(* configured, and run this version.                                       *)
(***************************************************************************)
EXTENDS Naturals, FiniteSets, FiniteSetsExt

CONSTANTS
  Starters,          \* processes of the release host
  AddedColumns,      \* columns added to the other tables since
  ShareSlots, ShareGenerations,
  Engines,           \* the databases to run on: "sqlite", "mariadb"
  MaxShareIds        \* bound: row ids of key_shares

ASSUME UpgradeAssumption ==
  /\ IsFiniteSet(ShareSlots) /\ 0 \in ShareGenerations
  /\ "nobody" \notin Starters
  /\ Engines \subseteq {"sqlite", "mariadb"}
  /\ MaxShareIds \in Nat /\ Cardinality(ShareSlots) <= MaxShareIds

VARIABLES
  engine,
  columns,       \* the columns added so far
  shareTable,    \* key_shares: its column, unique keys and rows
  lastShareId,   \* the AUTOINCREMENT position
  rebuilder,     \* who holds SQLite's write lock to rebuild, or NoStarter
  starter,       \* where each process is
  everStored,    \* history: the shares stored, those since removed among them
  removed        \* history

upgradeVars ==
  <<engine, columns, shareTable, lastShareId, rebuilder, starter, everStored, removed>>

-----------------------------------------------------------------------------
NoStarter == "nobody"
NoTable == [exists |-> FALSE, versioned |-> FALSE, keys |-> {}, rows |-> {}]
Table(versioned, keys, rows) ==
  [exists |-> TRUE, versioned |-> versioned, keys |-> keys, rows |-> rows]

Share(id, slot, generation, number) ==
  [id |-> id, slot |-> slot, generation |-> generation, number |-> number]

Down == [at |-> "down", todo |-> {}]

(* A slot held one share then; some of them are gone again. *)
EarlierShares ==
  LET slots == Cardinality(ShareSlots)
  IN {f \in [ShareSlots -> 1 .. slots] : \A s, t \in ShareSlots : f[s] = f[t] => s = t}

UpgradeInit ==
  /\ engine \in Engines
  /\ rebuilder = NoStarter
  /\ starter = [w \in Starters |-> Down]
  /\ columns = {}
  /\ \/ /\ shareTable = NoTable /\ lastShareId = 0
        /\ everStored = {} /\ removed = {}
     \/ /\ \E ids \in EarlierShares :
             everStored = {Share(ids[s], s, 0, ids[s]) : s \in ShareSlots}
        /\ lastShareId = Cardinality(ShareSlots)
        /\ removed \in SUBSET everStored
        /\ shareTable = Table(FALSE, {"slot"}, everStored \ removed)

-----------------------------------------------------------------------------
Stands(w, place) == starter[w].at = place
Passes(w, place) == starter' = [starter EXCEPT ![w].at = place]
WriteLockIsFree == rebuilder = NoStarter
Database == <<columns, shareTable, lastShareId, rebuilder, everStored, removed>>

(* CREATE TABLE IF NOT EXISTS: what is missing is made in today's form. *)
CreateSchema(w) ==
  /\ Stands(w, "down") /\ WriteLockIsFree
  /\ IF shareTable.exists THEN UNCHANGED <<columns, shareTable>>
     ELSE /\ columns' = AddedColumns
          /\ shareTable' = Table(TRUE, {"generation"}, {})
  /\ starter' = [starter EXCEPT ![w] = [at |-> "columns", todo |-> AddedColumns]]
  /\ UNCHANGED <<engine, lastShareId, rebuilder, everStored, removed>>

(* SQLite asks for the column first, and adds it in a statement of its own; *)
(* "duplicate column" is another process that added it in between.         *)
FindColumn(w, c) ==
  /\ Stands(w, "columns") /\ engine = "sqlite"
  /\ c \in starter[w].todo
  /\ starter' = [starter EXCEPT ![w] =
       IF c \in columns THEN [starter[w] EXCEPT !.todo = @ \ {c}]
       ELSE [at |-> "add column", todo |-> starter[w].todo]]
  /\ UNCHANGED <<engine, Database>>

AddColumn(w, c) ==
  /\ c \in starter[w].todo
  /\ \/ Stands(w, "add column") /\ WriteLockIsFree
     \/ Stands(w, "columns") /\ engine = "mariadb"
  /\ columns' = columns \union {c}
  /\ starter' = [starter EXCEPT ![w] = [at |-> "columns", todo |-> @.todo \ {c}]]
  /\ UNCHANGED <<engine, shareTable, lastShareId, rebuilder, everStored, removed>>

ColumnsDone(w) ==
  /\ Stands(w, "columns") /\ starter[w].todo = {}
  /\ Passes(w, "shares")
  /\ UNCHANGED <<engine, Database>>

-----------------------------------------------------------------------------
(* SQLite: the table is rebuilt, unless it has the column.                  *)

HasGeneration == shareTable.versioned

LooksAtShares(w) ==
  /\ Stands(w, "shares") /\ engine = "sqlite"
  /\ Passes(w, IF HasGeneration THEN "serving" ELSE "begin")
  /\ UNCHANGED <<engine, Database>>

(* Mutant: what was read before the lock is trusted. *)
RebuildsAnyway == TRUE

(* Asked again under the lock. *)
NotRebuiltMeanwhile == ~HasGeneration

BeginRebuild(w) ==
  /\ Stands(w, "begin") /\ WriteLockIsFree
  /\ IF NotRebuiltMeanwhile THEN rebuilder' = w /\ Passes(w, "rebuild")
     ELSE UNCHANGED rebuilder /\ Passes(w, "serving")
  /\ UNCHANGED <<engine, columns, shareTable, lastShareId, everStored, removed>>

(* The rows with their ids, of generation 0. *)
Copied(rows) == {[row EXCEPT !.generation = 0] : row \in rows}

(* Mutant: the new table counts on from its largest id. *)
PositionOfRows(rows) == Max({row.id : row \in rows} \union {0})

(* The sequence is the old table's, also when its last rows are gone. *)
CarriedPosition(rows) == Max({row.id : row \in rows} \union {lastShareId})

CommitRebuild(w) ==
  /\ Stands(w, "rebuild")
  /\ LET rows == Copied(shareTable.rows)
     IN /\ shareTable' = Table(TRUE, {"generation"}, rows)
        /\ lastShareId' = CarriedPosition(rows)
  /\ rebuilder' = NoStarter
  /\ Passes(w, "serving")
  /\ UNCHANGED <<engine, columns, everStored, removed>>

-----------------------------------------------------------------------------
(* MariaDB: three statements, each nothing once it is done.                 *)

Alters(w, place, next, table) ==
  /\ Stands(w, place) /\ engine = "mariadb"
  /\ shareTable' = table
  /\ Passes(w, next)
  /\ UNCHANGED <<engine, columns, lastShareId, rebuilder, everStored, removed>>

AddGeneration(w) ==
  Alters(w, "shares", "new key", [shareTable EXCEPT !.versioned = TRUE])

AddGenerationKey(w) ==
  Alters(w, "new key", "old key", [shareTable EXCEPT !.keys = @ \union {"generation"}])

DropSlotKey(w) ==
  Alters(w, "old key", "serving", [shareTable EXCEPT !.keys = @ \ {"slot"}])

-----------------------------------------------------------------------------
(* The start fails, the process ends, or it is stopped: a transaction that  *)
(* is open rolls back.                                                     *)
StopHost(w) ==
  /\ ~Stands(w, "down")
  /\ starter' = [starter EXCEPT ![w] = Down]
  /\ rebuilder' = IF rebuilder = w THEN NoStarter ELSE rebuilder
  /\ UNCHANGED <<engine, columns, shareTable, lastShareId, everStored, removed>>

(* What a process that serves does with shares. *)
StoreUpload(w, slot, generation) ==
  LET share == Share(lastShareId + 1, slot, generation, Cardinality(everStored) + 1)
  IN /\ Stands(w, "serving") /\ WriteLockIsFree
     /\ lastShareId < MaxShareIds
     /\ ~\E row \in shareTable.rows : row.slot = slot /\ row.generation = generation
     /\ shareTable' = [shareTable EXCEPT !.rows = @ \union {share}]
     /\ lastShareId' = share.id
     /\ everStored' = everStored \union {share}
     /\ UNCHANGED <<engine, columns, rebuilder, starter, removed>>

RemoveUpload(w, row) ==
  /\ Stands(w, "serving") /\ WriteLockIsFree
  /\ row \in shareTable.rows
  /\ shareTable' = [shareTable EXCEPT !.rows = @ \ {row}]
  /\ removed' = removed \union {row}
  /\ UNCHANGED <<engine, columns, lastShareId, rebuilder, starter, everStored>>

Upgrade(w) ==
  \/ CreateSchema(w)
  \/ \E c \in AddedColumns : FindColumn(w, c) \/ AddColumn(w, c)
  \/ ColumnsDone(w)
  \/ LooksAtShares(w) \/ BeginRebuild(w) \/ CommitRebuild(w)
  \/ AddGeneration(w) \/ AddGenerationKey(w) \/ DropSlotKey(w)
  \/ StopHost(w)

Serving(w) ==
  \/ \E slot \in ShareSlots, generation \in ShareGenerations :
       StoreUpload(w, slot, generation)
  \/ \E row \in shareTable.rows : RemoveUpload(w, row)

UpgradeNext == \E w \in Starters : Upgrade(w) \/ Serving(w)

UpgradeSpec == UpgradeInit /\ [][UpgradeNext]_upgradeVars

-----------------------------------------------------------------------------
(* Properties. *)

(* The lock is held by the process that rebuilds, and only an SQLite table  *)
(* is rebuilt.                                                             *)
UpgradeTypeOK ==
  /\ columns \subseteq AddedColumns
  /\ shareTable.keys \subseteq {"slot", "generation"}
  /\ lastShareId \in 0 .. MaxShareIds
  /\ rebuilder \in Starters \union {NoStarter}
  /\ \A w \in Starters : Stands(w, "rebuild") <=> rebuilder = w
  /\ rebuilder # NoStarter => engine = "sqlite"

(* A process that serves finds every column, and a slot takes a share of   *)
(* each generation, however many started, failed or stopped before it.     *)
ServesOnNewSchema ==
  \A w \in Starters : Stands(w, "serving") =>
    /\ columns = AddedColumns
    /\ shareTable.versioned /\ shareTable.keys = {"generation"}

(* Every share stored and not removed keeps its id and its generation      *)
(* ("every existing row keeps its id and values", "new rows never reuse an *)
(* id the old table gave out", web/models/share_schema.py), so that what a *)
(* page shows by id is what a removal removes.                             *)
SharesSurviveUpgrade ==
  /\ shareTable.rows = everStored \ removed
  /\ \A s, t \in everStored : s.id = t.id => s = t
  /\ ServesOnNewSchema

=============================================================================
