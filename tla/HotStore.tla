------------------------------- MODULE HotStore -------------------------------
(***************************************************************************)
(* The metric_batches table of observe-hot.db and its archival             *)
(* (aggregator/store/store.go, aggregator/store/migrations.go).            *)
(*                                                                         *)
(* InsertBatch adds one row and starts a goroutine, archiveIfNeeded, that  *)
(* counts the table, copies it to a new file with VACUUM INTO and then     *)
(* deletes every row.  The three statements are three transactions:        *)
(* nothing holds the table between them, so inserts and the statements of  *)
(* other archivers come in between.  One statement is one step, because    *)
(* Open gives the pool a single connection (SetMaxOpenConns(1)).           *)
(***************************************************************************)
EXTENDS Integers, FiniteSets

CONSTANTS
  MaxEntries,  \* maxEntries: the size at which the table is archived
  Row,         \* what a row of metric_batches can hold
  MaxRows      \* bound of the model: how many rows are ever inserted

ASSUME MaxEntriesAssumption == MaxEntries \in Nat \ {0}

VARIABLES
  lastId,    \* the sqlite_sequence entry of the AUTOINCREMENT key
  rows,      \* rows[id]: what the row inserted under id holds
  hot,       \* the ids now in metric_batches of observe-hot.db
  archives,  \* archives[g]: the ids in the archive file archiver g completed
  archiver,  \* archiver[id]: the goroutine started by the insert of row id
  raced      \* history: ids inserted while some archiver stood between its
             \* VACUUM INTO and its DELETE

storeVars == <<lastId, rows, hot, archives, archiver, raced>>

\* An archiver is about to run one of its statements, or has returned: "done"
\* when it found the table small or cleared it, "aborted" when a statement
\* failed or the process died under it.
Live == {"count", "vacuum", "clear"}
ArchiverState == Live \cup {"done", "aborted"}

Init ==
  /\ lastId = 0
  /\ rows = [id \in {} |-> id]
  /\ hot = {}
  /\ archives = [g \in {} |-> {}]
  /\ archiver = [g \in {} |-> "done"]
  /\ raced = {}

Goroutines == DOMAIN archiver
Clearing == {g \in Goroutines : archiver[g] = "clear"}
Archived == UNION {archives[g] : g \in DOMAIN archives}

\* The function f with value v at x, whether or not x was in its domain.
Put(f, x, v) == [y \in DOMAIN f \cup {x} |-> IF y = x THEN v ELSE f[y]]

------------------------------------------------------------------------------
(* Faulty variants of the definitions below, one plausible bug each; the   *)
(* properties are checked to notice them.                                  *)

\* A plain INTEGER PRIMARY KEY takes one more than the largest id in use.
NextIdReused == IF hot = {} THEN 1 ELSE 1 + CHOOSE m \in hot : \A x \in hot : x <= m

\* The table is left alone as long as it has not outgrown maxEntries by one.
TableFullOffByOne == Cardinality(hot) > MaxEntries

\* The statements in the other order: the table is cleared by an archiver
\* that copies nothing, the failure of VACUUM INTO being ignored.
ArchiveVacuumIgnoringError(g) ==
  /\ archiver[g] = "vacuum"
  /\ archiver' = [archiver EXCEPT ![g] = "clear"]
  /\ archives' = archives \/ archives' = Put(archives, g, hot)
  /\ UNCHANGED <<lastId, rows, hot, raced>>

\* The goroutine is started before the INSERT instead of after it.
InsertBatchLate(row) ==
  /\ lastId' = lastId + 1
  /\ rows' = Put(rows, lastId + 1, row)
  /\ hot' = hot \cup {lastId + 1}
  /\ archiver' = Put(archiver, lastId + 1,
                     IF Cardinality(hot) < MaxEntries THEN "done" ELSE "vacuum")
  /\ raced' = IF Clearing # {} THEN raced \cup {lastId + 1} ELSE raced
  /\ UNCHANGED archives
------------------------------------------------------------------------------

NextId == lastId + 1
TableFull == Cardinality(hot) >= MaxEntries

(* InsertBatch: INSERT INTO metric_batches, then `go s.archiveIfNeeded()`.  *)
(* A failing INSERT returns before anything changed and is no step here.    *)
InsertBatch(row) ==
  /\ lastId' = NextId
  /\ rows' = Put(rows, NextId, row)
  /\ hot' = hot \cup {NextId}
  /\ archiver' = Put(archiver, NextId, "count")
  /\ raced' = IF Clearing # {} THEN raced \cup {NextId} ELSE raced
  /\ UNCHANGED archives

(* SELECT COUNT( * ): the archiver returns when the table is below         *)
(* MaxEntries, and only then.                                              *)
ArchiveCount(g) ==
  /\ archiver[g] = "count"
  /\ archiver' = [archiver EXCEPT ![g] = IF TableFull THEN "vacuum" ELSE "done"]
  /\ UNCHANGED <<lastId, rows, hot, archives, raced>>

(* VACUUM INTO 'observe-archive-<nanoseconds>.db': the file of archiver g   *)
(* holds what the table holds now.                                          *)
ArchiveVacuum(g) ==
  /\ archiver[g] = "vacuum"
  /\ archiver' = [archiver EXCEPT ![g] = "clear"]
  /\ archives' = Put(archives, g, hot)
  /\ UNCHANGED <<lastId, rows, hot, raced>>

(* DELETE FROM metric_batches: every row, whatever was inserted since.      *)
ArchiveClear(g) ==
  /\ archiver[g] = "clear"
  /\ archiver' = [archiver EXCEPT ![g] = "done"]
  /\ hot' = {}
  /\ UNCHANGED <<lastId, rows, archives, raced>>

(* A statement of the archiver fails (disk full, file exists, busy): it     *)
(* returns and nothing is tried again until the next insert.                *)
ArchiveFails(g) ==
  /\ archiver[g] \in Live
  /\ archiver' = [archiver EXCEPT ![g] = "aborted"]
  /\ UNCHANGED <<lastId, rows, hot, archives, raced>>

Archive(g) == ArchiveCount(g) \/ ArchiveVacuum(g) \/ ArchiveClear(g)

(* The process dies and is started again.  Open and migrate leave the rows  *)
(* of an existing table as they are; no archiver is resumed.  What a VACUUM *)
(* INTO had written of its file is not a usable archive.                    *)
CrashAndReopen ==
  /\ archiver' = [g \in Goroutines |-> IF archiver[g] \in Live THEN "aborted"
                                       ELSE archiver[g]]
  /\ UNCHANGED <<lastId, rows, hot, archives, raced>>

Insert == lastId < MaxRows /\ \E row \in Row : InsertBatch(row)

Next ==
  \/ Insert
  \/ \E g \in Goroutines : Archive(g)
  \/ \E g \in Goroutines : ArchiveFails(g)
  \/ CrashAndReopen

Spec == Init /\ [][Next]_storeVars

(* The Go scheduler runs every goroutine, and every statement gets the      *)
(* connection in the end because none keeps it.                             *)
FairSpec == Spec /\ \A g \in 1 .. MaxRows : WF_storeVars(g \in Goroutines /\ Archive(g))
------------------------------------------------------------------------------

TypeOK ==
  /\ lastId \in Nat
  /\ rows \in [1 .. lastId -> Row]
  /\ hot \subseteq 1 .. lastId
  /\ DOMAIN archives \subseteq 1 .. lastId
  /\ \A g \in DOMAIN archives : archives[g] \subseteq 1 .. lastId
  /\ archiver \in [1 .. lastId -> ArchiverState]
  /\ raced \subseteq 1 .. lastId

Lost == (1 .. lastId) \ (hot \cup Archived)

(* What the package comment of store.go says: the live data is vacuumed     *)
(* into an archive and the hot table is cleared, so that a row that was     *)
(* stored is in the one or in the other.  archiveIfNeeded does not keep it. *)
NothingLost == Lost = {}

(* A row in neither place was inserted between the VACUUM INTO and the      *)
(* DELETE of some archiver: no other interleaving of inserts, archivers,    *)
(* failing statements and crashes loses a row.                              *)
LossOnlyInRace == Lost \subseteq raced

(* Once an archiver has cleared the table, no id of its archive is ever     *)
(* used again in the hot table: a reader that takes the rows of both never  *)
(* sees an id twice.  It rests on AUTOINCREMENT and on the DELETE.          *)
ClearedArchiveDisjoint ==
  \A g \in DOMAIN archives : archiver[g] = "done" => archives[g] \cap hot = {}

(* Once the archiver of the newest row has returned without an error the    *)
(* table is below MaxEntries again, however many archivers failed, died or  *)
(* overlapped before it.                                                    *)
NewestArchiverBounds ==
  lastId > 0 /\ archiver[lastId] = "done" => Cardinality(hot) < MaxEntries

(* A table that has reached MaxEntries is cleared, unless the newest        *)
(* archiver fails: then it stays full until the next insert.                *)
FullTableIsCleared ==
  Cardinality(hot) >= MaxEntries
    ~> (Cardinality(hot) < MaxEntries \/ archiver[lastId] = "aborted")
==============================================================================
