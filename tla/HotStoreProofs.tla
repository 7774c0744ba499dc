---------------------------- MODULE HotStoreProofs ----------------------------
(***************************************************************************)
(* HotStore's safety, for every MaxEntries, every set of row contents and  *)
(* any number of rows and archivers.                                       *)
(*                                                                         *)
(* None of the invariants is inductive alone.  LossOnlyInRace needs to     *)
(* know, before a DELETE, that the archiver's own file covers the table up *)
(* to raced rows (ClearCovers), and before a VACUUM INTO that it replaces  *)
(* no archive (ArchiveStage).                                              *)
(***************************************************************************)
EXTENDS HotStore, FiniteSetTheorems, TLAPS

(* An archiver has a file from its VACUUM INTO on and not before.           *)
ArchiveStage ==
  \A g \in Goroutines :
    /\ archiver[g] = "clear" => g \in DOMAIN archives
    /\ archiver[g] \in {"count", "vacuum"} => g \notin DOMAIN archives

(* What an archiver is about to delete is in its own file or was raced.     *)
ClearCovers == \A g \in Clearing : hot \subseteq archives[g] \cup raced

IInv ==
  /\ TypeOK
  /\ ArchiveStage
  /\ ClearCovers
  /\ LossOnlyInRace
  /\ ClearedArchiveDisjoint
  /\ NewestArchiverBounds

USE DEF Live, ArchiverState, Goroutines, Clearing, NextId

(* The table is finite, so that its size is a number.                       *)
LEMMA HotSize ==
  ASSUME TypeOK
  PROVE  IsFiniteSet(hot) /\ Cardinality(hot) \in Nat
<1>1. IsFiniteSet(1 .. lastId)
  BY FS_Interval DEF TypeOK
<1>2. IsFiniteSet(hot)
  BY <1>1, FS_Subset DEF TypeOK
<1> QED
  BY <1>2, FS_CardinalityType

(* No row was stored yet.                                                   *)
LEMMA InitIInv == Init => IInv
<1> SUFFICES ASSUME Init PROVE IInv
  OBVIOUS
<1>1. 1 .. lastId = {}
  BY DEF Init
<1>2. TypeOK
  BY <1>1 DEF Init, TypeOK
<1>3. ArchiveStage /\ ClearCovers /\ ClearedArchiveDisjoint
  BY DEF Init, ArchiveStage, ClearCovers, ClearedArchiveDisjoint
<1>4. LossOnlyInRace
  BY <1>1 DEF LossOnlyInRace, Lost
<1>5. NewestArchiverBounds
  BY DEF Init, NewestArchiverBounds
<1> QED
  BY <1>2, <1>3, <1>4, <1>5 DEF IInv

(* The insert: the new id is fresh, and raced when an archiver is clearing. *)
LEMMA InsertIInv ==
  ASSUME IInv, NEW row \in Row, InsertBatch(row)
  PROVE  IInv'
<1> USE DEF IInv
<1>1. /\ lastId' = lastId + 1
      /\ lastId \in Nat
      /\ hot' = hot \cup {lastId + 1}
      /\ archives' = archives
      /\ raced \subseteq raced'
      /\ 1 .. lastId' = (1 .. lastId) \cup {lastId + 1}
      /\ lastId + 1 \notin 1 .. lastId
  BY DEF InsertBatch, TypeOK
<1>2. /\ rows' \in [1 .. lastId' -> Row]
      /\ archiver' \in [1 .. lastId' -> ArchiverState]
      /\ archiver'[lastId + 1] = "count"
      /\ \A g \in 1 .. lastId : archiver'[g] = archiver[g]
      /\ DOMAIN archiver = 1 .. lastId
      /\ DOMAIN archiver' = (1 .. lastId) \cup {lastId + 1}
  <2>1. /\ rows' = Put(rows, lastId + 1, row)
        /\ archiver' = Put(archiver, lastId + 1, "count")
    BY DEF InsertBatch
  <2>2. DOMAIN rows = 1 .. lastId /\ DOMAIN archiver = 1 .. lastId
    BY DEF TypeOK
  <2>3. rows' \in [1 .. lastId' -> Row]
    BY <1>1, <2>1, <2>2 DEF Put, TypeOK
  <2>4. archiver' \in [1 .. lastId' -> ArchiverState]
    BY <1>1, <2>1, <2>2 DEF Put, TypeOK
  <2> QED
    BY <1>1, <2>1, <2>2, <2>3, <2>4 DEF Put
<1>3. TypeOK'
  <2>1. raced' \subseteq 1 .. lastId'
    BY <1>1 DEF InsertBatch, TypeOK
  <2> QED
    BY <1>1, <1>2, <2>1 DEF TypeOK
<1>4. ArchiveStage'
  BY <1>1, <1>2 DEF ArchiveStage, TypeOK
<1>5. ClearCovers'
  <2> SUFFICES ASSUME NEW g \in Clearing' PROVE hot' \subseteq archives'[g] \cup raced'
    BY DEF ClearCovers
  <2>1. g \in Clearing
    BY <1>2
  <2>2. lastId + 1 \in raced'
    BY <2>1 DEF InsertBatch
  <2> QED
    BY <1>1, <2>1, <2>2 DEF ClearCovers
<1>6. LossOnlyInRace'
  BY <1>1 DEF LossOnlyInRace, Lost, Archived
<1>7. ClearedArchiveDisjoint'
  BY <1>1, <1>2 DEF ClearedArchiveDisjoint, TypeOK
<1>8. NewestArchiverBounds'
  BY <1>1, <1>2 DEF NewestArchiverBounds
<1> QED
  BY <1>3, <1>4, <1>5, <1>6, <1>7, <1>8

(* The count: only the newest archiver's verdict matters for the bound.     *)
LEMMA CountIInv ==
  ASSUME IInv, NEW g \in Goroutines, ArchiveCount(g)
  PROVE  IInv'
<1> USE DEF IInv
<1>1. /\ archiver[g] = "count"
      /\ archiver' = [archiver EXCEPT ![g] = IF TableFull THEN "vacuum" ELSE "done"]
      /\ UNCHANGED <<lastId, rows, hot, archives, raced>>
  BY DEF ArchiveCount
<1>2. TypeOK'
  BY <1>1 DEF TypeOK
<1>3. ArchiveStage' /\ ClearCovers' /\ ClearedArchiveDisjoint'
  BY <1>1 DEF ArchiveStage, ClearCovers, ClearedArchiveDisjoint, TypeOK
<1>4. LossOnlyInRace'
  BY <1>1 DEF LossOnlyInRace, Lost, Archived
<1>5. NewestArchiverBounds'
  BY <1>1, HotSize, MaxEntriesAssumption DEF NewestArchiverBounds, TableFull, TypeOK
<1> QED
  BY <1>2, <1>3, <1>4, <1>5

(* The copy: it adds an archive and replaces none.                          *)
LEMMA VacuumIInv ==
  ASSUME IInv, NEW g \in Goroutines, ArchiveVacuum(g)
  PROVE  IInv'
<1> USE DEF IInv
<1>1. /\ archiver[g] = "vacuum"
      /\ archiver' = [archiver EXCEPT ![g] = "clear"]
      /\ archives' = Put(archives, g, hot)
      /\ UNCHANGED <<lastId, rows, hot, raced>>
  BY DEF ArchiveVacuum
<1>2. /\ g \notin DOMAIN archives
      /\ DOMAIN archives' = DOMAIN archives \cup {g}
      /\ archives'[g] = hot
      /\ \A q \in DOMAIN archives : archives'[q] = archives[q]
  BY <1>1 DEF ArchiveStage, Put
<1>3. TypeOK'
  BY <1>1, <1>2 DEF TypeOK
<1>4. ArchiveStage'
  BY <1>1, <1>2 DEF ArchiveStage, TypeOK
<1>5. ClearCovers'
  BY <1>1, <1>2 DEF ClearCovers, ArchiveStage, TypeOK
<1>6. LossOnlyInRace'
  BY <1>1, <1>2 DEF LossOnlyInRace, Lost, Archived
<1>7. ClearedArchiveDisjoint'
  BY <1>1, <1>2 DEF ClearedArchiveDisjoint, TypeOK
<1>8. NewestArchiverBounds'
  BY <1>1 DEF NewestArchiverBounds, TypeOK
<1> QED
  BY <1>3, <1>4, <1>5, <1>6, <1>7, <1>8

(* The delete: ClearCovers says what it takes out of the table.             *)
LEMMA ClearIInv ==
  ASSUME IInv, NEW g \in Goroutines, ArchiveClear(g)
  PROVE  IInv'
<1> USE DEF IInv
<1>1. /\ archiver[g] = "clear"
      /\ archiver' = [archiver EXCEPT ![g] = "done"]
      /\ hot' = {}
      /\ UNCHANGED <<lastId, rows, archives, raced>>
  BY DEF ArchiveClear
<1>2. TypeOK'
  BY <1>1 DEF TypeOK
<1>3. ArchiveStage' /\ ClearCovers' /\ ClearedArchiveDisjoint'
  BY <1>1 DEF ArchiveStage, ClearCovers, ClearedArchiveDisjoint, TypeOK
<1>4. LossOnlyInRace'
  <2>1. hot \subseteq archives[g] \cup raced /\ g \in DOMAIN archives
    BY <1>1 DEF ClearCovers, ArchiveStage
  <2> QED
    BY <1>1, <2>1 DEF LossOnlyInRace, Lost, Archived
<1>5. NewestArchiverBounds'
  BY <1>1, FS_EmptySet, MaxEntriesAssumption DEF NewestArchiverBounds
<1> QED
  BY <1>2, <1>3, <1>4, <1>5

(* A failing statement or a crash only ends archivers, without an archive.  *)
LEMMA AbortIInv ==
  ASSUME IInv, UNCHANGED <<lastId, rows, hot, archives, raced>>,
         archiver' \in [1 .. lastId -> ArchiverState],
         \A g \in Goroutines : archiver'[g] \in {archiver[g], "aborted"}
  PROVE  IInv'
<1> USE DEF IInv
<1>1. DOMAIN archiver = 1 .. lastId /\ DOMAIN archiver' = 1 .. lastId
  BY DEF TypeOK
<1>2. TypeOK'
  BY DEF TypeOK
<1>3. ArchiveStage' /\ ClearCovers' /\ ClearedArchiveDisjoint'
  BY <1>1 DEF ArchiveStage, ClearCovers, ClearedArchiveDisjoint, TypeOK
<1>4. LossOnlyInRace'
  BY DEF LossOnlyInRace, Lost, Archived
<1>5. NewestArchiverBounds'
  BY <1>1 DEF NewestArchiverBounds, TypeOK
<1> QED
  BY <1>2, <1>3, <1>4, <1>5

(* No step of an insert, an archiver or a crash breaks it.                  *)
LEMMA NextIInv == IInv /\ [Next]_storeVars => IInv'
<1> SUFFICES ASSUME IInv, [Next]_storeVars PROVE IInv'
  OBVIOUS
<1>1. CASE Insert
  BY <1>1, InsertIInv DEF Insert
<1>2. ASSUME NEW g \in Goroutines, Archive(g) PROVE IInv'
  BY <1>2, CountIInv, VacuumIInv, ClearIInv DEF Archive
<1>3. ASSUME NEW g \in Goroutines, ArchiveFails(g) PROVE IInv'
  BY <1>3, AbortIInv DEF ArchiveFails, IInv, TypeOK
<1>4. CASE CrashAndReopen
  BY <1>4, AbortIInv DEF CrashAndReopen, IInv, TypeOK
<1>5. CASE UNCHANGED storeVars
  BY <1>5, AbortIInv DEF storeVars, IInv, TypeOK
<1> QED
  BY <1>1, <1>2, <1>3, <1>4, <1>5 DEF Next

(* The invariant the theorems below are read off.                           *)
THEOREM HotStoreInvariant == Spec => []IInv
BY InitIInv, NextIInv, PTL DEF Spec

(* Type correctness of the table, the archives and the archivers.           *)
THEOREM HotStoreTypeOK == Spec => []TypeOK
<1>1. IInv => TypeOK
  BY DEF IInv
<1> QED
  BY <1>1, HotStoreInvariant, PTL

(* archiveIfNeeded loses a row only if it was inserted between the VACUUM   *)
(* INTO and the DELETE of an archiver.                                      *)
THEOREM HotStoreLoss == Spec => []LossOnlyInRace
<1>1. IInv => LossOnlyInRace
  BY DEF IInv
<1> QED
  BY <1>1, HotStoreInvariant, PTL

(* The archive of an archiver that cleared the table never overlaps it.     *)
THEOREM HotStoreDisjoint == Spec => []ClearedArchiveDisjoint
<1>1. IInv => ClearedArchiveDisjoint
  BY DEF IInv
<1> QED
  BY <1>1, HotStoreInvariant, PTL

(* The hot table is below maxEntries whenever the archiver of the newest    *)
(* row has returned without an error.                                       *)
THEOREM HotStoreBound == Spec => []NewestArchiverBounds
<1>1. IInv => NewestArchiverBounds
  BY DEF IInv
<1> QED
  BY <1>1, HotStoreInvariant, PTL
==============================================================================
