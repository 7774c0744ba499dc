----------------------------- MODULE ReceiveProofs ----------------------------
(***************************************************************************)
(* The push endpoint implements HotStore, spaces the rows of sequential    *)
(* pushes and answers truthfully, for every number of agents, requests,    *)
(* archivers and rows, every Window and every MaxEntries.                  *)
(***************************************************************************)
EXTENDS Receive, TLAPS

StoreFacts == INSTANCE HotStoreProofs

(* Ids in a request and in a row point backwards: what is stored from now   *)
(* on is newer than what any request saw when it was looked up.             *)
BeforeIsOlder ==
  /\ \A h \in Handler : req[h].before <= lastId
  /\ \A id \in 1 .. lastId : rows[id].before < id

(* A request past its cutoff has a cutoff at least Window old.              *)
CutoffIsOld ==
  \A h \in Handler :
    pc[h] \in {"check", "stamp", "insert"} => req[h].cutoff + Window <= now

(* The query has excluded what was there when the request was looked up.    *)
CheckedClean ==
  \A h \in Handler : pc[h] \in {"stamp", "insert"} =>
    \A id \in hot :
      id <= req[h].before /\ rows[id].agent = req[h].agent
        => rows[id].received <= req[h].cutoff

StampIsLate ==
  \A h \in Handler : pc[h] = "insert" => req[h].cutoff + Window <= req[h].received

SpacingInv ==
  /\ BeforeIsOlder
  /\ CutoffIsOld
  /\ CheckedClean
  /\ StampIsLate
  /\ DedupSpacing

(* A row is older than its request's answer, and the answer is no error.    *)
StorersGoOn ==
  \A id \in 1 .. lastId : pc[rows[id].by] \in {"touch", "accepted", "killed"}

(* A request about to be accepted has stored its batch or found another.    *)
Justified(h) ==
  \/ StoredBy(h)
  \/ \E id \in 1 .. lastId : /\ rows[id].agent = req[h].agent
                             /\ rows[id].received > req[h].cutoff

AcceptedIsJustified ==
  \A h \in Handler : pc[h] \in {"touch", "accepted"} => Justified(h)

AnswerInv ==
  /\ StorersGoOn
  /\ AcceptedIsJustified

USE WindowAssumption, BoundsAssumption, MaxEntriesPositive
    DEF Working, Answered, Goto

------------------------------------------------------------------------------
(* Types.                                                                   *)

(* What a step of the push endpoint leaves to the store.                    *)
StoreStep == Store!Next \/ UNCHANGED storeVars

(* The type invariant without the store's own part.                         *)
OwnTypeOK ==
  /\ lastId \in Nat
  /\ lastId <= MaxRows
  /\ now \in 0 .. MaxTime
  /\ agents \subseteq Agent
  /\ pc \in [Handler -> {"idle"} \cup Working \cup Answered]
  /\ req \in [Handler -> Request]

(* The handlers' own values at the start.                                   *)
LEMMA InitOwnTypeOK == Init => OwnTypeOK
BY DEF Init, OwnTypeOK, Request, Store!Init

(* The row an insert hands to the store is a Row.                           *)
LEMMA InsertedRow ==
  ASSUME OwnTypeOK, NEW h \in Handler
  PROVE  [agent |-> req[h].agent, batch |-> req[h].batch,
          received |-> req[h].received, by |-> h,
          before |-> req[h].before] \in Row
BY DEF OwnTypeOK, Request, Row

(* A handler's insert is an insert of the store.                            *)
LEMMA InsertIsStoreStep ==
  ASSUME OwnTypeOK, NEW h \in Handler, Insert(h)
  PROVE  Store!Next /\ lastId' = lastId + 1 /\ lastId < MaxRows
<1>1. Store!Insert
  BY InsertedRow DEF Insert, Store!Insert
<1>2. lastId' = lastId + 1 /\ lastId < MaxRows
  BY DEF Insert, Store!InsertBatch, Store!NextId
<1> QED
  BY <1>1, <1>2 DEF Store!Next

(* The archiver's steps are the store's.                                    *)
LEMMA ArchiverIsStoreStep ==
  ASSUME NEW g \in Store!Goroutines, ArchiverStep(g)
  PROVE  Store!Next /\ lastId' = lastId
<1>1. Store!Next
  BY DEF ArchiverStep, Store!Next
<1>2. lastId' = lastId
  BY DEF ArchiverStep, Store!Archive, Store!ArchiveCount, Store!ArchiveVacuum,
         Store!ArchiveClear, Store!ArchiveFails
<1> QED
  BY <1>1, <1>2

(* The handlers' values keep their types, and the store takes its own steps. *)
LEMMA NextOwnTypeOK == OwnTypeOK /\ [Next]_vars => OwnTypeOK' /\ StoreStep
<1> SUFFICES ASSUME OwnTypeOK, [Next]_vars PROVE OwnTypeOK' /\ StoreStep
  OBVIOUS
<1>1. ASSUME NEW h \in Handler, Lookup(h) PROVE OwnTypeOK' /\ StoreStep
  BY <1>1 DEF Lookup, OwnTypeOK, Request, StoreStep, storeVars
<1>2. ASSUME NEW h \in Handler, Cutoff(h) PROVE OwnTypeOK' /\ StoreStep
  <2>1. now - Window \in -Window .. MaxTime
    BY DEF OwnTypeOK
  <2> QED
    BY <1>2, <2>1 DEF Cutoff, OwnTypeOK, Request, StoreStep, storeVars
<1>3. ASSUME NEW h \in Handler, Check(h) PROVE OwnTypeOK' /\ StoreStep
  BY <1>3 DEF Check, OwnTypeOK, StoreStep, storeVars
<1>4. ASSUME NEW h \in Handler, Stamp(h) PROVE OwnTypeOK' /\ StoreStep
  BY <1>4 DEF Stamp, OwnTypeOK, Request, StoreStep, storeVars
<1>5. ASSUME NEW h \in Handler, Insert(h) PROVE OwnTypeOK' /\ StoreStep
  <2>1. Store!Next /\ lastId' = lastId + 1 /\ lastId < MaxRows
    BY <1>5, InsertIsStoreStep
  <2> QED
    BY <1>5, <2>1 DEF Insert, OwnTypeOK, StoreStep
<1>6. ASSUME NEW h \in Handler, TouchAndAccept(h) PROVE OwnTypeOK' /\ StoreStep
  BY <1>6 DEF TouchAndAccept, OwnTypeOK, StoreStep, storeVars
<1>7. ASSUME NEW h \in Handler, StoreError(h) PROVE OwnTypeOK' /\ StoreStep
  BY <1>7 DEF StoreError, OwnTypeOK, StoreStep, storeVars
<1>8. ASSUME NEW a \in Agent, DeleteAgent(a) PROVE OwnTypeOK' /\ StoreStep
  BY <1>8 DEF DeleteAgent, OwnTypeOK, StoreStep, storeVars, reqVars
<1>9. ASSUME NEW g \in Store!Goroutines, ArchiverStep(g) PROVE OwnTypeOK' /\ StoreStep
  BY <1>9, ArchiverIsStoreStep DEF ArchiverStep, OwnTypeOK, StoreStep, reqVars
<1>10. CASE Crash
  BY <1>10 DEF Crash, OwnTypeOK, StoreStep, Store!Next, Store!CrashAndReopen
<1>11. CASE Tick
  BY <1>11 DEF Tick, OwnTypeOK, StoreStep, storeVars, reqVars
<1>12. CASE UNCHANGED vars
  BY <1>12 DEF vars, OwnTypeOK, StoreStep, storeVars, reqVars
<1> QED
  BY <1>1, <1>2, <1>3, <1>4, <1>5, <1>6, <1>7, <1>8, <1>9, <1>10, <1>11, <1>12
     DEF Next, Serve

(* Every step of the aggregator is a step of HotStore or leaves the store   *)
(* alone.                                                                   *)
THEOREM ReceiveImplementsHotStore == Spec => ImplementsHotStore
<1>1. Init => Store!Init
  BY DEF Init
<1>2. OwnTypeOK /\ [Next]_vars => [Store!Next]_(Store!storeVars)
  BY NextOwnTypeOK DEF StoreStep, storeVars, Store!storeVars
<1>3. OwnTypeOK /\ [Next]_vars => OwnTypeOK'
  BY NextOwnTypeOK
<1> QED
  BY <1>1, <1>2, <1>3, InitOwnTypeOK, PTL DEF Spec, ImplementsHotStore, Store!Spec

(* HotStore's theorems hold of the running aggregator: Store and StoreFacts *)
(* are the same instance of HotStore.                                       *)
LEMMA SameStore == Store!Spec => StoreFacts!Spec
<1>1. Store!Init => StoreFacts!Init
  BY DEF Store!Init, StoreFacts!Init
<1>2. [Store!Next]_(Store!storeVars) => [StoreFacts!Next]_(StoreFacts!storeVars)
  <2>1. \A row \in Row : Store!InsertBatch(row) => StoreFacts!InsertBatch(row)
    BY DEF Store!InsertBatch, StoreFacts!InsertBatch, Store!NextId, StoreFacts!NextId,
           Store!Put, StoreFacts!Put, Store!Clearing, StoreFacts!Clearing,
           Store!Goroutines, StoreFacts!Goroutines
  <2>2. Store!Insert => StoreFacts!Insert
    BY <2>1 DEF Store!Insert, StoreFacts!Insert
  <2>3. Store!TableFull <=> StoreFacts!TableFull
    BY DEF Store!TableFull, StoreFacts!TableFull, Store!Cardinality,
           StoreFacts!Cardinality
  <2>4. \A g : Store!Archive(g) => StoreFacts!Archive(g)
    BY <2>3 DEF Store!Archive, StoreFacts!Archive, Store!ArchiveCount, StoreFacts!ArchiveCount,
           Store!ArchiveVacuum, StoreFacts!ArchiveVacuum, Store!ArchiveClear,
           StoreFacts!ArchiveClear,
           Store!Put, StoreFacts!Put
  <2>5. \A g : Store!ArchiveFails(g) => StoreFacts!ArchiveFails(g)
    BY DEF Store!ArchiveFails, StoreFacts!ArchiveFails, Store!Live, StoreFacts!Live
  <2>6. Store!CrashAndReopen => StoreFacts!CrashAndReopen
    BY DEF Store!CrashAndReopen, StoreFacts!CrashAndReopen, Store!Live, StoreFacts!Live,
           Store!Goroutines, StoreFacts!Goroutines
  <2>7. Store!Goroutines = StoreFacts!Goroutines
    BY DEF Store!Goroutines, StoreFacts!Goroutines
  <2>8. Store!Next => StoreFacts!Next
    BY <2>2, <2>4, <2>5, <2>6, <2>7 DEF Store!Next, StoreFacts!Next
  <2> QED
    BY <2>8 DEF Store!storeVars, StoreFacts!storeVars
<1> QED
  BY <1>1, <1>2, PTL DEF Store!Spec, StoreFacts!Spec

(* Type correctness of the whole aggregator.                                *)
THEOREM ReceiveTypeOK == Spec => []TypeOK
<1>1. StoreFacts!TypeOK => Store!TypeOK
  BY DEF StoreFacts!TypeOK, Store!TypeOK, StoreFacts!ArchiverState, Store!ArchiverState,
         StoreFacts!Live, Store!Live
<1>2. OwnTypeOK /\ [Next]_vars => OwnTypeOK'
  BY NextOwnTypeOK
<1>3. OwnTypeOK /\ Store!TypeOK => TypeOK
  BY DEF OwnTypeOK, TypeOK
<1> QED
  BY <1>1, <1>2, <1>3, InitOwnTypeOK, SameStore, StoreFacts!HotStoreTypeOK,
     ReceiveImplementsHotStore, PTL DEF Spec, ImplementsHotStore

(* The running aggregator loses a stored row only in the archival race.     *)
THEOREM ReceiveLoss == Spec => []Store!LossOnlyInRace
<1>1. StoreFacts!LossOnlyInRace => Store!LossOnlyInRace
  BY DEF StoreFacts!LossOnlyInRace, Store!LossOnlyInRace, StoreFacts!Lost, Store!Lost,
         StoreFacts!Archived, Store!Archived
<1> QED
  BY <1>1, SameStore, StoreFacts!HotStoreLoss, ReceiveImplementsHotStore, PTL
     DEF ImplementsHotStore

------------------------------------------------------------------------------
(* Spacing.                                                                 *)

(* What every step but an insert leaves of the table.                       *)
TableShrinks == lastId' = lastId /\ rows' = rows /\ hot' \subseteq hot

(* The archiver adds no row.                                                *)
LEMMA ArchiverShrinks ==
  ASSUME TypeOK, NEW g \in Store!Goroutines, ArchiverStep(g)
  PROVE  TableShrinks
BY DEF ArchiverStep, TableShrinks, Store!Archive, Store!ArchiveCount,
       Store!ArchiveVacuum, Store!ArchiveClear, Store!ArchiveFails

(* An insert adds the row of its handler, and changes no other.             *)
LEMMA InsertGrows ==
  ASSUME TypeOK, NEW h \in Handler, Insert(h)
  PROVE  /\ lastId \in Nat
         /\ lastId' = lastId + 1
         /\ hot' = hot \cup {lastId + 1}
         /\ \A id \in 1 .. lastId : rows'[id] = rows[id]
         /\ rows'[lastId + 1] =
              [agent |-> req[h].agent, batch |-> req[h].batch,
               received |-> req[h].received, by |-> h, before |-> req[h].before]
         /\ 1 .. lastId' = (1 .. lastId) \cup {lastId + 1}
<1>1. /\ lastId' = lastId + 1
      /\ hot' = hot \cup {lastId + 1}
      /\ rows' = Store!Put(rows, lastId + 1,
              [agent |-> req[h].agent, batch |-> req[h].batch,
               received |-> req[h].received, by |-> h, before |-> req[h].before])
  BY DEF Insert, Store!InsertBatch, Store!NextId
<1>2. lastId \in Nat /\ DOMAIN rows = 1 .. lastId
  BY DEF TypeOK, Store!TypeOK
<1> QED
  BY <1>1, <1>2 DEF Store!Put

(* A step that stores nothing, reads nothing into a request and lets none   *)
(* come nearer to its insert.                                               *)
LEMMA SpacingFrame ==
  ASSUME TypeOK, SpacingInv, TableShrinks, req' = req,
         now \in Int, now' \in Int, now <= now',
         \A h \in Handler : pc'[h] \in {"check", "stamp", "insert"} => pc'[h] = pc[h]
  PROVE  SpacingInv'
<1> USE DEF SpacingInv, TableShrinks
<1>1. BeforeIsOlder'
  BY DEF BeforeIsOlder
<1>2. CutoffIsOld'
  <2>1. \A h \in Handler : req[h].cutoff \in Int
    BY DEF TypeOK, Request
  <2> QED
    BY <2>1 DEF CutoffIsOld
<1>3. CheckedClean' /\ StampIsLate' /\ DedupSpacing'
  BY DEF CheckedClean, StampIsLate, DedupSpacing
<1> QED
  BY <1>1, <1>2, <1>3

(* What the type invariant says of the numbers compared below.              *)
LEMMA Numbers ==
  ASSUME TypeOK
  PROVE  /\ lastId \in Nat
         /\ hot \subseteq 1 .. lastId
         /\ \A q \in Handler : req[q].before \in Int /\ req[q].cutoff \in Int
                              /\ req[q].received \in Int
         /\ \A id \in 1 .. lastId : rows[id].before \in Int /\ rows[id].received \in Int
<1>1. \A r \in Row : r.before \in Int /\ r.received \in Int
  BY DEF Row
<1>2. \A id \in 1 .. lastId : rows[id] \in Row
  BY DEF TypeOK, Store!TypeOK
<1>3. \A q \in Handler : req[q] \in Request
  BY DEF TypeOK
<1>4. \A r \in Request : r.before \in Int /\ r.cutoff \in Int /\ r.received \in Int
  BY DEF Request
<1> QED
  BY <1>1, <1>2, <1>3, <1>4 DEF TypeOK, Store!TypeOK

(* There is no row to be near to.                                           *)
LEMMA InitSpacing == Init => SpacingInv
BY DEF Init, Store!Init, SpacingInv, BeforeIsOlder, CutoffIsOld, CheckedClean,
       StampIsLate, DedupSpacing

(* A row is inserted only when its host's rows before are out of the window. *)
LEMMA InsertSpacing ==
  ASSUME TypeOK, SpacingInv, NEW h \in Handler, Insert(h)
  PROVE  SpacingInv'
<1> USE DEF SpacingInv
<1>1. /\ lastId \in Nat
      /\ lastId' = lastId + 1
      /\ hot' = hot \cup {lastId + 1}
      /\ \A id \in 1 .. lastId : rows'[id] = rows[id]
      /\ rows'[lastId + 1] =
           [agent |-> req[h].agent, batch |-> req[h].batch,
            received |-> req[h].received, by |-> h, before |-> req[h].before]
      /\ 1 .. lastId' = (1 .. lastId) \cup {lastId + 1}
  BY InsertGrows
<1>2. /\ pc[h] = "insert"
      /\ pc' = [pc EXCEPT ![h] = "touch"]
      /\ req' = req
      /\ now' = now
  BY DEF Insert
<1>3. /\ pc \in [Handler -> {"idle"} \cup Working \cup Answered]
      /\ hot \subseteq 1 .. lastId
      /\ \A q \in Handler : req[q].before \in Int /\ req[q].cutoff \in Int
                           /\ req[q].received \in Int
      /\ \A id \in 1 .. lastId : rows[id].before \in Int /\ rows[id].received \in Int
  BY Numbers DEF TypeOK
<1>4. \A q \in Handler : req[q].before <= lastId
  BY DEF BeforeIsOlder
<1>5. BeforeIsOlder'
  BY <1>1, <1>2, <1>3, <1>4 DEF BeforeIsOlder
<1>6. CutoffIsOld' /\ StampIsLate'
  BY <1>2, <1>3 DEF CutoffIsOld, StampIsLate
<1>7. CheckedClean'
  <2> SUFFICES ASSUME NEW q \in Handler, pc'[q] \in {"stamp", "insert"},
                      NEW id \in hot', id <= req[q].before,
                      rows'[id].agent = req[q].agent
               PROVE  rows'[id].received <= req[q].cutoff
    BY <1>2 DEF CheckedClean
  <2>1. id \in hot /\ rows'[id] = rows[id]
    BY <1>1, <1>3, <1>4
  <2>2. pc[q] \in {"stamp", "insert"}
    BY <1>2, <1>3
  <2> QED
    BY <2>1, <2>2 DEF CheckedClean
<1>8. DedupSpacing'
  <2> SUFFICES ASSUME NEW i \in hot', NEW j \in hot',
                      rows'[i].agent = rows'[j].agent, i <= rows'[j].before
               PROVE  rows'[i].received + Window <= rows'[j].received
    BY DEF DedupSpacing
  <2>1. i \in hot /\ rows'[i] = rows[i]
    <3>1. CASE j \in hot
      <4>1. j \in 1 .. lastId /\ rows'[j] = rows[j]
        BY <1>1, <1>3, <3>1
      <4>2. i < lastId + 1
        BY <1>1, <1>3, <4>1 DEF BeforeIsOlder
      <4> QED
        BY <1>1, <1>3, <4>2
    <3>2. CASE j = lastId + 1
      <4>1. rows'[j].before = req[h].before
        BY <1>1, <3>2
      <4>2. i < lastId + 1
        BY <1>1, <1>3, <1>4, <4>1
      <4> QED
        BY <1>1, <1>3, <4>2
    <3> QED
      BY <1>1, <3>1, <3>2
  <2>2. CASE j \in hot
    BY <1>1, <1>3, <2>1, <2>2 DEF DedupSpacing
  <2>3. CASE j = lastId + 1
    <3>1. rows[i].received <= req[h].cutoff
      BY <1>1, <1>2, <2>1, <2>3 DEF CheckedClean
    <3>2. req[h].cutoff + Window <= req[h].received
      BY <1>2 DEF StampIsLate
    <3> QED
      BY <1>1, <1>3, <2>1, <2>3, <3>1, <3>2
  <2> QED
    BY <1>1, <2>2, <2>3
<1> QED
  BY <1>5, <1>6, <1>7, <1>8

(* Every step keeps the rows of a host apart.                               *)
LEMMA NextSpacing == TypeOK /\ SpacingInv /\ [Next]_vars => SpacingInv'
<1> SUFFICES ASSUME TypeOK, SpacingInv, [Next]_vars PROVE SpacingInv'
  OBVIOUS
<1>1. /\ pc \in [Handler -> {"idle"} \cup Working \cup Answered]
      /\ req \in [Handler -> Request]
      /\ now \in Int
  BY DEF TypeOK
<1>2. ASSUME NEW h \in Handler, Lookup(h) PROVE SpacingInv'
  <2>1. /\ pc' = [pc EXCEPT ![h] = "window"] \/ pc' = [pc EXCEPT ![h] = "rejected"]
        /\ req' = [req EXCEPT ![h].before = lastId]
        /\ UNCHANGED <<lastId, rows, hot, now>>
    BY <1>2 DEF Lookup, storeVars
  <2>2. \A q \in Handler : /\ pc'[q] \in {"check", "stamp", "insert"} => q # h /\ pc'[q] = pc[q]
                           /\ q # h => req'[q] = req[q]
    BY <1>1, <2>1
  <2>3. BeforeIsOlder'
    BY <1>1, <2>1, Numbers DEF SpacingInv, BeforeIsOlder, Request
  <2>4. CutoffIsOld' /\ CheckedClean' /\ StampIsLate' /\ DedupSpacing'
    BY <2>1, <2>2 DEF SpacingInv, CutoffIsOld, CheckedClean, StampIsLate, DedupSpacing
  <2> QED
    BY <2>3, <2>4 DEF SpacingInv
<1>3. ASSUME NEW h \in Handler, Cutoff(h) PROVE SpacingInv'
  <2>1. /\ pc' = [pc EXCEPT ![h] = "check"]
        /\ req' = [req EXCEPT ![h].cutoff = now - Window]
        /\ UNCHANGED <<lastId, rows, hot, now>>
    BY <1>3 DEF Cutoff, storeVars
  <2>2. \A q \in Handler : /\ pc'[q] \in {"stamp", "insert"} => q # h /\ pc'[q] = pc[q]
                           /\ q # h => req'[q] = req[q] /\ pc'[q] = pc[q]
                           /\ req'[q].before = req[q].before
    BY <1>1, <2>1 DEF Request
  <2>3. req'[h].cutoff + Window <= now
    BY <1>1, <2>1 DEF Request
  <2>4. BeforeIsOlder' /\ CutoffIsOld'
    BY <2>1, <2>2, <2>3 DEF SpacingInv, BeforeIsOlder, CutoffIsOld
  <2>5. CheckedClean' /\ StampIsLate' /\ DedupSpacing'
    BY <2>1, <2>2 DEF SpacingInv, CheckedClean, StampIsLate, DedupSpacing
  <2> QED
    BY <2>4, <2>5 DEF SpacingInv
<1>4. ASSUME NEW h \in Handler, Check(h) PROVE SpacingInv'
  <2>1. CASE HasRecentBatch(req[h].agent, req[h].cutoff)
    BY <1>1, <1>4, <2>1, SpacingFrame DEF Check, storeVars, TableShrinks
  <2>2. CASE ~HasRecentBatch(req[h].agent, req[h].cutoff)
    <3>1. /\ pc[h] = "check"
          /\ pc' = [pc EXCEPT ![h] = "stamp"]
          /\ UNCHANGED <<lastId, rows, hot, now, req>>
      BY <1>4, <2>2 DEF Check, storeVars
    <3>2. BeforeIsOlder' /\ CutoffIsOld' /\ StampIsLate' /\ DedupSpacing'
      BY <1>1, <3>1 DEF SpacingInv, BeforeIsOlder, CutoffIsOld, StampIsLate, DedupSpacing
    <3>3. \A id \in hot : rows[id].agent = req[h].agent
                            => rows[id].received <= req[h].cutoff
      BY <2>2, Numbers DEF HasRecentBatch
    <3>4. CheckedClean'
      BY <1>1, <3>1, <3>3 DEF SpacingInv, CheckedClean
    <3> QED
      BY <3>2, <3>4 DEF SpacingInv
  <2> QED
    BY <2>1, <2>2
<1>5. ASSUME NEW h \in Handler, Stamp(h) PROVE SpacingInv'
  <2>1. /\ pc[h] = "stamp"
        /\ pc' = [pc EXCEPT ![h] = "insert"]
        /\ req' = [req EXCEPT ![h].received = now]
        /\ UNCHANGED <<lastId, rows, hot, now>>
    BY <1>5 DEF Stamp, storeVars
  <2>2. \A q \in Handler : /\ q # h => req'[q] = req[q] /\ pc'[q] = pc[q]
                           /\ req'[q].before = req[q].before
                           /\ req'[q].cutoff = req[q].cutoff
                           /\ req'[q].agent = req[q].agent
    BY <1>1, <2>1 DEF Request
  <2>3. req'[h].received = now
    BY <1>1, <2>1 DEF Request
  <2>4. BeforeIsOlder' /\ CutoffIsOld' /\ DedupSpacing'
    BY <2>1, <2>2 DEF SpacingInv, BeforeIsOlder, CutoffIsOld, DedupSpacing
  <2>5. CheckedClean'
    BY <2>1, <2>2 DEF SpacingInv, CheckedClean
  <2>6. StampIsLate'
    BY <2>1, <2>2, <2>3 DEF SpacingInv, CutoffIsOld, StampIsLate
  <2> QED
    BY <2>4, <2>5, <2>6 DEF SpacingInv
<1>6. ASSUME NEW h \in Handler, Insert(h) PROVE SpacingInv'
  BY <1>6, InsertSpacing
<1>7. ASSUME NEW h \in Handler, TouchAndAccept(h) \/ StoreError(h) PROVE SpacingInv'
  BY <1>1, <1>7, SpacingFrame DEF TouchAndAccept, StoreError, storeVars, TableShrinks
<1>8. ASSUME NEW a \in Agent, DeleteAgent(a) PROVE SpacingInv'
  BY <1>1, <1>8, SpacingFrame DEF DeleteAgent, storeVars, reqVars, TableShrinks
<1>9. ASSUME NEW g \in Store!Goroutines, ArchiverStep(g) PROVE SpacingInv'
  <2>1. TableShrinks
    BY <1>9, ArchiverShrinks
  <2> QED
    BY <1>1, <1>9, <2>1, SpacingFrame DEF ArchiverStep, reqVars
<1>10. CASE Crash
  BY <1>1, <1>10, SpacingFrame DEF Crash, Store!CrashAndReopen, TableShrinks
<1>11. CASE Tick
  BY <1>1, <1>11, SpacingFrame DEF Tick, storeVars, reqVars, TableShrinks
<1>12. CASE UNCHANGED vars
  BY <1>1, <1>12, SpacingFrame DEF vars, storeVars, reqVars, TableShrinks
<1> QED
  BY <1>2, <1>3, <1>4, <1>5, <1>6, <1>7, <1>8, <1>9, <1>10, <1>11, <1>12
     DEF Next, Serve

(* Two rows of one agent from requests that did not overlap are Window      *)
(* apart, whatever else the server does between the four steps of each.     *)
THEOREM ReceiveSpacing == Spec => []DedupSpacing
<1>1. SpacingInv => DedupSpacing
  BY DEF SpacingInv
<1> QED
  BY <1>1, InitSpacing, NextSpacing, ReceiveTypeOK, PTL DEF Spec

------------------------------------------------------------------------------
(* Answers.                                                                 *)

(* Nobody was answered.                                                     *)
LEMMA InitAnswer == Init => AnswerInv
BY DEF Init, Store!Init, AnswerInv, StorersGoOn, AcceptedIsJustified

(* Rows are stored by requests.                                             *)
LEMMA RowsByHandlers ==
  ASSUME TypeOK
  PROVE  \A id \in 1 .. lastId : rows[id].by \in Handler
BY DEF TypeOK, Store!TypeOK, Row

(* A step of one request h that stores nothing: h must not have stored yet, *)
(* and if it goes on to be accepted it must be justified.                   *)
LEMMA AnswerFrame ==
  ASSUME TypeOK, AnswerInv, lastId' = lastId, rows' = rows,
         NEW h \in Handler,
         \A q \in Handler : q # h => pc'[q] = pc[q] /\ req'[q] = req[q],
         pc[h] \notin {"touch", "accepted", "killed"},
         pc'[h] \in {"touch", "accepted"} => Justified(h)'
  PROVE  AnswerInv'
<1>1. StorersGoOn'
  BY RowsByHandlers DEF AnswerInv, StorersGoOn
<1>2. AcceptedIsJustified'
  BY DEF AnswerInv, AcceptedIsJustified, Justified, StoredBy
<1> QED
  BY <1>1, <1>2 DEF AnswerInv

(* A step that only moves requests from "touch" to "accepted" or ends them. *)
LEMMA AnswerQuiet ==
  ASSUME TypeOK, AnswerInv, lastId' = lastId, rows' = rows, req' = req,
         \A q \in Handler :
           \/ pc'[q] = pc[q]
           \/ pc[q] = "touch" /\ pc'[q] = "accepted"
           \/ pc'[q] = "killed"
  PROVE  AnswerInv'
<1>1. StorersGoOn'
  BY RowsByHandlers DEF AnswerInv, StorersGoOn
<1>2. AcceptedIsJustified'
  BY DEF AnswerInv, AcceptedIsJustified, Justified, StoredBy
<1> QED
  BY <1>1, <1>2 DEF AnswerInv

(* An accepted answer keeps what justified it.                              *)
LEMMA NextAnswer == TypeOK /\ AnswerInv /\ [Next]_vars => AnswerInv'
<1> SUFFICES ASSUME TypeOK, AnswerInv, [Next]_vars PROVE AnswerInv'
  OBVIOUS
<1>1. /\ pc \in [Handler -> {"idle"} \cup Working \cup Answered]
      /\ req \in [Handler -> Request]
  BY DEF TypeOK
<1>2. ASSUME NEW h \in Handler, Lookup(h) PROVE AnswerInv'
  BY <1>1, <1>2, AnswerFrame DEF Lookup, storeVars
<1>3. ASSUME NEW h \in Handler, Cutoff(h) PROVE AnswerInv'
  BY <1>1, <1>3, AnswerFrame DEF Cutoff, storeVars
<1>4. ASSUME NEW h \in Handler, Check(h) PROVE AnswerInv'
  <2>1. /\ pc[h] = "check"
        /\ pc' = [pc EXCEPT ![h] = IF HasRecentBatch(req[h].agent, req[h].cutoff)
                                   THEN "touch" ELSE "stamp"]
        /\ UNCHANGED <<lastId, rows, hot, req>>
    BY <1>4 DEF Check, storeVars
  <2>2. HasRecentBatch(req[h].agent, req[h].cutoff) => Justified(h)'
    BY <2>1, Numbers DEF HasRecentBatch, Justified, StoredBy
  <2> QED
    BY <1>1, <2>1, <2>2, AnswerFrame
<1>5. ASSUME NEW h \in Handler, Stamp(h) PROVE AnswerInv'
  BY <1>1, <1>5, AnswerFrame DEF Stamp, storeVars
<1>6. ASSUME NEW h \in Handler, Insert(h) PROVE AnswerInv'
  <2>1. /\ pc[h] = "insert"
        /\ pc' = [pc EXCEPT ![h] = "touch"]
        /\ req' = req
    BY <1>6 DEF Insert
  <2>2. /\ lastId \in Nat
        /\ \A id \in 1 .. lastId : rows'[id] = rows[id]
        /\ rows'[lastId + 1] =
             [agent |-> req[h].agent, batch |-> req[h].batch,
              received |-> req[h].received, by |-> h, before |-> req[h].before]
        /\ 1 .. lastId' = (1 .. lastId) \cup {lastId + 1}
    BY <1>6, InsertGrows
  <2>3. StorersGoOn'
    BY <1>1, <2>1, <2>2, RowsByHandlers DEF AnswerInv, StorersGoOn
  <2>4. AcceptedIsJustified'
    BY <1>1, <2>1, <2>2 DEF AnswerInv, AcceptedIsJustified, Justified, StoredBy
  <2> QED
    BY <2>3, <2>4 DEF AnswerInv
<1>7. ASSUME NEW h \in Handler, TouchAndAccept(h) PROVE AnswerInv'
  BY <1>1, <1>7, AnswerQuiet DEF TouchAndAccept, storeVars
<1>8. ASSUME NEW h \in Handler, StoreError(h) PROVE AnswerInv'
  BY <1>1, <1>8, AnswerFrame DEF StoreError, storeVars
<1>9. ASSUME NEW a \in Agent, DeleteAgent(a) PROVE AnswerInv'
  BY <1>9, AnswerQuiet DEF DeleteAgent, storeVars, reqVars
<1>10. ASSUME NEW g \in Store!Goroutines, ArchiverStep(g) PROVE AnswerInv'
  <2>1. TableShrinks
    BY <1>10, ArchiverShrinks
  <2> QED
    BY <1>10, <2>1, AnswerQuiet DEF ArchiverStep, reqVars, TableShrinks
<1>11. CASE Crash
  BY <1>1, <1>11, AnswerQuiet DEF Crash, Store!CrashAndReopen
<1>12. CASE Tick
  BY <1>12, AnswerQuiet DEF Tick, storeVars, reqVars
<1>13. CASE UNCHANGED vars
  BY <1>13, AnswerQuiet DEF vars, storeVars, reqVars
<1> QED
  BY <1>2, <1>3, <1>4, <1>5, <1>6, <1>7, <1>8, <1>9, <1>10, <1>11, <1>12, <1>13
     DEF Next, Serve

(* An error answer means nothing was stored; a 202 means that this batch or *)
(* a recent one of the same agent was.                                      *)
THEOREM ReceiveAnswers == Spec => []AnswerMatchesTable
<1>1. AnswerInv => AnswerMatchesTable
  BY DEF AnswerInv, StorersGoOn, AcceptedIsJustified, Justified, StoredBy,
         AnswerMatchesTable
<1> QED
  BY <1>1, InitAnswer, NextAnswer, ReceiveTypeOK, PTL DEF Spec
==============================================================================
