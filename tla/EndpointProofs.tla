----------------------------- MODULE EndpointProofs ----------------------------
(***************************************************************************)
(* The push endpoint with all its statements implements Endpoint, what it  *)
(* promises its clients, for every number of agents, requests, archivers   *)
(* and rows, every Window and every MaxEntries.                            *)
(***************************************************************************)
EXTENDS ReceiveProofs

USE WindowAssumption, BoundsAssumption, MaxEntriesPositive
    DEF Working, Answered, Goto

(* A row belongs to the agent of the request that stored it.                *)
RowsOfRequests == \A id \in 1 .. lastId : rows[id].agent = req[rows[id].by].agent

(* A time stamp waiting to be inserted is not in the future.                *)
StampIsPast == \A h \in Handler : pc[h] = "insert" => req[h].received <= now

PromiseInv == RowsOfRequests /\ StampIsPast

(* All that the refinement rests on.                                        *)
FullInv == TypeOK /\ SpacingInv /\ AnswerInv /\ PromiseInv

(* Nothing was promised yet.                                                *)
LEMMA InitPromiseInv == Init => PromiseInv
BY DEF Init, Store!Init, PromiseInv, RowsOfRequests, StampIsPast

(* A step that stores no row.                                               *)
LEMMA PromiseInvFrame ==
  ASSUME TypeOK, PromiseInv, lastId' = lastId, rows' = rows,
         now' \in Int, now <= now',
         \A q \in Handler : /\ req'[q].agent = req[q].agent
                            /\ pc'[q] = "insert" =>
                                 \/ pc[q] = "insert" /\ req'[q].received = req[q].received
                                 \/ req'[q].received = now'
  PROVE  PromiseInv'
<1>1. RowsOfRequests'
  BY RowsByHandlers DEF PromiseInv, RowsOfRequests
<1>2. StampIsPast'
  <2>1. now \in Int /\ \A q \in Handler : req[q].received \in Int
    BY Numbers DEF TypeOK
  <2> QED
    BY <2>1 DEF PromiseInv, StampIsPast
<1> QED
  BY <1>1, <1>2 DEF PromiseInv

(* No step of the endpoint breaks a promise.                                *)
LEMMA NextPromiseInv == TypeOK /\ PromiseInv /\ [Next]_vars => PromiseInv'
<1> SUFFICES ASSUME TypeOK, PromiseInv, [Next]_vars PROVE PromiseInv'
  OBVIOUS
<1>1. /\ pc \in [Handler -> {"idle"} \cup Working \cup Answered]
      /\ req \in [Handler -> Request]
      /\ now \in Int
  BY DEF TypeOK
<1>2. ASSUME NEW h \in Handler, Lookup(h) \/ Cutoff(h) PROVE PromiseInv'
  <2>1. /\ UNCHANGED <<lastId, rows, now>>
        /\ pc' = [pc EXCEPT ![h] = pc'[h]] /\ pc'[h] # "insert"
        /\ \/ req' = [req EXCEPT ![h].before = lastId]
           \/ req' = [req EXCEPT ![h].cutoff = now - Window]
    BY <1>1, <1>2 DEF Lookup, Cutoff, storeVars
  <2>2. \A q \in Handler : /\ req'[q].agent = req[q].agent
                           /\ req'[q].received = req[q].received
                           /\ pc'[q] = "insert" => pc[q] = "insert"
    BY <1>1, <2>1 DEF Request
  <2> QED
    BY <1>1, <2>1, <2>2, PromiseInvFrame
<1>3. ASSUME NEW h \in Handler, Check(h) \/ TouchAndAccept(h) \/ StoreError(h) PROVE PromiseInv'
  BY <1>1, <1>3, PromiseInvFrame DEF Check, TouchAndAccept, StoreError, storeVars
<1>4. ASSUME NEW h \in Handler, Stamp(h) PROVE PromiseInv'
  <2>1. /\ UNCHANGED <<lastId, rows, now>>
        /\ pc' = [pc EXCEPT ![h] = "insert"]
        /\ req' = [req EXCEPT ![h].received = now]
    BY <1>4 DEF Stamp, storeVars
  <2>2. \A q \in Handler : /\ req'[q].agent = req[q].agent
                           /\ q = h => req'[q].received = now
                           /\ q # h => pc'[q] = pc[q] /\ req'[q].received = req[q].received
    BY <1>1, <2>1 DEF Request
  <2> QED
    BY <1>1, <2>1, <2>2, PromiseInvFrame
<1>5. ASSUME NEW h \in Handler, Insert(h) PROVE PromiseInv'
  <2>1. /\ pc' = [pc EXCEPT ![h] = "touch"]
        /\ req' = req
        /\ now' = now
    BY <1>5 DEF Insert
  <2>2. /\ \A id \in 1 .. lastId : rows'[id] = rows[id]
        /\ rows'[lastId + 1] =
             [agent |-> req[h].agent, batch |-> req[h].batch,
              received |-> req[h].received, by |-> h, before |-> req[h].before]
        /\ 1 .. lastId' = (1 .. lastId) \cup {lastId + 1}
    BY <1>5, InsertGrows
  <2>3. RowsOfRequests'
    BY <2>1, <2>2 DEF PromiseInv, RowsOfRequests
  <2>4. StampIsPast'
    BY <1>1, <2>1 DEF PromiseInv, StampIsPast
  <2> QED
    BY <2>3, <2>4 DEF PromiseInv
<1>6. ASSUME NEW a \in Agent, DeleteAgent(a) PROVE PromiseInv'
  BY <1>1, <1>6, PromiseInvFrame DEF DeleteAgent, storeVars, reqVars
<1>7. ASSUME NEW g \in Store!Goroutines, ArchiverStep(g) PROVE PromiseInv'
  <2>1. TableShrinks
    BY <1>7, ArchiverShrinks
  <2> QED
    BY <1>1, <1>7, <2>1, PromiseInvFrame DEF ArchiverStep, reqVars, TableShrinks
<1>8. CASE Crash
  BY <1>1, <1>8, PromiseInvFrame DEF Crash, Store!CrashAndReopen
<1>9. CASE Tick
  BY <1>1, <1>9, PromiseInvFrame DEF Tick, storeVars, reqVars
<1>10. CASE UNCHANGED vars
  BY <1>1, <1>10, PromiseInvFrame DEF vars, storeVars, reqVars
<1> QED
  BY <1>2, <1>3, <1>4, <1>5, <1>6, <1>7, <1>8, <1>9, <1>10 DEF Next, Serve

------------------------------------------------------------------------------
(* The mapping.                                                             *)

\* The variables of Endpoint.
Loads == [h \in Handler |-> [agent |-> req[h].agent, batch |-> req[h].batch]]
Answers == [h \in Handler |-> AnswerTo(h)]
Asked == [h \in Handler |-> AskedAt(h)]
Log == [id \in 1 .. lastId |-> [by |-> rows[id].by, received |-> rows[id].received]]

USE DEF Loads, Answers, Asked, Log

(* Before it stores its batch a request has not stored it.                  *)
LEMMA NotStoredYet ==
  ASSUME AnswerInv, NEW h \in Handler, pc[h] \notin {"touch", "accepted", "killed"}
  PROVE  ~StoredBy(h)
BY DEF AnswerInv, StorersGoOn, StoredBy

(* To Endpoint, only the answer and the asking time of h may change.        *)
OnlyMoves(h) ==
  /\ UNCHANGED <<now, Loads, Log>>
  /\ StoredBy(h)' = StoredBy(h)
  /\ Answers' = [Answers EXCEPT ![h] = AnswerTo(h)']
  /\ Asked' = [Asked EXCEPT ![h] = AskedAt(h)']
  /\ AnswerTo(h)' = AnswerTo(h) => Answers' = Answers
  /\ AskedAt(h)' = AskedAt(h) => Asked' = Asked

(* A step of one request that stores nothing.                               *)
LEMMA OneRequest ==
  ASSUME NEW h \in Handler, lastId' = lastId, rows' = rows, now' = now,
         \A q \in Handler : req'[q].agent = req[q].agent /\ req'[q].batch = req[q].batch,
         \A q \in Handler \ {h} : pc'[q] = pc[q] /\ req'[q] = req[q]
  PROVE  OnlyMoves(h)
<1>1. \A q \in Handler : StoredBy(q)' = StoredBy(q)
  BY DEF StoredBy
<1>2. \A q \in Handler \ {h} : AnswerTo(q)' = AnswerTo(q)
  BY <1>1 DEF AnswerTo
<1>3. \A q \in Handler \ {h} : AskedAt(q)' = AskedAt(q)
  BY DEF AskedAt
<1>4. Answers' = [Answers EXCEPT ![h] = AnswerTo(h)']
  BY <1>2
<1>5. Asked' = [Asked EXCEPT ![h] = AskedAt(h)']
  BY <1>3
<1>6. UNCHANGED <<now, Loads, Log>>
  OBVIOUS
<1>7. /\ AnswerTo(h)' = AnswerTo(h) => Answers' = Answers
      /\ AskedAt(h)' = AskedAt(h) => Asked' = Asked
  BY <1>2, <1>3
<1> QED
  BY <1>1, <1>4, <1>5, <1>6, <1>7 DEF OnlyMoves

(* A step no request takes part in.                                         *)
LEMMA NoRequest ==
  ASSUME lastId' = lastId, rows' = rows, pc' = pc, req' = req
  PROVE  UNCHANGED <<Loads, Answers, Asked, Log>>
<1>1. \A q \in Handler : AnswerTo(q)' = AnswerTo(q) /\ AskedAt(q)' = AskedAt(q)
  BY DEF AnswerTo, AskedAt, StoredBy
<1> QED
  BY <1>1

(* The database starts as the promise does.                                 *)
LEMMA InitMaps == Init => Promise!Init
<1> SUFFICES ASSUME Init PROVE Promise!Init
  OBVIOUS
<1>1. \A h \in Handler : AnswerTo(h) = "idle" /\ AskedAt(h) = 0
  BY DEF Init, AnswerTo, AskedAt
<1>2. lastId = 0 /\ now = 0
  BY DEF Init, Store!Init
<1>3. Log = << >>
  BY <1>2
<1> QED
  BY <1>1, <1>2, <1>3 DEF Promise!Init

(* Lookup says no, or nothing yet.                                          *)
LEMMA LookupMaps ==
  ASSUME FullInv, NEW h \in Handler, Lookup(h)
  PROVE  Promise!Reject(h) \/ UNCHANGED Promise!endpointVars
<1>1. /\ pc[h] = "idle"
      /\ pc' = [pc EXCEPT ![h] = "window"] \/ pc' = [pc EXCEPT ![h] = "rejected"]
      /\ req' = [req EXCEPT ![h].before = lastId]
      /\ UNCHANGED <<lastId, rows, now>>
  BY DEF Lookup, storeVars
<1>2. pc \in [Handler -> {"idle"} \cup Working \cup Answered] /\ req \in [Handler -> Request]
  BY DEF FullInv, TypeOK
<1>3. OnlyMoves(h)
  <2>1. \A q \in Handler : req'[q].agent = req[q].agent /\ req'[q].batch = req[q].batch
    BY <1>1, <1>2 DEF Request
  <2>2. \A q \in Handler \ {h} : pc'[q] = pc[q] /\ req'[q] = req[q]
    BY <1>1, <1>2
  <2> QED
    BY <1>1, <2>1, <2>2, OneRequest
<1>4. AnswerTo(h) = "idle" /\ AskedAt(h) = 0 /\ AskedAt(h)' = 0
  BY <1>1, <1>2 DEF AnswerTo, AskedAt
<1>5. CASE pc' = [pc EXCEPT ![h] = "window"]
  <2>1. AnswerTo(h)' = "idle"
    BY <1>2, <1>5 DEF AnswerTo
  <2> QED
    BY <1>3, <1>4, <2>1 DEF OnlyMoves, Promise!endpointVars
<1>6. CASE pc' = [pc EXCEPT ![h] = "rejected"]
  <2>1. AnswerTo(h)' = "rejected"
    BY <1>2, <1>6 DEF AnswerTo
  <2> QED
    BY <1>3, <1>4, <2>1 DEF OnlyMoves, Promise!Reject, Promise!Goto, Promise!Leave
<1> QED
  BY <1>1, <1>5, <1>6

(* The handler that has read the clock has begun.                           *)
LEMMA CutoffMaps ==
  ASSUME FullInv, NEW h \in Handler, Cutoff(h)
  PROVE  Promise!Begin(h)
<1>1. /\ pc[h] = "window"
      /\ pc' = [pc EXCEPT ![h] = "check"]
      /\ req' = [req EXCEPT ![h].cutoff = now - Window]
      /\ UNCHANGED <<lastId, rows, now>>
  BY DEF Cutoff, storeVars
<1>2. /\ pc \in [Handler -> {"idle"} \cup Working \cup Answered]
      /\ req \in [Handler -> Request]
      /\ now \in Int
  BY DEF FullInv, TypeOK
<1>3. OnlyMoves(h)
  <2>1. \A q \in Handler : req'[q].agent = req[q].agent /\ req'[q].batch = req[q].batch
    BY <1>1, <1>2 DEF Request
  <2>2. \A q \in Handler \ {h} : pc'[q] = pc[q] /\ req'[q] = req[q]
    BY <1>1, <1>2
  <2> QED
    BY <1>1, <2>1, <2>2, OneRequest
<1>4. AnswerTo(h) = "idle"
  BY <1>1 DEF AnswerTo
<1>5. AnswerTo(h)' = "serving" /\ AskedAt(h)' = now
  <2>1. pc'[h] = "check" /\ req'[h].cutoff = now - Window
    BY <1>1, <1>2 DEF Request
  <2> QED
    BY <1>2, <2>1 DEF AnswerTo, AskedAt
<1> QED
  BY <1>3, <1>4, <1>5 DEF OnlyMoves, Promise!Begin, Promise!Goto

(* Check and Stamp do not show.                                             *)
LEMMA CheckMaps ==
  ASSUME FullInv, NEW h \in Handler, Check(h)
  PROVE  UNCHANGED Promise!endpointVars
<1>1. /\ pc[h] = "check"
      /\ pc' = [pc EXCEPT ![h] = "touch"] \/ pc' = [pc EXCEPT ![h] = "stamp"]
      /\ UNCHANGED <<lastId, rows, now, req>>
  BY DEF Check, storeVars
<1>2. pc \in [Handler -> {"idle"} \cup Working \cup Answered]
  BY DEF FullInv, TypeOK
<1>3. OnlyMoves(h)
  BY <1>1, <1>2, OneRequest
<1>4. AnswerTo(h)' = AnswerTo(h) /\ AskedAt(h)' = AskedAt(h)
  <2>1. ~StoredBy(h) /\ ~StoredBy(h)'
    BY <1>1, <1>3, NotStoredYet DEF FullInv, OnlyMoves
  <2> QED
    BY <1>1, <1>2, <2>1 DEF AnswerTo, AskedAt
<1> QED
  BY <1>3, <1>4 DEF OnlyMoves, Promise!endpointVars

(* Taking the time of reception shows nowhere.                              *)
LEMMA StampMaps ==
  ASSUME FullInv, NEW h \in Handler, Stamp(h)
  PROVE  UNCHANGED Promise!endpointVars
<1>1. /\ pc[h] = "stamp"
      /\ pc' = [pc EXCEPT ![h] = "insert"]
      /\ req' = [req EXCEPT ![h].received = now]
      /\ UNCHANGED <<lastId, rows, now>>
  BY DEF Stamp, storeVars
<1>2. pc \in [Handler -> {"idle"} \cup Working \cup Answered] /\ req \in [Handler -> Request]
  BY DEF FullInv, TypeOK
<1>3. \A q \in Handler : /\ req'[q].agent = req[q].agent /\ req'[q].batch = req[q].batch
                         /\ req'[q].cutoff = req[q].cutoff
  BY <1>1, <1>2 DEF Request
<1>4. OnlyMoves(h)
  <2>1. \A q \in Handler \ {h} : pc'[q] = pc[q] /\ req'[q] = req[q]
    BY <1>1, <1>2
  <2> QED
    BY <1>1, <1>3, <2>1, OneRequest
<1>5. AnswerTo(h)' = AnswerTo(h) /\ AskedAt(h)' = AskedAt(h)
  BY <1>1, <1>2, <1>3 DEF AnswerTo, AskedAt
<1> QED
  BY <1>4, <1>5 DEF OnlyMoves, Promise!endpointVars

(* The 202 is a promise kept: the batch, or a recent one, is in the log.    *)
LEMMA TouchMaps ==
  ASSUME FullInv, NEW h \in Handler, TouchAndAccept(h)
  PROVE  Promise!Accept(h)
<1>1. /\ pc[h] = "touch"
      /\ pc' = [pc EXCEPT ![h] = "accepted"]
      /\ UNCHANGED <<lastId, rows, now, req>>
  BY DEF TouchAndAccept, storeVars
<1>2. pc \in [Handler -> {"idle"} \cup Working \cup Answered]
  BY DEF FullInv, TypeOK
<1>3. OnlyMoves(h)
  BY <1>1, <1>2, OneRequest
<1>4. AnswerTo(h)' = "accepted" /\ AskedAt(h)' = 0
  BY <1>1, <1>2 DEF AnswerTo, AskedAt
<1>5. CASE StoredBy(h)
  <2>1. AnswerTo(h) = "stored"
    BY <1>1, <1>5 DEF AnswerTo
  <2> QED
    BY <1>3, <1>4, <2>1 DEF OnlyMoves, Promise!Accept, Promise!Goto, Promise!Leave
<1>6. CASE ~StoredBy(h)
  <2>1. AnswerTo(h) = "serving" /\ AskedAt(h) = req[h].cutoff + Window
    BY <1>1, <1>6 DEF AnswerTo, AskedAt
  <2>2. PICK id \in 1 .. lastId : /\ rows[id].agent = req[h].agent
                                  /\ rows[id].received > req[h].cutoff
    BY <1>1, <1>6 DEF FullInv, AnswerInv, AcceptedIsJustified, Justified
  <2>3. /\ rows[id].by \in Handler /\ req[rows[id].by].agent = req[h].agent
        /\ rows[id].received > AskedAt(h) - Window
    BY <2>1, <2>2, Numbers, RowsByHandlers DEF FullInv, PromiseInv, RowsOfRequests
  <2>4. Len(Log) = lastId
    BY Numbers DEF FullInv
  <2>5. Promise!Recent(h)
    BY <2>2, <2>3, <2>4 DEF Promise!Recent
  <2> QED
    BY <1>3, <1>4, <2>1, <2>5 DEF OnlyMoves, Promise!Accept, Promise!Goto, Promise!Leave
<1> QED
  BY <1>5, <1>6

(* A database error is a refusal.                                           *)
LEMMA ErrorMaps ==
  ASSUME FullInv, NEW h \in Handler, StoreError(h)
  PROVE  Promise!Reject(h)
<1>1. /\ pc[h] \in {"check", "insert"}
      /\ pc' = [pc EXCEPT ![h] = "rejected"]
      /\ UNCHANGED <<lastId, rows, now, req>>
  BY DEF StoreError, storeVars
<1>2. pc \in [Handler -> {"idle"} \cup Working \cup Answered]
  BY DEF FullInv, TypeOK
<1>3. OnlyMoves(h)
  BY <1>1, <1>2, OneRequest
<1>4. AnswerTo(h) = "serving" /\ AnswerTo(h)' = "rejected" /\ AskedAt(h)' = 0
  BY <1>1, <1>2 DEF AnswerTo, AskedAt
<1> QED
  BY <1>3, <1>4 DEF OnlyMoves, Promise!Reject, Promise!Goto, Promise!Leave

(* The row the INSERT adds is the next entry of the log.                    *)
LEMMA InsertMaps ==
  ASSUME FullInv, NEW h \in Handler, Insert(h)
  PROVE  Promise!Store(h)
<1>1. /\ pc[h] = "insert"
      /\ pc' = [pc EXCEPT ![h] = "touch"]
      /\ UNCHANGED <<now, req>>
      /\ lastId < MaxRows
  BY DEF Insert
<1>2. /\ lastId \in Nat
      /\ lastId' = lastId + 1
      /\ \A id \in 1 .. lastId : rows'[id] = rows[id]
      /\ rows'[lastId + 1].by = h
      /\ rows'[lastId + 1].received = req[h].received
      /\ 1 .. lastId' = (1 .. lastId) \cup {lastId + 1}
  <2>1. TypeOK
    BY DEF FullInv
  <2>2. rows'[lastId + 1] =
          [agent |-> req[h].agent, batch |-> req[h].batch,
           received |-> req[h].received, by |-> h, before |-> req[h].before]
    BY <2>1, InsertGrows
  <2> QED
    BY <2>1, <2>2, InsertGrows
<1>3. pc \in [Handler -> {"idle"} \cup Working \cup Answered] /\ now \in Int
  BY DEF FullInv, TypeOK
<1>4. StoredBy(h)' /\ ~StoredBy(h)
  BY <1>1, <1>2, NotStoredYet DEF FullInv, StoredBy
<1>5. \A q \in Handler \ {h} : StoredBy(q)' = StoredBy(q)
  BY <1>2 DEF StoredBy
<1>6. AnswerTo(h) = "serving" /\ AnswerTo(h)' = "stored"
  BY <1>1, <1>3, <1>4 DEF AnswerTo
<1>7. \A q \in Handler \ {h} : AnswerTo(q)' = AnswerTo(q)
  BY <1>1, <1>3, <1>5 DEF AnswerTo
<1>8. Answers' = [Answers EXCEPT ![h] = "stored"]
  BY <1>6, <1>7
<1>9. AskedAt(h) = req[h].cutoff + Window /\ \A q \in Handler : AskedAt(q)' = AskedAt(q)
  BY <1>1, <1>3 DEF AskedAt
<1>10. req[h].received \in AskedAt(h) .. now
  BY <1>1, <1>3, <1>9, Numbers
     DEF FullInv, SpacingInv, StampIsLate, PromiseInv, StampIsPast
<1>11. Log' = Append(Log, [by |-> h, received |-> req[h].received])
  <2> DEFINE entry == [by |-> h, received |-> req[h].received]
             longer == Append(Log, entry)
  <2>1. Len(Log) = lastId
    BY <1>2
  <2>2. /\ DOMAIN longer = 1 .. lastId + 1
        /\ \A id \in 1 .. lastId : longer[id] = Log[id]
        /\ longer[lastId + 1] = entry
        /\ longer = [id \in 1 .. lastId + 1 |-> longer[id]]
    BY <1>2, <2>1
  <2>3. \A id \in 1 .. lastId + 1 : Log'[id] = longer[id]
    BY <1>2, <2>2
  <2>4. Log' = [id \in 1 .. lastId + 1 |-> Log'[id]]
    BY <1>2
  <2> QED
    BY <2>2, <2>3, <2>4
<1>12. Len(Log) < MaxRows
  BY <1>1, <1>2
<1>13. UNCHANGED <<now, Loads, Asked>>
  BY <1>1, <1>9
<1> QED
  BY <1>6, <1>8, <1>10, <1>11, <1>12, <1>13 DEF Promise!Store, Promise!Goto

(* A crash ends the requests that are being served and no other.            *)
LEMMA CrashMaps ==
  ASSUME FullInv, Crash
  PROVE  Promise!Die
<1> DEFINE dead == {q \in Handler : pc[q] \in Working}
<1>1. /\ pc' = [q \in Handler |-> IF q \in dead THEN "killed" ELSE pc[q]]
      /\ UNCHANGED <<lastId, rows, now, req>>
  BY DEF Crash, Store!CrashAndReopen
<1>2. dead \in SUBSET {q \in Handler : Answers[q] \in {"idle", "serving", "stored"}}
  BY DEF AnswerTo
<1>3. \A q \in Handler : /\ q \in dead => AnswerTo(q)' = "killed" /\ AskedAt(q)' = 0
                         /\ q \notin dead => /\ AnswerTo(q)' = AnswerTo(q)
                                             /\ AskedAt(q)' = AskedAt(q)
  BY <1>1 DEF AnswerTo, AskedAt, StoredBy
<1>4. /\ Answers' = [q \in Handler |-> IF q \in dead THEN "killed" ELSE Answers[q]]
      /\ Asked' = [q \in Handler |-> IF q \in dead THEN 0 ELSE Asked[q]]
  BY <1>3
<1>5. UNCHANGED <<now, Loads, Log>>
  BY <1>1
<1> HIDE DEF dead
<1> QED
  BY <1>2, <1>4, <1>5 DEF Promise!Die

(* Every step of the receiver is one of the endpoint, or shows nowhere.     *)
LEMMA NextMaps == FullInv /\ [Next]_vars => [Promise!Next]_(Promise!endpointVars)
<1> SUFFICES ASSUME FullInv, [Next]_vars
             PROVE  Promise!Next \/ UNCHANGED Promise!endpointVars
  OBVIOUS
<1>1. ASSUME NEW h \in Handler, Serve(h)
      PROVE  Promise!Next \/ UNCHANGED Promise!endpointVars
  BY <1>1, LookupMaps, CutoffMaps, CheckMaps, StampMaps, InsertMaps, TouchMaps, ErrorMaps
     DEF Serve, Promise!Next, Promise!Serve
<1>2. ASSUME NEW a \in Agent, DeleteAgent(a) PROVE UNCHANGED Promise!endpointVars
  BY <1>2, NoRequest DEF DeleteAgent, storeVars, reqVars, Promise!endpointVars
<1>3. ASSUME NEW g \in Store!Goroutines, ArchiverStep(g)
      PROVE  UNCHANGED Promise!endpointVars
  <2>1. TableShrinks
    BY <1>3, ArchiverShrinks DEF FullInv
  <2> QED
    BY <1>3, <2>1, NoRequest DEF ArchiverStep, reqVars, TableShrinks, Promise!endpointVars
<1>4. CASE Crash
  BY <1>4, CrashMaps DEF Promise!Next
<1>5. CASE Tick
  BY <1>5, NoRequest DEF Tick, storeVars, reqVars, Promise!Next, Promise!Tick
<1>6. CASE UNCHANGED vars
  BY <1>6, NoRequest DEF vars, storeVars, reqVars, Promise!endpointVars
<1> QED
  BY <1>1, <1>2, <1>3, <1>4, <1>5, <1>6 DEF Next

(* The handler, statement by statement among others, archivers and crashes, *)
(* keeps what Endpoint promises; what is checked of Delivery, which is      *)
(* built on Endpoint, is so a matter of this code.                          *)
THEOREM ReceiveImplementsEndpoint == Spec => ImplementsEndpoint
<1>1. Spec => []FullInv
  BY ReceiveTypeOK, InitSpacing, NextSpacing, InitAnswer, NextAnswer,
     InitPromiseInv, NextPromiseInv, PTL DEF Spec, FullInv
<1> QED
  BY <1>1, InitMaps, NextMaps, PTL DEF Spec, ImplementsEndpoint, Promise!Spec
==============================================================================
