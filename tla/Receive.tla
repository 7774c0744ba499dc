-------------------------------- MODULE Receive -------------------------------
(***************************************************************************)
(* The push endpoint (aggregator/handler/receive.go) running on the hot    *)
(* store: several requests at once, each a goroutine that reads the agent, *)
(* asks HasRecentBatch whether the agent stored anything within the dedup  *)
(* window, and inserts if it did not.  No transaction spans these          *)
(* statements and no request context bounds them, so requests, archivers,  *)
(* the deletion of the agent and a crash interleave between any two.       *)
(*                                                                         *)
(* Time is the server's wall clock in whole seconds, as time.RFC3339 keeps *)
(* it in the table; it is assumed not to be set back.                      *)
(***************************************************************************)
EXTENDS Integers, FiniteSets, Sequences

CONSTANTS
  Agent,       \* agent ids (an agent's id is also its API key)
  Batch,       \* identities of batches: a batch sent again is the same batch
  Handler,     \* requests; each is served once, by a goroutine of its own
  Window,      \* the dedup window (30s)
  MaxEntries,  \* maxEntries of the store
  MaxTime,     \* bound of the model: the clock stops here
  MaxRows      \* bound of the model: how many rows are ever inserted

ASSUME WindowAssumption == Window \in Nat
ASSUME MaxEntriesPositive == MaxEntries \in Nat \ {0}
ASSUME BoundsAssumption == MaxTime \in Nat /\ MaxRows \in Nat

VARIABLES
  lastId, rows, hot, archives, archiver, raced,  \* see HotStore
  now,     \* the server's clock
  agents,  \* the ids in the agents table
  pc,      \* pc[h]: the next thing request h does, or its answer
  req      \* req[h]: what request h carries and has read so far

(* A row of metric_batches; by and before are history: the request that    *)
(* inserted it and the newest id at the moment that request arrived.       *)
Row == [agent : Agent, batch : Batch, received : 0 .. MaxTime,
        by : Handler, before : 0 .. MaxRows]

Store == INSTANCE HotStore

storeVars == <<lastId, rows, hot, archives, archiver, raced>>
reqVars == <<pc, req>>
vars == <<storeVars, now, agents, reqVars>>

\* "accepted" is the 202 answer, "rejected" any error answer, "killed" no
\* answer at all: the process died.
Answered == {"accepted", "rejected", "killed"}
Working == {"window", "check", "stamp", "insert", "touch"}
Request == [agent : Agent, batch : Batch, before : 0 .. MaxRows,
            cutoff : -Window .. MaxTime, received : 0 .. MaxTime]

Goto(h, from, to) == pc[h] = from /\ pc' = [pc EXCEPT ![h] = to]

Init ==
  /\ Store!Init
  /\ now = 0
  /\ agents = Agent
  /\ pc = [h \in Handler |-> "idle"]
  /\ req \in [Handler -> {[agent |-> a, batch |-> b, before |-> 0,
                           cutoff |-> 0, received |-> 0] : a \in Agent, b \in Batch}]
------------------------------------------------------------------------------
(* Faulty variants, one plausible bug each.                                *)

\* The window compared with >= one second too late.
HasRecentBatchLate(a, cutoff) ==
  \E id \in hot : rows[id].agent = a /\ rows[id].received > cutoff + 1

\* The filter on agent_id forgotten.
HasRecentBatchOfAnyone(a, cutoff) ==
  \E id \in hot : rows[id].received > cutoff

\* The archiver is not started for a row of a deleted agent.
InsertWithoutArchiver(h) ==
  /\ Goto(h, "insert", "touch")
  /\ lastId < MaxRows
  /\ lastId' = lastId + 1
  /\ rows' = Store!Put(rows, lastId + 1,
               [agent |-> req[h].agent, batch |-> req[h].batch,
                received |-> req[h].received, by |-> h, before |-> req[h].before])
  /\ hot' = hot \cup {lastId + 1}
  /\ archiver' = Store!Put(archiver, lastId + 1,
                           IF req[h].agent \in agents THEN "count" ELSE "done")
  /\ UNCHANGED <<archives, raced, now, agents, req>>

\* When TouchAgent fails the batch is inserted again.
TouchOrInsertAgain(h) ==
  /\ Goto(h, "touch", "accepted") \/ Goto(h, "touch", "stamp")
  /\ UNCHANGED <<storeVars, now, agents, req>>

\* The cutoff on the wrong side of now: Add(window) for Add(-window).
CutoffAhead(h) ==
  /\ Goto(h, "window", "check")
  /\ req' = [req EXCEPT ![h].cutoff = now + Window]
  /\ UNCHANGED <<storeVars, now, agents>>
------------------------------------------------------------------------------

(* HasRecentBatch: SELECT EXISTS over the hot table only; what an archiver  *)
(* cleared is forgotten.                                                    *)
HasRecentBatch(a, cutoff) ==
  \E id \in hot : rows[id].agent = a /\ rows[id].received > cutoff

\* The key is that of an agent in the table.
AgentByKey(a) == a \in agents

(* A POST is read and looked up with AgentByKey.  Missing credentials, an   *)
(* unknown or disabled agent, a wrong signature and an unreadable body all  *)
(* lead to an error answer and to no write; which of them is not told apart *)
(* here, except that an agent that is not in the table never gets further.  *)
Lookup(h) ==
  /\ \/ Goto(h, "idle", "window") /\ AgentByKey(req[h].agent)
     \/ Goto(h, "idle", "rejected")
  /\ req' = [req EXCEPT ![h].before = lastId]
  /\ UNCHANGED <<storeVars, now, agents>>

(* HasRecentBatch computes its cutoff, then waits for the connection.       *)
Cutoff(h) ==
  /\ Goto(h, "window", "check")
  /\ req' = [req EXCEPT ![h].cutoff = now - Window]
  /\ UNCHANGED <<storeVars, now, agents>>

(* The query: a push within the window is answered 202 and not stored.      *)
Check(h) ==
  /\ Goto(h, "check", IF HasRecentBatch(req[h].agent, req[h].cutoff)
                      THEN "touch" ELSE "stamp")
  /\ UNCHANGED <<storeVars, now, agents, req>>

(* InsertBatch reads the clock for received_at, then waits.                 *)
Stamp(h) ==
  /\ Goto(h, "stamp", "insert")
  /\ req' = [req EXCEPT ![h].received = now]
  /\ UNCHANGED <<storeVars, now, agents>>

(* The INSERT.  It does not ask whether the agent still exists: the         *)
(* connection leaves foreign_keys off, SQLite's default.                    *)
Insert(h) ==
  /\ Goto(h, "insert", "touch")
  /\ lastId < MaxRows
  /\ Store!InsertBatch([agent |-> req[h].agent, batch |-> req[h].batch,
                        received |-> req[h].received, by |-> h,
                        before |-> req[h].before])
  /\ UNCHANGED <<now, agents, req>>

(* TouchAgent, then the 202 answer of either branch.  TouchAgent only sets  *)
(* last_seen_at, which nothing here reads, and its failure is ignored.      *)
TouchAndAccept(h) ==
  /\ Goto(h, "touch", "accepted")
  /\ UNCHANGED <<storeVars, now, agents, req>>

(* HasRecentBatch or the INSERT fails: 500, nothing stored.                 *)
StoreError(h) ==
  /\ Goto(h, "check", "rejected") \/ Goto(h, "insert", "rejected")
  /\ UNCHANGED <<storeVars, now, agents, req>>

Serve(h) ==
  \/ Lookup(h)
  \/ Cutoff(h)
  \/ Check(h)
  \/ Stamp(h)
  \/ Insert(h)
  \/ TouchAndAccept(h)
  \/ StoreError(h)

(* AgentsHandler.delete reaches DeleteAgent: one row of agents goes.  The   *)
(* REFERENCES ... ON DELETE CASCADE of metric_batches does nothing while    *)
(* foreign_keys is off.                                                     *)
DeleteAgent(a) ==
  /\ a \in agents
  /\ agents' = agents \ {a}
  /\ UNCHANGED <<storeVars, now, reqVars>>

ArchiverStep(g) ==
  /\ Store!Archive(g) \/ Store!ArchiveFails(g)
  /\ UNCHANGED <<now, agents, reqVars>>

(* The server process dies and comes back: every request under way ends     *)
(* without an answer, at whatever statement it had reached.                 *)
Crash ==
  /\ Store!CrashAndReopen
  /\ pc' = [h \in Handler |-> IF pc[h] \in Working THEN "killed" ELSE pc[h]]
  /\ UNCHANGED <<now, agents, req>>

Tick ==
  /\ now < MaxTime
  /\ now' = now + 1
  /\ UNCHANGED <<storeVars, agents, reqVars>>

Next ==
  \/ \E h \in Handler : Serve(h)
  \/ \E a \in Agent : DeleteAgent(a)
  \/ \E g \in Store!Goroutines : ArchiverStep(g)
  \/ Crash
  \/ Tick

Spec == Init /\ [][Next]_vars
------------------------------------------------------------------------------

TypeOK ==
  /\ Store!TypeOK
  /\ lastId <= MaxRows
  /\ now \in 0 .. MaxTime
  /\ agents \subseteq Agent
  /\ pc \in [Handler -> {"idle"} \cup Working \cup Answered]
  /\ req \in [Handler -> Request]

(* What the push endpoint does to the store is HotStore's behaviour, so     *)
(* that what is shown of HotStore holds of the running aggregator.          *)
ImplementsHotStore == Store!Spec

StoredBy(h) == \E id \in 1 .. lastId : rows[id].by = h

\* How far request h has come and when it asked for a recent batch, as
\* Endpoint has it.
AnswerTo(h) ==
  CASE pc[h] \in {"idle", "window"} -> "idle"
    [] pc[h] \in {"check", "stamp", "insert"} -> "serving"
    [] pc[h] = "touch" -> IF StoredBy(h) THEN "stored" ELSE "serving"
    [] OTHER -> pc[h]

AskedAt(h) ==
  IF pc[h] \in {"check", "stamp", "insert", "touch"} THEN req[h].cutoff + Window ELSE 0

(* What a client may rely on: request by request, whatever statements of    *)
(* others, archivers and crashes come between, the answer and the rows are  *)
(* those of one promise about the whole request.                            *)
Promise == INSTANCE Endpoint WITH
  load <- [h \in Handler |-> [agent |-> req[h].agent, batch |-> req[h].batch]],
  answer <- [h \in Handler |-> AnswerTo(h)],
  since <- [h \in Handler |-> AskedAt(h)],
  log <- [id \in 1 .. lastId |-> [by |-> rows[id].by, received |-> rows[id].received]]

ImplementsEndpoint == Promise!Spec

(* Two batches of one agent that are both in the hot table and whose        *)
(* requests did not overlap - the first was stored before the second        *)
(* arrived - carry received_at times at least Window apart, although the    *)
(* cutoff, the query, the time stamp and the insert are four separate steps *)
(* that other requests, archivers and crashes interleave with.              *)
DedupSpacing ==
  \A i, j \in hot :
    rows[i].agent = rows[j].agent /\ i <= rows[j].before
      => rows[i].received + Window <= rows[j].received

(* An error answer means that nothing was stored.  A 202 means that the     *)
(* batch was stored, or that a batch of the same agent - of no other - was  *)
(* stored later than this request's cutoff.                                 *)
AnswerMatchesTable ==
  \A h \in Handler :
    /\ pc[h] = "rejected" => ~StoredBy(h)
    /\ pc[h] = "accepted" =>
         \/ StoredBy(h)
         \/ \E id \in 1 .. lastId : /\ rows[id].agent = req[h].agent
                                    /\ rows[id].received > req[h].cutoff

(* What the comment of DeleteAgent says: the batches of an agent go with    *)
(* it.                                                                      *)
BatchesHaveAgents == \A id \in hot : rows[id].agent \in agents
==============================================================================
