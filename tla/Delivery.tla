-------------------------------- MODULE Delivery -------------------------------
(***************************************************************************)
(* An agent and the aggregator it pushes to: Agent, and Endpoint, which    *)
(* Receive implements, put together over HTTP (agent/pusher/pusher.go).    *)
(*                                                                         *)
(* A push is a request that may get lost, or arrive; an answer that may    *)
(* get lost; and a client that gives up after its timeout, while the       *)
(* aggregator goes on with the request, or begins with it, all the same.   *)
(* Both machines go by one clock.  The agent stays registered and enabled. *)
(***************************************************************************)
EXTENDS Integers, FiniteSets, Sequences

CONSTANTS
  Second, Interval, Retention,  \* see Agent
  Window,                       \* see Endpoint
  Timeout,                      \* the HTTP client's timeout (15s)
  Key,                          \* the agent's API key
  MaxTime, MaxBatches, MaxRows, \* bounds of the model, see Agent and Endpoint
  MaxReplays                    \* bound of the model: replays of one batch

\* See Agent.
ASSUME AgentAssumption ==
  /\ Second \in Nat \ {0} /\ Retention \in Nat
  /\ Interval \in Nat /\ Interval >= Second
  /\ MaxTime \in Nat /\ MaxBatches \in Nat

\* 30s and 15s fit into 180s.
ASSUME TimesAssumption ==
  /\ Timeout \in Nat /\ Window \in Nat /\ MaxReplays \in Nat
  /\ Window * Second + Timeout <= Interval

VARIABLES
  now, pc, seq, due, ticked, captured, name, cur, plan, files,  \* see Agent
  acked, expired, dropped, started, clean,
  answer, since, log,  \* see Endpoint
  out,         \* out[h]: what the client knows of push h
  deadline,    \* when the push that is waited for times out
  stalled,     \* history: a live push began long after its tick
  lingered     \* history: a request was stored whose client had given up

\* A push is named by its batch and its number: 0 for the live push, then the
\* replays.
Push == (1 .. MaxBatches) \X (0 .. MaxReplays)

Client == INSTANCE Agent WITH
  now <- now, pc <- pc, seq <- seq, due <- due, ticked <- ticked,
  captured <- captured, name <- name, cur <- cur, plan <- plan, files <- files,
  acked <- acked, expired <- expired, dropped <- dropped, started <- started,
  clean <- clean

\* The table keeps whole seconds.
Server == INSTANCE Endpoint WITH
  Handler <- Push, MaxTime <- MaxTime \div Second,
  now <- now \div Second, load <- [h \in Push |-> [agent |-> Key, batch |-> h[1]]],
  answer <- answer, since <- since, log <- log

clientVars == <<pc, seq, due, ticked, captured, name, cur, plan, files,
                acked, expired, dropped, started, clean>>
serverVars == <<answer, since, log>>
pushVars == <<out, deadline, stalled, lingered>>
vars == <<now, clientVars, serverVars, pushVars>>

Waiting == {h \in Push : out[h] = "waiting"}

Init ==
  /\ Client!Init
  /\ Server!Init
  /\ out = [h \in Push |-> "none"]
  /\ deadline = 0
  /\ stalled = FALSE
  /\ lingered = FALSE
------------------------------------------------------------------------------
(* Pushes.                                                                  *)

\* The push collect or replayBuffer makes next.
Due(h) ==
  \/ pc = "push" /\ h = <<cur, 0>>
  \/ /\ pc = "replay" /\ Client!First(h[1])
     /\ h[2] > 0 /\ (h[2] = 1 \/ out[<<h[1], h[2] - 1>>] # "none")

\* The time since the tick leaves less than the window and the timeout until
\* the next one.
Late == ticked \/ now + Window * Second + Timeout > due

------------------------------------------------------------------------------
(* Faulty variants, one plausible bug each.                                 *)

\* The timeout is that of each of two phases, not of the whole exchange.
SendTwoPhases(h) ==
  /\ Waiting = {}
  /\ Due(h) /\ out[h] = "none"
  /\ out' = [out EXCEPT ![h] = "waiting"]
  /\ deadline' = now + 2 * Timeout
  /\ stalled' = (stalled \/ (pc = "push" /\ Late))
  /\ UNCHANGED <<now, clientVars, serverVars, lingered>>

\* The status code is not looked at.
ReturnNilOnAnyAnswer(h) ==
  /\ out[h] = "waiting" /\ answer[h] \in {"accepted", "rejected"}
  /\ out' = [out EXCEPT ![h] = "ok"]
  /\ deadline' = 0
  /\ Client!PushOk \/ (Client!ReplayPush /\ cur' = h[1])
  /\ UNCHANGED <<serverVars, stalled, lingered>>

\* collect buffers the batch although Push has returned nil.
BuffersAfterNil(h) ==
  /\ out[h] = "waiting" /\ answer[h] = "accepted"
  /\ out' = [out EXCEPT ![h] = "ok"]
  /\ deadline' = 0
  /\ Client!PushFails \/ (Client!ReplayPush /\ cur' = h[1])
  /\ UNCHANGED <<serverVars, stalled, lingered>>
------------------------------------------------------------------------------

(* client.Do sends the request.                                             *)
Send(h) ==
  /\ Waiting = {}
  /\ Due(h) /\ out[h] = "none"
  /\ out' = [out EXCEPT ![h] = "waiting"]
  /\ deadline' = now + Timeout
  /\ stalled' = (stalled \/ (pc = "push" /\ Late))
  /\ UNCHANGED <<now, clientVars, serverVars, lingered>>

Return(h, outcome) ==
  /\ out[h] = "waiting"
  /\ out' = [out EXCEPT ![h] = outcome]
  /\ deadline' = 0
  /\ UNCHANGED <<serverVars, stalled, lingered>>

(* The answer is a 2xx; a replay goes on with the batch it pushed.          *)
ReturnNil(h) ==
  /\ Return(h, "ok")
  /\ answer[h] = "accepted"
  /\ Client!PushOk \/ (Client!ReplayPush /\ cur' = h[1])

(* Another answer, none before the timeout, or an error of the transport:   *)
(* the request may have been lost, be under way, be stored or be answered.  *)
ReturnError(h) ==
  /\ Return(h, "failed")
  /\ Client!PushFails \/ Client!ReplayFails

(* The aggregator serves what was sent, whoever still waits for the answer. *)
Serve(h) ==
  /\ out[h] # "none"
  /\ UNCHANGED <<now, clientVars, out, deadline, stalled>>
  /\ Server!Serve(h)
  /\ lingered' = (lingered \/ (answer'[h] = "stored" /\ answer[h] = "serving"
                               /\ out[h] # "waiting"))
------------------------------------------------------------------------------

(* What the agent does without the aggregator.                              *)
Alone ==
  /\ \/ Client!Start \/ Client!Pending \/ Client!PendingFails \/ Client!Delete
     \/ Client!ReplayEnds \/ Client!Collect \/ Client!WriteOpens
     \/ Client!WriteEnds \/ Client!WriteFails \/ Client!Stop
  /\ UNCHANGED <<serverVars, pushVars>>

(* The agent dies; what it has sent is on its way.                          *)
Kill ==
  /\ Client!Kill
  /\ out' = [h \in Push |-> IF h \in Waiting THEN "failed" ELSE out[h]]
  /\ deadline' = 0
  /\ UNCHANGED <<serverVars, stalled, lingered>>

(* The aggregator dies with the requests it is serving.                     *)
Die ==
  /\ \E h \in Push : answer[h] \in {"serving", "stored"}
  /\ UNCHANGED <<now, clientVars, pushVars>>
  /\ Server!Die
  /\ \A h \in Push : answer'[h] = "killed" <=> answer[h] \in {"serving", "stored", "killed"}

\* A client does not wait past its timeout.
Tick ==
  /\ Waiting = {} \/ now < deadline
  /\ Client!Tick
  /\ UNCHANGED <<serverVars, pushVars>>

Next ==
  \/ \E h \in Push : Send(h) \/ ReturnNil(h) \/ ReturnError(h) \/ Serve(h)
  \/ Alone \/ Kill
  \/ Die \/ Tick

Spec == Init /\ [][Next]_vars
------------------------------------------------------------------------------

TypeOK ==
  /\ Client!TypeOK
  /\ answer \in [Push -> Server!Answer]
  /\ since \in [Push -> 0 .. MaxTime \div Second]
  /\ log \in Seq([by : Push, received : 0 .. MaxTime \div Second])
  /\ out \in [Push -> {"none", "waiting", "ok", "failed"}]
  /\ Cardinality(Waiting) <= 1
  /\ deadline \in 0 .. MaxTime + Timeout
  /\ stalled \in BOOLEAN /\ lingered \in BOOLEAN

StoredBy(h) == \E i \in 1 .. Len(log) : log[i].by = h
Stored(b) == \E i \in 1 .. Len(log) : log[i].by[1] = b

\* A push of b was answered 202 without being stored.
TakenForDuplicate(b) ==
  \E h \in Push : h[1] = b /\ answer[h] = "accepted" /\ ~StoredBy(h)

(* End to end: a batch is in the agent's hands, or its file is in the       *)
(* buffer, or it was stored, or taken for a duplicate, or it was lost for   *)
(* one of the reasons an agent has alone.  No lost or late message, timeout *)
(* or death on either side adds to these.                                   *)
NothingVanishes ==
  \A b \in 1 .. captured :
    b \in expired \cup dropped \cup {cur} \/ Client!Buffered(b)
      \/ Stored(b) \/ TakenForDuplicate(b)

(* A live push that returned nil has stored its batch: the dedup window and *)
(* the timeout fit into the push interval, so that the window never reaches *)
(* the push before.  There are two exceptions: a push that began so long    *)
(* after its tick that the next tick is near; and a request that was stored *)
(* when its client had given up.                                            *)
LiveIsStored ==
  \A b \in 1 .. MaxBatches :
    out[<<b, 0>>] = "ok" /\ ~stalled /\ ~lingered => StoredBy(<<b, 0>>)

(* A batch is stored twice only if a push of it ended in an error although  *)
(* it was stored, or if a replay that was answered did not get to remove    *)
(* the file.  A live push that was answered is never repeated.              *)
TwiceOnlyAfterError ==
  \A i, j \in 1 .. Len(log) :
    LET g == log[i].by  h == log[j].by IN
    i < j /\ g[1] = h[1] => out[g] = "failed" \/ out[h] = "failed" \/ g[2] > 0

(* What the answer says, {"status":"accepted"}, and what the agent takes it *)
(* for: a batch whose push returned nil was stored.  Where the exceptions   *)
(* of LiveIsStored do not apply only replays fail it: they are pushed one   *)
(* right after the other, and all but the first fall into its window.       *)
AckedIsStored == ~stalled /\ ~lingered => \A b \in acked : Stored(b)
===============================================================================
