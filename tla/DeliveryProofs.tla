----------------------------- MODULE DeliveryProofs ---------------------------
(***************************************************************************)
(* An agent and the aggregator together keep what each promises alone, and *)
(* no batch vanishes between them, for every number of batches and replays *)
(* and every Interval, Window and Timeout that TimesAssumption allows.     *)
(*                                                                         *)
(* The composition implements Agent and Endpoint, so AgentProofs' theorems *)
(* hold of it.  On top of them: there is one push at a time, the one the   *)
(* agent's program counter asks for (OnePush); a request stores one row    *)
(* (RowsOfPushes); a batch is replayed only after its live push has failed *)
(* (FailedFirst); and the rows of earlier pushes leave the window before   *)
(* the next tick (SpacingInv).                                             *)
(***************************************************************************)
EXTENDS Delivery, FiniteSetTheorems, TLAPS

ClientFacts == INSTANCE AgentProofs

(* There is one push at a time, and the agent is waiting for it.            *)
OnePush ==
  /\ \A g, h \in Waiting : g = h
  /\ \A h \in Waiting : \/ pc = "push" /\ h = <<cur, 0>>
                        \/ pc = "replay" /\ h[2] > 0 /\ h[1] \in plan

(* What the aggregator has of a request: nothing before it was sent, and no *)
(* row before it says so.                                                   *)
SentFirst == \A h \in Push : out[h] = "none" => answer[h] = "idle"

RowsOfPushes ==
  /\ \A h \in Push : answer[h] \in {"idle", "serving"} => ~StoredBy(h)
  /\ \A h \in Push : answer[h] = "stored" => StoredBy(h)
  /\ \A i, j \in 1 .. Len(log) : log[i].by = log[j].by => i = j

(* What the agent takes for delivered was answered 202.                     *)
AckedIsAccepted == \A b \in acked : \E h \in Push : h[1] = b /\ answer[h] = "accepted"

(* A batch gets into the buffer, and is replayed, only when its live push   *)
(* has failed.                                                              *)
Failed(b) == out[<<b, 0>>] = "failed"

FailedFirst ==
  /\ \A b \in plan : Failed(b)
  /\ \A n \in DOMAIN files : Failed(files[n].of)
  /\ pc \in {"write", "writing"} => Failed(cur)
  /\ \A h \in Push : h[2] > 0 /\ out[h] # "none" => Failed(h[1])

(* The earliest time of the next capture.                                   *)
Free == IF ticked THEN now ELSE due
TickerAhead == pc \in Client!Pushing => now < due

RowsArePast == \A i \in 1 .. Len(log) : log[i].received * Second <= now

(* The window has left a row behind at time t.                              *)
Behind(row, t) == row.received * Second + Window * Second <= t
AllBehind(t) == \A i \in 1 .. Len(log) : Behind(log[i], t)
OthersBehind(h, t) == \A i \in 1 .. Len(log) : log[i].by # h => Behind(log[i], t)

(* Before a capture and in it, the rows of the pushes before.               *)
LoopSpaced ==
  /\ pc \in {"select", "write", "writing"} => AllBehind(Free)
  /\ pc = "push" => OthersBehind(<<cur, 0>>, now)

(* A live push that is waited for: it ends a window before the next tick,   *)
(* and while it is served, the window does not reach another's row.         *)
LivePush(h) ==
  /\ now <= deadline /\ deadline + Window * Second <= Free
  /\ answer[h] = "serving" =>
       \A i \in 1 .. Len(log) : log[i].by # h => log[i].received + Window <= since[h]
  /\ answer[h] = "accepted" => StoredBy(h)

LiveSpaced == \A h \in Waiting : h[2] = 0 => LivePush(h)

SpacingInv == ~stalled /\ ~lingered => LoopSpaced /\ LiveSpaced

USE AgentAssumption, TimesAssumption DEF Push

------------------------------------------------------------------------------
(* The agent.                                                               *)

(* For the agent, a push is an answer that comes at once, or nothing yet.   *)
LEMMA PushMaps ==
  ASSUME NEW h \in Push, Send(h) \/ ReturnNil(h) \/ ReturnError(h) \/ Serve(h)
  PROVE  [Client!Next]_(Client!vars)
<1>1. CASE Send(h) \/ Serve(h)
  BY <1>1 DEF Send, Serve, clientVars, Client!vars, Client!procVars, Client!history
<1>2. CASE ReturnNil(h)
  BY <1>2 DEF ReturnNil, Client!Next, Client!Replay, Client!Loop
<1>3. CASE ReturnError(h)
  BY <1>3 DEF ReturnError, Client!Next, Client!Replay, Client!Loop
<1> QED
  BY <1>1, <1>2, <1>3

(* Every step is one of the agent's, or passes it by.                       *)
LEMMA NextMapsToAgent == [Next]_vars => [Client!Next]_(Client!vars)
<1> SUFFICES ASSUME [Next]_vars PROVE [Client!Next]_(Client!vars)
  OBVIOUS
<1>1. CASE \E h \in Push : Send(h) \/ ReturnNil(h) \/ ReturnError(h) \/ Serve(h)
  BY <1>1, PushMaps
<1>2. CASE Alone
  BY <1>2 DEF Alone, Client!Next, Client!Replay, Client!Loop
<1>3. CASE Kill
  BY <1>3 DEF Kill, Client!Next
<1>4. CASE Die
  BY <1>4 DEF Die, clientVars, Client!vars, Client!procVars, Client!history
<1>5. CASE Tick
  BY <1>5 DEF Tick, Client!Next
<1>6. CASE UNCHANGED vars
  BY <1>6 DEF vars, clientVars, Client!vars, Client!procVars, Client!history
<1> QED
  BY <1>1, <1>2, <1>3, <1>4, <1>5, <1>6 DEF Next

(* Between agent and aggregator, the agent does nothing Agent does not: the *)
(* composition only says which answer a push returns.                       *)
THEOREM DeliveryImplementsAgent == Spec => Client!Spec
<1>1. Init => Client!Init
  BY DEF Init
<1> QED
  BY <1>1, NextMapsToAgent, PTL DEF Spec, Client!Spec

(* Client and ClientFacts are the same instance of Agent.                   *)
LEMMA SameAgent == Client!Spec => ClientFacts!Spec
<1>1. Client!Init => ClientFacts!Init
  BY DEF Client!Init, ClientFacts!Init
<1>2. Client!Replay => ClientFacts!Replay
  <2>1. \A b : Client!First(b) => ClientFacts!First(b)
    BY DEF Client!First, ClientFacts!First, Client!NameBefore, ClientFacts!NameBefore,
       Client!DecimalBefore, ClientFacts!DecimalBefore, Client!Digits, ClientFacts!Digits
  <2>2. Client!ReplayPush => ClientFacts!ReplayPush
    BY <2>1 DEF Client!ReplayPush, ClientFacts!ReplayPush
  <2>3. Client!Pending => ClientFacts!Pending
    BY DEF Client!Pending, ClientFacts!Pending, Client!Expired, ClientFacts!Expired,
       Client!Whole, ClientFacts!Whole, Client!Without, ClientFacts!Without
  <2>4. Client!Delete => ClientFacts!Delete
    BY DEF Client!Delete, ClientFacts!Delete, Client!Without, ClientFacts!Without
  <2>5. /\ Client!PendingFails => ClientFacts!PendingFails
        /\ Client!ReplayFails => ClientFacts!ReplayFails
        /\ Client!ReplayEnds => ClientFacts!ReplayEnds
    BY DEF Client!PendingFails, ClientFacts!PendingFails, Client!ReplayFails,
       ClientFacts!ReplayFails, Client!ReplayEnds, ClientFacts!ReplayEnds, Client!EnterLoop,
       ClientFacts!EnterLoop, Client!history, ClientFacts!history
  <2> QED
    BY <2>2, <2>3, <2>4, <2>5 DEF Client!Replay, ClientFacts!Replay
<1>3. Client!Loop => ClientFacts!Loop
  BY DEF Client!Loop, ClientFacts!Loop, Client!Collect, ClientFacts!Collect, Client!PushOk,
     ClientFacts!PushOk, Client!PushFails, ClientFacts!PushFails, Client!WriteOpens,
     ClientFacts!WriteOpens, Client!WriteEnds, ClientFacts!WriteEnds, Client!WriteFails,
     ClientFacts!WriteFails, Client!loopFrame, ClientFacts!loopFrame, Client!BackToSelect,
     ClientFacts!BackToSelect, Client!Put, ClientFacts!Put, Client!NameOf, ClientFacts!NameOf
<1>4. Client!Start \/ Client!Stop \/ Client!Kill \/ Client!Tick
      => ClientFacts!Start \/ ClientFacts!Stop \/ ClientFacts!Kill \/ ClientFacts!Tick
  BY DEF Client!Start, ClientFacts!Start, Client!Stop, ClientFacts!Stop, Client!Kill,
     ClientFacts!Kill, Client!Tick, ClientFacts!Tick, Client!history, ClientFacts!history,
     Client!InHand, ClientFacts!InHand, Client!Pushing, ClientFacts!Pushing
<1>5. [Client!Next]_(Client!vars) => [ClientFacts!Next]_(ClientFacts!vars)
  BY <1>2, <1>3, <1>4 DEF Client!Next, ClientFacts!Next, Client!vars, ClientFacts!vars,
     Client!procVars, ClientFacts!procVars, Client!history, ClientFacts!history
<1> QED
  BY <1>1, <1>5, PTL DEF Client!Spec, ClientFacts!Spec

(* What AgentProofs shows of an agent alone.                                *)
LEMMA AgentFacts == Spec => [](Client!TypeOK /\ Client!Accounted)
<1>1. ClientFacts!TypeOK => Client!TypeOK
  BY DEF ClientFacts!TypeOK, Client!TypeOK, ClientFacts!Replaying, Client!Replaying,
     ClientFacts!Pushing, Client!Pushing, ClientFacts!InHand, Client!InHand,
     ClientFacts!Name, Client!Name, ClientFacts!File, Client!File
<1>2. ClientFacts!Accounted => Client!Accounted
  BY DEF ClientFacts!Accounted, Client!Accounted, ClientFacts!Buffered, Client!Buffered,
     ClientFacts!Whole, Client!Whole
<1> QED
  BY <1>1, <1>2, SameAgent, DeliveryImplementsAgent, ClientFacts!AgentTypeOK,
     ClientFacts!AgentAccounts, PTL
------------------------------------------------------------------------------
(* The aggregator.                                                          *)

(* A unit of the clock later it is the same second or the next.             *)
LEMMA NextSecond ==
  ASSUME NEW t \in Nat
  PROVE  (t + 1) \div Second \in {t \div Second, t \div Second + 1}
<1> DEFINE q == t \div Second
           r == (t + 1) \div Second
<1>1. q \in Nat /\ t < Second * q + Second
  BY ClientFacts!SecondOf
<1>2. r \in Nat /\ Second * r <= t + 1
  BY ClientFacts!SecondOf
<1>3. q <= r
  BY ClientFacts!SecondsGrow
<1> HIDE DEF q, r
<1>4. r <= q + 1
  <2> SUFFICES ASSUME q + 2 <= r PROVE FALSE
    BY <1>1, <1>2
  <2>1. Second * (q + 2) <= Second * r
    BY <1>1, <1>2
  <2>2. Second * (q + 2) = Second * q + Second + Second
    BY <1>1
  <2> QED
    BY <2>1, <2>2, <1>1, <1>2
<1>5. r = q \/ r = q + 1
  BY <1>1, <1>2, <1>3, <1>4
<1> QED
  BY <1>5 DEF q, r

(* A whole second that is over, and the seconds until a time.               *)
LEMMA WholeSeconds ==
  ASSUME NEW x \in Nat, NEW t \in Nat
  PROVE  x * Second <= t <=> x <= t \div Second
<1> DEFINE q == t \div Second
<1>1. q \in Nat /\ Second * q <= t /\ t < Second * q + Second
  BY ClientFacts!SecondOf
<1> HIDE DEF q
<1>2. x <= q => x * Second <= t
  <2> SUFFICES ASSUME x <= q PROVE x * Second <= t
    OBVIOUS
  <2>1. x * Second <= q * Second
    BY <1>1
  <2> QED
    BY <1>1, <2>1
<1>3. q + 1 <= x => t < x * Second
  <2> SUFFICES ASSUME q + 1 <= x PROVE t < x * Second
    OBVIOUS
  <2>1. (q + 1) * Second <= x * Second
    BY <1>1
  <2>2. (q + 1) * Second = Second * q + Second
    BY <1>1
  <2>3. x * Second \in Nat /\ Second * q \in Nat
    BY <1>1
  <2> QED
    BY <1>1, <2>1, <2>2, <2>3
<1>4. x * Second \in Nat
  OBVIOUS
<1> QED
  BY <1>1, <1>2, <1>3, <1>4 DEF q

(* Before the first push no handler runs, as at the endpoint's start.       *)
LEMMA InitMapsToEndpoint == Init => Server!Init
BY DEF Init

(* The agent's clock drives the aggregator's.                               *)
LEMMA TickMaps ==
  ASSUME Client!TypeOK, Tick
  PROVE  Server!Tick \/ UNCHANGED Server!endpointVars
<1>1. /\ now \in Nat /\ MaxTime \in Nat /\ now + 1 <= MaxTime /\ now' = now + 1
      /\ UNCHANGED <<answer, since, log>>
  BY DEF Client!TypeOK, Tick, Client!Tick, serverVars
<1> DEFINE q == now \div Second
           r == (now + 1) \div Second
           m == MaxTime \div Second
<1>2. q \in Nat /\ m \in Nat /\ r \in {q, q + 1}
  BY <1>1, ClientFacts!SecondOf, NextSecond
<1>3. r <= m
  BY <1>1, ClientFacts!SecondsGrow
<1> HIDE DEF q, r, m
<1>4. r = q \/ (q < m /\ r = q + 1)
  BY <1>2, <1>3
<1>5. now' \div Second = r
  BY <1>1 DEF r
<1> QED
  BY <1>1, <1>4, <1>5 DEF q, r, m, Server!Tick, Server!endpointVars

(* Every step of the two is a step of the endpoint, or none of its own.     *)
LEMMA NextMapsToEndpoint ==
  Client!TypeOK /\ [Next]_vars => [Server!Next]_(Server!endpointVars)
<1> SUFFICES ASSUME Client!TypeOK, [Next]_vars
             PROVE  Server!Next \/ UNCHANGED Server!endpointVars
  OBVIOUS
<1>1. ASSUME NEW h \in Push, Serve(h)
      PROVE  Server!Next
  BY <1>1 DEF Serve, Server!Next
<1>2. CASE Die
  BY <1>2 DEF Die, Server!Next
<1>3. CASE Tick
  BY <1>3, TickMaps DEF Server!Next
<1>4. CASE Alone \/ Kill \/ UNCHANGED vars \/ \E h \in Push : Send(h) \/ ReturnNil(h) \/ ReturnError(h)
  <2>1. UNCHANGED serverVars
    BY <1>4 DEF Alone, Kill, vars, Send, ReturnNil, ReturnError, Return
  <2>2. now' = now
    <3>1. CASE Alone
      BY <3>1 DEF Alone, Client!Start, Client!Pending, Client!PendingFails, Client!Delete,
         Client!ReplayEnds, Client!Collect, Client!WriteOpens, Client!WriteEnds,
         Client!WriteFails, Client!Stop, Client!loopFrame
    <3>2. CASE Kill \/ UNCHANGED vars
      BY <3>2 DEF Kill, Client!Kill, vars
    <3>3. CASE \E h \in Push : Send(h) \/ ReturnNil(h) \/ ReturnError(h)
      BY <3>3 DEF Send, ReturnNil, ReturnError, Client!PushOk, Client!ReplayPush,
         Client!PushFails, Client!ReplayFails, Client!loopFrame
    <3> QED
      BY <1>4, <3>1, <3>2, <3>3
  <2> QED
    BY <2>1, <2>2 DEF serverVars, Server!endpointVars
<1> QED
  BY <1>1, <1>2, <1>3, <1>4 DEF Next

(* Nor does the aggregator do anything Endpoint does not promise, and       *)
(* Endpoint is what Receive implements; the agent's clock may be finer than *)
(* the second of received_at.                                               *)
THEOREM DeliveryImplementsEndpoint == Spec => Server!Spec
<1>1. Spec => []Client!TypeOK
  BY AgentFacts, PTL
<1> QED
  BY <1>1, InitMapsToEndpoint, NextMapsToEndpoint, PTL DEF Spec, Server!Spec
------------------------------------------------------------------------------
(* Types.                                                                   *)

Outcome == {"none", "waiting", "ok", "failed"}
Row == [by : Push, received : 0 .. MaxTime \div Second]

ServerType ==
  /\ answer \in [Push -> Server!Answer]
  /\ since \in [Push -> 0 .. MaxTime \div Second]
  /\ log \in Seq(Row)

PushType ==
  /\ out \in [Push -> Outcome]
  /\ deadline \in 0 .. MaxTime + Timeout
  /\ stalled \in BOOLEAN /\ lingered \in BOOLEAN

Types == Client!TypeOK /\ ServerType /\ PushType

(* No push was made, and no row is stored.                                  *)
LEMMA InitTypes == Init => ServerType /\ PushType
<1> SUFFICES ASSUME Init PROVE ServerType /\ PushType
  OBVIOUS
<1>1. MaxTime \div Second \in Nat
  BY ClientFacts!SecondOf
<1>2. ServerType
  BY <1>1 DEF Init, Server!Init, ServerType, Server!Answer
<1>3. PushType
  <2>1. out \in [Push -> Outcome]
    BY DEF Init, Outcome
  <2>2. deadline \in 0 .. MaxTime + Timeout
    BY DEF Init
  <2>3. stalled \in BOOLEAN /\ lingered \in BOOLEAN
    BY DEF Init
  <2> QED
    BY <2>1, <2>2, <2>3 DEF PushType
<1> QED
  BY <1>2, <1>3

(* A row is of some push, received at some time.                            *)
LEMMA RowTypes ==
  ASSUME ServerType, NEW i \in 1 .. Len(log)
  PROVE  log[i] \in Row /\ log[i].by \in Push /\ log[i].received \in Nat
<1>1. log[i] \in Row
  <2>1. log \in Seq(Row)
    BY DEF ServerType
  <2> QED
    BY <2>1
<1>2. MaxTime \div Second \in Nat
  BY ClientFacts!SecondOf
<1>3. \A r \in Row : r.by \in Push /\ r.received \in 0 .. MaxTime \div Second
  BY DEF Row
<1>4. log[i].received \in 0 .. MaxTime \div Second
  BY <1>1, <1>3
<1> QED
  BY <1>1, <1>2, <1>3, <1>4

(* What serving one request may change.                                     *)
LEMMA ServeShape ==
  ASSUME Types, NEW h \in Push, Serve(h)
  PROVE  /\ UNCHANGED <<now, clientVars, out, deadline, stalled>>
         /\ out[h] # "none"
         /\ answer' = [answer EXCEPT ![h] = answer'[h]]
         /\ \/ /\ answer[h] = "idle" /\ answer'[h] = "serving"
               /\ since' = [since EXCEPT ![h] = now \div Second]
               /\ log' = log
            \/ /\ answer[h] = "serving" /\ answer'[h] = "stored"
               /\ since' = since
               /\ \E received \in since[h] .. now \div Second :
                    log' = Append(log, [by |-> h, received |-> received])
            \/ /\ \/ answer[h] = "stored" /\ answer'[h] = "accepted"
                  \/ answer[h] = "serving" /\ answer'[h] = "accepted" /\ Server!Recent(h)
                  \/ answer[h] \in {"idle", "serving"} /\ answer'[h] = "rejected"
               /\ since' = [since EXCEPT ![h] = 0]
               /\ log' = log
<1> USE DEF Serve, Types, ServerType
<1>1. Server!Begin(h) \/ Server!Store(h) \/ Server!Accept(h) \/ Server!Reject(h)
  BY DEF Server!Serve
<1>2. DOMAIN answer = Push
  OBVIOUS
<1>3. CASE Server!Begin(h)
  BY <1>2, <1>3 DEF Server!Begin, Server!Goto
<1>4. CASE Server!Store(h)
  BY <1>2, <1>4 DEF Server!Store, Server!Goto
<1>5. CASE Server!Accept(h)
  BY <1>2, <1>5 DEF Server!Accept, Server!Goto, Server!Leave
<1>6. CASE Server!Reject(h)
  BY <1>2, <1>6 DEF Server!Reject, Server!Goto, Server!Leave
<1> QED
  BY <1>1, <1>3, <1>4, <1>5, <1>6

(* The aggregator's part of the state changes in two actions only.          *)
LEMMA ServerKept ==
  ASSUME [Next]_vars
  PROVE  UNCHANGED serverVars \/ (\E h \in Push : Serve(h)) \/ Die
BY DEF Next, vars, Send, ReturnNil, ReturnError, Return, Alone, Kill, Tick

(* The aggregator's end leaves rows and the agent alone, and answers nobody. *)
LEMMA DieShape ==
  ASSUME Types, Die
  PROVE  /\ UNCHANGED <<now, clientVars, pushVars, log>>
         /\ answer' \in [Push -> Server!Answer] /\ since' \in [Push -> {0} \cup {since[h] : h \in Push}]
         /\ \A h \in Push : /\ answer'[h] = answer[h] \/ answer'[h] = "killed"
                            /\ answer'[h] = answer[h] => since'[h] = since[h]
                            /\ answer[h] = "accepted" => answer'[h] = "accepted"
                            /\ answer[h] = "idle" => answer'[h] = "idle"
<1> USE DEF Types, ServerType, Server!Answer
<1> PICK dead \in SUBSET {h \in Push : answer[h] \in {"idle", "serving", "stored"}} :
       /\ answer' = [h \in Push |-> IF h \in dead THEN "killed" ELSE answer[h]]
       /\ since' = [h \in Push |-> IF h \in dead THEN 0 ELSE since[h]]
  BY DEF Die, Server!Die
<1>1. UNCHANGED <<now, clientVars, pushVars, log>>
  BY DEF Die, Server!Die
<1>2. answer' \in [Push -> Server!Answer] /\ since' \in [Push -> {0} \cup {since[h] : h \in Push}]
  OBVIOUS
<1>3. ASSUME NEW h \in Push
      PROVE  /\ answer'[h] = answer[h] \/ answer'[h] = "killed"
             /\ answer[h] = "accepted" => answer'[h] = "accepted"
             /\ answer[h] = "idle" => answer'[h] = "idle"
             /\ answer'[h] = answer[h] => since'[h] = since[h]
  <2>1. answer'[h] = "killed" <=> answer[h] \in {"serving", "stored", "killed"}
    BY DEF Die
  <2>2. h \in dead => answer[h] # "killed" /\ answer'[h] = "killed"
    OBVIOUS
  <2> QED
    BY <2>1, <2>2
<1> QED
  BY <1>1, <1>2, <1>3

(* The rows and the answers stay within their types.                        *)
LEMMA NextServerType == Types /\ [Next]_vars => ServerType'
<1> SUFFICES ASSUME Types, [Next]_vars PROVE ServerType'
  OBVIOUS
<1>1. /\ answer \in [Push -> Server!Answer]
      /\ since \in [Push -> 0 .. MaxTime \div Second]
      /\ log \in Seq(Row)
  BY DEF Types, ServerType
<1>2. /\ MaxTime \div Second \in Nat
      /\ now \div Second \in 0 .. MaxTime \div Second
  <2>1. now \in Nat /\ now <= MaxTime
    BY DEF Types, Client!TypeOK
  <2> DEFINE q == now \div Second
             m == MaxTime \div Second
  <2>2. q \in Nat /\ m \in Nat /\ q <= m
    BY <2>1, ClientFacts!SecondOf, ClientFacts!SecondsGrow
  <2> HIDE DEF q, m
  <2>3. q \in 0 .. m
    BY <2>2
  <2> QED
    BY <2>2, <2>3 DEF q, m
<1>3. CASE UNCHANGED serverVars
  BY <1>1, <1>3 DEF serverVars, ServerType
<1>4. ASSUME NEW h \in Push, Serve(h)
      PROVE  ServerType'
  <2>1. answer' \in [Push -> Server!Answer]
    <3>1. answer'[h] \in Server!Answer
      BY <1>4, ServeShape DEF Server!Answer
    <3> QED
      BY <1>1, <1>4, <3>1, ServeShape
  <2>2. since' \in [Push -> 0 .. MaxTime \div Second]
    <3>1. \E s \in 0 .. MaxTime \div Second : since' = since \/ since' = [since EXCEPT ![h] = s]
      BY <1>2, <1>4, ServeShape
    <3> QED
      BY <1>1, <3>1
  <2>3. log' \in Seq(Row)
    <3>1. CASE log' = log
      BY <1>1, <3>1
    <3>2. CASE log' # log
      <4> PICK received \in since[h] .. now \div Second :
             log' = Append(log, [by |-> h, received |-> received])
        BY <1>4, <3>2, ServeShape
      <4>1. since[h] \in 0 .. MaxTime \div Second
        BY <1>1
      <4>2. received \in 0 .. MaxTime \div Second
        <5> DEFINE q == now \div Second
                   m == MaxTime \div Second
                   s == since[h]
        <5>1. m \in Nat /\ q \in 0 .. m /\ s \in 0 .. m /\ received \in s .. q
          BY <1>2, <4>1
        <5> HIDE DEF q, m, s
        <5>2. received \in 0 .. m
          BY <5>1
        <5> QED
          BY <5>2 DEF m
      <4>3. [by |-> h, received |-> received] \in Row
        BY <4>2 DEF Row
      <4> QED
        BY <1>1, <4>3
    <3> QED
      BY <3>1, <3>2
  <2> QED
    BY <2>1, <2>2, <2>3 DEF ServerType
<1>5. CASE Die
  <2>1. {0} \cup {since[h] : h \in Push} \subseteq 0 .. MaxTime \div Second
    BY <1>1, <1>2
  <2>2. since' \in [Push -> 0 .. MaxTime \div Second]
    BY <1>5, <2>1, DieShape
  <2> QED
    BY <1>1, <1>5, <2>2, DieShape DEF ServerType
<1> QED
  BY <1>3, <1>4, <1>5, ServerKept

(* The outcomes of the pushes stay within their types.                      *)
LEMMA NextPushType == Types /\ [Next]_vars => PushType'
<1> SUFFICES ASSUME Types, [Next]_vars PROVE PushType'
  OBVIOUS
<1>1. /\ out \in [Push -> Outcome]
      /\ deadline \in 0 .. MaxTime + Timeout
      /\ stalled \in BOOLEAN /\ lingered \in BOOLEAN
      /\ now \in Nat /\ now <= MaxTime
  BY DEF Types, PushType, Client!TypeOK
<1>2. ASSUME NEW h \in Push, Send(h)
      PROVE  PushType'
  <2>1. out' \in [Push -> Outcome]
    BY <1>1, <1>2 DEF Send, Outcome
  <2>2. deadline' \in 0 .. MaxTime + Timeout
    BY <1>1, <1>2 DEF Send
  <2>3. stalled' \in BOOLEAN /\ lingered' \in BOOLEAN
    BY <1>1, <1>2 DEF Send
  <2> QED
    BY <2>1, <2>2, <2>3 DEF PushType
<1>3. ASSUME NEW h \in Push, ReturnNil(h) \/ ReturnError(h)
      PROVE  PushType'
  <2>1. out' \in [Push -> Outcome]
    BY <1>1, <1>3 DEF ReturnNil, ReturnError, Return, Outcome
  <2>2. deadline' = 0 /\ UNCHANGED <<stalled, lingered>>
    BY <1>3 DEF ReturnNil, ReturnError, Return
  <2> QED
    BY <1>1, <2>1, <2>2 DEF PushType
<1>4. ASSUME NEW h \in Push, Serve(h)
      PROVE  PushType'
  BY <1>1, <1>4 DEF Serve, PushType
<1>5. CASE Kill
  <2>1. out' \in [Push -> Outcome]
    BY <1>1, <1>5 DEF Kill, Outcome
  <2>2. deadline' = 0 /\ UNCHANGED <<stalled, lingered>>
    BY <1>5 DEF Kill
  <2> QED
    BY <1>1, <2>1, <2>2 DEF PushType
<1>6. CASE Alone \/ Die \/ Tick \/ UNCHANGED vars
  <2>1. UNCHANGED pushVars
    BY <1>6 DEF Alone, Die, Tick, vars
  <2> QED
    BY <1>1, <2>1 DEF pushVars, PushType
<1> QED
  BY <1>2, <1>3, <1>4, <1>5, <1>6 DEF Next

------------------------------------------------------------------------------
(* One push at a time.                                                      *)

(* The push that is sent is the only one that waits.                        *)
LEMMA SendWaits ==
  ASSUME PushType, NEW h \in Push, Send(h)
  PROVE  /\ Waiting = {} /\ Waiting' = {h}
         /\ UNCHANGED <<now, clientVars, serverVars, lingered>>
         /\ out' = [out EXCEPT ![h] = "waiting"]
         /\ \A q \in Push : q # h => out'[q] = out[q]
         /\ out'[h] = "waiting" /\ out[h] = "none"
         /\ \/ pc = "push" /\ h = <<cur, 0>>
            \/ pc = "replay" /\ h[2] > 0 /\ h[1] \in plan
BY DEF Send, Waiting, PushType, Due, Client!First

(* The push that returns was the only one that waited.                      *)
LEMMA ReturnEnds ==
  ASSUME PushType, OnePush, NEW h \in Push, NEW outcome \in {"ok", "failed"}, Return(h, outcome)
  PROVE  /\ Waiting = {h} /\ Waiting' = {}
         /\ UNCHANGED <<serverVars, stalled, lingered>>
         /\ out[h] = "waiting" /\ out'[h] = outcome
         /\ \A q \in Push : q # h => out'[q] = out[q]
BY DEF Return, OnePush, Waiting, PushType

(* No push outlives the agent.                                              *)
LEMMA KillEnds ==
  ASSUME PushType, Kill
  PROVE  /\ Waiting' = {}
         /\ UNCHANGED <<serverVars, stalled, lingered>>
         /\ \A q \in Push : out'[q] = IF out[q] = "waiting" THEN "failed" ELSE out[q]
BY DEF Kill, Waiting, PushType

(* The agent's other steps are taken while no push waits.                   *)
LEMMA AloneIdle ==
  ASSUME OnePush, Alone
  PROVE  /\ Waiting = {} /\ Waiting' = {}
         /\ UNCHANGED <<serverVars, pushVars>>
<1>1. UNCHANGED <<serverVars, pushVars>>
  BY DEF Alone
<1>2. pc \notin {"push", "replay"} \/ plan = {}
  BY DEF Alone, Client!Start, Client!Pending, Client!PendingFails, Client!Delete,
     Client!ReplayEnds, Client!Collect, Client!WriteOpens, Client!WriteEnds,
     Client!WriteFails, Client!Stop
<1>3. pc # "push"
  BY DEF Alone, Client!Start, Client!Pending, Client!PendingFails, Client!Delete,
     Client!ReplayEnds, Client!Collect, Client!WriteOpens, Client!WriteEnds,
     Client!WriteFails, Client!Stop
<1>4. Waiting = {}
  BY <1>2, <1>3 DEF OnePush
<1> QED
  BY <1>1, <1>4 DEF pushVars, Waiting

(* The agent has one goroutine: it does not push while it pushes.           *)
LEMMA NextOnePush == PushType /\ OnePush /\ [Next]_vars => OnePush'
<1> SUFFICES ASSUME PushType, OnePush, [Next]_vars PROVE OnePush'
  OBVIOUS
<1>1. ASSUME NEW h \in Push, Send(h)
      PROVE  OnePush'
  <2>1. UNCHANGED <<pc, cur, plan>>
    BY <1>1, SendWaits DEF clientVars
  <2> QED
    BY <1>1, <2>1, SendWaits DEF OnePush
<1>2. ASSUME NEW h \in Push, ReturnNil(h) \/ ReturnError(h)
      PROVE  Waiting' = {}
  BY <1>2, ReturnEnds DEF ReturnNil, ReturnError
<1>3. CASE (\E h \in Push : Serve(h)) \/ Die \/ Tick \/ UNCHANGED vars
  <2>1. UNCHANGED <<pc, cur, plan, out>>
    BY <1>3 DEF Serve, Die, Tick, Client!Tick, vars, clientVars, pushVars
  <2> QED
    BY <2>1 DEF OnePush, Waiting
<1>4. CASE Alone \/ Kill
  BY <1>4, AloneIdle, KillEnds DEF OnePush
<1>5. Waiting' = {} => OnePush'
  BY DEF OnePush
<1> QED
  BY <1>1, <1>2, <1>3, <1>4, <1>5 DEF Next

(* Counted, that is at most one.                                            *)
LEMMA OnePushIsOne == OnePush => Cardinality(Waiting) <= 1
<1> SUFFICES ASSUME OnePush PROVE Cardinality(Waiting) <= 1
  OBVIOUS
<1>1. CASE Waiting = {}
  BY <1>1, FS_EmptySet
<1>2. CASE Waiting # {}
  <2>1. PICK h \in Waiting : Waiting = {h}
    BY <1>2 DEF OnePush
  <2>2. Cardinality({h}) = 1
    BY FS_Singleton
  <2>3. Cardinality(Waiting) = 1
    BY <2>1, <2>2
  <2> QED
    BY <2>3
<1> QED
  BY <1>1, <1>2

(* Type correctness of agent and aggregator together; in particular, the    *)
(* agent waits for one push at a time.                                      *)
THEOREM DeliveryTypeOK == Spec => []TypeOK
<1>1. Init => OnePush
  BY DEF Init, OnePush, Waiting
<1>2. Types /\ OnePush => TypeOK
  BY OnePushIsOne DEF Types, ServerType, PushType, TypeOK, Outcome, Row
<1>3. Client!TypeOK /\ ServerType /\ PushType /\ OnePush /\ [Next]_vars
      => (ServerType /\ PushType /\ OnePush)'
  BY NextServerType, NextPushType, NextOnePush DEF Types
<1>4. Spec => []Client!TypeOK
  BY AgentFacts, PTL
<1>5. Client!TypeOK /\ ServerType /\ PushType => Types
  BY DEF Types
<1> QED
  BY <1>1, <1>2, <1>3, <1>4, <1>5, InitTypes, PTL DEF Spec

------------------------------------------------------------------------------
(* Rows and answers.                                                        *)

(* A row is added at the end, and the ones before stay as they are.         *)
LEMMA AppendRow ==
  ASSUME Types, NEW h \in Push, NEW received,
         log' = Append(log, [by |-> h, received |-> received])
  PROVE  /\ Len(log) \in Nat /\ Len(log') = Len(log) + 1
         /\ \A i \in 1 .. Len(log) : log'[i] = log[i]
         /\ log'[Len(log) + 1].by = h /\ log'[Len(log) + 1].received = received
         /\ \A q \in Push : StoredBy(q)' <=> StoredBy(q) \/ q = h
<1>1. log \in Seq(Row)
  BY DEF Types, ServerType
<1>2. /\ Len(log) \in Nat /\ Len(log') = Len(log) + 1
      /\ \A i \in 1 .. Len(log) : log'[i] = log[i]
      /\ log'[Len(log) + 1] = [by |-> h, received |-> received]
  BY <1>1
<1>3. \A q \in Push : StoredBy(q)' <=> StoredBy(q) \/ q = h
  <2>1. 1 .. Len(log') = (1 .. Len(log)) \cup {Len(log) + 1}
    BY <1>2
  <2> QED
    BY <1>2, <2>1 DEF StoredBy
<1> QED
  BY <1>2, <1>3

(* A request that was not sent stays so only as long as it is not sent, and *)
(* the outcome of a push is final.                                          *)
LEMMA OutcomeIsFinal ==
  ASSUME PushType, OnePush, [Next]_vars, NEW h \in Push
  PROVE  /\ out'[h] = "none" => out[h] = "none"
         /\ out[h] \in {"ok", "failed"} => out'[h] = out[h]
<1>1. ASSUME NEW q \in Push, Send(q)
      PROVE  out'[h] = out[h] \/ (out[h] = "none" /\ out'[h] = "waiting")
  BY <1>1, SendWaits
<1>2. ASSUME NEW q \in Push, ReturnNil(q) \/ ReturnError(q)
      PROVE  out'[h] = out[h] \/ (out[h] = "waiting" /\ out'[h] \in {"ok", "failed"})
  BY <1>2, ReturnEnds DEF ReturnNil, ReturnError
<1>3. CASE Kill
  BY <1>3, KillEnds
<1>4. CASE (\E q \in Push : Serve(q)) \/ Die \/ Tick \/ Alone \/ UNCHANGED vars
  <2>1. out' = out
    BY <1>4 DEF Serve, Die, Tick, Alone, vars, pushVars
  <2> QED
    BY <2>1
<1> QED
  BY <1>1, <1>2, <1>3, <1>4 DEF Next

(* So are a 202 and what is stored.                                         *)
LEMMA AnswerIsFinal ==
  ASSUME Types, [Next]_vars, NEW h \in Push
  PROVE  /\ answer[h] = "accepted" => answer'[h] = "accepted"
         /\ StoredBy(h) => StoredBy(h)'
<1>1. DOMAIN answer = Push
  BY DEF Types, ServerType
<1>2. CASE UNCHANGED serverVars
  BY <1>2 DEF serverVars, StoredBy
<1>3. ASSUME NEW q \in Push, Serve(q)
      PROVE  /\ answer[h] = "accepted" => answer'[h] = "accepted"
             /\ StoredBy(h) => StoredBy(h)'
  <2>1. answer[h] = "accepted" => answer'[h] = "accepted"
    <3>1. CASE q = h
      <4>1. answer[h] # "accepted"
        BY <1>3, <3>1, ServeShape
      <4> QED
        BY <4>1
    <3>2. CASE q # h
      BY <1>1, <1>3, <3>2, ServeShape
    <3> QED
      BY <3>1, <3>2
  <2>2. StoredBy(h) => StoredBy(h)'
    <3>1. CASE log' = log
      BY <3>1 DEF StoredBy
    <3>2. CASE log' # log
      <4> PICK received : log' = Append(log, [by |-> q, received |-> received])
        BY <1>3, <3>2, ServeShape
      <4> QED
        BY AppendRow
    <3> QED
      BY <3>1, <3>2
  <2> QED
    BY <2>1, <2>2
<1>4. CASE Die
  BY <1>4, DieShape DEF StoredBy
<1> QED
  BY <1>2, <1>3, <1>4, ServerKept

(* The aggregator works on no push that was not sent.                       *)
LEMMA NextSentFirst == Types /\ OnePush /\ SentFirst /\ [Next]_vars => SentFirst'
<1> SUFFICES ASSUME Types, OnePush, SentFirst, [Next]_vars, NEW h \in Push,
                    out'[h] = "none"
             PROVE  answer'[h] = "idle"
  BY DEF SentFirst
<1>1. out[h] = "none" /\ answer[h] = "idle" /\ DOMAIN answer = Push
  BY OutcomeIsFinal DEF Types, ServerType, SentFirst
<1>2. CASE UNCHANGED serverVars
  BY <1>1, <1>2 DEF serverVars
<1>3. ASSUME NEW q \in Push, Serve(q)
      PROVE  answer'[h] = "idle"
  BY <1>1, <1>3, ServeShape
<1>4. CASE Die
  BY <1>1, <1>4, DieShape
<1> QED
  BY <1>2, <1>3, <1>4, ServerKept

(* A push has one row, from when it is stored, and none before.             *)
LEMMA NextRowsOfPushes == Types /\ RowsOfPushes /\ [Next]_vars => RowsOfPushes'
<1> SUFFICES ASSUME Types, RowsOfPushes, [Next]_vars PROVE RowsOfPushes'
  OBVIOUS
<1> USE DEF RowsOfPushes
<1>1. DOMAIN answer = Push
  BY DEF Types, ServerType
<1>2. CASE UNCHANGED serverVars
  BY <1>2 DEF serverVars, StoredBy
<1>3. ASSUME NEW h \in Push, Serve(h)
      PROVE  RowsOfPushes'
  <2>1. \A q \in Push : q # h => answer'[q] = answer[q]
    BY <1>1, <1>3, ServeShape
  <2>2. CASE log' = log
    <3>1. \A q \in Push : StoredBy(q)' <=> StoredBy(q)
      BY <2>2 DEF StoredBy
    <3>2. /\ answer'[h] \in {"idle", "serving"} => ~StoredBy(h)
          /\ answer'[h] = "stored" => StoredBy(h)
      <4>1. answer'[h] # "stored"
        <5>1. CASE answer'[h] = "stored"
          <6>1. \E received : log' = Append(log, [by |-> h, received |-> received])
            BY <1>3, <5>1, ServeShape
          <6>2. Len(log') = Len(log) + 1 /\ Len(log) \in Nat
            BY <6>1, AppendRow
          <6> QED
            BY <2>2, <6>2
        <5> QED
          BY <5>1
      <4>2. answer'[h] \in {"idle", "serving"} => answer[h] = "idle"
        BY <1>3, ServeShape
      <4> QED
        BY <4>1, <4>2
    <3> QED
      BY <2>1, <2>2, <3>1, <3>2
  <2>3. CASE log' # log
    <3>1. answer[h] = "serving" /\ answer'[h] = "stored"
      BY <1>3, <2>3, ServeShape
    <3>2. PICK received : log' = Append(log, [by |-> h, received |-> received])
      BY <1>3, <2>3, ServeShape
    <3>3. /\ Len(log) \in Nat /\ Len(log') = Len(log) + 1
          /\ \A i \in 1 .. Len(log) : log'[i] = log[i]
          /\ log'[Len(log) + 1].by = h
          /\ \A q \in Push : StoredBy(q)' <=> StoredBy(q) \/ q = h
      BY <3>2, AppendRow
    <3>4. \A i \in 1 .. Len(log) : log[i].by # h
      BY <3>1 DEF StoredBy
    <3>5. ASSUME NEW i \in 1 .. Len(log'), NEW j \in 1 .. Len(log'), log'[i].by = log'[j].by
          PROVE  i = j
      <4>1. \A k \in 1 .. Len(log') : k \in 1 .. Len(log) \/ k = Len(log) + 1
        BY <3>3
      <4>2. CASE i \in 1 .. Len(log) /\ j \in 1 .. Len(log)
        BY <3>3, <3>5, <4>2
      <4>3. CASE i = Len(log) + 1 \/ j = Len(log) + 1
        BY <3>3, <3>4, <3>5, <4>1, <4>3
      <4> QED
        BY <4>1, <4>2, <4>3
    <3>6. \A q \in Push : /\ answer'[q] \in {"idle", "serving"} => ~StoredBy(q)'
                          /\ answer'[q] = "stored" => StoredBy(q)'
      BY <2>1, <3>1, <3>3
    <3> QED
      BY <3>5, <3>6
  <2> QED
    BY <2>2, <2>3
<1>4. CASE Die
  <2>1. log' = log /\ \A q \in Push : answer'[q] = answer[q] \/ answer'[q] = "killed"
    BY <1>4, DieShape
  <2> QED
    BY <2>1 DEF StoredBy
<1> QED
  BY <1>2, <1>3, <1>4, ServerKept

------------------------------------------------------------------------------
(* What was delivered.                                                      *)

(* No other answer than 202 makes a batch delivered.                        *)
LEMMA NextAckedIsAccepted ==
  Types /\ OnePush /\ AckedIsAccepted /\ [Next]_vars => AckedIsAccepted'
<1> SUFFICES ASSUME Types, OnePush, AckedIsAccepted, [Next]_vars PROVE AckedIsAccepted'
  OBVIOUS
<1>1. \A h \in Push : answer[h] = "accepted" => answer'[h] = "accepted"
  BY AnswerIsFinal
<1>2. CASE acked' = acked
  BY <1>1, <1>2 DEF AckedIsAccepted
<1>3. ASSUME NEW h \in Push, ReturnNil(h)
      PROVE  AckedIsAccepted'
  <2>1. h \in Waiting /\ answer[h] = "accepted"
    BY <1>3 DEF ReturnNil, Return, Waiting
  <2>2. acked' = acked \cup {h[1]}
    BY <1>3, <2>1 DEF ReturnNil, Client!PushOk, Client!ReplayPush, OnePush
  <2> QED
    BY <1>1, <2>1, <2>2 DEF AckedIsAccepted
<1>4. CASE \/ \E h \in Push : Send(h) \/ ReturnError(h) \/ Serve(h)
           \/ Alone \/ Kill \/ Die \/ Tick \/ UNCHANGED vars
  <2>1. acked' = acked
    <3>1. CASE Alone
      BY <3>1 DEF Alone, Client!Start, Client!Pending, Client!PendingFails, Client!Delete,
         Client!ReplayEnds, Client!Collect, Client!WriteOpens, Client!WriteEnds,
         Client!WriteFails, Client!Stop, Client!loopFrame,
         Client!history
    <3>2. CASE Kill \/ Die \/ Tick \/ UNCHANGED vars
      BY <3>2 DEF Kill, Client!Kill, Die, Tick, Client!Tick, Client!history, vars, clientVars
    <3>3. CASE \E h \in Push : Send(h) \/ ReturnError(h) \/ Serve(h)
      BY <3>3 DEF Send, ReturnError, Serve, clientVars, Client!PushFails, Client!ReplayFails,
         Client!loopFrame
    <3> QED
      BY <1>4, <3>1, <3>2, <3>3
  <2> QED
    BY <1>2, <2>1
<1> QED
  BY <1>2, <1>3, <1>4 DEF Next

(* End to end, no batch vanishes: what the agent takes for delivered was    *)
(* answered 202, and so was stored or taken for a duplicate.  This holds    *)
(* whatever is lost, late or repeated, and through any deaths of either.    *)
THEOREM DeliveryNothingVanishes == Spec => []NothingVanishes
<1>1. Init => AckedIsAccepted /\ OnePush /\ ServerType /\ PushType
  BY InitTypes DEF Init, Client!Init, AckedIsAccepted, OnePush, Waiting
<1>2. /\ Client!TypeOK /\ ServerType /\ PushType /\ OnePush /\ AckedIsAccepted
      /\ [Next]_vars
      => (ServerType /\ PushType /\ OnePush /\ AckedIsAccepted)'
  BY NextServerType, NextPushType, NextOnePush, NextAckedIsAccepted DEF Types
<1>3. Client!Accounted /\ AckedIsAccepted => NothingVanishes
  <2> SUFFICES ASSUME Client!Accounted, AckedIsAccepted, NEW b \in 1 .. captured,
                      b \in acked
               PROVE  Stored(b) \/ TakenForDuplicate(b)
    BY DEF NothingVanishes, Client!Accounted
  <2> PICK h \in Push : h[1] = b /\ answer[h] = "accepted"
    BY DEF AckedIsAccepted
  <2> QED
    BY DEF StoredBy, Stored, TakenForDuplicate
<1> QED
  BY <1>1, <1>2, <1>3, AgentFacts, PTL DEF Spec

------------------------------------------------------------------------------
(* Replays follow a failed push.                                            *)

(* Where the agent's plan, its files and the batch it writes come from.     *)
LEMMA AgentMoves ==
  ASSUME [Client!Next]_(Client!vars)
  PROVE  /\ \A b \in plan' : b \in plan \/ \E n \in DOMAIN files : files[n].of = b
         /\ \A n \in DOMAIN files' :
              \/ n \in DOMAIN files /\ files'[n] = files[n]
              \/ pc \in {"write", "writing"} /\ files'[n].of = cur
         /\ pc' \in {"write", "writing"} => /\ cur' = cur
                                            /\ pc \in {"push", "write", "writing"}
<1>1. CASE Client!Pending
  <2> PICK removed \in SUBSET Client!Expired, read \in SUBSET (Client!Whole \ Client!Expired) :
         /\ files' = Client!Without(files, removed)
         /\ plan' = {files[n].of : n \in read}
    BY <1>1 DEF Client!Pending
  <2> QED
    BY <1>1 DEF Client!Pending, Client!Without, Client!Whole
<1>2. CASE Client!Delete
  BY <1>2 DEF Client!Delete, Client!Without
<1>3. CASE Client!WriteOpens \/ Client!WriteEnds
  BY <1>3 DEF Client!WriteOpens, Client!WriteEnds, Client!Put, Client!loopFrame,
     Client!BackToSelect
<1>4. CASE Client!Start \/ Client!Stop \/ Client!Kill
  BY <1>4 DEF Client!Start, Client!Stop, Client!Kill
<1>5. CASE Client!PendingFails \/ Client!ReplayPush \/ Client!ReplayFails \/ Client!ReplayEnds
  BY <1>5 DEF Client!PendingFails, Client!ReplayPush, Client!ReplayFails, Client!ReplayEnds,
     Client!EnterLoop
<1>6. CASE Client!Collect \/ Client!PushOk \/ Client!PushFails \/ Client!WriteFails
  BY <1>6 DEF Client!Collect, Client!PushOk, Client!PushFails, Client!WriteFails,
     Client!loopFrame, Client!BackToSelect
<1>7. CASE Client!Tick \/ UNCHANGED Client!vars
  BY <1>7 DEF Client!Tick, Client!vars, Client!procVars
<1> QED
  BY <1>1, <1>2, <1>3, <1>4, <1>5, <1>6, <1>7 DEF Client!Next, Client!Replay, Client!Loop

(* A batch is pushed again only when every push of it before failed.        *)
LEMMA NextFailedFirst == Types /\ OnePush /\ FailedFirst /\ [Next]_vars => FailedFirst'
<1> SUFFICES ASSUME Types, OnePush, FailedFirst, [Next]_vars PROVE FailedFirst'
  OBVIOUS
<1> DEFINE Stays(b) == out'[<<b, 0>>] = "failed"
<1>1. ASSUME NEW b \in 1 .. MaxBatches, Failed(b)
      PROVE  Stays(b)
  <2>1. <<b, 0>> \in Push
    OBVIOUS
  <2> QED
    BY <1>1, <2>1, OutcomeIsFinal DEF Failed, Types
<1>2. /\ plan \subseteq 1 .. MaxBatches
      /\ \A n \in DOMAIN files : files[n].of \in 1 .. MaxBatches
      /\ pc \in {"push", "write", "writing"} => cur \in 1 .. MaxBatches
  BY DEF Types, Client!TypeOK, Client!InHand, Client!File
<1> HIDE DEF Stays
<1>3. /\ \A b \in plan : Stays(b)
      /\ \A n \in DOMAIN files : Stays(files[n].of)
      /\ pc \in {"write", "writing"} => Stays(cur)
  BY <1>1, <1>2 DEF FailedFirst
<1>4. /\ \A b \in plan' : Stays(b)
      /\ \A n \in DOMAIN files' : Stays(files'[n].of)
  BY <1>3, NextMapsToAgent, AgentMoves
<1>5. ASSUME pc' \in {"write", "writing"}
      PROVE  Stays(cur')
  <2>1. cur' = cur /\ pc \in {"push", "write", "writing"}
    BY <1>5, NextMapsToAgent, AgentMoves
  <2>2. CASE pc = "push"
    <3>1. PICK h \in Push : ReturnError(h)
      <4>1. CASE Alone
        BY <1>5, <2>2, <4>1 DEF Alone, Client!Start, Client!Pending, Client!PendingFails,
           Client!Delete, Client!ReplayEnds, Client!Collect, Client!WriteOpens,
           Client!WriteEnds, Client!WriteFails, Client!Stop
      <4>2. CASE Kill \/ Die \/ Tick \/ UNCHANGED vars
        BY <1>5, <2>2, <4>2 DEF Kill, Client!Kill, Die, Tick, Client!Tick, vars, clientVars
      <4>3. CASE \E h \in Push : Send(h) \/ ReturnNil(h) \/ Serve(h)
        BY <1>5, <2>2, <4>3 DEF Send, ReturnNil, Serve, clientVars, Client!PushOk,
           Client!ReplayPush, Client!BackToSelect
      <4> QED
        BY <4>1, <4>2, <4>3 DEF Next
    <3>2. h \in Waiting /\ out'[h] = "failed"
      BY <3>1, ReturnEnds DEF ReturnError, Types
    <3>3. h = <<cur, 0>>
      BY <2>2, <3>2 DEF OnePush
    <3> QED
      BY <2>1, <3>2, <3>3 DEF Stays
  <2>3. CASE pc # "push"
    BY <1>3, <2>1, <2>3
  <2> QED
    BY <2>2, <2>3
<1>6. ASSUME NEW h \in Push, h[2] > 0, out'[h] # "none"
      PROVE  Stays(h[1])
  <2>1. CASE out[h] # "none"
    <3>1. Failed(h[1])
      BY <1>6, <2>1 DEF FailedFirst
    <3> QED
      BY <1>1, <1>6, <3>1
  <2>2. CASE out[h] = "none"
    <3>1. Send(h)
      <4>1. ASSUME NEW q \in Push, Send(q)
            PROVE  q = h
        BY <1>6, <2>2, <4>1, SendWaits DEF Types
      <4>2. ASSUME NEW q \in Push, ReturnNil(q) \/ ReturnError(q)
            PROVE  out'[h] = "none"
        BY <2>2, <4>2, ReturnEnds DEF ReturnNil, ReturnError, Types
      <4>3. CASE (\E q \in Push : Serve(q)) \/ Alone \/ Kill \/ Die \/ Tick \/ UNCHANGED vars
        BY <1>6, <2>2, <4>3, KillEnds DEF Serve, Alone, Die, Tick, vars, pushVars, Types
      <4> QED
        BY <1>6, <4>1, <4>2, <4>3 DEF Next
    <3>2. h[1] \in plan
      BY <1>6, <3>1, SendWaits DEF Types
    <3> QED
      BY <1>3, <3>2
  <2> QED
    BY <2>1, <2>2
<1> QED
  BY <1>4, <1>5, <1>6 DEF FailedFirst, Failed, Stays

(* What the end-to-end theorems have in common.                             *)
PushInv == ServerType /\ PushType /\ OnePush /\ SentFirst /\ RowsOfPushes

(* The agent's types and what is known of the pushes, over any run.         *)
LEMMA DeliveryPushes == Spec => [](Client!TypeOK /\ PushInv)
<1>1. Init => PushInv
  <2> SUFFICES ASSUME Init PROVE OnePush /\ SentFirst /\ RowsOfPushes
    BY InitTypes DEF PushInv
  <2>1. /\ \A h \in Push : out[h] = "none" /\ answer[h] = "idle"
        /\ log = <<>> /\ 1 .. Len(log) = {}
    BY DEF Init, Server!Init
  <2>2. OnePush
    BY <2>1 DEF OnePush, Waiting
  <2> QED
    BY <2>1, <2>2 DEF SentFirst, RowsOfPushes, StoredBy
<1>2. Client!TypeOK /\ PushInv /\ [Next]_vars => PushInv'
  BY NextServerType, NextPushType, NextOnePush, NextSentFirst, NextRowsOfPushes
     DEF PushInv, Types
<1> QED
  BY <1>1, <1>2, AgentFacts, PTL DEF Spec

(* A batch that is stored twice was stored by a push that ended in an       *)
(* error, or by a replay whose file could not be removed: no live push that *)
(* was answered is repeated.                                                *)
THEOREM DeliveryTwiceOnlyAfterError == Spec => []TwiceOnlyAfterError
<1>1. Init => FailedFirst
  BY DEF Init, Client!Init, FailedFirst
<1>2. Client!TypeOK /\ PushInv /\ FailedFirst /\ [Next]_vars => FailedFirst'
  BY NextFailedFirst DEF PushInv, Types
<1>3. PushInv /\ FailedFirst => TwiceOnlyAfterError
  <2> SUFFICES ASSUME PushInv, FailedFirst PROVE TwiceOnlyAfterError
    OBVIOUS
  <2>0. \A k \in 1 .. Len(log) : log[k].by \in Push /\ log[k].by[2] \in Nat
    <3>1. \A q \in Push : q[2] \in Nat
      OBVIOUS
    <3>2. ServerType
      BY DEF PushInv
    <3>3. \A k \in 1 .. Len(log) : log[k].by \in Push
      BY <3>2, RowTypes
    <3> QED
      BY <3>1, <3>3
  <2> SUFFICES ASSUME NEW i \in 1 .. Len(log), NEW j \in 1 .. Len(log), i < j,
                      log[i].by[1] = log[j].by[1], log[i].by[2] <= 0
               PROVE  out[log[i].by] = "failed"
    BY <2>0 DEF TwiceOnlyAfterError
  <2> DEFINE g == log[i].by
             h == log[j].by
  <2>1. g \in Push /\ h \in Push
    BY <2>0
  <2>2. StoredBy(h)
    BY DEF StoredBy
  <2>3. g # h
    BY DEF PushInv, RowsOfPushes
  <2>4. out[h] # "none"
    BY <2>1, <2>2 DEF PushInv, SentFirst, RowsOfPushes
  <2>5. g = <<h[1], 0>> /\ h[2] > 0
    <3> HIDE DEF g, h
    <3>1. g[1] = h[1] /\ g[2] <= 0
      BY DEF g, h
    <3> QED
      BY <2>1, <2>3, <3>1
  <2> QED
    BY <2>1, <2>4, <2>5 DEF FailedFirst, Failed
<1> QED
  BY <1>1, <1>2, <1>3, DeliveryPushes, PTL DEF Spec

------------------------------------------------------------------------------
(* The window and the ticker.                                               *)

(* The clocks and the deadlines are numbers.                                *)
LEMMA Times ==
  ASSUME Types
  PROVE  /\ now \in Nat /\ due \in Nat /\ deadline \in Nat
         /\ Free \in Nat
         /\ Window * Second \in Nat /\ now \div Second \in Nat
         /\ \A h \in Push : since[h] \in Nat
<1>1. now \in Nat /\ due \in Nat /\ deadline \in Nat
  BY DEF Types, Client!TypeOK, PushType
<1>2. Free \in Nat
  BY <1>1 DEF Free
<1>3. Window * Second \in Nat
  OBVIOUS
<1>4. now \div Second \in Nat
  BY <1>1, ClientFacts!SecondOf
<1>5. \A h \in Push : since[h] \in Nat
  BY DEF Types, ServerType
<1> QED
  BY <1>1, <1>2, <1>3, <1>4, <1>5

(* The clock is not set back.                                               *)
LEMMA NowGrows ==
  ASSUME [Client!Next]_(Client!vars)
  PROVE  now' = now \/ now' = now + 1
<1>1. Client!Replay => now' = now
  BY DEF Client!Replay, Client!Pending, Client!PendingFails, Client!ReplayPush,
     Client!Delete, Client!ReplayFails, Client!ReplayEnds
<1>2. Client!Loop => now' = now
  BY DEF Client!Loop, Client!Collect, Client!PushOk, Client!PushFails, Client!WriteOpens,
     Client!WriteEnds, Client!WriteFails, Client!loopFrame
<1>3. Client!Start \/ Client!Stop \/ Client!Kill \/ UNCHANGED Client!vars => now' = now
  BY DEF Client!Start, Client!Stop, Client!Kill, Client!vars
<1>4. Client!Tick => now' = now + 1
  BY DEF Client!Tick
<1> QED
  BY <1>1, <1>2, <1>3, <1>4 DEF Client!Next

(* In the loop, the next tick is ahead.                                     *)
LEMMA NextTickerAhead ==
  Types /\ TickerAhead /\ [Client!Next]_(Client!vars) => TickerAhead'
<1> SUFFICES ASSUME Types, TickerAhead, [Client!Next]_(Client!vars) PROVE TickerAhead'
  OBVIOUS
<1> USE DEF TickerAhead, Client!Pushing
<1>1. now \in Nat /\ due \in Nat
  BY Times
<1>2. CASE Client!PendingFails \/ Client!ReplayFails \/ Client!ReplayEnds
  BY <1>1, <1>2 DEF Client!PendingFails, Client!ReplayFails, Client!ReplayEnds, Client!EnterLoop
<1>3. CASE Client!Start \/ Client!Pending \/ Client!ReplayPush \/ Client!Delete
           \/ Client!Stop \/ Client!Kill
  <2>1. pc' \notin Client!Pushing
    BY <1>3 DEF Client!Start, Client!Pending, Client!ReplayPush, Client!Delete, Client!Stop,
       Client!Kill
  <2> QED
    BY <2>1
<1>4. CASE Client!Loop
  <2>1. pc \in Client!Pushing /\ UNCHANGED <<now, due>>
    BY <1>4 DEF Client!Loop, Client!Collect, Client!PushOk, Client!PushFails,
       Client!WriteOpens, Client!WriteEnds, Client!WriteFails, Client!loopFrame
  <2> QED
    BY <2>1
<1>5. CASE Client!Tick
  <2>1. pc' = pc /\ now' = now + 1
    BY <1>5 DEF Client!Tick
  <2>2. CASE pc \in Client!Pushing /\ now + 1 = due
    BY <1>1, <1>5, <2>1, <2>2 DEF Client!Tick
  <2>3. CASE ~(pc \in Client!Pushing /\ now + 1 = due)
    <3>1. due' = due
      BY <1>5, <2>3 DEF Client!Tick
    <3> QED
      BY <1>1, <2>1, <2>3, <3>1
  <2> QED
    BY <2>2, <2>3
<1>6. CASE UNCHANGED Client!vars
  BY <1>6 DEF Client!vars, Client!procVars
<1> QED
  BY <1>2, <1>3, <1>4, <1>5, <1>6 DEF Client!Next, Client!Replay

(* No row is received in the future.                                        *)
LEMMA NextRowsArePast == Types /\ RowsArePast /\ [Next]_vars => RowsArePast'
<1> SUFFICES ASSUME Types, RowsArePast, [Next]_vars PROVE RowsArePast'
  OBVIOUS
<1>1. now \in Nat /\ now' \in Nat /\ now <= now'
  BY Times, NowGrows, NextMapsToAgent
<1>2. \A i \in 1 .. Len(log) : log[i].received \in Nat
  BY RowTypes DEF Types
<1>3. ASSUME NEW x \in Nat, x * Second <= now
      PROVE  x * Second <= now'
  <2>1. x * Second \in Nat
    OBVIOUS
  <2> QED
    BY <1>1, <1>3, <2>1
<1>4. CASE log' = log
  BY <1>2, <1>3, <1>4 DEF RowsArePast
<1>5. ASSUME NEW h \in Push, Serve(h), log' # log
      PROVE  RowsArePast'
  <2>1. PICK received \in since[h] .. now \div Second :
           log' = Append(log, [by |-> h, received |-> received])
    BY <1>5, ServeShape
  <2>2. received \in Nat /\ received <= now \div Second
    BY Times
  <2>3. received * Second <= now
    BY <1>1, <2>2, WholeSeconds
  <2>4. /\ Len(log) \in Nat /\ Len(log') = Len(log) + 1
        /\ \A i \in 1 .. Len(log) : log'[i] = log[i]
        /\ log'[Len(log) + 1].received = received
    BY <2>1, AppendRow
  <2>5. \A i \in 1 .. Len(log') : i \in 1 .. Len(log) \/ i = Len(log) + 1
    BY <2>4
  <2>6. ASSUME NEW i \in 1 .. Len(log') PROVE log'[i].received * Second <= now'
    <3>1. CASE i \in 1 .. Len(log)
      BY <1>2, <1>3, <2>4, <3>1 DEF RowsArePast
    <3>2. CASE i = Len(log) + 1
      BY <1>3, <2>2, <2>3, <2>4, <3>2
    <3> QED
      BY <2>5, <3>1, <3>2
  <2> QED
    BY <2>6 DEF RowsArePast
<1> QED
  BY <1>4, <1>5, ServerKept, DieShape DEF serverVars

(* A row that is out of the window stays out of it.                         *)
LEMMA BehindGrows ==
  ASSUME NEW row \in Row, NEW t \in Nat, NEW u \in Nat, t <= u, Behind(row, t)
  PROVE  Behind(row, u)
<1> DEFINE x == row.received * Second
           w == Window * Second
<1>1. x \in Nat /\ w \in Nat
  <2>1. MaxTime \div Second \in Nat
    BY ClientFacts!SecondOf
  <2>2. row.received \in Nat
    BY <2>1 DEF Row
  <2> QED
    BY <2>2
<1>2. x + w <= t
  BY DEF Behind
<1> HIDE DEF x, w
<1>3. x + w <= u
  BY <1>1, <1>2
<1> QED
  BY <1>3 DEF Behind, x, w

(* A row that is past at t is behind when a window has gone by.             *)
LEMMA PastIsBehind ==
  ASSUME NEW row \in Row, NEW t \in Nat, NEW u \in Nat,
         row.received * Second <= t, t + Window * Second <= u
  PROVE  Behind(row, u)
<1> DEFINE x == row.received * Second
           w == Window * Second
<1>1. x \in Nat /\ w \in Nat
  <2>1. MaxTime \div Second \in Nat
    BY ClientFacts!SecondOf
  <2>2. row.received \in Nat
    BY <2>1 DEF Row
  <2> QED
    BY <2>2
<1>2. x <= t /\ t + w <= u
  OBVIOUS
<1> HIDE DEF x, w
<1>3. x + w <= u
  BY <1>1, <1>2
<1> QED
  BY <1>3 DEF Behind, x, w

(* What the endpoint, which compares whole seconds, makes of it.            *)
LEMMA BehindInSeconds ==
  ASSUME NEW row \in Row, NEW t \in Nat, Behind(row, t)
  PROVE  row.received + Window <= t \div Second
<1>1. row.received \in Nat
  <2>1. MaxTime \div Second \in Nat
    BY ClientFacts!SecondOf
  <2> QED
    BY <2>1 DEF Row
<1> DEFINE x == row.received
<1>2. x * Second + Window * Second <= t
  BY DEF Behind
<1>3. x \in Nat
  BY <1>1
<1> HIDE DEF x
<1>4. (x + Window) * Second = x * Second + Window * Second
  BY <1>3
<1>5. x + Window \in Nat
  BY <1>3
<1>6. x + Window <= t \div Second
  BY <1>2, <1>4, <1>5, WholeSeconds
<1> QED
  BY <1>6 DEF x

(* A run begins its loop with all rows behind its first tick.               *)
LEMMA EnterLoopSpaced ==
  ASSUME Types, RowsArePast, Client!EnterLoop, now' = now, log' = log
  PROVE  LoopSpaced'
<1>1. pc' = "select" /\ Free' = now + Interval
  BY DEF Client!EnterLoop, Free
<1>2. now \in Nat /\ now + Interval \in Nat /\ now + Window * Second <= now + Interval
  <2>1. now \in Nat /\ Window * Second \in Nat
    BY Times
  <2>2. Window * Second <= Interval
    BY <2>1
  <2> QED
    BY <2>1, <2>2
<1>3. ASSUME NEW i \in 1 .. Len(log) PROVE Behind(log[i], now + Interval)
  <2>1. log[i] \in Row
    BY RowTypes DEF Types
  <2>2. log[i].received * Second <= now
    BY DEF RowsArePast
  <2> QED
    BY <1>2, <2>1, <2>2, PastIsBehind
<1> QED
  BY <1>1, <1>3 DEF LoopSpaced, AllBehind

(* No time passes and nothing is stored: where the loop was, it stays, or a *)
(* tick lets it capture the next batch.                                     *)
LEMMA LoopSpacedFrame ==
  ASSUME LoopSpaced, UNCHANGED <<now, log>>,
         pc' = "push" => \/ pc = "push" /\ cur' = cur
                         \/ pc = "select" /\ ticked,
         pc' \in {"select", "write", "writing"} =>
           pc \in {"select", "write", "writing"} /\ UNCHANGED <<due, ticked>>
  PROVE  LoopSpaced'
BY DEF LoopSpaced, AllBehind, OthersBehind, Free

(* A live push that returns leaves the window it opened before the next     *)
(* tick.                                                                    *)
LEMMA ReturnSpaced ==
  ASSUME Types, TickerAhead, RowsArePast, LoopSpaced, pc = "push", LivePush(<<cur, 0>>),
         UNCHANGED <<now, due, ticked, log>>
  PROVE  AllBehind(Free)'
<1>1. /\ now \in Nat /\ due \in Nat /\ deadline \in Nat /\ Free \in Nat
      /\ Window * Second \in Nat
  BY Times
<1>2. now <= Free
  BY <1>1 DEF TickerAhead, Free, Client!Pushing
<1>3. now + Window * Second <= Free
  <2> DEFINE w == Window * Second
  <2>1. now <= deadline /\ deadline + w <= Free /\ w \in Nat
    BY <1>1 DEF LivePush
  <2> HIDE DEF w
  <2>2. now + w <= Free
    BY <1>1, <2>1
  <2> QED
    BY <2>2 DEF w
<1>4. ASSUME NEW i \in 1 .. Len(log) PROVE Behind(log[i], Free)
  <2>1. log[i] \in Row
    BY RowTypes DEF Types
  <2>2. CASE log[i].by = <<cur, 0>>
    <3>1. log[i].received * Second <= now
      BY DEF RowsArePast
    <3> QED
      BY <1>1, <1>3, <2>1, <3>1, PastIsBehind
  <2>3. CASE log[i].by # <<cur, 0>>
    <3>1. Behind(log[i], now)
      BY <2>3 DEF LoopSpaced, OthersBehind
    <3> QED
      BY <1>1, <1>2, <2>1, <3>1, BehindGrows
  <2> QED
    BY <2>2, <2>3
<1> QED
  BY <1>4 DEF AllBehind, Free

(* A live push that is sent in time ends a window before the next tick.     *)
LEMMA SendSpacing ==
  ASSUME Types, SentFirst, SpacingInv, NEW h \in Push, Send(h)
  PROVE  SpacingInv'
<1> SUFFICES ASSUME ~stalled', ~lingered' PROVE LoopSpaced' /\ LiveSpaced'
  BY DEF SpacingInv
<1>1. /\ Waiting' = {h} /\ out[h] = "none"
      /\ UNCHANGED <<now, pc, due, ticked, cur, answer, since, log, lingered>>
      /\ \/ pc = "push" /\ h = <<cur, 0>>
         \/ pc = "replay" /\ h[2] > 0
  BY SendWaits DEF Types, clientVars, serverVars
<1>2. ~stalled /\ ~(pc = "push" /\ Late) /\ deadline' = now + Timeout
  BY DEF Send
<1>3. LoopSpaced
  BY <1>1, <1>2 DEF SpacingInv
<1>4. LoopSpaced'
  BY <1>1, <1>3, LoopSpacedFrame
<1>5. ASSUME h[2] = 0 PROVE LivePush(h)'
  <2>1. pc = "push"
    BY <1>1, <1>5
  <2>2. ~ticked /\ ~(now + Window * Second + Timeout > due)
    BY <1>2, <2>1 DEF Late
  <2>3. answer'[h] = "idle"
    BY <1>1 DEF SentFirst
  <2>4. now' <= deadline' /\ deadline' + Window * Second <= due
    <3> DEFINE w == Window * Second
    <3>1. now \in Nat /\ due \in Nat /\ w \in Nat
      BY Times
    <3>2. ~(now + w + Timeout > due)
      BY <2>2
    <3> HIDE DEF w
    <3>3. now <= now + Timeout /\ (now + Timeout) + w <= due
      BY <3>1, <3>2
    <3> QED
      BY <1>1, <1>2, <3>3 DEF w
  <2>5. Free' = due
    BY <1>1, <2>2 DEF Free
  <2> QED
    BY <2>3, <2>4, <2>5 DEF LivePush
<1>6. LiveSpaced'
  BY <1>1, <1>5 DEF LiveSpaced
<1> QED
  BY <1>4, <1>6

(* A push that returns in time leaves the spacing to the ticker.            *)
LEMMA ReturnSpacing ==
  ASSUME Types, OnePush, TickerAhead, RowsArePast, SpacingInv,
         NEW h \in Push, ReturnNil(h) \/ ReturnError(h)
  PROVE  SpacingInv'
<1>1. /\ Waiting = {h} /\ Waiting' = {}
      /\ UNCHANGED <<log, stalled, lingered>>
  BY ReturnEnds DEF Types, ReturnNil, ReturnError, serverVars
<1> SUFFICES ASSUME ~stalled, ~lingered PROVE LoopSpaced' /\ LiveSpaced'
  BY <1>1 DEF SpacingInv
<1>2. LiveSpaced'
  BY <1>1 DEF LiveSpaced
<1>3. LoopSpaced /\ LiveSpaced
  BY DEF SpacingInv
<1>4. CASE Client!PushOk \/ Client!PushFails
  <2>1. pc = "push" /\ pc' \in {"select", "write"} /\ UNCHANGED <<now, due, ticked>>
    BY <1>4 DEF Client!PushOk, Client!PushFails, Client!BackToSelect, Client!loopFrame
  <2>2. h = <<cur, 0>>
    BY <1>1, <2>1 DEF OnePush
  <2>3. LivePush(<<cur, 0>>)
    BY <1>1, <1>3, <2>2 DEF LiveSpaced
  <2>4. AllBehind(Free)'
    BY <1>1, <1>3, <2>1, <2>3, ReturnSpaced
  <2> QED
    BY <1>2, <2>1, <2>4 DEF LoopSpaced
<1>5. CASE Client!ReplayPush
  <2>1. pc' = "delete"
    BY <1>5 DEF Client!ReplayPush
  <2> QED
    BY <1>2, <2>1 DEF LoopSpaced
<1>6. CASE Client!ReplayFails
  <2>1. Client!EnterLoop /\ now' = now
    BY <1>6 DEF Client!ReplayFails
  <2> QED
    BY <1>1, <1>2, <2>1, EnterLoopSpaced
<1> QED
  BY <1>4, <1>5, <1>6 DEF ReturnNil, ReturnError

(* Serving a request stores nothing, and begins or ends.                    *)
LEMMA AnswerSpacing ==
  ASSUME Types, OnePush, RowsOfPushes, LoopSpaced, LiveSpaced,
         NEW h \in Push, Serve(h), log' = log
  PROVE  LoopSpaced' /\ LiveSpaced'
<1>1. /\ UNCHANGED <<now, pc, due, ticked, cur, plan, out, deadline>> /\ Waiting' = Waiting
      /\ DOMAIN answer = Push /\ DOMAIN since = Push
      /\ answer' = [answer EXCEPT ![h] = answer'[h]]
  BY ServeShape DEF clientVars, Waiting, Types, ServerType
<1>2. LoopSpaced'
  BY <1>1, LoopSpacedFrame
<1>3. Free' = Free /\ \A q \in Push : StoredBy(q)' <=> StoredBy(q)
  BY <1>1 DEF Free, StoredBy
<1>4. ASSUME NEW q \in Waiting, q # h, q[2] = 0
      PROVE  LivePush(q)'
  <2>1. LivePush(q)
    BY <1>4 DEF LiveSpaced
  <2>2. answer'[q] = answer[q] /\ since'[q] = since[q]
    BY <1>1, <1>4, ServeShape DEF Waiting
  <2>3. q \in Push
    BY DEF Waiting
  <2> QED
    BY <1>1, <1>3, <2>1, <2>2, <2>3 DEF LivePush
<1>5. ASSUME h \in Waiting, h[2] = 0
      PROVE  LivePush(h)'
  <2>1. LivePush(h) /\ pc = "push" /\ h = <<cur, 0>>
    BY <1>5 DEF LiveSpaced, OnePush
  <2>2. CASE answer[h] = "idle" /\ answer'[h] = "serving" /\ since' = [since EXCEPT ![h] = now \div Second]
    <3>1. since'[h] = now \div Second
      BY <1>1, <2>2
    <3>2. ASSUME NEW i \in 1 .. Len(log), log[i].by # h
          PROVE  log[i].received + Window <= now \div Second
      <4>1. Behind(log[i], now)
        BY <2>1, <3>2 DEF LoopSpaced, OthersBehind
      <4>2. log[i] \in Row /\ now \in Nat
        BY RowTypes, Times DEF Types
      <4> QED
        BY <4>1, <4>2, BehindInSeconds
    <3> QED
      BY <1>1, <1>3, <2>1, <2>2, <3>1, <3>2 DEF LivePush
  <2>3. CASE answer[h] = "stored" /\ answer'[h] = "accepted"
    BY <1>1, <1>3, <2>1, <2>3 DEF LivePush, RowsOfPushes
  <2>4. CASE answer[h] = "serving" /\ answer'[h] = "accepted" /\ Server!Recent(h)
    <3>1. PICK i \in 1 .. Len(log) : log[i].received > since[h] - Window
      BY <2>4 DEF Server!Recent
    <3>2. log[i].by = h
      <4> SUFFICES ASSUME log[i].by # h PROVE FALSE
        OBVIOUS
      <4> DEFINE r == log[i].received
                 s == since[h]
      <4>1. r + Window <= s
        BY <2>1, <2>4 DEF LivePush
      <4>2. r \in Nat /\ s \in Nat /\ r > s - Window
        BY <3>1, RowTypes, Times DEF Types
      <4> HIDE DEF r, s
      <4> QED
        BY <4>1, <4>2
    <3>3. StoredBy(h)
      BY <3>2 DEF StoredBy
    <3> QED
      BY <1>1, <1>3, <2>1, <2>4, <3>3 DEF LivePush
  <2>5. CASE answer'[h] = "rejected"
    BY <1>1, <1>3, <2>1, <2>5 DEF LivePush
  <2>6. answer'[h] # "stored"
    <3> SUFFICES ASSUME answer'[h] = "stored" PROVE FALSE
      OBVIOUS
    <3>1. \E received : log' = Append(log, [by |-> h, received |-> received])
      BY ServeShape
    <3>2. Len(log') = Len(log) + 1 /\ Len(log) \in Nat
      BY <3>1, AppendRow
    <3> QED
      BY <3>2
  <2> QED
    BY <2>2, <2>3, <2>4, <2>5, <2>6, ServeShape
<1> QED
  BY <1>1, <1>2, <1>4, <1>5 DEF LiveSpaced

(* A request that is waited for is stored.                                  *)
LEMMA StoreSpacing ==
  ASSUME Types, OnePush, LoopSpaced, LiveSpaced,
         NEW h \in Push, Serve(h), log' # log, h \in Waiting
  PROVE  LoopSpaced' /\ LiveSpaced'
<1>1. /\ UNCHANGED <<now, pc, due, ticked, cur, plan, out, deadline>> /\ Waiting' = Waiting
      /\ answer'[h] = "stored"
  BY ServeShape DEF clientVars, Waiting
<1>2. PICK received : log' = Append(log, [by |-> h, received |-> received])
  BY ServeShape
<1>3. /\ Len(log) \in Nat /\ Len(log') = Len(log) + 1
      /\ \A i \in 1 .. Len(log) : log'[i] = log[i]
      /\ log'[Len(log) + 1].by = h
      /\ \A i \in 1 .. Len(log') : i \in 1 .. Len(log) \/ i = Len(log) + 1
  <2>1. /\ Len(log) \in Nat /\ Len(log') = Len(log) + 1
        /\ \A i \in 1 .. Len(log) : log'[i] = log[i]
        /\ log'[Len(log) + 1].by = h
    BY <1>2, AppendRow
  <2> QED
    BY <2>1
<1>4. CASE pc = "push" /\ h = <<cur, 0>>
  <2>1. OthersBehind(<<cur, 0>>, now)'
    BY <1>1, <1>3, <1>4 DEF LoopSpaced, OthersBehind
  <2>2. LoopSpaced'
    BY <1>1, <1>4, <2>1 DEF LoopSpaced
  <2>3. LivePush(h)
    BY <1>4 DEF LiveSpaced
  <2>4. LivePush(h)'
    BY <1>1, <2>3 DEF LivePush, Free
  <2>5. \A q \in Waiting : q = h
    BY DEF OnePush
  <2> QED
    BY <1>1, <2>2, <2>4, <2>5 DEF LiveSpaced
<1>5. CASE pc = "replay" /\ h[2] > 0
  <2>1. LoopSpaced'
    BY <1>1, <1>5 DEF LoopSpaced
  <2>2. \A q \in Waiting : q = h
    BY DEF OnePush
  <2>3. ~(h[2] = 0)
    BY <1>5
  <2> QED
    BY <1>1, <2>1, <2>2, <2>3 DEF LiveSpaced
<1> QED
  BY <1>4, <1>5 DEF OnePush

(* While a live push is served, the rows of the others are out of the window. *)
LEMMA ServeSpacing ==
  ASSUME Types, OnePush, RowsOfPushes, SpacingInv, NEW h \in Push, Serve(h)
  PROVE  SpacingInv'
<1> SUFFICES ASSUME ~stalled', ~lingered' PROVE LoopSpaced' /\ LiveSpaced'
  BY DEF SpacingInv
<1>1. /\ ~stalled /\ ~lingered
      /\ ~(answer'[h] = "stored" /\ answer[h] = "serving" /\ out[h] # "waiting")
  BY DEF Serve
<1>2. LoopSpaced /\ LiveSpaced
  BY <1>1 DEF SpacingInv
<1>3. CASE log' = log
  BY <1>2, <1>3, AnswerSpacing
<1>4. CASE log' # log
  <2>1. answer'[h] = "stored" /\ answer[h] = "serving"
    BY <1>4, ServeShape
  <2>2. h \in Waiting
    BY <1>1, <2>1 DEF Waiting
  <2> QED
    BY <1>2, <1>4, <2>2, StoreSpacing
<1> QED
  BY <1>3, <1>4

(* What the agent does without a push keeps the spacing.                    *)
LEMMA AloneSpacing ==
  ASSUME Types, OnePush, RowsArePast, SpacingInv, Alone
  PROVE  SpacingInv'
<1>1. Waiting' = {} /\ UNCHANGED <<log, stalled, lingered>>
  BY AloneIdle DEF serverVars, pushVars
<1> SUFFICES ASSUME ~stalled, ~lingered PROVE LoopSpaced'
  BY <1>1 DEF SpacingInv, LiveSpaced
<1>2. LoopSpaced
  BY DEF SpacingInv
<1>3. CASE Client!ReplayEnds \/ Client!PendingFails
  <2>1. Client!EnterLoop /\ now' = now
    BY <1>3 DEF Client!ReplayEnds, Client!PendingFails
  <2> QED
    BY <1>1, <2>1, EnterLoopSpaced
<1>4. CASE Client!Start \/ Client!Pending \/ Client!Delete \/ Client!Stop
  <2>1. pc' \in {"list", "replay", "down"}
    BY <1>4 DEF Client!Start, Client!Pending, Client!Delete, Client!Stop
  <2> QED
    BY <2>1 DEF LoopSpaced
<1>5. CASE Client!Collect
  <2>1. pc' = "push" /\ pc = "select" /\ ticked /\ now' = now
    BY <1>5 DEF Client!Collect, Client!loopFrame
  <2> QED
    BY <1>1, <1>2, <2>1, LoopSpacedFrame
<1>6. CASE Client!WriteOpens \/ Client!WriteEnds \/ Client!WriteFails
  <2>1. /\ pc \in {"write", "writing"} /\ pc' \in {"writing", "select"}
        /\ UNCHANGED <<now, due, ticked>>
    BY <1>6 DEF Client!WriteOpens, Client!WriteEnds, Client!WriteFails, Client!BackToSelect,
       Client!loopFrame
  <2> QED
    BY <1>1, <1>2, <2>1, LoopSpacedFrame
<1> QED
  BY <1>3, <1>4, <1>5, <1>6 DEF Alone

(* Time only adds to the distance.                                          *)
LEMMA TickSpacing ==
  ASSUME Types, TickerAhead, SpacingInv, Tick
  PROVE  SpacingInv'
<1>1. /\ now' = now + 1 /\ Waiting' = Waiting
      /\ UNCHANGED <<pc, cur, answer, since, log, deadline, stalled, lingered>>
      /\ Waiting = {} \/ now < deadline
  BY DEF Tick, Client!Tick, serverVars, pushVars, Waiting
<1> SUFFICES ASSUME ~stalled, ~lingered PROVE LoopSpaced' /\ LiveSpaced'
  BY <1>1 DEF SpacingInv
<1>2. LoopSpaced /\ LiveSpaced
  BY DEF SpacingInv
<1>3. /\ now \in Nat /\ deadline \in Nat /\ Free \in Nat /\ due \in Nat
      /\ Window * Second \in Nat
  BY Times
<1>4. Free' \in Nat /\ Free <= Free'
  <2>1. CASE pc \in Client!Pushing /\ now + 1 = due
    <3>1. ticked' = TRUE
      BY <2>1 DEF Tick, Client!Tick
    <3> QED
      BY <1>1, <1>3, <2>1, <3>1 DEF Free
  <2>2. CASE ~(pc \in Client!Pushing /\ now + 1 = due)
    <3>1. ticked' = ticked /\ due' = due
      BY <2>2 DEF Tick, Client!Tick
    <3> QED
      BY <1>1, <1>3, <3>1 DEF Free
  <2> QED
    BY <2>1, <2>2
<1>5. \A i \in 1 .. Len(log) : log[i] \in Row
  BY RowTypes DEF Types
<1>6. AllBehind(Free) => AllBehind(Free)'
  BY <1>1, <1>3, <1>4, <1>5, BehindGrows DEF AllBehind
<1>7. OthersBehind(<<cur, 0>>, now) => OthersBehind(<<cur, 0>>, now)'
  <2>1. now + 1 \in Nat /\ now <= now + 1
    BY <1>3
  <2> QED
    BY <1>1, <1>3, <1>5, <2>1, BehindGrows DEF OthersBehind
<1>8. LoopSpaced'
  BY <1>1, <1>2, <1>6, <1>7 DEF LoopSpaced
<1>9. ASSUME NEW q \in Waiting, LivePush(q)
      PROVE  LivePush(q)'
  <2>1. now' <= deadline' /\ deadline' + Window * Second <= Free'
    <3> DEFINE w == Window * Second
    <3>1. now < deadline /\ deadline + w <= Free /\ w \in Nat
      BY <1>1, <1>3, <1>9 DEF LivePush
    <3> HIDE DEF w
    <3>2. now + 1 <= deadline /\ deadline + w <= Free'
      BY <1>3, <1>4, <3>1
    <3> QED
      BY <1>1, <3>2 DEF w
  <2> QED
    BY <1>1, <1>9, <2>1 DEF LivePush, StoredBy
<1>10. LiveSpaced'
  BY <1>1, <1>2, <1>9 DEF LiveSpaced
<1> QED
  BY <1>8, <1>10

(* Without a push that waits there is nothing to space.                     *)
LEMMA KillSpacing == PushType /\ Kill => SpacingInv'
<1> SUFFICES ASSUME PushType, Kill PROVE LoopSpaced' /\ LiveSpaced'
  BY DEF SpacingInv
<1>1. Waiting' = {} /\ pc' = "down"
  BY KillEnds DEF Kill, Client!Kill
<1> QED
  BY <1>1 DEF LoopSpaced, LiveSpaced

(* The aggregator's end adds no row.                                        *)
LEMMA DieSpacing ==
  ASSUME Types, SpacingInv, Die
  PROVE  SpacingInv'
<1>1. /\ UNCHANGED <<now, pc, due, ticked, cur, log, out, deadline, stalled, lingered>>
      /\ Waiting' = Waiting
  BY DieShape DEF clientVars, pushVars, Waiting
<1> SUFFICES ASSUME ~stalled, ~lingered PROVE LoopSpaced' /\ LiveSpaced'
  BY <1>1 DEF SpacingInv
<1>2. LoopSpaced /\ LiveSpaced
  BY DEF SpacingInv
<1>3. LoopSpaced'
  BY <1>1, <1>2, LoopSpacedFrame
<1>4. ASSUME NEW q \in Waiting, LivePush(q)
      PROVE  LivePush(q)'
  <2>1. q \in Push
    BY DEF Waiting
  <2>2. \/ answer'[q] = "killed"
        \/ answer'[q] = answer[q] /\ since'[q] = since[q]
    BY <2>1, DieShape
  <2> QED
    BY <1>1, <1>4, <2>2 DEF LivePush, Free, StoredBy
<1>5. LiveSpaced'
  BY <1>1, <1>2, <1>4 DEF LiveSpaced
<1> QED
  BY <1>3, <1>5

(* Every step keeps the spacing.                                            *)
LEMMA NextSpacing ==
  /\ Types /\ PushInv /\ TickerAhead /\ RowsArePast /\ SpacingInv /\ [Next]_vars
  => SpacingInv'
<1> SUFFICES ASSUME Types, PushInv, TickerAhead, RowsArePast, SpacingInv, [Next]_vars
             PROVE  SpacingInv'
  OBVIOUS
<1>1. OnePush /\ SentFirst /\ RowsOfPushes /\ PushType
  BY DEF PushInv
<1>2. ASSUME NEW h \in Push, Send(h) \/ ReturnNil(h) \/ ReturnError(h) \/ Serve(h)
      PROVE  SpacingInv'
  BY <1>1, <1>2, SendSpacing, ReturnSpacing, ServeSpacing
<1>3. CASE Alone \/ Kill \/ Die \/ Tick
  BY <1>1, <1>3, AloneSpacing, KillSpacing, DieSpacing, TickSpacing
<1>4. CASE UNCHANGED vars
  BY <1>4 DEF vars, clientVars, serverVars, pushVars, SpacingInv, LoopSpaced, LiveSpaced,
     AllBehind, OthersBehind, LivePush, Free, Waiting, StoredBy
<1> QED
  BY <1>2, <1>3, <1>4 DEF Next

(* A live push whose answer was 2xx has stored its batch.                   *)
OkIsStored ==
  \A h \in Push : out[h] = "ok" /\ h[2] = 0 /\ ~stalled /\ ~lingered => StoredBy(h)

(* A live push that returned nil in time has its row.                       *)
LEMMA NextOkIsStored ==
  Types /\ PushInv /\ SpacingInv /\ OkIsStored /\ [Next]_vars => OkIsStored'
<1> SUFFICES ASSUME Types, PushInv, SpacingInv, OkIsStored, [Next]_vars,
                    NEW h \in Push, out'[h] = "ok", h[2] = 0, ~stalled', ~lingered'
             PROVE  StoredBy(h)'
  BY DEF OkIsStored
<1>1. OnePush /\ PushType
  BY DEF PushInv
<1>2. ~stalled /\ ~lingered
  <2>1. ASSUME NEW q \in Push, Send(q) \/ Serve(q)
        PROVE  ~stalled /\ ~lingered
    <3>1. CASE Send(q)
      BY <3>1 DEF Send
    <3>2. CASE Serve(q)
      BY <3>2 DEF Serve
    <3> QED
      BY <2>1, <3>1, <3>2
  <2>2. CASE \E q \in Push : ReturnNil(q) \/ ReturnError(q)
    BY <2>2 DEF ReturnNil, ReturnError, Return
  <2>3. CASE Alone \/ Kill \/ Die \/ Tick \/ UNCHANGED vars
    BY <2>3 DEF Alone, Kill, Die, Tick, vars, pushVars
  <2> QED
    BY <2>1, <2>2, <2>3 DEF Next
<1>3. CASE out[h] = "ok"
  BY <1>2, <1>3, AnswerIsFinal DEF OkIsStored
<1>4. ASSUME NEW q \in Push, ReturnNil(q), out[h] # "ok"
      PROVE  StoredBy(h)'
  <2>1. q = h /\ h \in Waiting /\ log' = log
    BY <1>1, <1>4, ReturnEnds DEF ReturnNil, serverVars
  <2>2. LivePush(h) /\ answer[h] = "accepted"
    BY <1>2, <1>4, <2>1 DEF SpacingInv, LiveSpaced, ReturnNil
  <2> QED
    BY <2>1, <2>2 DEF LivePush, StoredBy
<1>5. CASE \/ \E q \in Push : Send(q) \/ ReturnError(q) \/ Serve(q)
           \/ Alone \/ Kill \/ Die \/ Tick \/ UNCHANGED vars
  <2>1. out[h] = "ok"
    <3>1. ASSUME NEW q \in Push, Send(q) PROVE out[h] = "ok"
      BY <1>1, <3>1, SendWaits
    <3>2. ASSUME NEW q \in Push, ReturnError(q) PROVE out[h] = "ok"
      BY <1>1, <3>2, ReturnEnds DEF ReturnError
    <3>3. CASE Kill
      BY <1>1, <3>3, KillEnds
    <3>4. CASE (\E q \in Push : Serve(q)) \/ Alone \/ Die \/ Tick \/ UNCHANGED vars
      BY <3>4 DEF Serve, Alone, Die, Tick, vars, pushVars
    <3> QED
      BY <1>5, <3>1, <3>2, <3>3, <3>4
  <2> QED
    BY <1>3, <2>1
<1> QED
  BY <1>3, <1>4, <1>5 DEF Next

(* A live push that returned nil has stored its batch, whatever became of   *)
(* earlier ones: the window and the timeout fit into the interval.  The     *)
(* exceptions are a push that began near the next tick, and a request that  *)
(* was stored after its client had given up.                                *)
THEOREM DeliveryLiveIsStored == Spec => []LiveIsStored
<1> DEFINE Ahead == TickerAhead /\ RowsArePast /\ SpacingInv /\ OkIsStored
<1>1. Init => Ahead
  <2> SUFFICES ASSUME Init PROVE Ahead
    OBVIOUS
  <2>1. /\ \A h \in Push : out[h] = "none"
        /\ 1 .. Len(log) = {} /\ pc = "down"
    BY DEF Init, Server!Init, Client!Init
  <2>2. Waiting = {}
    BY <2>1 DEF Waiting
  <2> QED
    BY <2>1, <2>2 DEF TickerAhead, Client!Pushing, RowsArePast, SpacingInv, LoopSpaced,
       LiveSpaced, OkIsStored
<1>2. Client!TypeOK /\ PushInv /\ Ahead /\ [Next]_vars => Ahead'
  <2> SUFFICES ASSUME Client!TypeOK, PushInv, Ahead, [Next]_vars PROVE Ahead'
    OBVIOUS
  <2>1. Types
    BY DEF Types, PushInv
  <2> QED
    BY <2>1, NextTickerAhead, NextRowsArePast, NextSpacing, NextOkIsStored, NextMapsToAgent
<1>3. Ahead => LiveIsStored
  <2> SUFFICES ASSUME OkIsStored PROVE LiveIsStored
    OBVIOUS
  <2>1. \A b \in 1 .. MaxBatches : <<b, 0>> \in Push /\ <<b, 0>>[2] = 0
    OBVIOUS
  <2> QED
    BY <2>1 DEF OkIsStored, LiveIsStored
<1> HIDE DEF Ahead
<1> QED
  BY <1>1, <1>2, <1>3, DeliveryPushes, PTL DEF Spec
===============================================================================
