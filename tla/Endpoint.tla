------------------------------- MODULE Endpoint --------------------------------
(***************************************************************************)
(* What the push endpoint promises a client (aggregator/handler/receive.go *)
(* and the two store methods it calls): each request stores its batch at   *)
(* most once; an error answer means that it did not; a 202 means that it   *)
(* did, or that a batch of the same agent had been received within the     *)
(* dedup window.  Receive, with its statements, archivers and crashes,     *)
(* implements this; Delivery rests on it.                                  *)
(***************************************************************************)
EXTENDS Integers, Sequences

CONSTANTS
  Handler,  \* requests
  Window,   \* the dedup window
  MaxTime,  \* bound of the model: the clock stops here
  MaxRows   \* bound of the model: how many batches are ever stored

VARIABLES
  now,     \* the server's clock, in seconds
  load,    \* load[h]: the agent and the batch request h carries
  answer,  \* answer[h]: how far request h has come
  since,   \* since[h]: when it asked for a recent batch, while it is served
  log      \* every batch ever stored: the request, and received_at

endpointVars == <<now, load, answer, since, log>>

Answer == {"idle", "serving", "stored", "accepted", "rejected", "killed"}

Init ==
  /\ now = 0
  /\ answer = [h \in Handler |-> "idle"]
  /\ since = [h \in Handler |-> 0]
  /\ log = <<>>

Goto(h, from, to) == answer[h] = from /\ answer' = [answer EXCEPT ![h] = to]
Leave(h) == since' = [since EXCEPT ![h] = 0]

\* Faulty variant: the window compared with >= instead of >.
RecentInclusive(h) ==
  \E i \in 1 .. Len(log) : /\ load[log[i].by].agent = load[h].agent
                           /\ log[i].received >= since[h] - Window

(* An agent's batch was received within the window before h asked.          *)
Recent(h) ==
  \E i \in 1 .. Len(log) : /\ load[log[i].by].agent = load[h].agent
                           /\ log[i].received > since[h] - Window

Begin(h) ==
  /\ Goto(h, "idle", "serving")
  /\ since' = [since EXCEPT ![h] = now]
  /\ UNCHANGED <<now, load, log>>

\* received_at is a time at which the request was being served.
Store(h) ==
  /\ Goto(h, "serving", "stored")
  /\ Len(log) < MaxRows
  /\ \E received \in since[h] .. now :
       log' = Append(log, [by |-> h, received |-> received])
  /\ UNCHANGED <<now, load, since>>

Accept(h) ==
  /\ Goto(h, "stored", "accepted") \/ (Goto(h, "serving", "accepted") /\ Recent(h))
  /\ Leave(h)
  /\ UNCHANGED <<now, load, log>>

Reject(h) ==
  /\ Goto(h, "idle", "rejected") \/ Goto(h, "serving", "rejected")
  /\ Leave(h)
  /\ UNCHANGED <<now, load, log>>

(* The server dies, and some requests with it.                              *)
Die ==
  /\ \E dead \in SUBSET {h \in Handler : answer[h] \in {"idle", "serving", "stored"}} :
       /\ answer' = [h \in Handler |-> IF h \in dead THEN "killed" ELSE answer[h]]
       /\ since' = [h \in Handler |-> IF h \in dead THEN 0 ELSE since[h]]
  /\ UNCHANGED <<now, load, log>>

Tick ==
  /\ now < MaxTime
  /\ now' = now + 1
  /\ UNCHANGED <<load, answer, since, log>>

Serve(h) == Begin(h) \/ Store(h) \/ Accept(h) \/ Reject(h)

Next == (\E h \in Handler : Serve(h)) \/ Die \/ Tick

Spec == Init /\ [][Next]_endpointVars
===============================================================================
