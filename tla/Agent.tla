--------------------------------- MODULE Agent --------------------------------
(***************************************************************************)
(* One agent and its buffer directory (agent/agent.go,                     *)
(* agent/buffer/buffer.go).                                                *)
(*                                                                         *)
(* Run replays what the last run left in the buffer, then on every tick    *)
(* captures a batch and pushes it; a batch whose push fails is written to  *)
(* a file of its own.  The process may be stopped between two ticks, or    *)
(* killed anywhere, and is started again; files survive, the sequence      *)
(* counter does not.                                                       *)
(*                                                                         *)
(* The clock runs in units finer than the second the file names carry, and *)
(* is assumed not to be set back.  A push is seen from the agent's side    *)
(* only: it returns nil or an error, after at most the client's timeout.   *)
(***************************************************************************)
EXTENDS Integers

CONSTANTS
  Second,     \* units of the clock in a second
  Interval,   \* push_interval
  Retention,  \* buffer_retention
  MaxTime,    \* bound of the model: the clock stops here
  MaxBatches  \* bound of the model: how many batches are ever captured

ASSUME SecondAssumption == Second \in Nat \ {0}
ASSUME RetentionAssumption == Retention \in Nat
ASSUME BoundsAssumption == MaxTime \in Nat /\ MaxBatches \in Nat

\* validate() only asks for a positive interval; below a second two runs may
\* give two batches one file name.
ASSUME IntervalAssumption == Interval \in Nat /\ Interval >= Second

VARIABLES
  now,       \* the wall clock
  pc,        \* what the process does next; "down" when there is none
  seq,       \* a.seq, 0 in a new process
  due,       \* when the ticker fires next
  ticked,    \* whether a tick waits in the ticker's channel, which holds one
  captured,  \* how many batches were ever captured: the newest batch
  name,      \* name[b]: the Timestamp and Sequence of batch b, its file's name
  cur,       \* the batch collect or replay is busy with, 0 when there is none
  plan,      \* the batches of Pending that replay has not dealt with yet
  files,     \* files[n]: the file called n in the buffer directory
  acked,     \* history: batches some Push of which returned nil
  expired,   \* history: batches whose file Pending removed for its age
  dropped,   \* history: batches that never became a whole file: the write
             \* failed, or the process died with the batch in hand
  started,   \* history: the newest batch when this process was started
  clean      \* history: nothing went wrong in the replay of this process

procVars == <<pc, seq, due, ticked, cur, plan>>
history == <<acked, expired, dropped, started, clean>>
vars == <<now, procVars, captured, name, files, history>>

\* The ticker exists in the second group only.
Replaying == {"list", "replay", "delete"}
Pushing == {"select", "push", "write", "writing"}
InHand == {"push", "write", "writing"}

Name == [sec : 0 .. MaxTime, seq : 1 .. MaxBatches]
File == [of : 1 .. MaxBatches, mtime : 0 .. MaxTime, whole : BOOLEAN]

Init ==
  /\ now = 0
  /\ pc = "down"
  /\ seq = 0
  /\ due = 0
  /\ ticked = FALSE
  /\ captured = 0
  /\ name = [b \in {} |-> b]
  /\ cur = 0
  /\ plan = {}
  /\ files = [n \in {} |-> n]
  /\ acked = {}
  /\ expired = {}
  /\ dropped = {}
  /\ started = 0
  /\ clean = TRUE

Put(f, x, v) == [y \in DOMAIN f \cup {x} |-> IF y = x THEN v ELSE f[y]]
Without(f, S) == [y \in DOMAIN f \ S |-> f[y]]

------------------------------------------------------------------------------
(* File names.                                                              *)

\* A number's digits, as %d writes it.
Digits(n) == CHOOSE d \in 1 .. n + 1 : 10 ^ (d - 1) <= n /\ n < 10 ^ d

\* The order of two numbers as strings followed by ".json".
DecimalBefore(m, n) ==
  LET M == m * 10 ^ Digits(n)
      N == n * 10 ^ Digits(m)
  IN M < N \/ (M = N /\ m < n)

\* A faulty variant: the number comes first in the name.
NameBeforeByNumber(x, y) ==
  DecimalBefore(x.seq, y.seq) \/ (x.seq = y.seq /\ x.sec < y.sec)

(* sort.Strings on "batch-<Timestamp>-<Sequence>.json".  The Timestamp is a *)
(* string under %d, which wraps it in the same characters in every name.    *)
(* RFC 3339 times in UTC compare as strings the way they compare as times,  *)
(* numbers do not.                                                          *)
NameBefore(x, y) ==
  x.sec < y.sec \/ (x.sec = y.sec /\ DecimalBefore(x.seq, y.seq))

\* The batch replay pushes next.
First(b) == b \in plan /\ \A c \in plan \ {b} : NameBefore(name[b], name[c])

Expired == {n \in DOMAIN files : files[n].mtime < now - Retention}
Whole == {n \in DOMAIN files : files[n].whole}
Buffered(b) == \E n \in Whole : files[n].of = b

------------------------------------------------------------------------------
(* Faulty variants, one plausible bug each.                                *)

\* The sequence number is left out of the file name.
NameWithoutSequence(s) == [sec |-> now \div Second, seq |-> 1]

\* The replay ends with the first file.
DeleteAndStop ==
  /\ pc = "delete"
  /\ pc' = "replay"
  /\ files' = Without(files, {name[cur]})
  /\ plan' = {}
  /\ cur' = 0
  /\ UNCHANGED <<now, seq, due, ticked, captured, name, history>>

\* A batch whose file could not be removed is replayed again at once.
DeleteOrRetry ==
  /\ pc = "delete"
  /\ pc' = "replay"
  /\ \/ plan' = plan \ {cur} /\ files' = Without(files, {name[cur]})
     \/ UNCHANGED <<plan, files>>
  /\ cur' = 0
  /\ UNCHANGED <<now, seq, due, ticked, captured, name, history>>

\* A new process goes on one after the newest batch and skips a number.
StartAhead ==
  /\ pc = "down"
  /\ pc' = "list"
  /\ seq' = captured + 1
  /\ started' = captured
  /\ clean' = TRUE
  /\ UNCHANGED <<now, due, ticked, captured, name, cur, plan, files, acked,
                 expired, dropped>>
------------------------------------------------------------------------------
(* Starting and replaying.                                                  *)

(* main: New makes the directory if need be and counts from zero again.     *)
Start ==
  /\ pc = "down"
  /\ pc' = "list"
  /\ seq' = 0
  /\ started' = captured
  /\ clean' = TRUE
  /\ UNCHANGED <<now, due, ticked, captured, name, cur, plan, files, acked,
                 expired, dropped>>

\* replayBuffer returns and Run makes its ticker.
EnterLoop ==
  /\ pc' = "select"
  /\ plan' = {}
  /\ due' = now + Interval
  /\ ticked' = FALSE

(* Pending: files older than the retention are removed, the error of the    *)
(* removal being ignored, and left out all the same; so are files that      *)
(* cannot be read or parsed.                                                *)
Pending ==
  /\ pc = "list"
  /\ pc' = "replay"
  /\ \E removed \in SUBSET Expired, read \in SUBSET (Whole \ Expired) :
       /\ files' = Without(files, removed)
       /\ plan' = {files[n].of : n \in read}
       /\ expired' = expired \cup {files[n].of : n \in removed \cap Whole}
       /\ clean' = (removed = Expired /\ read = Whole \ Expired)
  /\ UNCHANGED <<now, seq, due, ticked, captured, name, cur, acked, dropped, started>>

(* The directory cannot be listed: there is no replay in this run.          *)
PendingFails ==
  /\ pc = "list"
  /\ EnterLoop
  /\ clean' = FALSE
  /\ UNCHANGED <<now, seq, captured, name, cur, files, acked, expired, dropped, started>>

ReplayPush ==
  /\ pc = "replay"
  /\ pc' = "delete"
  /\ \E b \in plan : First(b) /\ cur' = b /\ acked' = acked \cup {b}
  /\ UNCHANGED <<now, seq, due, ticked, captured, name, plan, files,
                 expired, dropped, started, clean>>

(* buf.Delete puts the name together again from the batch it read; it       *)
(* ignores the error of the removal, and replay goes on either way.         *)
Delete ==
  /\ pc = "delete"
  /\ pc' = "replay"
  /\ plan' = plan \ {cur}
  /\ cur' = 0
  /\ \/ files' = Without(files, {name[cur]}) /\ UNCHANGED clean
     \/ clean' = FALSE /\ UNCHANGED files
  /\ UNCHANGED <<now, seq, due, ticked, captured, name, acked, expired,
                 dropped, started>>

(* The first failing push ends the replay; nothing resumes it.              *)
ReplayFails ==
  /\ pc = "replay"
  /\ plan # {}
  /\ EnterLoop
  /\ clean' = FALSE
  /\ UNCHANGED <<now, seq, captured, name, cur, files, acked, expired, dropped, started>>

ReplayEnds ==
  /\ pc = "replay"
  /\ plan = {}
  /\ EnterLoop
  /\ UNCHANGED <<now, seq, captured, name, cur, files, history>>
------------------------------------------------------------------------------
(* The loop.                                                                *)

\* What captures and writes leave alone.
loopFrame == <<now, due, plan, acked, expired, started, clean>>

NameOf(s) == [sec |-> now \div Second, seq |-> s]

(* <-ticker.C, then buildBatch: the next number and the time.               *)
Collect ==
  /\ pc = "select" /\ ticked
  /\ captured < MaxBatches
  /\ pc' = "push"
  /\ ticked' = FALSE
  /\ seq' = seq + 1
  /\ captured' = captured + 1
  /\ cur' = captured + 1
  /\ name' = Put(name, captured + 1, NameOf(seq + 1))
  /\ UNCHANGED <<loopFrame, files, dropped>>

\* collect is done with its batch.
BackToSelect == pc' = "select" /\ cur' = 0

PushOk ==
  /\ pc = "push"
  /\ BackToSelect
  /\ acked' = acked \cup {cur}
  /\ UNCHANGED <<now, seq, due, ticked, captured, name, plan, files, expired,
                 dropped, started, clean>>

PushFails ==
  /\ pc = "push"
  /\ pc' = "write"
  /\ UNCHANGED <<loopFrame, seq, ticked, captured, name, cur, files, dropped>>

(* buf.Write: os.WriteFile truncates or creates the file, then fills it.    *)
WriteOpens ==
  /\ pc = "write"
  /\ pc' = "writing"
  /\ files' = Put(files, name[cur], [of |-> cur, mtime |-> now, whole |-> FALSE])
  /\ UNCHANGED <<loopFrame, seq, ticked, captured, name, cur, dropped>>

WriteEnds ==
  /\ pc = "writing"
  /\ BackToSelect
  /\ files' = Put(files, name[cur], [of |-> cur, mtime |-> now, whole |-> TRUE])
  /\ UNCHANGED <<loopFrame, seq, ticked, captured, name, dropped>>

(* An error of buf.Write is logged: the batch is gone, and what was written *)
(* of its file stays.                                                       *)
WriteFails ==
  /\ pc \in {"write", "writing"}
  /\ BackToSelect
  /\ dropped' = dropped \cup {cur}
  /\ UNCHANGED <<loopFrame, seq, ticked, captured, name, files>>

(* ctx.Done(): a signal is heeded in select only.                           *)
Stop ==
  /\ pc = "select"
  /\ pc' = "down"
  /\ UNCHANGED <<now, seq, due, ticked, captured, name, cur, plan, files, history>>

(* The process dies, with the batch in hand.                                *)
Kill ==
  /\ pc # "down"
  /\ pc' = "down"
  /\ cur' = 0
  /\ plan' = {}
  /\ dropped' = IF pc \in InHand THEN dropped \cup {cur} ELSE dropped
  /\ UNCHANGED <<now, seq, due, ticked, captured, name, files, acked, expired,
                 started, clean>>

(* The clock.  A tick finds the channel full when collect is late, and is   *)
(* dropped then.                                                            *)
Tick ==
  /\ now < MaxTime
  /\ now' = now + 1
  /\ IF pc \in Pushing /\ now + 1 = due
     THEN ticked' = TRUE /\ due' = due + Interval
     ELSE UNCHANGED <<ticked, due>>
  /\ UNCHANGED <<pc, seq, captured, name, cur, plan, files, history>>

Replay == Pending \/ PendingFails \/ ReplayPush \/ Delete \/ ReplayFails \/ ReplayEnds
Loop == Collect \/ PushOk \/ PushFails \/ WriteOpens \/ WriteEnds \/ WriteFails

Next == Start \/ Replay \/ Loop \/ Stop \/ Kill \/ Tick

Spec == Init /\ [][Next]_vars

(* The process runs on: a push returns within the client's timeout, with or *)
(* without an error, and the file system answers.                           *)
FairSpec == Spec /\ WF_vars(Replay) /\ WF_vars(Loop)
------------------------------------------------------------------------------

TypeOK ==
  /\ now \in 0 .. MaxTime
  /\ pc \in {"down"} \cup Replaying \cup Pushing
  /\ captured \in 0 .. MaxBatches
  /\ seq \in 0 .. captured
  /\ due \in 0 .. MaxTime + Interval
  /\ ticked \in BOOLEAN
  /\ name \in [1 .. captured -> Name]
  /\ cur \in 0 .. captured /\ (pc \in InHand \cup {"delete"} <=> cur # 0)
  /\ plan \subseteq 1 .. captured
  /\ DOMAIN files \subseteq Name
  /\ \A n \in DOMAIN files : files[n] \in File /\ files[n].of <= captured
  /\ acked \subseteq 1 .. captured
  /\ expired \subseteq 1 .. captured
  /\ dropped \subseteq 1 .. captured
  /\ started \in 0 .. captured
  /\ clean \in BOOLEAN

(* No batch is forgotten: each was pushed, or is in hand, or has a whole    *)
(* file, or its file was removed for its age, or never came to be.  In      *)
(* particular no file is overwritten by another batch, of this run or a     *)
(* later one that counts from one again, and Delete hits the right file.    *)
Accounted ==
  \A b \in 1 .. captured :
    b \in acked \cup expired \cup dropped \cup {cur} \/ Buffered(b)

(* When nothing went wrong in the replay of a run, all that the buffer      *)
(* holds afterwards was captured by that run.                               *)
ReplayDrains ==
  pc \in Pushing /\ clean => \A n \in Whole : files[n].of > started

(* A buffered batch that a new run finds leaves the buffer, unless          *)
(* something goes wrong in the replay or the process ends.                  *)
ReplaySettles ==
  \A b \in 1 .. MaxBatches :
    (pc = "list" /\ Buffered(b)) ~> (~Buffered(b) \/ ~clean \/ pc = "down")

(* What the package comment of buffer.go says: buffered batches are         *)
(* replayed in chronological order before live pushes are resumed.  So a    *)
(* batch is not pushed successfully while an older one waits in the buffer. *)
BufferedBeforeLive ==
  \A b \in acked, n \in Whole : files[n].of < b => files[n].of \in acked

(* The order of file names, which is that of strings, is the order in which *)
(* the batches were captured, as far as a second tells: a replay pushes a   *)
(* batch before an older one only when both were captured in one second.    *)
(* (In one second, number 10 is pushed before number 9.)                    *)
ReplayOrder ==
  pc = "delete" => \A b \in plan : b < cur => name[b].sec = name[cur].sec
===============================================================================
