------------------------------ MODULE AgentProofs -----------------------------
(***************************************************************************)
(* The agent forgets no batch and drains the buffer at its start, for      *)
(* every Second, every Interval of at least a second, every Retention and  *)
(* any number of batches and restarts.                                     *)
(*                                                                         *)
(* Accounted rests on file names being unique (UniqueNames): within a run  *)
(* the sequence numbers differ (Numbering); across runs the seconds do,    *)
(* because the first tick of a run comes an Interval after its replay      *)
(* (NewSeconds).                                                           *)
(***************************************************************************)
EXTENDS Agent, TLAPS

UniqueNames == \A b, c \in 1 .. captured : name[b] = name[c] => b = c

(* The batches of the current run are numbered from one.                    *)
Numbering ==
  /\ seq = captured - started
  /\ \A b \in started + 1 .. captured : name[b].seq = b - started
  /\ pc \in Replaying => captured = started

OldSeconds == \A b \in 1 .. captured : name[b].sec <= now \div Second

(* Whatever the ticker lets through is at least a second younger than the   *)
(* batches of earlier runs.                                                 *)
NewSeconds ==
  pc \in Pushing =>
    \A b \in 1 .. started : /\ name[b].sec < due \div Second
                            /\ ticked => name[b].sec < now \div Second

Names == UniqueNames /\ Numbering /\ OldSeconds /\ NewSeconds

(* A file is where its batch's name says.                                   *)
FilesNamed ==
  \A n \in DOMAIN files : files[n].of \in 1 .. captured /\ n = name[files[n].of]

(* What the process knows of the batch it is busy with.                     *)
Busy ==
  /\ pc = "delete" => cur \in plan /\ cur \in acked
  /\ pc = "writing" => name[cur] \in DOMAIN files /\ files[name[cur]].of = cur
  /\ pc \in InHand => cur > started

(* A clean replay has everything that is left in its plan.                  *)
PlanCovers ==
  pc \in {"replay", "delete"} /\ clean => \A n \in Whole : files[n].of \in plan

IInv ==
  /\ TypeOK
  /\ Names
  /\ FilesNamed
  /\ Busy
  /\ Accounted
  /\ PlanCovers
  /\ ReplayDrains

USE SecondAssumption, IntervalAssumption, RetentionAssumption, BoundsAssumption
    DEF Replaying, Pushing, InHand

------------------------------------------------------------------------------
(* Seconds.                                                                 *)

(* A whole number of seconds is at most the time, and less than one short.  *)
LEMMA SecondOf ==
  ASSUME NEW t \in Nat
  PROVE  /\ t \div Second \in Nat
         /\ Second * (t \div Second) <= t
         /\ t < Second * (t \div Second) + Second
OBVIOUS

(* There are no more seconds than units of time.                            *)
LEMMA SecondSmall ==
  ASSUME NEW t \in Nat
  PROVE  t \div Second <= t
<1> DEFINE q == t \div Second
<1>1. q \in Nat /\ Second * q <= t
  BY SecondOf
<1> HIDE DEF q
<1>2. q <= Second * q
  BY <1>1
<1> QED
  BY <1>1, <1>2 DEF q

(* Seconds never run backwards.                                             *)
LEMMA SecondsGrow ==
  ASSUME NEW t \in Nat, NEW u \in Nat, t <= u
  PROVE  t \div Second <= u \div Second
<1> DEFINE q == t \div Second
           r == u \div Second
<1>1. q \in Nat /\ Second * q <= t
  BY SecondOf
<1>2. r \in Nat /\ u < Second * r + Second
  BY SecondOf
<1> HIDE DEF q, r
<1>3. q <= r
  <2> SUFFICES ASSUME r + 1 <= q PROVE FALSE
    BY <1>1, <1>2
  <2>1. Second * (r + 1) <= Second * q
    BY <1>1, <1>2
  <2>2. Second * (r + 1) = Second * r + Second
    BY <1>2
  <2> QED
    BY <2>1, <2>2, <1>1, <1>2
<1> QED
  BY <1>3 DEF q, r

(* An Interval later it is another second.                                  *)
LEMMA IntervalIsLater ==
  ASSUME NEW t \in Nat
  PROVE  t \div Second < (t + Interval) \div Second
<1> DEFINE q == t \div Second
           r == (t + Interval) \div Second
<1>1. q \in Nat /\ Second * q <= t
  BY SecondOf
<1>2. r \in Nat /\ t + Interval < Second * r + Second
  BY SecondOf
<1> HIDE DEF q, r
<1>3. Second * q < Second * r
  BY <1>1, <1>2
<1>4. q < r
  <2> SUFFICES ASSUME r <= q PROVE FALSE
    BY <1>1, <1>2
  <2>1. Second * r <= Second * q
    BY <1>1, <1>2
  <2> QED
    BY <2>1, <1>3, <1>1, <1>2
<1> QED
  BY <1>4 DEF q, r

------------------------------------------------------------------------------
(* Types.                                                                   *)

ProcType ==
  /\ now \in 0 .. MaxTime
  /\ pc \in {"down"} \cup Replaying \cup Pushing
  /\ captured \in 0 .. MaxBatches
  /\ seq \in 0 .. captured
  /\ due \in 0 .. MaxTime + Interval
  /\ cur \in 0 .. captured /\ (pc \in InHand \cup {"delete"} <=> cur # 0)
  /\ started \in 0 .. captured

FlagType == ticked \in BOOLEAN /\ clean \in BOOLEAN

BatchType ==
  /\ name \in [1 .. captured -> Name]
  /\ plan \subseteq 1 .. captured
  /\ acked \subseteq 1 .. captured
  /\ expired \subseteq 1 .. captured
  /\ dropped \subseteq 1 .. captured

FileType ==
  /\ DOMAIN files \subseteq Name
  /\ \A n \in DOMAIN files : files[n] \in File /\ files[n].of <= captured

(* The type invariant, part by part.                                        *)
LEMMA TypeParts == TypeOK <=> ProcType /\ FlagType /\ BatchType /\ FileType
BY DEF TypeOK, ProcType, FlagType, BatchType, FileType

(* Every part holds when the agent is started for the first time.           *)
LEMMA InitTypeOK == Init => TypeOK
<1> SUFFICES ASSUME Init PROVE TypeOK
  OBVIOUS
<1>1. ProcType
  BY DEF Init, ProcType
<1>2. FlagType
  BY DEF Init, FlagType
<1>3. BatchType
  <2>1. 1 .. captured = {}
    BY DEF Init
  <2> QED
    BY <2>1 DEF Init, BatchType
<1>4. FileType
  BY DEF Init, FileType
<1> QED
  BY <1>1, <1>2, <1>3, <1>4, TypeParts

(* The directory changes in four actions only.                              *)
LEMMA FilesKept ==
  ASSUME [Next]_vars
  PROVE  files' = files \/ Pending \/ Delete \/ WriteOpens \/ WriteEnds
<1>1. Replay => files' = files \/ Pending \/ Delete
  BY DEF Replay, PendingFails, ReplayPush, ReplayFails, ReplayEnds
<1>2. Loop => files' = files \/ WriteOpens \/ WriteEnds
  BY DEF Loop, Collect, PushOk, PushFails, WriteFails
<1>3. Start \/ Stop \/ Kill \/ Tick \/ UNCHANGED vars => files' = files
  BY DEF Start, Stop, Kill, Tick, vars
<1> QED
  BY <1>1, <1>2, <1>3 DEF Next

(* Batches are captured in one.                                             *)
LEMMA NameKept ==
  ASSUME [Next]_vars, ~Collect
  PROVE  captured' = captured /\ name' = name
<1>1. Replay => captured' = captured /\ name' = name
  BY DEF Replay, Pending, PendingFails, ReplayPush, Delete, ReplayFails, ReplayEnds
<1>2. Loop => captured' = captured /\ name' = name
  BY DEF Loop, PushOk, PushFails, WriteOpens, WriteEnds, WriteFails
<1>3. Start \/ Stop \/ Kill \/ Tick \/ UNCHANGED vars => captured' = captured /\ name' = name
  BY DEF Start, Stop, Kill, Tick, vars
<1> QED
  BY <1>1, <1>2, <1>3 DEF Next

(* What is written to the buffer is a file of a captured batch.             *)
LEMMA NextFileType == TypeOK /\ [Next]_vars => FileType'
<1> SUFFICES ASSUME ProcType, FlagType, BatchType, FileType, [Next]_vars PROVE FileType'
  BY TypeParts
<1> USE DEF FileType
<1>0. \A n \in DOMAIN files : files[n].of <= captured'
  <2>1. captured' = captured \/ captured' = captured + 1
    BY NameKept DEF Collect
  <2> QED
    BY <2>1 DEF ProcType, File
<1>1. CASE files' = files
  BY <1>0, <1>1
<1>2. CASE Pending
  BY <1>2 DEF Pending, Without
<1>3. CASE Delete
  BY <1>3 DEF Delete, Without
<1>4. CASE WriteOpens
  <2>1. name[cur] \in Name /\ [of |-> cur, mtime |-> now, whole |-> FALSE] \in File
    BY <1>4 DEF WriteOpens, ProcType, BatchType, File
  <2>2. cur <= captured /\ captured' = captured
    BY <1>4 DEF WriteOpens, ProcType
  <2> QED
    BY <1>4, <2>1, <2>2 DEF WriteOpens, Put
<1>5. CASE WriteEnds
  <2>1. name[cur] \in Name /\ [of |-> cur, mtime |-> now, whole |-> TRUE] \in File
    BY <1>5 DEF WriteEnds, ProcType, BatchType, File
  <2>2. cur <= captured /\ captured' = captured
    BY <1>5 DEF WriteEnds, ProcType
  <2> QED
    BY <1>5, <2>1, <2>2 DEF WriteEnds, Put
<1> QED
  BY <1>1, <1>2, <1>3, <1>4, <1>5, FilesKept

(* Captured batches have names, and what became of them is of such batches. *)
LEMMA NextBatchType == TypeOK /\ [Next]_vars => BatchType'
<1> SUFFICES ASSUME ProcType, FlagType, BatchType, FileType, [Next]_vars PROVE BatchType'
  BY TypeParts
<1> USE DEF BatchType
<1>0. captured \in Nat /\ cur \in 0 .. captured /\ (pc \in InHand => cur \in 1 .. captured)
  BY DEF ProcType
<1>1. CASE Pending
  <2>1. \A n \in DOMAIN files : files[n].of \in 1 .. captured
    BY <1>0 DEF FileType, File
  <2> QED
    BY <1>1, <2>1 DEF Pending, Whole
<1>2. CASE Collect
  <2>1. /\ captured' = captured + 1
        /\ 1 .. captured' = (1 .. captured) \cup {captured + 1}
        /\ name' = Put(name, captured + 1, NameOf(seq + 1))
        /\ UNCHANGED <<plan, acked, expired, dropped>>
    BY <1>0, <1>2 DEF Collect, loopFrame
  <2>2. NameOf(seq + 1) \in Name
    <3>1. now \div Second \in Nat /\ now \div Second <= now
      BY SecondOf, SecondSmall DEF ProcType
    <3> QED
      BY <1>2, <3>1 DEF Collect, NameOf, Name, ProcType
  <2> QED
    BY <1>0, <2>1, <2>2 DEF Put
<1>3. CASE ReplayPush
  BY <1>3 DEF ReplayPush, First
<1>4. CASE Delete
  BY <1>4 DEF Delete
<1>5. CASE PushOk
  BY <1>0, <1>5 DEF PushOk
<1>6. CASE WriteFails \/ Kill
  BY <1>0, <1>6 DEF WriteFails, Kill, loopFrame
<1>7. CASE \/ Start \/ PendingFails \/ ReplayFails \/ ReplayEnds \/ PushFails
           \/ WriteOpens \/ WriteEnds \/ Stop \/ Tick \/ UNCHANGED vars
  BY <1>7 DEF Start, PendingFails, ReplayFails, ReplayEnds, EnterLoop, PushFails,
       WriteOpens, WriteEnds, loopFrame, Stop, Tick, vars, procVars, history
<1> QED
  BY <1>1, <1>2, <1>3, <1>4, <1>5, <1>6, <1>7 DEF Next, Replay, Loop

(* The loop's position, the clock and the counters stay within their types. *)
LEMMA NextProcType == TypeOK /\ [Next]_vars => ProcType'
<1> SUFFICES ASSUME ProcType, FlagType, BatchType, FileType, [Next]_vars PROVE ProcType'
  BY TypeParts
<1> USE DEF ProcType, history, EnterLoop, BackToSelect, loopFrame
<1>1. CASE Start
  BY <1>1 DEF Start
<1>2. CASE Pending
  BY <1>2 DEF Pending
<1>3. CASE PendingFails \/ ReplayFails
  BY <1>3 DEF PendingFails, ReplayFails
<1>4. CASE ReplayEnds
  BY <1>4 DEF ReplayEnds
<1>5. CASE ReplayPush
  <2>1. cur' \in 1 .. captured
    BY <1>5 DEF ReplayPush, First, BatchType
  <2> QED
    BY <1>5, <2>1 DEF ReplayPush
<1>6. CASE Delete
  BY <1>6 DEF Delete
<1>7. CASE Collect
  BY <1>7 DEF Collect
<1>8. CASE PushOk
  BY <1>8 DEF PushOk
<1>9. CASE PushFails
  BY <1>9 DEF PushFails
<1>10. CASE WriteOpens
  BY <1>10 DEF WriteOpens
<1>11. CASE WriteEnds
  BY <1>11 DEF WriteEnds
<1>12. CASE WriteFails
  BY <1>12 DEF WriteFails
<1>13. CASE Stop
  BY <1>13 DEF Stop
<1>14. CASE Kill
  BY <1>14 DEF Kill
<1>15. CASE Tick
  BY <1>15 DEF Tick
<1>16. CASE UNCHANGED vars
  BY <1>16 DEF vars, procVars
<1> QED
  BY <1>1, <1>2, <1>3, <1>4, <1>5, <1>6, <1>7, <1>8, <1>9, <1>10, <1>11, <1>12,
     <1>13, <1>14, <1>15, <1>16 DEF Next, Replay, Loop

(* The flags stay Boolean.                                                  *)
LEMMA NextFlagType == TypeOK /\ [Next]_vars => FlagType'
<1> SUFFICES ASSUME FlagType, [Next]_vars PROVE FlagType'
  BY TypeParts
<1>1. ticked' \in {ticked, TRUE, FALSE}
  BY DEF Next, Replay, Loop, Start, Pending, PendingFails, ReplayPush, Delete,
         ReplayFails, ReplayEnds, EnterLoop, Collect, PushOk, PushFails, WriteOpens,
         WriteEnds, WriteFails, loopFrame, Stop, Kill, Tick, vars, procVars
<1>2. clean' = clean \/ clean' = TRUE \/ clean' = FALSE \/ Pending
  BY DEF Next, Replay, Loop, Start, PendingFails, ReplayPush, Delete,
         ReplayFails, ReplayEnds, Collect, PushOk, PushFails, WriteOpens,
         WriteEnds, WriteFails, loopFrame, Stop, Kill, Tick, vars, history
<1>3. Pending => clean' \in BOOLEAN
  BY DEF Pending
<1> QED
  BY <1>1, <1>2, <1>3 DEF FlagType

(* Type correctness of the agent and its buffer directory.                  *)
THEOREM AgentTypeOK == Spec => []TypeOK
<1>1. TypeOK /\ [Next]_vars => TypeOK'
  <2> SUFFICES ASSUME TypeOK, [Next]_vars PROVE TypeOK'
    OBVIOUS
  <2>1. ProcType' /\ FlagType' /\ BatchType' /\ FileType'
    BY NextProcType, NextFlagType, NextBatchType, NextFileType
  <2> QED
    BY <2>1 DEF TypeOK, ProcType, FlagType, BatchType, FileType
<1> QED
  BY <1>1, InitTypeOK, PTL DEF Spec

------------------------------------------------------------------------------
(* Names.                                                                   *)

(* The clock, the counters and the names are numbers.                       *)
LEMMA Numbers ==
  ASSUME TypeOK
  PROVE  /\ now \in Nat /\ due \in Nat
         /\ captured \in Nat /\ started \in 0 .. captured /\ seq \in Nat
         /\ \A b \in 1 .. captured : /\ name[b] \in Name
                                     /\ name[b].sec \in Nat /\ name[b].seq \in Nat
<1>1. ProcType /\ BatchType
  BY TypeParts
<1>2. \A b \in 1 .. captured : name[b] \in Name
  BY <1>1 DEF BatchType
<1>3. \A x \in Name : x.sec \in Nat /\ x.seq \in Nat
  BY DEF Name
<1> QED
  BY <1>1, <1>2, <1>3 DEF ProcType

(* A step that captures nothing and lets no time pass, and does not enter   *)
(* the loop.                                                                *)
LEMMA NamesFrame ==
  ASSUME Names, UNCHANGED <<now, seq, captured, name, started>>,
         pc' \in Replaying => pc \in Replaying,
         pc' \in Pushing => pc \in Pushing /\ due' = due /\ ticked' = ticked
  PROVE  Names'
BY DEF Names, UniqueNames, Numbering, OldSeconds, NewSeconds

(* Once in the loop, every name to come is of a later second than the old ones. *)
LEMMA EnterLoopNames ==
  ASSUME TypeOK, Names, UNCHANGED <<now, seq, captured, name, started>>, EnterLoop,
         pc \in Replaying
  PROVE  Names'
<1>1. /\ pc' = "select" /\ due' = now + Interval /\ ~ticked'
  BY DEF EnterLoop
<1>2. UniqueNames' /\ Numbering' /\ OldSeconds'
  BY <1>1 DEF Names, UniqueNames, Numbering, OldSeconds
<1>3. \A b \in 1 .. started : name[b].sec < due' \div Second
  <2> SUFFICES ASSUME NEW b \in 1 .. started
               PROVE  name[b].sec < (now + Interval) \div Second
    BY <1>1
  <2>1. name[b].sec \in Nat /\ name[b].sec <= now \div Second
    BY Numbers DEF Names, OldSeconds
  <2>2. /\ now \div Second < (now + Interval) \div Second
        /\ now \div Second \in Nat /\ (now + Interval) \div Second \in Nat
    BY Numbers, IntervalIsLater, SecondOf
  <2> QED
    BY <2>1, <2>2
<1>4. NewSeconds'
  BY <1>1, <1>3 DEF NewSeconds
<1> QED
  BY <1>2, <1>4 DEF Names

(* The new name: its second differs from those of earlier runs, its number  *)
(* from those of this one.                                                  *)
LEMMA CollectNames ==
  ASSUME TypeOK, Names, Collect
  PROVE  Names'
<1>1. /\ captured' = captured + 1 /\ seq' = seq + 1
      /\ name' = Put(name, captured + 1, NameOf(seq + 1))
      /\ pc' = "push" /\ pc = "select" /\ ticked /\ ~ticked'
      /\ UNCHANGED <<now, due, started>>
  BY DEF Collect, loopFrame
<1>2. /\ captured \in Nat /\ started \in 0 .. captured /\ seq = captured - started
      /\ DOMAIN name = 1 .. captured
      /\ 1 .. captured' = (1 .. captured) \cup {captured + 1}
  BY <1>1, Numbers, TypeParts DEF Names, Numbering, BatchType
<1>3. /\ \A b \in 1 .. captured : name'[b] = name[b]
      /\ name'[captured + 1] = [sec |-> now \div Second, seq |-> seq + 1]
  BY <1>1, <1>2 DEF Put, NameOf
<1>4. \A b \in 1 .. captured : name[b] # name'[captured + 1]
  <2> SUFFICES ASSUME NEW b \in 1 .. captured
               PROVE  name[b] # name'[captured + 1]
    OBVIOUS
  <2>1. CASE b <= started
    <3>1. name[b].sec < now \div Second
      BY <1>1, <1>2, <2>1 DEF Names, NewSeconds
    <3>2. name[b].sec \in Nat /\ now \div Second \in Nat
      BY Numbers, SecondOf
    <3> QED
      BY <1>3, <3>1, <3>2
  <2>2. CASE started < b
    <3>1. name[b].seq = b - started
      BY <1>2, <2>2 DEF Names, Numbering
    <3> QED
      BY <1>2, <1>3, <2>2, <3>1
  <2> QED
    BY <1>2, <2>1, <2>2
<1>5. UniqueNames'
  BY <1>2, <1>3, <1>4 DEF Names, UniqueNames
<1>6. Numbering'
  BY <1>1, <1>2, <1>3 DEF Names, Numbering
<1>7. OldSeconds'
  BY <1>1, <1>2, <1>3, Numbers, SecondOf DEF Names, OldSeconds
<1>8. NewSeconds'
  BY <1>1, <1>2, <1>3 DEF Names, NewSeconds
<1> QED
  BY <1>5, <1>6, <1>7, <1>8 DEF Names

(* Time only adds to the seconds between the names.                         *)
LEMMA TickNames ==
  ASSUME TypeOK, Names, Tick
  PROVE  Names'
<1>1. /\ now' = now + 1
      /\ UNCHANGED <<pc, seq, captured, name, started>>
  BY DEF Tick, history
<1>2. /\ now \in Nat /\ due \in Nat /\ now + 1 \in Nat /\ due + Interval \in Nat
      /\ now <= now + 1 /\ due <= due + Interval
  BY Numbers
<1>3. /\ now \div Second <= now' \div Second
      /\ now \div Second \in Nat /\ now' \div Second \in Nat
      /\ due \div Second <= (due + Interval) \div Second
      /\ due \div Second \in Nat /\ (due + Interval) \div Second \in Nat
  BY <1>1, <1>2, SecondsGrow, SecondOf
<1>4. UniqueNames' /\ Numbering'
  BY <1>1 DEF Names, UniqueNames, Numbering
<1>5. OldSeconds'
  BY <1>1, <1>3, Numbers DEF Names, OldSeconds
<1>6. NewSeconds'
  <2> SUFFICES ASSUME pc \in Pushing, NEW b \in 1 .. started
               PROVE  /\ name[b].sec < due' \div Second
                      /\ ticked' => name[b].sec < now' \div Second
    BY <1>1 DEF NewSeconds
  <2>1. name[b].sec \in Nat /\ name[b].sec < due \div Second
    BY Numbers DEF Names, NewSeconds
  <2>2. CASE now + 1 = due
    <3>1. due' = due + Interval
      BY <2>2 DEF Tick
    <3> QED
      BY <1>1, <1>3, <2>1, <2>2, <3>1
  <2>3. CASE now + 1 # due
    <3>1. due' = due /\ ticked' = ticked
      BY <2>3 DEF Tick
    <3>2. ticked => name[b].sec < now \div Second
      BY DEF Names, NewSeconds
    <3> QED
      BY <1>3, <2>1, <3>1, <3>2
  <2> QED
    BY <2>2, <2>3
<1> QED
  BY <1>4, <1>5, <1>6 DEF Names

(* No step breaks the order of the names.                                   *)
LEMMA NextNames == TypeOK /\ Names /\ [Next]_vars => Names'
<1> SUFFICES ASSUME TypeOK, Names, [Next]_vars PROVE Names'
  OBVIOUS
<1>1. CASE Start
  <2>1. /\ seq' = 0 /\ started' = captured /\ pc' = "list"
        /\ UNCHANGED <<now, captured, name>>
    BY <1>1 DEF Start
  <2> QED
    BY <2>1, Numbers DEF Names, UniqueNames, Numbering, OldSeconds, NewSeconds
<1>2. CASE Pending \/ ReplayPush \/ Delete
  BY <1>2, NamesFrame DEF Pending, ReplayPush, Delete
<1>3. CASE PendingFails \/ ReplayFails \/ ReplayEnds
  BY <1>3, EnterLoopNames DEF PendingFails, ReplayFails, ReplayEnds, history
<1>4. CASE Collect
  BY <1>4, CollectNames
<1>5. CASE PushOk \/ PushFails \/ WriteOpens \/ WriteEnds \/ WriteFails
  BY <1>5, NamesFrame DEF PushOk, PushFails, WriteOpens, WriteEnds, WriteFails,
     BackToSelect, loopFrame
<1>6. CASE Stop \/ Kill
  BY <1>6, NamesFrame DEF Stop, Kill, history
<1>7. CASE Tick
  BY <1>7, TickNames
<1>8. CASE UNCHANGED vars
  BY <1>8, NamesFrame DEF vars, procVars, history
<1> QED
  BY <1>1, <1>2, <1>3, <1>4, <1>5, <1>6, <1>7, <1>8 DEF Next, Replay, Loop

------------------------------------------------------------------------------
(* Files.                                                                   *)

(* A file has the name of the batch it holds, in whole or in part.          *)
LEMMA NextFilesNamed == TypeOK /\ FilesNamed /\ [Next]_vars => FilesNamed'
<1> SUFFICES ASSUME TypeOK, FilesNamed, [Next]_vars PROVE FilesNamed'
  OBVIOUS
<1> USE DEF FilesNamed
<1>1. /\ captured \in Nat
      /\ pc \in InHand => cur \in 1 .. captured
      /\ DOMAIN name = 1 .. captured
  BY TypeParts DEF ProcType, BatchType
<1>2. /\ 1 .. captured \subseteq 1 .. captured'
      /\ \A b \in 1 .. captured : name'[b] = name[b]
  <2>1. CASE Collect
    BY <1>1, <2>1 DEF Collect, Put
  <2>2. CASE ~Collect
    <3>1. captured' = captured /\ name' = name
      BY <2>2, NameKept
    <3> QED
      BY <3>1
  <2> QED
    BY <2>1, <2>2
<1>3. CASE files' = files
  BY <1>2, <1>3
<1>4. CASE Pending \/ Delete
  <2>1. DOMAIN files' \subseteq DOMAIN files /\ \A n \in DOMAIN files' : files'[n] = files[n]
    BY <1>4 DEF Pending, Delete, Without
  <2> QED
    BY <1>2, <2>1
<1>5. CASE WriteOpens \/ WriteEnds
  <2>1. /\ cur \in 1 .. captured
        /\ captured' = captured /\ name' = name
        /\ \E w : files' = Put(files, name[cur], [of |-> cur, mtime |-> now, whole |-> w])
    BY <1>1, <1>5 DEF WriteOpens, WriteEnds
  <2> QED
    BY <2>1 DEF Put
<1> QED
  BY <1>3, <1>4, <1>5, FilesKept

(* What is known of the batch in hand stays true.                           *)
LEMMA NextBusy == TypeOK /\ Busy /\ [Next]_vars => Busy'
<1> SUFFICES ASSUME TypeOK, Busy, [Next]_vars PROVE Busy'
  OBVIOUS
<1> USE DEF Busy
<1>1. CASE ReplayPush
  BY <1>1 DEF ReplayPush
<1>2. CASE Collect
  BY <1>2, Numbers DEF Collect, loopFrame
<1>3. CASE PushFails
  BY <1>3 DEF PushFails, loopFrame
<1>4. CASE WriteOpens
  <2>1. name[cur] \in DOMAIN files' /\ files'[name[cur]].of = cur
    BY <1>4 DEF WriteOpens, Put
  <2> QED
    BY <1>4, <2>1 DEF WriteOpens, loopFrame
<1>5. CASE \/ Start \/ Pending \/ PendingFails \/ Delete \/ ReplayFails \/ ReplayEnds
           \/ PushOk \/ WriteEnds \/ WriteFails \/ Stop \/ Kill
  <2>1. pc' \in {"list", "replay", "select", "down"}
    BY <1>5 DEF Start, Pending, PendingFails, Delete, ReplayFails, ReplayEnds, EnterLoop,
       PushOk, WriteEnds, WriteFails, BackToSelect, Stop, Kill
  <2> QED
    BY <2>1
<1>6. CASE Tick \/ UNCHANGED vars
  BY <1>6 DEF Tick, vars, procVars, history
<1> QED
  BY <1>1, <1>2, <1>3, <1>4, <1>5, <1>6 DEF Next, Replay, Loop

(* What the buffer loses and gains, by batch.                               *)
LEMMA DeleteBuffered ==
  ASSUME TypeOK, Names, FilesNamed, Busy, Delete
  PROVE  /\ \A b \in 1 .. captured : Buffered(b) => Buffered(b)' \/ b = cur
         /\ \A n \in Whole' : n \in Whole /\ files'[n] = files[n]
<1>1. files' = files \/ files' = Without(files, {name[cur]})
  BY DEF Delete
<1>2. \A n \in DOMAIN files : n = name[cur] => files[n].of = cur
  <2>1. cur \in 1 .. captured
    BY TypeParts DEF Delete, ProcType
  <2> QED
    BY <2>1 DEF FilesNamed, Names, UniqueNames
<1> QED
  BY <1>1, <1>2 DEF Without, Buffered, Whole

(* Writing the batch in hand disturbs no other batch's file.                *)
LEMMA WriteBuffered ==
  ASSUME TypeOK, Names, FilesNamed, Busy, NEW w \in BOOLEAN, pc \in InHand,
         files' = Put(files, name[cur], [of |-> cur, mtime |-> now, whole |-> w])
  PROVE  /\ \A b \in 1 .. captured : Buffered(b) => Buffered(b)' \/ b = cur
         /\ w => \A b \in 1 .. captured : b = cur => Buffered(b)'
         /\ \A n \in Whole' : files'[n].of = cur \/ (n \in Whole /\ files'[n] = files[n])
<1>1. cur \in 1 .. captured
  BY TypeParts DEF ProcType
<1>2. \A n \in DOMAIN files : n = name[cur] => files[n].of = cur
  BY <1>1 DEF FilesNamed, Names, UniqueNames
<1>3. /\ DOMAIN files' = DOMAIN files \cup {name[cur]}
      /\ files'[name[cur]] = [of |-> cur, mtime |-> now, whole |-> w]
      /\ \A n \in DOMAIN files : n # name[cur] => files'[n] = files[n]
  BY DEF Put
<1>4. \A b \in 1 .. captured : Buffered(b) => Buffered(b)' \/ b = cur
  <2> SUFFICES ASSUME NEW b \in 1 .. captured, NEW n \in Whole, files[n].of = b, b # cur
               PROVE  Buffered(b)'
    BY DEF Buffered
  <2>1. n \in DOMAIN files /\ n # name[cur]
    BY <1>2 DEF Whole
  <2>2. n \in DOMAIN files' /\ files'[n] = files[n]
    BY <1>3, <2>1
  <2> QED
    BY <2>2 DEF Buffered, Whole
<1>5. w => \A b \in 1 .. captured : b = cur => Buffered(b)'
  <2> SUFFICES ASSUME w, NEW b \in 1 .. captured, b = cur PROVE Buffered(b)'
    OBVIOUS
  <2>1. name[cur] \in DOMAIN files' /\ files'[name[cur]].whole /\ files'[name[cur]].of = b
    BY <1>3
  <2> QED
    BY <2>1 DEF Buffered, Whole
<1>6. \A n \in Whole' : files'[n].of = cur \/ (n \in Whole /\ files'[n] = files[n])
  BY <1>3 DEF Whole
<1> QED
  BY <1>4, <1>5, <1>6

(* No step loses track of a captured batch.                                 *)
LEMMA NextAccounted ==
  TypeOK /\ Names /\ FilesNamed /\ Busy /\ Accounted /\ [Next]_vars => Accounted'
<1> SUFFICES ASSUME TypeOK, Names, FilesNamed, Busy, Accounted, [Next]_vars
             PROVE  Accounted'
  OBVIOUS
<1> USE DEF Accounted
<1>1. /\ captured \in Nat /\ cur \in 0 .. captured
      /\ pc \in InHand \cup {"delete"} <=> cur # 0
  BY TypeParts DEF ProcType
<1>2. CASE Pending
  <2> PICK removed \in SUBSET Expired :
         /\ files' = Without(files, removed)
         /\ expired' = expired \cup {files[n].of : n \in removed \cap Whole}
    BY <1>2 DEF Pending
  <2>1. \A b : Buffered(b) => b \in expired' \/ Buffered(b)'
    BY DEF Buffered, Whole, Without
  <2> QED
    BY <1>2, <2>1 DEF Pending
<1>3. CASE ReplayPush
  BY <1>1, <1>3 DEF ReplayPush, Buffered, Whole
<1>4. CASE Delete
  BY <1>4, DeleteBuffered DEF Delete, Busy
<1>5. CASE Collect
  <2>1. \A b \in 1 .. captured' : b \in 1 .. captured \/ b = cur'
    BY <1>1, <1>5 DEF Collect
  <2> QED
    BY <1>1, <1>5, <2>1 DEF Collect, loopFrame, Buffered, Whole
<1>6. CASE PushOk
  BY <1>6 DEF PushOk, Buffered, Whole
<1>7. CASE WriteOpens
  <2>1. \A b \in 1 .. captured : Buffered(b) => Buffered(b)' \/ b = cur
    BY <1>7, WriteBuffered DEF WriteOpens
  <2> QED
    BY <1>7, <2>1 DEF WriteOpens, loopFrame
<1>8. CASE WriteEnds
  <2>1. /\ \A b \in 1 .. captured : Buffered(b) => Buffered(b)' \/ b = cur
        /\ \A b \in 1 .. captured : b = cur => Buffered(b)'
    BY <1>8, WriteBuffered DEF WriteEnds
  <2> QED
    BY <1>8, <2>1 DEF WriteEnds, loopFrame
<1>9. CASE WriteFails
  BY <1>9 DEF WriteFails, loopFrame, Buffered, Whole
<1>10. CASE Kill
  BY <1>1, <1>10 DEF Kill, Busy, Buffered, Whole
<1>11. CASE \/ Start \/ PendingFails \/ ReplayFails \/ ReplayEnds \/ PushFails
            \/ Stop \/ Tick \/ UNCHANGED vars
  <2>1. UNCHANGED <<captured, cur, files, acked, expired, dropped>>
    BY <1>11 DEF Start, PendingFails, ReplayFails, ReplayEnds, PushFails, loopFrame,
       Stop, Tick, vars, procVars, history
  <2> QED
    BY <2>1 DEF Buffered, Whole
<1> QED
  BY <1>2, <1>3, <1>4, <1>5, <1>6, <1>7, <1>8, <1>9, <1>10, <1>11 DEF Next, Replay, Loop

------------------------------------------------------------------------------
(* The replay.                                                              *)

(* A clean replay keeps all that is left in its plan.                       *)
LEMMA NextPlanCovers ==
  TypeOK /\ Names /\ FilesNamed /\ Busy /\ PlanCovers /\ [Next]_vars => PlanCovers'
<1> SUFFICES ASSUME TypeOK, Names, FilesNamed, Busy, PlanCovers, [Next]_vars,
                    pc' \in {"replay", "delete"}, clean', NEW n \in Whole'
             PROVE  files'[n].of \in plan'
  BY DEF PlanCovers
<1>1. CASE Pending
  <2> PICK removed \in SUBSET Expired, read \in SUBSET (Whole \ Expired) :
         /\ files' = Without(files, removed)
         /\ plan' = {files[m].of : m \in read}
         /\ clean' <=> (removed = Expired /\ read = Whole \ Expired)
    BY <1>1 DEF Pending
  <2>1. removed = Expired /\ read = Whole \ Expired
    OBVIOUS
  <2>2. n \in Whole \ Expired /\ files'[n] = files[n]
    BY <2>1 DEF Whole, Without
  <2> QED
    BY <2>1, <2>2
<1>2. CASE ReplayPush
  BY <1>2 DEF ReplayPush, PlanCovers, Whole
<1>3. CASE Delete
  <2>1. files' = Without(files, {name[cur]}) /\ clean
    BY <1>3 DEF Delete
  <2>2. n \in Whole /\ files'[n] = files[n] /\ n # name[cur]
    BY <2>1 DEF Whole, Without
  <2>3. files[n].of \in plan /\ files[n].of # cur
    BY <1>3, <2>1, <2>2 DEF Delete, PlanCovers, FilesNamed, Whole
  <2> QED
    BY <1>3, <2>2, <2>3 DEF Delete
<1>4. CASE \/ Start \/ PendingFails \/ ReplayFails \/ ReplayEnds \/ Loop \/ Stop \/ Kill
  <2>1. pc' \notin {"replay", "delete"}
    BY <1>4 DEF Start, PendingFails, ReplayFails, ReplayEnds, EnterLoop, Loop, Collect,
       PushOk, PushFails, WriteOpens, WriteEnds, WriteFails, BackToSelect, Stop, Kill
  <2> QED
    BY <2>1
<1>5. CASE Tick \/ UNCHANGED vars
  BY <1>5 DEF Tick, vars, procVars, history, PlanCovers, Whole
<1> QED
  BY <1>1, <1>2, <1>3, <1>4, <1>5 DEF Next, Replay

(* After a clean replay, what the buffer holds is of this run.              *)
LEMMA NextReplayDrains ==
  /\ TypeOK /\ Names /\ FilesNamed /\ Busy /\ PlanCovers /\ ReplayDrains
  /\ [Next]_vars
  => ReplayDrains'
<1> SUFFICES ASSUME TypeOK, Names, FilesNamed, Busy, PlanCovers, ReplayDrains, [Next]_vars,
                    pc' \in Pushing, clean', NEW n \in Whole'
             PROVE  files'[n].of > started'
  BY DEF ReplayDrains
<1>1. CASE ReplayEnds
  <2>1. n \in Whole /\ pc = "replay" /\ clean /\ plan = {}
    BY <1>1 DEF ReplayEnds, history, Whole
  <2> QED
    BY <2>1 DEF PlanCovers
<1>2. CASE PendingFails \/ ReplayFails
  BY <1>2 DEF PendingFails, ReplayFails
<1>3. CASE Collect \/ PushOk \/ PushFails \/ WriteFails
  <2>1. UNCHANGED <<files, started, clean>> /\ pc \in Pushing
    BY <1>3 DEF Collect, PushOk, PushFails, WriteFails, loopFrame
  <2> QED
    BY <2>1 DEF ReplayDrains, Whole
<1>4. CASE WriteOpens \/ WriteEnds
  <2>1. files'[n].of = cur \/ (n \in Whole /\ files'[n] = files[n])
    BY <1>4, WriteBuffered DEF WriteOpens, WriteEnds
  <2>2. UNCHANGED <<started, clean>> /\ pc \in InHand
    BY <1>4 DEF WriteOpens, WriteEnds, loopFrame
  <2> QED
    BY <2>1, <2>2 DEF ReplayDrains, Busy
<1>5. CASE Start \/ Pending \/ ReplayPush \/ Delete \/ Stop \/ Kill
  <2>1. pc' \notin Pushing
    BY <1>5 DEF Start, Pending, ReplayPush, Delete, Stop, Kill
  <2> QED
    BY <2>1
<1>6. CASE Tick \/ UNCHANGED vars
  BY <1>6 DEF Tick, vars, procVars, history, ReplayDrains, Whole
<1> QED
  BY <1>1, <1>2, <1>3, <1>4, <1>5, <1>6 DEF Next, Replay, Loop

------------------------------------------------------------------------------

(* Nothing is captured at first, so that nothing can be lost.               *)
LEMMA InitIInv == Init => IInv
<1> SUFFICES ASSUME Init PROVE IInv
  OBVIOUS
<1>1. 1 .. captured = {}
  BY DEF Init
<1>2. TypeOK
  BY InitTypeOK
<1>3. Names
  BY <1>1 DEF Init, Names, UniqueNames, Numbering, OldSeconds, NewSeconds
<1>4. FilesNamed /\ Busy /\ PlanCovers /\ ReplayDrains
  BY DEF Init, FilesNamed, Busy, PlanCovers, ReplayDrains
<1>5. Accounted
  BY <1>1 DEF Accounted
<1> QED
  BY <1>2, <1>3, <1>4, <1>5 DEF IInv

(* The invariant the theorems below are read off.                           *)
THEOREM AgentInvariant == Spec => []IInv
<1>1. TypeOK /\ TypeOK' /\ IInv /\ [Next]_vars => IInv'
  BY NextNames, NextFilesNamed, NextBusy, NextAccounted, NextPlanCovers,
     NextReplayDrains DEF IInv
<1> QED
  BY <1>1, InitIInv, AgentTypeOK, PTL DEF Spec

(* No batch is forgotten, through any number of restarts.                   *)
THEOREM AgentAccounts == Spec => []Accounted
<1>1. IInv => Accounted
  BY DEF IInv
<1> QED
  BY <1>1, AgentInvariant, PTL

(* A replay in which nothing goes wrong empties the buffer of earlier runs. *)
THEOREM AgentDrains == Spec => []ReplayDrains
<1>1. IInv => ReplayDrains
  BY DEF IInv
<1> QED
  BY <1>1, AgentInvariant, PTL

------------------------------------------------------------------------------
(* The order of the replay.                                                 *)

(* A newer batch does not carry an earlier second.                          *)
InSeconds == \A b, c \in 1 .. captured : b <= c => name[b].sec <= name[c].sec

(* The clock is not set back between two captures.                         *)
LEMMA NextInSeconds == TypeOK /\ Names /\ InSeconds /\ [Next]_vars => InSeconds'
<1> SUFFICES ASSUME TypeOK, Names, InSeconds, [Next]_vars PROVE InSeconds'
  OBVIOUS
<1>1. CASE Collect
  <2>1. /\ captured' = captured + 1
        /\ name' = Put(name, captured + 1, NameOf(seq + 1))
        /\ DOMAIN name = 1 .. captured /\ captured \in Nat
    BY <1>1, Numbers, TypeParts DEF Collect, BatchType
  <2>2. /\ \A b \in 1 .. captured : name'[b] = name[b]
        /\ name'[captured + 1].sec = now \div Second
    BY <2>1 DEF Put, NameOf
  <2>3. \A b \in 1 .. captured : name[b].sec \in Nat /\ name[b].sec <= now \div Second
    BY Numbers DEF Names, OldSeconds
  <2>4. now \div Second \in Nat
    BY Numbers, SecondOf
  <2>5. SUFFICES ASSUME NEW b \in 1 .. captured + 1, NEW c \in 1 .. captured + 1, b <= c
                 PROVE  name'[b].sec <= name'[c].sec
    BY <2>1 DEF InSeconds
  <2>6. CASE c \in 1 .. captured
    <3>1. b \in 1 .. captured
      BY <2>1, <2>5, <2>6
    <3> QED
      BY <2>2, <2>5, <2>6, <3>1 DEF InSeconds
  <2>7. CASE c = captured + 1 /\ b \in 1 .. captured
    BY <2>2, <2>3, <2>4, <2>7
  <2>8. CASE c = captured + 1 /\ b = captured + 1
    BY <2>2, <2>4, <2>8
  <2> QED
    BY <2>1, <2>6, <2>7, <2>8
<1>2. CASE ~Collect
  BY <1>2, NameKept DEF InSeconds
<1> QED
  BY <1>1, <1>2

(* The replay takes the file whose name comes first.                        *)
LEMMA NextReplayOrder ==
  ASSUME TypeOK, InSeconds, ReplayOrder, [Next]_vars
  PROVE  ReplayOrder'
<1>1. CASE ReplayPush
  <2>1. UNCHANGED <<plan, name>> /\ First(cur')
    BY <1>1 DEF ReplayPush
  <2>2. plan \subseteq 1 .. captured
    BY TypeParts DEF BatchType
  <2> SUFFICES ASSUME NEW b \in plan, b < cur' PROVE name[b].sec = name[cur'].sec
    BY <2>1 DEF ReplayOrder
  <2>3. b \in 1 .. captured /\ cur' \in 1 .. captured
    BY <2>1, <2>2 DEF First
  <2>4. /\ name[b].sec \in Nat /\ name[cur'].sec \in Nat
        /\ captured \in Nat
    BY <2>3, Numbers
  <2>5. name[b].sec <= name[cur'].sec
    BY <2>3, <2>4 DEF InSeconds
  <2>6. name[cur'].sec <= name[b].sec
    BY <2>1, <2>3, <2>4 DEF First, NameBefore
  <2> QED
    BY <2>4, <2>5, <2>6
<1>2. CASE \/ Start \/ Pending \/ PendingFails \/ Delete \/ ReplayFails \/ ReplayEnds
           \/ Loop \/ Stop \/ Kill
  <2>1. pc' # "delete"
    BY <1>2 DEF Start, Pending, PendingFails, Delete, ReplayFails, ReplayEnds, EnterLoop, Loop,
       Collect, PushOk, PushFails, WriteOpens, WriteEnds, WriteFails, BackToSelect, Stop, Kill
  <2> QED
    BY <2>1 DEF ReplayOrder
<1>3. CASE Tick \/ UNCHANGED vars
  BY <1>3 DEF Tick, vars, procVars, history, ReplayOrder
<1> QED
  BY <1>1, <1>2, <1>3 DEF Next, Replay

(* sort.Strings on the file names replays the batches of different seconds  *)
(* in the order of their capture, through any number of restarts: the time  *)
(* stamp comes first in the name, and no batch carries a later second than  *)
(* a newer one.                                                             *)
THEOREM AgentReplaysInOrder == Spec => []ReplayOrder
<1>1. Init => InSeconds /\ ReplayOrder
  BY DEF Init, InSeconds, ReplayOrder
<1>2. IInv /\ InSeconds /\ ReplayOrder /\ [Next]_vars => (InSeconds /\ ReplayOrder)'
  BY NextInSeconds, NextReplayOrder DEF IInv
<1> QED
  BY <1>1, <1>2, AgentInvariant, PTL DEF Spec
===============================================================================
