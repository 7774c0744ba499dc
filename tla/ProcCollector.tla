----------------------------- MODULE ProcCollector -----------------------------
(***************************************************************************)
(* The CPU usage of the process of one name (agent/collector/              *)
(* proc_linux.go).  Collect finds a pid by name, reads the ticks and the   *)
(* start time of whatever process has that pid then, then reads the clock, *)
(* and compares with what it kept of the collection before.  Processes     *)
(* come and go, and pids are used again, between any two of these steps.   *)
(*                                                                         *)
(* A process has one thread here and never changes its name; the clock is  *)
(* in jiffies and, being Go's monotonic one, is not set back.              *)
(***************************************************************************)
EXTENDS Integers, Sequences

CONSTANTS
  Pid, NoPid,  \* pids, and none
  MaxTime,     \* bound of the model: the clock stops here
  MaxStarts    \* bound of the model: how many processes are ever started

ASSUME PidAssumption == NoPid \notin Pid
ASSUME ProcBounds == MaxTime \in Nat \ {0} /\ MaxStarts \in Nat

VARIABLES
  clock,    \* the clock
  running,  \* running[p]: the start time of the process with pid p, or 0
  named,    \* the processes with the name looked for
  ticks,    \* ticks[s]: utime + stime of process s
  pc,       \* what Collect does next
  pid, at,  \* the pid it found, and the sample it took
  prev,     \* prevPID, and the sample before
  cpu       \* the CPUPct of the last collection, as ticks of elapsed jiffies

procVars == <<clock, running, named, ticks, pc, pid, at, prev, cpu>>

\* Start times are told apart: a pid is not used again within a jiffy.  They
\* are numbered here, and processes named after them; 0 is no start time.

(* A sample: the start time and the ticks read, 0 for an error, and when    *)
(* they were read; and the sample kept, with prevTime, -1 for the zero      *)
(* time, and how long it had been read then.  read and late are history.    *)
Sampled == [pid : Pid \cup {NoPid}, start : 0 .. MaxStarts, ticks : 0 .. MaxTime,
            read : 0 .. MaxTime]
Kept == [pid : Pid \cup {NoPid}, start : 0 .. MaxStarts, ticks : 0 .. MaxTime,
         time : -1 .. MaxTime, late : 0 .. MaxTime]
NoSample == [pid |-> NoPid, start |-> 0, ticks |-> 0, read |-> 0]
NothingKept == [pid |-> NoPid, start |-> 0, ticks |-> 0, time |-> -1, late |-> 0]
NoFigure == [of |-> {}, ticks |-> 0, elapsed |-> 1, late |-> 0]

InitProc ==
  /\ clock = 0
  /\ running = [p \in Pid |-> 0]
  /\ named = {}
  /\ ticks = <<>>
  /\ pc = "idle"
  /\ pid = NoPid
  /\ at = NoSample
  /\ prev = NothingKept
  /\ cpu = NoFigure

------------------------------------------------------------------------------
(* Faulty variants, one plausible bug each.                                 *)

\* The start time is not compared.
samePid == at.pid = prev.pid /\ at.start # 0

\* A collection that finds nothing sets prevTime.
FindStampsTime ==
  /\ pc = "idle"
  /\ \/ \E p \in Pid : running[p] \in named /\ pid' = p /\ pc' = "stat" /\ UNCHANGED <<prev, cpu>>
     \/ prev' = [prev EXCEPT !.time = clock] /\ cpu' = NoFigure /\ UNCHANGED <<pc, pid>>
  /\ UNCHANGED <<clock, running, named, ticks, at>>

\* Two collections at one time are not ruled out: a division by zero.
KeepAtOnce ==
  /\ pc = "clock"
  /\ pc' = "idle"
  /\ prev' = [pid |-> at.pid, start |-> at.start, ticks |-> at.ticks, time |-> clock,
              late |-> clock - at.read]
  /\ cpu' = IF prev.time # -1 /\ at.pid = prev.pid /\ at.start = prev.start /\ at.start # 0
            THEN [of |-> {prev.start, at.start}, ticks |-> at.ticks - prev.ticks,
                  elapsed |-> clock - prev.time, late |-> prev.late]
            ELSE NoFigure
  /\ at' = NoSample
  /\ UNCHANGED <<clock, running, named, ticks, pid>>
------------------------------------------------------------------------------

(* The same process instance: same PID and starttime.                       *)
sameProcess == at.pid = prev.pid /\ at.start = prev.start /\ at.start # 0

(* findPIDByName: a process whose cmdline has the name when it is read; one *)
(* that came after the listing, or has gone or cannot be read, is passed    *)
(* over.  When there is none, Collect is done and keeps what it knows.      *)
Find ==
  /\ pc = "idle"
  /\ \/ /\ \E p \in Pid : running[p] \in named /\ pid' = p
        /\ pc' = "stat"
        /\ UNCHANGED cpu
     \/ cpu' = NoFigure /\ UNCHANGED <<pc, pid>>
  /\ UNCHANGED <<clock, running, named, ticks, at, prev>>

(* readProcTicks: the process that has the pid now, or an error and zeros.  *)
ReadTicks ==
  /\ pc = "stat"
  /\ pc' = "clock"
  /\ \/ /\ running[pid] # 0
        /\ at' = [pid |-> pid, start |-> running[pid], ticks |-> ticks[running[pid]],
                  read |-> clock]
     \/ at' = [NoSample EXCEPT !.pid = pid, !.read = clock]
  /\ pid' = NoPid
  /\ UNCHANGED <<clock, running, named, ticks, prev, cpu>>

(* After readProcStatus, time.Now: the sample is kept, and gives a figure   *)
(* if it and the one before are of one process.                             *)
Keep ==
  /\ pc = "clock"
  /\ pc' = "idle"
  /\ prev' = [pid |-> at.pid, start |-> at.start, ticks |-> at.ticks, time |-> clock,
              late |-> clock - at.read]
  /\ cpu' = IF /\ prev.time # -1 /\ sameProcess
               /\ clock > prev.time /\ at.ticks >= prev.ticks
            THEN [of |-> {prev.start, at.start}, ticks |-> at.ticks - prev.ticks,
                  elapsed |-> clock - prev.time, late |-> prev.late]
            ELSE NoFigure
  /\ at' = NoSample
  /\ UNCHANGED <<clock, running, named, ticks, pid>>
------------------------------------------------------------------------------
(* The machine.                                                             *)

\* A jiffy goes by, in which each process was on a CPU or not.
Tick ==
  /\ clock < MaxTime
  /\ clock' = clock + 1
  /\ \E busy \in SUBSET {running[p] : p \in Pid} :
       ticks' = [s \in DOMAIN ticks |-> IF s \in busy THEN ticks[s] + 1 ELSE ticks[s]]
  /\ UNCHANGED <<running, named, pc, pid, at, prev, cpu>>

Fork(p) ==
  /\ running[p] = 0
  /\ Len(ticks) < MaxStarts
  /\ ticks' = Append(ticks, 0)
  /\ running' = [running EXCEPT ![p] = Len(ticks) + 1]
  /\ named' \in {named, named \cup {Len(ticks) + 1}}
  /\ UNCHANGED <<clock, pc, pid, at, prev, cpu>>

Exit(p) ==
  /\ running[p] # 0
  /\ running' = [running EXCEPT ![p] = 0]
  /\ UNCHANGED <<clock, named, ticks, pc, pid, at, prev, cpu>>

CollectProc == Find \/ ReadTicks \/ Keep
NextProc == CollectProc \/ Tick \/ \E p \in Pid : Fork(p) \/ Exit(p)

SpecProc == InitProc /\ [][NextProc]_procVars
------------------------------------------------------------------------------

TypeOKProc ==
  /\ clock \in 0 .. MaxTime
  /\ running \in [Pid -> 0 .. Len(ticks)]
  /\ named \subseteq 1 .. Len(ticks)
  /\ Len(ticks) <= MaxStarts /\ \A s \in DOMAIN ticks : ticks[s] \in 0 .. MaxTime
  /\ pc \in {"idle", "stat", "clock"}
  /\ pid \in Pid \cup {NoPid} /\ (pid # NoPid <=> pc = "stat")
  /\ at \in Sampled /\ prev \in Kept
  /\ cpu \in [of : SUBSET (0 .. MaxStarts), ticks : 0 .. MaxTime, elapsed : 1 .. MaxTime,
              late : 0 .. MaxTime]

(* A figure is about one process, and that one has the name looked for,     *)
(* although the pid it was found under may have passed to another process   *)
(* before either sample was taken.                                          *)
OneNamedProcess == \A s, t \in cpu.of : s = t /\ s \in named

(* A process with one thread is not said to have used more than all of the  *)
(* time since the sample before, the only excess being the time that sample *)
(* waited between its reading and its time stamp, whatever collections in   *)
(* between found nothing or failed.                                         *)
CpuWithinElapsed == cpu.ticks <= cpu.elapsed + cpu.late
===============================================================================
