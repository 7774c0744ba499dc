------------------------------ MODULE OSCollector ------------------------------
(***************************************************************************)
(* The CPU usage of the machine (agent/collector/os_linux.go): the         *)
(* difference of two samples of the counters in /proc/stat, the last of    *)
(* which the collector keeps.  The counters are uint64 values in the code, *)
(* and proc(5) says that iowait may go down.                               *)
(*                                                                         *)
(* user, nice, system, irq, softirq and steal are added up here to busy.   *)
(***************************************************************************)
EXTENDS Integers

CONSTANTS
  Modulus,    \* 2^64
  MaxJiffies  \* bound of the model: how far a counter runs

ASSUME ModulusAssumption == Modulus \in Nat /\ MaxJiffies \in Nat \ {0} /\ 3 * MaxJiffies < Modulus

VARIABLES
  stat,     \* the cpu line of /proc/stat
  prevCPU,  \* the last sample, all zero when none could be read yet
  usage,    \* the last CPUUsagePct, as the busy part of a whole
  passed,   \* history: what the counters did since prevCPU was read, or boot
  covered   \* history: passed when usage was computed

osVars == <<stat, prevCPU, usage, passed, covered>>

cpuSample == [busy : 0 .. MaxJiffies, idle : 0 .. MaxJiffies, iowait : 0 .. MaxJiffies]
Zero == [busy |-> 0, idle |-> 0, iowait |-> 0]
NoUsage == [part |-> 0, whole |-> 0]
Nothing == [busy |-> 0, idle |-> 0]

total(s) == (s.busy + s.idle + s.iowait) % Modulus
idleTotal(s) == (s.idle + s.iowait) % Modulus

InitOS ==
  /\ stat = [busy |-> 0, idle |-> 1, iowait |-> 1]
  /\ prevCPU \in {stat, Zero}
  /\ usage = NoUsage
  /\ passed = [busy |-> 0, idle |-> idleTotal(stat) - idleTotal(prevCPU)]
  /\ covered = Nothing

\* Faulty variant: a sample that could not be read is kept, all zero.
KeepsZero ==
  /\ usage' = NoUsage
  /\ prevCPU' = Zero
  /\ covered' = Nothing /\ passed' = Nothing
  /\ UNCHANGED stat

(* Both differences are taken in uint64 and go on as floats: one that is    *)
(* negative becomes huge, and the percentage with it.                       *)
cpuUsagePct(prev, curr) ==
  LET totalDiff == (total(curr) - total(prev)) % Modulus
      idleDiff == (idleTotal(curr) - idleTotal(prev)) % Modulus
  IN IF totalDiff = 0 THEN NoUsage
     ELSE [part |-> totalDiff - idleDiff, whole |-> totalDiff]

(* Collect reads the cpu line.                                              *)
Sample ==
  /\ usage' = cpuUsagePct(prevCPU, stat)
  /\ prevCPU' = stat
  /\ covered' = passed
  /\ passed' = Nothing
  /\ UNCHANGED stat

(* It cannot be read, or Collect fails before, with the memory or the load: *)
(* the sample before is kept.                                               *)
SampleFails ==
  /\ usage' = NoUsage
  /\ covered' = Nothing
  /\ UNCHANGED <<stat, prevCPU, passed>>

(* The kernel counts a jiffy, or takes one of iowait back.                  *)
Jiffy ==
  /\ \/ \E c \in {"busy", "idle", "iowait"} :
          /\ stat[c] < MaxJiffies
          /\ stat' = [stat EXCEPT ![c] = @ + 1]
     \/ stat.iowait > 0 /\ stat' = [stat EXCEPT !.iowait = @ - 1]
  /\ passed' = [busy |-> passed.busy + (stat'.busy - stat.busy),
                idle |-> passed.idle + (stat'.idle - stat.idle)
                                     + (stat'.iowait - stat.iowait)]
  /\ UNCHANGED <<prevCPU, usage, covered>>

NextOS == Sample \/ SampleFails \/ Jiffy

SpecOS == InitOS /\ [][NextOS]_osVars
------------------------------------------------------------------------------

TypeOKOS ==
  /\ stat \in cpuSample /\ prevCPU \in cpuSample
  /\ usage \in [part : Int, whole : 0 .. Modulus - 1]
  /\ \A p \in {passed, covered} : p.busy \in 0 .. MaxJiffies
                                  /\ p.idle \in -MaxJiffies .. 2 * MaxJiffies

(* The figure is the busy part of all that passed since the last sample     *)
(* that could be read - since boot when there was none - whatever readings  *)
(* failed in between, unless the idle time as a whole went back meanwhile.  *)
(* The difference then wraps: the code sends a percentage far below zero if *)
(* the counters went forward together, and one next to zero if they did not.*)
UsageExact ==
  IF covered.idle >= 0
  THEN usage = [part |-> covered.busy, whole |-> covered.busy + covered.idle]
  ELSE usage.part < 0 <=> covered.busy + covered.idle > 0
===============================================================================
