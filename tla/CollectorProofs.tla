---------------------------- MODULE CollectorProofs ----------------------------
(***************************************************************************)
(* What an agent's figures are worth, and where its configuration is from, *)
(* for every value of the constants:                                       *)
(*   - the CPU figure of a process is about one process of the right name, *)
(*     and not more than the time it covers;                               *)
(*   - the agent's address and credentials are of one source;              *)
(*   - the CPU figure of the machine is exact.                             *)
(*                                                                         *)
(* The first rests on start times being given out once, in their order: a  *)
(* pid that has passed to another process never holds an earlier start     *)
(* time again, so that a sample that matches the one before is of a        *)
(* process that had the pid all the time between, and when it was found by *)
(* name.                                                                   *)
(***************************************************************************)
EXTENDS Collector, TLAPS

(* The machine: start times number the processes, and none has run longer  *)
(* than the clock.                                                         *)
Machine ==
  /\ clock \in 0 .. MaxTime
  /\ ticks \in Seq(Nat)
  /\ running \in [Pid -> 0 .. Len(ticks)]
  /\ named \subseteq 1 .. Len(ticks)
  /\ Len(ticks) <= MaxStarts
  /\ \A s \in 1 .. Len(ticks) : ticks[s] <= clock

(* The collector: what it holds is of processes that were started, and read *)
(* in the past.                                                            *)
Samples ==
  /\ pc \in {"idle", "stat", "clock"}
  /\ pid \in Pid \cup {NoPid} /\ (pid # NoPid <=> pc = "stat")
  /\ at \in Sampled /\ prev \in Kept
  /\ at.start <= Len(ticks) /\ prev.start <= Len(ticks)
  /\ at.read <= clock /\ prev.time <= clock
  /\ prev.start # 0 => prev.time # -1

(* Who matches the sample before has the name.                             *)
MatchIsNamed ==
  /\ pc = "stat" /\ prev.start # 0 /\ prev.pid = pid =>
       prev.start \in named \/ running[pid] # prev.start
  /\ sameProcess => at.start \in named

(* What a process has run since it was read fits into the time since.      *)
RunsInTime ==
  /\ at.start # 0 => /\ at.ticks <= ticks[at.start]
                     /\ ticks[at.start] - at.ticks <= clock - at.read
  /\ prev.start # 0 => ticks[prev.start] - prev.ticks <= clock - prev.time + prev.late

ProcInv == Machine /\ Samples /\ MatchIsNamed /\ RunsInTime /\ OneNamedProcess /\ CpuWithinElapsed

(* A figure is of some time that has passed: there is no division by zero.   *)
Figure == [of : SUBSET (0 .. MaxStarts), ticks : 0 .. MaxTime, elapsed : 1 .. MaxTime,
           late : 0 .. MaxTime]

(* The configuration is the one the sources give, or there is none yet.     *)
ConfigInv ==
  /\ sources \in Sources
  /\ cfg # NoConfig => cfg = Configure(sources.binary, sources.file, sources.env)

USE PidAssumption, ProcBounds

(* Nothing is running and nothing was read.                                *)
LEMMA InitProcInv == InitProc => ProcInv
<1> SUFFICES ASSUME InitProc PROVE ProcInv
  OBVIOUS
<1>1. ticks = <<>> /\ Len(ticks) = 0
  BY DEF InitProc
<1>2. Machine
  BY <1>1 DEF InitProc, Machine
<1>3. Samples
  BY <1>1 DEF InitProc, Samples, Sampled, Kept, NoSample, NothingKept
<1>4. MatchIsNamed /\ RunsInTime /\ OneNamedProcess /\ CpuWithinElapsed
  BY DEF InitProc, MatchIsNamed, sameProcess, RunsInTime, OneNamedProcess, CpuWithinElapsed,
     NoSample, NothingKept, NoFigure
<1> QED
  BY <1>2, <1>3, <1>4 DEF ProcInv

(* The fields of a sample.                                                 *)
LEMMA SampleFields ==
  ASSUME Samples
  PROVE  /\ at.pid \in Pid \cup {NoPid} /\ at.start \in Nat /\ at.ticks \in Nat /\ at.read \in Nat
         /\ prev.pid \in Pid \cup {NoPid} /\ prev.start \in Nat /\ prev.ticks \in Nat
         /\ prev.time \in Int /\ prev.late \in Nat
BY DEF Samples, Sampled, Kept

(* Finding a pid changes nothing that was read.                             *)
LEMMA FindInv ==
  ASSUME ProcInv, Find
  PROVE  ProcInv'
<1>1. pc = "idle" /\ UNCHANGED <<clock, running, named, ticks, at, prev>>
  BY DEF Find
<1>2. Machine'
  BY <1>1 DEF ProcInv, Machine
<1>3. Samples'
  BY <1>1 DEF ProcInv, Samples, Find
<1>4. RunsInTime'
  BY <1>1 DEF ProcInv, RunsInTime
<1>5. OneNamedProcess' /\ CpuWithinElapsed'
  BY <1>1 DEF ProcInv, OneNamedProcess, CpuWithinElapsed, Find, NoFigure
<1>6. MatchIsNamed'
  BY <1>1 DEF ProcInv, MatchIsNamed, sameProcess, Find
<1> QED
  BY <1>2, <1>3, <1>4, <1>5, <1>6 DEF ProcInv

(* The sample is of whoever has the pid now; if that is the process of the  *)
(* sample before, it had it when it was found.                              *)
LEMMA ReadTicksInv ==
  ASSUME ProcInv, ReadTicks
  PROVE  ProcInv'
<1>1. /\ pc = "stat" /\ pc' = "clock" /\ pid' = NoPid /\ pid \in Pid
      /\ UNCHANGED <<clock, running, named, ticks, prev, cpu>>
  BY DEF ReadTicks, ProcInv, Samples
<1>2. /\ clock \in 0 .. MaxTime /\ running[pid] \in 0 .. Len(ticks)
      /\ Len(ticks) \in Nat /\ Len(ticks) <= MaxStarts
      /\ \A s \in 1 .. Len(ticks) : ticks[s] \in Nat /\ ticks[s] <= clock
  BY <1>1 DEF ProcInv, Machine
<1>3. \/ at' = [pid |-> pid, start |-> 0, ticks |-> 0, read |-> clock]
      \/ /\ running[pid] # 0
         /\ at' = [pid |-> pid, start |-> running[pid], ticks |-> ticks[running[pid]],
                   read |-> clock]
  BY DEF ReadTicks, NoSample
<1>4. at' \in Sampled
  <2>1. CASE at' = [pid |-> pid, start |-> 0, ticks |-> 0, read |-> clock]
    <3>2. 0 \in 0 .. MaxTime /\ 0 \in 0 .. MaxStarts
      OBVIOUS
    <3> QED BY <1>1, <1>2, <2>1, <3>2 DEF Sampled
  <2>2. CASE /\ running[pid] # 0
             /\ at' = [pid |-> pid, start |-> running[pid], ticks |-> ticks[running[pid]],
                       read |-> clock]
    <3> DEFINE s == running[pid]
    <3>2. s \in 0 .. Len(ticks) /\ s # 0
      BY <1>2, <2>2
    <3> HIDE DEF s
    <3>3. s \in 1 .. Len(ticks) /\ s \in 0 .. MaxStarts
      BY <1>2, <3>2
    <3>4. ticks[s] \in Nat /\ ticks[s] <= clock
      BY <1>2, <3>3
    <3>1. ticks[s] \in 0 .. MaxTime
      BY <1>2, <3>4
    <3> QED BY <1>1, <1>2, <2>2, <3>1, <3>3 DEF Sampled, s
  <2> QED BY <1>3, <2>1, <2>2
<1>5. Machine'
  BY <1>1 DEF ProcInv, Machine
<1>6. Samples'
  BY <1>1, <1>2, <1>3, <1>4 DEF ProcInv, Samples
<1>7. RunsInTime'
  BY <1>1, <1>2, <1>3 DEF ProcInv, RunsInTime
<1>8. OneNamedProcess' /\ CpuWithinElapsed'
  BY <1>1 DEF ProcInv, OneNamedProcess, CpuWithinElapsed
<1>9. MatchIsNamed'
  BY <1>1, <1>3 DEF ProcInv, MatchIsNamed, sameProcess
<1> QED
  BY <1>5, <1>6, <1>7, <1>8, <1>9 DEF ProcInv

(* A figure is of one process that has the name.                            *)
LEMMA KeepInv ==
  ASSUME ProcInv, Keep
  PROVE  ProcInv'
<1>1. /\ pc = "clock" /\ pc' = "idle" /\ at' = NoSample
      /\ UNCHANGED <<clock, running, named, ticks, pid>>
      /\ prev' = [pid |-> at.pid, start |-> at.start, ticks |-> at.ticks, time |-> clock,
                  late |-> clock - at.read]
  BY DEF Keep
<1>2. /\ clock \in 0 .. MaxTime /\ at.read <= clock
      /\ \A s \in 1 .. Len(ticks) : ticks[s] \in Nat
      /\ Len(ticks) \in Nat /\ at.start <= Len(ticks) /\ prev.start <= Len(ticks)
  BY DEF ProcInv, Machine, Samples
<1>3. prev' \in Kept
  BY <1>1, <1>2 DEF ProcInv, Samples, Sampled, Kept
<1>4. Machine'
  BY <1>1 DEF ProcInv, Machine
<1>5. Samples'
  BY <1>1, <1>2, <1>3 DEF ProcInv, Samples, NoSample, Sampled
<1>6. RunsInTime'
  BY <1>1, <1>2, SampleFields DEF ProcInv, RunsInTime, NoSample
<1>7. MatchIsNamed'
  BY <1>1 DEF MatchIsNamed, sameProcess, NoSample
<1>8. OneNamedProcess' /\ CpuWithinElapsed'
  <2>1. CASE cpu' = NoFigure
    BY <2>1 DEF NoFigure, OneNamedProcess, CpuWithinElapsed
  <2>2. CASE /\ sameProcess
             /\ cpu' = [of |-> {prev.start, at.start}, ticks |-> at.ticks - prev.ticks,
                        elapsed |-> clock - prev.time, late |-> prev.late]
    <3>1. at.start # 0 /\ prev.start = at.start /\ at.start \in named
      BY <2>2 DEF ProcInv, MatchIsNamed, sameProcess
    <3>2. OneNamedProcess'
      BY <1>1, <2>2, <3>1 DEF OneNamedProcess
    <3>3. /\ at.ticks <= ticks[at.start]
          /\ ticks[at.start] - prev.ticks <= clock - prev.time + prev.late
          /\ ticks[at.start] \in Nat
      BY <1>2, <3>1, SampleFields DEF ProcInv, RunsInTime
    <3> DEFINE used == at.ticks
               before == prev.ticks
               past == clock - prev.time + prev.late
               run == ticks[at.start]
    <3>4. used \in Int /\ before \in Int /\ past \in Int /\ run \in Int
      <4>1. Samples
        BY DEF ProcInv
      <4>2. clock \in Int /\ used \in Int /\ before \in Int /\ prev.time \in Int /\ prev.late \in Int
        BY <1>2, <4>1, SampleFields
      <4> QED
        BY <3>3, <4>2
    <3>5. used <= run /\ run - before <= past
      BY <3>3
    <3> HIDE DEF used, before, past, run
    <3>6. used - before <= past
      BY <3>4, <3>5
    <3>7. at.ticks - prev.ticks <= (clock - prev.time) + prev.late
      BY <3>6 DEF used, before, past
    <3> QED
      BY <2>2, <3>2, <3>7 DEF CpuWithinElapsed
  <2> QED
    BY <2>1, <2>2 DEF Keep
<1> QED
  BY <1>4, <1>5, <1>6, <1>7, <1>8 DEF ProcInv

(* A jiffy adds a tick at most.                                             *)
LEMMA TickInv ==
  ASSUME ProcInv, Tick
  PROVE  ProcInv'
<1>1. /\ clock < MaxTime /\ clock' = clock + 1
      /\ UNCHANGED <<running, named, pc, pid, at, prev, cpu>>
  BY DEF Tick
<1>2. PICK busy \in SUBSET {running[p] : p \in Pid} :
        ticks' = [s \in DOMAIN ticks |-> IF s \in busy THEN ticks[s] + 1 ELSE ticks[s]]
  BY DEF Tick
<1>3. /\ clock \in 0 .. MaxTime /\ ticks \in Seq(Nat)
      /\ Len(ticks) \in Nat /\ DOMAIN ticks = 1 .. Len(ticks)
      /\ \A s \in 1 .. Len(ticks) : ticks[s] \in Nat /\ ticks[s] <= clock
  BY DEF ProcInv, Machine
<1>4. /\ DOMAIN ticks' = 1 .. Len(ticks)
      /\ \A s \in 1 .. Len(ticks) : /\ ticks'[s] \in Nat
                                    /\ ticks'[s] <= ticks[s] + 1 /\ ticks[s] <= ticks'[s]
  BY <1>2, <1>3
<1>5. ticks' \in Seq(Nat) /\ Len(ticks') = Len(ticks)
  <2>1. ticks' \in [1 .. Len(ticks) -> Nat]
    BY <1>2, <1>3
  <2>2. ticks' \in Seq(Nat)
    BY <1>3, <2>1
  <2> QED
    BY <1>3, <1>4, <2>2
<1>6. Machine'
  BY <1>1, <1>3, <1>4, <1>5 DEF ProcInv, Machine
<1>7. Samples'
  BY <1>1, <1>3, <1>5, SampleFields DEF ProcInv, Samples
<1>8. RunsInTime'
  <2>1. at.start # 0 => at.start \in 1 .. Len(ticks) /\ ticks'[at.start] <= ticks[at.start] + 1
                        /\ ticks'[at.start] \in Nat /\ ticks[at.start] <= ticks'[at.start]
                        /\ ticks[at.start] \in Nat
    BY <1>3, <1>4, SampleFields DEF ProcInv, Samples
  <2>2. prev.start # 0 => prev.start \in 1 .. Len(ticks) /\ ticks'[prev.start] \in Nat
                          /\ ticks'[prev.start] <= ticks[prev.start] + 1 /\ ticks[prev.start] \in Nat
    BY <1>3, <1>4, SampleFields DEF ProcInv, Samples
  <2>3. at.start # 0 => /\ at.ticks <= ticks'[at.start]
                        /\ ticks'[at.start] - at.ticks <= clock' - at.read
    <3> SUFFICES ASSUME at.start # 0
                 PROVE  /\ at.ticks <= ticks'[at.start]
                        /\ ticks'[at.start] - at.ticks <= clock' - at.read
      OBVIOUS
    <3> DEFINE old == ticks[at.start]
               new == ticks'[at.start]
               past == at.ticks
               since == at.read
    <3>1. past \in Nat /\ since \in Nat /\ clock \in Nat /\ clock' = clock + 1
      BY <1>1, <1>3, SampleFields DEF ProcInv
    <3>2. past <= old /\ old - past <= clock - since
      BY DEF ProcInv, RunsInTime
    <3>3. old \in Nat /\ new \in Nat /\ new <= old + 1 /\ old <= new
      BY <2>1
    <3> HIDE DEF old, new, past, since
    <3>4. past <= new /\ new - past <= clock' - since
      BY <3>1, <3>2, <3>3
    <3> QED BY <3>4 DEF old, new, past, since
  <2>4. prev.start # 0 => ticks'[prev.start] - prev.ticks <= clock' - prev.time + prev.late
    <3> SUFFICES ASSUME prev.start # 0
                 PROVE  ticks'[prev.start] - prev.ticks <= clock' - prev.time + prev.late
      OBVIOUS
    <3> DEFINE old == ticks[prev.start]
               new == ticks'[prev.start]
               past == prev.ticks
               time == prev.time
               late == prev.late
    <3>1. past \in Nat /\ time \in Int /\ late \in Nat /\ clock \in Nat /\ clock' = clock + 1
      BY <1>1, <1>3, SampleFields DEF ProcInv
    <3>2. old - past <= clock - time + late
      BY DEF ProcInv, RunsInTime
    <3>3. old \in Nat /\ new \in Nat /\ new <= old + 1
      BY <2>2
    <3> HIDE DEF old, new, past, time, late
    <3>4. new - past <= clock' - time + late
      BY <3>1, <3>2, <3>3
    <3> QED BY <3>4 DEF old, new, past, time, late
  <2> QED
    BY <1>1, <2>3, <2>4 DEF RunsInTime
<1>9. MatchIsNamed' /\ OneNamedProcess' /\ CpuWithinElapsed'
  BY <1>1 DEF ProcInv, MatchIsNamed, sameProcess, OneNamedProcess, CpuWithinElapsed
<1> QED
  BY <1>6, <1>7, <1>8, <1>9 DEF ProcInv

(* A new process has a start time nobody had.                               *)
LEMMA ForkInv ==
  ASSUME ProcInv, NEW p \in Pid, Fork(p)
  PROVE  ProcInv'
<1>1. /\ Len(ticks) < MaxStarts /\ ticks' = Append(ticks, 0)
      /\ running' = [running EXCEPT ![p] = Len(ticks) + 1]
      /\ named' \subseteq named \cup {Len(ticks) + 1} /\ named \subseteq named'
      /\ UNCHANGED <<clock, pc, pid, at, prev, cpu>>
  BY DEF Fork
<1>2. /\ clock \in 0 .. MaxTime /\ ticks \in Seq(Nat) /\ Len(ticks) \in Nat
      /\ \A s \in 1 .. Len(ticks) : ticks[s] \in Nat /\ ticks[s] <= clock
  BY DEF ProcInv, Machine
<1>3. /\ ticks' \in Seq(Nat) /\ Len(ticks') = Len(ticks) + 1
      /\ \A s \in 1 .. Len(ticks) : ticks'[s] = ticks[s]
      /\ ticks'[Len(ticks) + 1] = 0
  BY <1>1, <1>2
<1>4. \A s \in 1 .. Len(ticks') : ticks'[s] <= clock'
  BY <1>1, <1>2, <1>3
<1>5. Machine'
  BY <1>1, <1>2, <1>3, <1>4 DEF ProcInv, Machine
<1>6. Samples'
  BY <1>1, <1>2, <1>3, SampleFields DEF ProcInv, Samples
<1>7. RunsInTime'
  <2>1. at.start # 0 => at.start \in 1 .. Len(ticks)
    BY <1>2, SampleFields DEF ProcInv, Samples
  <2>2. prev.start # 0 => prev.start \in 1 .. Len(ticks)
    BY <1>2, SampleFields DEF ProcInv, Samples
  <2> QED
    BY <1>1, <1>2, <1>3, <2>1, <2>2 DEF ProcInv, RunsInTime
<1>8. MatchIsNamed'
  <2>1. pc = "stat" => pid \in Pid
    BY DEF ProcInv, Samples
  <2>2. pc = "stat" => running'[pid] = running[pid] \/ running'[pid] = Len(ticks) + 1
    BY <1>1, <2>1 DEF ProcInv, Machine
  <2>3. prev.start # Len(ticks) + 1
    BY <1>2, SampleFields DEF ProcInv, Samples
  <2> QED
    BY <1>1, <2>2, <2>3 DEF ProcInv, MatchIsNamed, sameProcess
<1>9. OneNamedProcess' /\ CpuWithinElapsed'
  BY <1>1 DEF ProcInv, OneNamedProcess, CpuWithinElapsed
<1> QED
  BY <1>5, <1>6, <1>7, <1>8, <1>9 DEF ProcInv

(* A process that is gone matches nothing.                                  *)
LEMMA ExitInv ==
  ASSUME ProcInv, NEW p \in Pid, Exit(p)
  PROVE  ProcInv'
<1>1. /\ running' = [running EXCEPT ![p] = 0]
      /\ UNCHANGED <<clock, named, ticks, pc, pid, at, prev, cpu>>
  BY DEF Exit
<1>2. Machine'
  BY <1>1 DEF ProcInv, Machine
<1>3. Samples' /\ RunsInTime' /\ OneNamedProcess' /\ CpuWithinElapsed'
  BY <1>1 DEF ProcInv, Samples, RunsInTime, OneNamedProcess, CpuWithinElapsed
<1>4. MatchIsNamed'
  <2>1. pc = "stat" => pid \in Pid
    BY DEF ProcInv, Samples
  <2>2. pc = "stat" => running'[pid] = running[pid] \/ running'[pid] = 0
    BY <1>1, <2>1 DEF ProcInv, Machine
  <2> QED
    BY <1>1, <2>2 DEF ProcInv, MatchIsNamed, sameProcess
<1> QED
  BY <1>2, <1>3, <1>4 DEF ProcInv

(* Every step keeps the invariant.                                          *)
LEMMA NextProcInv == ProcInv /\ [NextProc]_procVars => ProcInv'
<1> SUFFICES ASSUME ProcInv, [NextProc]_procVars PROVE ProcInv'
  OBVIOUS
<1>1. CASE CollectProc
  BY <1>1, FindInv, ReadTicksInv, KeepInv DEF CollectProc
<1>2. CASE Tick
  BY <1>2, TickInv
<1>3. ASSUME NEW p \in Pid, Fork(p) \/ Exit(p) PROVE ProcInv'
  BY <1>3, ForkInv, ExitInv
<1>4. CASE UNCHANGED procVars
  BY <1>4 DEF procVars, ProcInv, Machine, Samples, MatchIsNamed, sameProcess, RunsInTime,
     OneNamedProcess, CpuWithinElapsed
<1> QED
  BY <1>1, <1>2, <1>3, <1>4 DEF NextProc

(* The invariant holds of the process collector, whatever the machine does. *)
THEOREM ProcInvariant == SpecProc => []ProcInv
BY InitProcInv, NextProcInv, PTL DEF SpecProc

(* What is loaded is valid if it has a value for every required field, each *)
(* from the environment or from the one source.                             *)
OfOneSource(given, source, env) ==
  /\ Load(given, source, env) # NoConfig <=> given # Garbage /\ Required \subseteq given \cup env
  /\ Load(given, source, env) # NoConfig =>
       \A f \in Required : Load(given, source, env)[f] \in {"env", source}

(* The required fields have no default.                                     *)
LEMMA RequiredFields == Required \subseteq Field /\ Required \cap Defaulted = {}
<1>1. Len(Fields) = 8
  BY DEF Fields
<1>2. Required = {Fields[1], Fields[2], Fields[3]}
  BY DEF Required, Fields
<1>3. \A i \in 1 .. Len(Fields) : Fields[i] \in Field
  BY DEF Field
<1>4. 1 \in 1 .. Len(Fields) /\ 2 \in 1 .. Len(Fields) /\ 3 \in 1 .. Len(Fields)
  BY <1>1
<1>5. Required \cap Defaulted = {}
  BY DEF Required, Defaulted
<1> QED
  BY <1>2, <1>3, <1>4, <1>5

(* Nothing but the environment mixes with a source.                         *)
LEMMA LoadSource ==
  \A given \in {Garbage} \cup SUBSET Field, source \in Source \ {""}, env \in SUBSET Overridable :
    OfOneSource(given, source, env)
<1> TAKE given \in {Garbage} \cup SUBSET Field, source \in Source \ {""}, env \in SUBSET Overridable
<1>1. CASE given = Garbage
  BY <1>1 DEF Load, OfOneSource
<1> DEFINE c == applyEnvOverrides(Unmarshal(given, source), env)
           full == [f \in Field |-> IF f \in Defaulted /\ c[f] = "" THEN "default" ELSE c[f]]
<1>2. ASSUME given # Garbage, given \in SUBSET Field
      PROVE  Load(given, source, env) = IF \E f \in Required : c[f] = "" THEN NoConfig ELSE full
  BY <1>2 DEF Load, validate
<1>3. Required \subseteq Field /\ Required \cap Defaulted = {}
  BY RequiredFields
<1>4. \A f \in Field : c[f] = IF f \in env THEN "env" ELSE IF f \in given THEN source ELSE ""
  BY DEF applyEnvOverrides, Unmarshal
<1>5. full # NoConfig
  <2>1. \A f \in Field : c[f] \in Source
    BY <1>4 DEF Source
  <2>2. full \in Config
    BY <2>1 DEF Config, Source
  <2> QED
    BY <2>2, ConfigAssumption
<1>6. \A f \in Required : c[f] = "" <=> f \notin given \cup env
  BY <1>3, <1>4
<1>7. \A f \in Required : full[f] = c[f]
  BY <1>3
<1> HIDE DEF c, full
<1>8. CASE given # Garbage /\ given \in SUBSET Field
  <2>1. Load(given, source, env) # NoConfig <=> Required \subseteq given \cup env
    BY <1>2, <1>5, <1>6, <1>8
  <2>2. Load(given, source, env) # NoConfig => Load(given, source, env) = full
    BY <1>2, <1>8
  <2>3. Required \subseteq given \cup env => \A f \in Required : full[f] \in {"env", source}
    BY <1>3, <1>4, <1>7
  <2> QED
    BY <1>8, <2>1, <2>2, <2>3 DEF OfOneSource
<1> QED
  BY <1>1, <1>8

(* What is loaded is a configuration, or an error.                          *)
LEMMA LoadType ==
  ASSUME NEW given, NEW source \in Source, NEW env
  PROVE  Load(given, source, env) \in Config \cup {NoConfig}
<1> DEFINE c == applyEnvOverrides(Unmarshal(given, source), env)
           full == [f \in Field |-> IF f \in Defaulted /\ c[f] = "" THEN "default" ELSE c[f]]
<1>1. \A f \in Field : c[f] \in Source
  BY DEF applyEnvOverrides, Unmarshal, Source
<1>2. full \in Config
  BY <1>1 DEF Config, Source
<1>3. Load(given, source, env) \in {NoConfig, full}
  BY DEF Load, validate
<1> HIDE DEF c, full
<1> QED
  BY <1>2, <1>3

(* What the end of an executable, a file and the environment can give.       *)
LEMMA SourcesGive ==
  ASSUME sources \in Sources
  PROVE  /\ sources.binary[Len(sources.binary)] \in {Garbage} \cup SUBSET Field
         /\ sources.file \in {Garbage} \cup SUBSET Field
         /\ sources.env \in SUBSET Overridable
<1> DEFINE tail == sources.binary[Len(sources.binary)]
<1>1. /\ sources.env \in SUBSET Overridable
      /\ sources.file = Garbage \/ sources.file \in SUBSET Overridable
      /\ sources.binary \in {<<Garbage>>} \cup
           {<<Garbage, {Fields[i] : i \in 1 .. n}>> : n \in 0 .. Len(Fields)}
  BY DEF Sources
<1>2. Overridable \subseteq Field
  BY DEF Overridable, Required, Field, Fields
<1>3. tail \in {Garbage} \cup SUBSET Field
  <2>1. CASE sources.binary = <<Garbage>>
    BY <2>1
  <2>2. ASSUME NEW n \in 0 .. Len(Fields), sources.binary = <<Garbage, {Fields[i] : i \in 1 .. n}>>
        PROVE  tail \in SUBSET Field
    <3>1. tail = {Fields[i] : i \in 1 .. n}
      BY <2>2
    <3>2. Len(Fields) = 8
      BY DEF Fields
    <3> QED
      BY <3>1, <3>2 DEF Field
  <2> QED
    BY <1>1, <2>1, <2>2
<1> QED
  BY <1>1, <1>2, <1>3

(* At the start there is no configuration yet.                              *)
LEMMA InitConfigInv == Init => ConfigInv
BY DEF Init, ConfigInv

(* The sources stay as they are, and Start alone makes a configuration.      *)
LEMMA NextConfigInv == ConfigInv /\ [Next]_collectorVars => ConfigInv'
BY DEF ConfigInv, Next, Start, OSStep, ProcStep, collectorVars

(* The address and the credentials of an agent are of one place, for any     *)
(* binary, cut short or not, file and environment.                           *)
THEOREM CollectorOneSource == Spec => []OneSource
<1>1. ConfigInv => OneSource
  <2> SUFFICES ASSUME ConfigInv, cfg # NoConfig
               PROVE  LET tail == sources.binary[Len(sources.binary)]
                          whole == tail # Garbage /\ Required \subseteq tail \cup sources.env
                      IN \A f \in Required :
                           cfg[f] \in {"env", IF whole THEN "embedded" ELSE "file"}
    BY DEF OneSource
  <2> DEFINE tail == sources.binary[Len(sources.binary)]
  <2>1. /\ tail \in {Garbage} \cup SUBSET Field
        /\ sources.file \in {Garbage} \cup SUBSET Field
        /\ sources.env \in SUBSET Overridable
    BY SourcesGive DEF ConfigInv
  <2>4. cfg = IF Load(tail, "embedded", sources.env) # NoConfig
              THEN Load(tail, "embedded", sources.env)
              ELSE Load(sources.file, "file", sources.env)
    BY DEF ConfigInv, Configure, LoadEmbeddedConfig, LoadConfig, AfterMagic
  <2>6. "embedded" \in Source \ {""} /\ "file" \in Source \ {""}
    BY DEF Source
  <2> HIDE DEF tail
  <2>7. OfOneSource(tail, "embedded", sources.env)
    BY <2>1, <2>6, LoadSource
  <2>8. OfOneSource(sources.file, "file", sources.env)
    BY <2>1, <2>6, LoadSource
  <2>9. LET whole == tail # Garbage /\ Required \subseteq tail \cup sources.env
        IN \A f \in Required : cfg[f] \in {"env", IF whole THEN "embedded" ELSE "file"}
    BY <2>4, <2>7, <2>8 DEF OfOneSource
  <2> QED
    BY <2>9 DEF tail
<1> QED
  BY <1>1, InitConfigInv, NextConfigInv, PTL DEF Spec

(* What passed is what the counters have that the sample before has not.    *)
Counted ==
  /\ stat \in cpuSample /\ prevCPU \in cpuSample
  /\ passed = [busy |-> stat.busy - prevCPU.busy,
               idle |-> (stat.idle + stat.iowait) - (prevCPU.idle + prevCPU.iowait)]
  /\ stat.busy >= prevCPU.busy /\ stat.idle >= prevCPU.idle

(* What a figure covers had passed, and no difference of two counters is     *)
(* greater than the counters.                                                *)
Bounded(p) == p.busy \in 0 .. MaxJiffies /\ p.idle \in -MaxJiffies .. 2 * MaxJiffies

OSTypes ==
  /\ usage \in [part : Int, whole : 0 .. Modulus - 1]
  /\ Bounded(covered)

OSInv == Counted /\ UsageExact /\ OSTypes

(* The counters are far from their width, so that a difference of sums is   *)
(* exact or, when it is negative, short of the modulus.                     *)
LEMMA DiffMod ==
  ASSUME NEW x \in Int, -Modulus < x, x < Modulus
  PROVE  x % Modulus = IF x >= 0 THEN x ELSE x + Modulus
BY ModulusAssumption

(* The sums of a sample do not wrap.                                        *)
LEMMA Sums ==
  ASSUME NEW s \in cpuSample
  PROVE  /\ s.busy \in 0 .. MaxJiffies /\ s.idle \in 0 .. MaxJiffies /\ s.iowait \in 0 .. MaxJiffies
         /\ total(s) = s.busy + s.idle + s.iowait /\ idleTotal(s) = s.idle + s.iowait
<1>1. s.busy \in 0 .. MaxJiffies /\ s.idle \in 0 .. MaxJiffies /\ s.iowait \in 0 .. MaxJiffies
  BY DEF cpuSample
<1> DEFINE t == s.busy + s.idle + s.iowait
           i == s.idle + s.iowait
<1>2. t \in Int /\ 0 <= t /\ t < Modulus /\ i \in Int /\ 0 <= i /\ i < Modulus
  BY <1>1, ModulusAssumption
<1>3. -Modulus < 0
  BY ModulusAssumption
<1> HIDE DEF t, i
<1>4. t % Modulus = t /\ i % Modulus = i
  BY <1>2, ModulusAssumption
<1> QED
  BY <1>1, <1>4 DEF total, idleTotal, t, i

(* A jiffy, or one of iowait taken back, moves the difference by one.       *)
LEMMA JiffyCounted ==
  ASSUME Counted, Jiffy
  PROVE  Counted'
<1>1. prevCPU' = prevCPU /\ stat.busy \in Nat /\ stat.idle \in Nat /\ stat.iowait \in Nat
      /\ prevCPU.busy \in Nat /\ prevCPU.idle \in Nat /\ prevCPU.iowait \in Nat
  BY Sums DEF Counted, Jiffy
<1>2. stat = [busy |-> stat.busy, idle |-> stat.idle, iowait |-> stat.iowait]
  BY DEF Counted, cpuSample
<1>3. stat' \in cpuSample /\ stat'.busy >= stat.busy /\ stat'.idle >= stat.idle
  <2> DEFINE b == stat.busy
             i == stat.idle
             w == stat.iowait
  <2>1. /\ b \in 0 .. MaxJiffies /\ i \in 0 .. MaxJiffies /\ w \in 0 .. MaxJiffies
        /\ stat = [busy |-> b, idle |-> i, iowait |-> w]
    BY <1>2, Sums DEF Counted
  <2>2. \/ b < MaxJiffies /\ stat' = [busy |-> b + 1, idle |-> i, iowait |-> w]
        \/ i < MaxJiffies /\ stat' = [busy |-> b, idle |-> i + 1, iowait |-> w]
        \/ w < MaxJiffies /\ stat' = [busy |-> b, idle |-> i, iowait |-> w + 1]
        \/ w > 0 /\ stat' = [busy |-> b, idle |-> i, iowait |-> w - 1]
    <3>1. ASSUME NEW c \in {"busy", "idle", "iowait"}, stat[c] < MaxJiffies,
                 stat' = [stat EXCEPT ![c] = stat[c] + 1]
          PROVE  \/ b < MaxJiffies /\ stat' = [busy |-> b + 1, idle |-> i, iowait |-> w]
                 \/ i < MaxJiffies /\ stat' = [busy |-> b, idle |-> i + 1, iowait |-> w]
                 \/ w < MaxJiffies /\ stat' = [busy |-> b, idle |-> i, iowait |-> w + 1]
      <4>1. CASE c = "busy"
        BY <1>2, <3>1, <4>1
      <4>2. CASE c = "idle"
        BY <1>2, <3>1, <4>2
      <4>3. CASE c = "iowait"
        BY <1>2, <3>1, <4>3
      <4> QED
        BY <4>1, <4>2, <4>3
    <3>2. ASSUME stat.iowait > 0, stat' = [stat EXCEPT !.iowait = stat.iowait - 1]
          PROVE  w > 0 /\ stat' = [busy |-> b, idle |-> i, iowait |-> w - 1]
      BY <1>2, <3>2
    <3> QED
      BY <3>1, <3>2 DEF Jiffy
  <2> HIDE DEF b, i, w
  <2>3. MaxJiffies \in Nat
    BY ModulusAssumption
  <2>4. stat' \in cpuSample /\ stat'.busy >= b /\ stat'.idle >= i
    BY <2>1, <2>2, <2>3 DEF cpuSample
  <2> QED
    BY <2>4 DEF b, i
<1>4. stat'.busy \in Nat /\ stat'.idle \in Nat /\ stat'.iowait \in Nat
  BY <1>3, Sums
<1>5. passed' = [busy |-> stat'.busy - prevCPU.busy,
                 idle |-> (stat'.idle + stat'.iowait) - (prevCPU.idle + prevCPU.iowait)]
  <2>1. /\ passed.busy = stat.busy - prevCPU.busy
        /\ passed.idle = (stat.idle + stat.iowait) - (prevCPU.idle + prevCPU.iowait)
    BY DEF Counted
  <2>2. passed' = [busy |-> passed.busy + (stat'.busy - stat.busy),
                   idle |-> passed.idle + (stat'.idle - stat.idle) + (stat'.iowait - stat.iowait)]
    BY DEF Jiffy
  <2> DEFINE db == passed.busy + (stat'.busy - stat.busy)
             di == passed.idle + (stat'.idle - stat.idle) + (stat'.iowait - stat.iowait)
  <2>3. db = stat'.busy - prevCPU.busy
    BY <1>1, <1>4, <2>1
  <2>4. di = (stat'.idle + stat'.iowait) - (prevCPU.idle + prevCPU.iowait)
    BY <1>1, <1>4, <2>1
  <2> HIDE DEF db, di
  <2>5. passed' = [busy |-> db, idle |-> di]
    BY <2>2 DEF db, di
  <2> QED
    BY <2>3, <2>4, <2>5
<1> QED
  BY <1>1, <1>3, <1>4, <1>5 DEF Counted

(* A figure computed from two differences, one of which may be negative.    *)
LEMMA SampleExact ==
  ASSUME Counted, Sample
  PROVE  UsageExact'
<1> DEFINE busy == stat.busy - prevCPU.busy
           idle == (stat.idle + stat.iowait) - (prevCPU.idle + prevCPU.iowait)
<1>1. covered' = [busy |-> busy, idle |-> idle] /\ usage' = cpuUsagePct(prevCPU, stat)
  BY DEF Sample, Counted
<1>2. /\ total(stat) - total(prevCPU) = busy + idle
      /\ idleTotal(stat) - idleTotal(prevCPU) = idle
  BY Sums DEF Counted
<1>3. /\ busy \in Int /\ idle \in Int /\ 0 <= busy /\ busy < Modulus
      /\ -Modulus < idle /\ idle < Modulus
      /\ -Modulus < busy + idle /\ busy + idle < Modulus
  BY Sums, ModulusAssumption DEF Counted
<1> DEFINE totalDiff == (busy + idle) % Modulus
           idleDiff == idle % Modulus
<1>4. usage' = IF totalDiff = 0 THEN [part |-> 0, whole |-> 0]
               ELSE [part |-> totalDiff - idleDiff, whole |-> totalDiff]
  BY <1>1, <1>2 DEF cpuUsagePct, NoUsage
<1> HIDE DEF busy, idle
<1>5. totalDiff = (IF busy + idle >= 0 THEN busy + idle ELSE busy + idle + Modulus)
      /\ idleDiff = (IF idle >= 0 THEN idle ELSE idle + Modulus)
  BY <1>3, DiffMod
<1> HIDE DEF totalDiff, idleDiff
<1>6. covered'.busy = busy /\ covered'.idle = idle
  BY <1>1
<1>7. CASE idle >= 0
  <2>1. totalDiff = busy + idle /\ totalDiff - idleDiff = busy
    BY <1>3, <1>5, <1>7
  <2>2. totalDiff = 0 => busy = 0
    BY <1>3, <1>7, <2>1
  <2>3. usage' = [part |-> busy, whole |-> busy + idle]
    BY <1>4, <2>1, <2>2
  <2> QED
    BY <1>6, <1>7, <2>3 DEF UsageExact
<1>8. CASE ~(idle >= 0)
  <2>1. totalDiff # 0 <=> busy + idle # 0
    BY <1>3, <1>5, ModulusAssumption
  <2>2. usage'.part = IF totalDiff = 0 THEN 0 ELSE totalDiff - idleDiff
    BY <1>4
  <2>3. totalDiff - idleDiff = IF busy + idle >= 0 THEN busy - Modulus ELSE busy
    BY <1>3, <1>5, <1>8, ModulusAssumption
  <2>4. usage'.part < 0 <=> busy + idle > 0
    BY <1>3, <2>1, <2>2, <2>3, ModulusAssumption
  <2> QED
    BY <1>6, <1>8, <2>4 DEF UsageExact
<1> QED
  BY <1>7, <1>8

(* Nothing is within the bounds.                                            *)
LEMMA NothingBounded ==
  /\ Bounded(Nothing)
  /\ NoUsage \in [part : Int, whole : 0 .. Modulus - 1]
<1>1. Modulus \in Nat /\ 1 <= Modulus /\ MaxJiffies \in Nat
  BY ModulusAssumption
<1> QED
  BY <1>1 DEF Bounded, Nothing, NoUsage

(* The counters do not run further than they can, in either direction.       *)
LEMMA CountedBounded ==
  ASSUME Counted
  PROVE  Bounded(passed)
<1> DEFINE b == stat.busy
           i == stat.idle
           w == stat.iowait
           pb == prevCPU.busy
           pi == prevCPU.idle
           pw == prevCPU.iowait
<1>1. /\ b \in 0 .. MaxJiffies /\ i \in 0 .. MaxJiffies /\ w \in 0 .. MaxJiffies
      /\ pb \in 0 .. MaxJiffies /\ pi \in 0 .. MaxJiffies /\ pw \in 0 .. MaxJiffies
      /\ pb <= b /\ pi <= i
  BY Sums DEF Counted
<1>2. passed.busy = b - pb /\ passed.idle = (i + w) - (pi + pw)
  BY DEF Counted
<1> HIDE DEF b, i, w, pb, pi, pw
<1>3. b - pb \in 0 .. MaxJiffies /\ (i + w) - (pi + pw) \in -MaxJiffies .. 2 * MaxJiffies
  BY <1>1, ModulusAssumption
<1> QED
  BY <1>2, <1>3 DEF Bounded

(* A figure is a percentage of a uint64.                                    *)
LEMMA SampleTypes ==
  ASSUME Counted, Sample
  PROVE  OSTypes'
<1>1. usage' = cpuUsagePct(prevCPU, stat) /\ covered' = passed
  BY DEF Sample
<1>2. total(stat) \in Int /\ total(prevCPU) \in Int /\ idleTotal(stat) \in Int
      /\ idleTotal(prevCPU) \in Int
  BY Sums DEF Counted
<1> DEFINE totalDiff == (total(stat) - total(prevCPU)) % Modulus
           idleDiff == (idleTotal(stat) - idleTotal(prevCPU)) % Modulus
<1>3. totalDiff \in 0 .. Modulus - 1 /\ idleDiff \in 0 .. Modulus - 1
  BY <1>2, ModulusAssumption
<1>4. usage' = IF totalDiff = 0 THEN NoUsage
               ELSE [part |-> totalDiff - idleDiff, whole |-> totalDiff]
  BY <1>1 DEF cpuUsagePct
<1> HIDE DEF totalDiff, idleDiff
<1>5. usage' \in [part : Int, whole : 0 .. Modulus - 1]
  BY <1>3, <1>4, NothingBounded
<1> QED
  BY <1>1, <1>5, CountedBounded DEF OSTypes, Bounded

(* The collector of the machine keeps its invariant.                        *)
LEMMA NextOSInv == OSInv /\ [NextOS]_osVars => OSInv'
<1> SUFFICES ASSUME OSInv, [NextOS]_osVars PROVE OSInv'
  OBVIOUS
<1>1. CASE Sample
  <2>1. Counted'
    <3>1. stat' = stat /\ prevCPU' = stat /\ passed' = [busy |-> 0, idle |-> 0]
      BY <1>1 DEF Sample, Nothing
    <3>2. stat.busy \in Nat /\ stat.idle \in Nat /\ stat.iowait \in Nat /\ stat \in cpuSample
      BY Sums DEF OSInv, Counted
    <3> QED
      BY <3>1, <3>2 DEF Counted
  <2> QED
    BY <1>1, <2>1, SampleExact, SampleTypes DEF OSInv
<1>2. CASE SampleFails
  <2>1. Counted' /\ UsageExact'
    BY <1>2 DEF OSInv, SampleFails, Counted, UsageExact, NoUsage, Nothing
  <2>2. OSTypes'
    BY <1>2, NothingBounded DEF SampleFails, OSTypes, Bounded
  <2> QED
    BY <2>1, <2>2 DEF OSInv
<1>3. CASE Jiffy
  <2>1. UsageExact' /\ OSTypes'
    BY <1>3 DEF OSInv, UsageExact, OSTypes, Bounded, Jiffy
  <2> QED
    BY <1>3, <2>1, JiffyCounted DEF OSInv
<1>4. CASE UNCHANGED osVars
  BY <1>4 DEF OSInv, osVars, Counted, UsageExact, OSTypes, Bounded
<1> QED
  BY <1>1, <1>2, <1>3, <1>4 DEF NextOS

(* At the start the sample before is the counters as they are, or zero.     *)
LEMMA InitOSInv == InitOS => OSInv
<1> SUFFICES ASSUME InitOS PROVE OSInv
  OBVIOUS
<1>1. stat = [busy |-> 0, idle |-> 1, iowait |-> 1]
      /\ (prevCPU = stat \/ prevCPU = [busy |-> 0, idle |-> 0, iowait |-> 0])
  BY DEF InitOS, Zero
<1>2. stat \in cpuSample /\ prevCPU \in cpuSample
  BY <1>1, ModulusAssumption DEF cpuSample
<1>3. Counted
  <2>1. stat.busy = 0 /\ stat.idle = 1 /\ stat.iowait = 1 /\ idleTotal(stat) = 2
    BY <1>1, <1>2, Sums
  <2>2. CASE prevCPU = stat
    BY <1>2, <2>1, <2>2 DEF InitOS, Counted
  <2>3. CASE prevCPU = [busy |-> 0, idle |-> 0, iowait |-> 0]
    <3>1. prevCPU.busy = 0 /\ prevCPU.idle = 0 /\ prevCPU.iowait = 0
      BY <2>3
    <3>2. idleTotal(prevCPU) = 0
      BY <1>2, <3>1, Sums
    <3> QED
      BY <1>2, <2>1, <3>1, <3>2 DEF InitOS, Counted
  <2> QED
    BY <1>1, <2>2, <2>3
<1>4. UsageExact
  BY DEF InitOS, UsageExact, NoUsage, Nothing
<1>5. OSTypes
  BY NothingBounded DEF InitOS, OSTypes, Bounded
<1> QED
  BY <1>3, <1>4, <1>5 DEF OSInv

(* The agent runs this collector as it is, too, or leaves it alone.         *)
LEMMA CollectorRunsOS == Spec => SpecOS
<1>1. Init => InitOS
  BY DEF Init
<1>2. [Next]_collectorVars => [NextOS]_osVars
  BY DEF Next, Start, OSStep, ProcStep, collectorVars, osVars
<1> QED
  BY <1>1, <1>2, PTL DEF Spec, SpecOS

(* The CPU usage of the machine is the busy part of what passed since the   *)
(* last sample that could be read, for any width of the counters, and is    *)
(* off only when the idle time as a whole went back.                        *)
THEOREM CollectorUsageExact == Spec => []UsageExact
<1>1. OSInv => UsageExact
  BY DEF OSInv
<1>2. SpecOS => []OSInv
  BY InitOSInv, NextOSInv, PTL DEF SpecOS
<1> QED
  BY <1>1, <1>2, CollectorRunsOS, PTL

(* The agent runs the collector as it is, or leaves it alone.               *)
LEMMA CollectorRunsProc == Spec => SpecProc
<1>1. Init => InitProc
  BY DEF Init
<1>2. [Next]_collectorVars => [NextProc]_procVars
  BY DEF Next, Start, OSStep, ProcStep, collectorVars, procVars
<1> QED
  BY <1>1, <1>2, PTL DEF Spec, SpecProc

(* A CPU figure compares two samples of one process, and one of the name    *)
(* that was looked for, although pids pass from process to process between  *)
(* any two reads of Collect.                                                *)
THEOREM CollectorOneProcess == Spec => []OneNamedProcess
<1>1. ProcInv => OneNamedProcess
  BY DEF ProcInv
<1> QED
  BY <1>1, CollectorRunsProc, ProcInvariant, PTL

(* The figure is not above the time it covers, but for the time the sample  *)
(* before waited for its time stamp, whatever collections in between failed.*)
THEOREM CollectorCpuWithinElapsed == Spec => []CpuWithinElapsed
<1>1. ProcInv => CpuWithinElapsed
  BY DEF ProcInv
<1> QED
  BY <1>1, CollectorRunsProc, ProcInvariant, PTL

(* No figure is one.                                                        *)
LEMMA NoFigureType == NoFigure \in Figure
<1>1. 0 \in 0 .. MaxTime /\ 1 \in 1 .. MaxTime
  OBVIOUS
<1> QED
  BY <1>1 DEF NoFigure, Figure

(* Keep compares with an earlier sample only, which the same process had    *)
(* used no more of.                                                         *)
LEMMA KeepFigure ==
  ASSUME ProcInv, Keep, cpu' # NoFigure
  PROVE  cpu' \in Figure
<1> DEFINE t == at.ticks
           pt == prev.ticks
           time == prev.time
           late == prev.late
<1>1. /\ time # -1 /\ clock > time /\ t >= pt
      /\ cpu' = [of |-> {prev.start, at.start}, ticks |-> t - pt,
                 elapsed |-> clock - time, late |-> late]
  BY DEF Keep
<1>2. /\ t \in 0 .. MaxTime /\ pt \in 0 .. MaxTime
      /\ time \in -1 .. MaxTime /\ late \in 0 .. MaxTime
      /\ prev.start \in 0 .. MaxStarts /\ at.start \in 0 .. MaxStarts
  BY DEF ProcInv, Samples, Sampled, Kept
<1>3. clock \in 0 .. MaxTime
  BY DEF ProcInv, Machine
<1> HIDE DEF t, pt, time, late
<1>4. t - pt \in 0 .. MaxTime
  BY <1>1, <1>2
<1>5. clock - time \in 1 .. MaxTime
  BY <1>1, <1>2, <1>3
<1> QED
  BY <1>1, <1>2, <1>4, <1>5 DEF Figure

(* No step makes a figure that is none.                                     *)
LEMMA FigureStep == ProcInv /\ cpu \in Figure /\ [NextProc]_procVars => (cpu \in Figure)'
<1> SUFFICES ASSUME ProcInv, cpu \in Figure, [NextProc]_procVars PROVE cpu' \in Figure
  OBVIOUS
<1>1. CASE Find
  BY <1>1, NoFigureType DEF Find
<1>2. CASE Keep
  BY <1>2, NoFigureType, KeepFigure
<1>3. CASE cpu' = cpu
  BY <1>3
<1> QED
  BY <1>1, <1>2, <1>3 DEF NextProc, CollectProc, ReadTicks, Tick, Fork, Exit, procVars

(* The process collector's values, whatever the machine does.               *)
LEMMA ProcTypes == SpecProc => []TypeOKProc
<1>1. InitProc => cpu \in Figure
  BY NoFigureType DEF InitProc
<1>2. SpecProc => [](cpu \in Figure)
  BY <1>1, FigureStep, ProcInvariant, PTL DEF SpecProc
<1>3. ProcInv /\ cpu \in Figure => TypeOKProc
  <2> SUFFICES ASSUME ProcInv, cpu \in Figure PROVE TypeOKProc
    OBVIOUS
  <2>1. \A s \in DOMAIN ticks : ticks[s] \in 0 .. MaxTime
    <3>1. /\ ticks \in Seq(Nat) /\ DOMAIN ticks = 1 .. Len(ticks) /\ clock \in 0 .. MaxTime
          /\ \A s \in 1 .. Len(ticks) : ticks[s] <= clock
      BY DEF ProcInv, Machine
    <3> QED
      BY <3>1
  <2> QED
    BY <2>1 DEF ProcInv, Machine, Samples, TypeOKProc, Figure
<1> QED
  BY <1>2, <1>3, ProcInvariant, PTL

(* The values of an agent's collectors stay within what they are meant to    *)
(* be, over any run: a configuration with a source for every field or none,  *)
(* a figure of the machine out of a uint64, a figure of a process over a     *)
(* time that is not zero.                                                    *)
THEOREM CollectorTypeOK == Spec => []TypeOK
<1>1. Spec => [](sources \in Sources /\ tracksOS \in BOOLEAN /\ cfg \in Config \cup {NoConfig})
  <2>1. ConfigInv => sources \in Sources /\ cfg \in Config \cup {NoConfig}
    <3> SUFFICES ASSUME ConfigInv PROVE sources \in Sources /\ cfg \in Config \cup {NoConfig}
      OBVIOUS
    <3>1. "embedded" \in Source /\ "file" \in Source
      BY DEF Source
    <3>2. Configure(sources.binary, sources.file, sources.env) \in Config \cup {NoConfig}
      BY <3>1, LoadType DEF Configure, LoadEmbeddedConfig, LoadConfig
    <3> QED
      BY <3>2 DEF ConfigInv
  <2>2. Init => tracksOS \in BOOLEAN
    BY DEF Init
  <2>3. tracksOS \in BOOLEAN /\ [Next]_collectorVars => (tracksOS \in BOOLEAN)'
    BY DEF Next, Start, OSStep, ProcStep, collectorVars
  <2> QED
    BY <2>1, <2>2, <2>3, InitConfigInv, NextConfigInv, PTL DEF Spec
<1>2. OSInv => TypeOKOS
  BY CountedBounded DEF OSInv, OSTypes, Counted, Bounded, TypeOKOS
<1>3. SpecOS => []OSInv
  BY InitOSInv, NextOSInv, PTL DEF SpecOS
<1>4. Spec => []TypeOKOS
  BY <1>2, <1>3, CollectorRunsOS, PTL
<1>5. Spec => []TypeOKProc
  BY CollectorRunsProc, ProcTypes, PTL
<1>6. /\ sources \in Sources /\ tracksOS \in BOOLEAN /\ cfg \in Config \cup {NoConfig}
      /\ TypeOKOS /\ TypeOKProc
      => TypeOK
  BY DEF TypeOK
<1> QED
  BY <1>1, <1>4, <1>5, <1>6, PTL
===============================================================================
