------------------------------- MODULE Collector -------------------------------
(***************************************************************************)
(* An agent's collectors, from the configuration that decides which there  *)
(* are (agent.New) to the collections buildBatch makes on every tick.      *)
(*                                                                         *)
(* The two kinds of collectors share nothing.  So an agent has one or the  *)
(* other here, and only a downloaded agent with no file and no environment *)
(* is followed past its start; both are bounds of the model.               *)
(***************************************************************************)
EXTENDS AgentConfig, OSCollector, ProcCollector

VARIABLES
  sources,   \* the executable, the file and the environment at the start
  tracksOS,  \* the value of track_os; processes names one process if not
  cfg        \* the configuration the agent runs with, NoConfig before

collectorVars == <<sources, tracksOS, cfg, osVars, procVars>>

\* The constant's occurrence, and for a download what the aggregator appended
\* or, the download being cut short, the beginning of it.  The file may be
\* missing.
Sources ==
  [binary : {<<Garbage>>} \cup
            {<<Garbage, {Fields[i] : i \in 1 .. n}>> : n \in 0 .. Len(Fields)},
   file : {Garbage} \cup SUBSET Overridable,
   env : SUBSET Overridable]

Init ==
  /\ sources \in Sources
  /\ tracksOS \in BOOLEAN
  /\ cfg = NoConfig
  /\ InitOS /\ (tracksOS \/ prevCPU = stat)
  /\ InitProc

(* main: without a valid configuration it ends there.                       *)
Start ==
  /\ cfg = NoConfig
  /\ cfg' = Configure(sources.binary, sources.file, sources.env)
  /\ cfg' # NoConfig
  /\ UNCHANGED <<sources, tracksOS, osVars, procVars>>

\* The bound named above.
Followed ==
  /\ sources.file = Garbage
  /\ cfg # NoConfig /\ \A f \in Field : cfg[f] = "embedded"

(* The collectors New made, and the machine they look at.                   *)
OSStep ==
  /\ Followed /\ cfg.track_os # "" /\ tracksOS
  /\ NextOS
  /\ UNCHANGED <<sources, tracksOS, cfg, procVars>>

ProcStep ==
  /\ Followed /\ cfg.processes # "" /\ ~tracksOS
  /\ NextProc
  /\ UNCHANGED <<sources, tracksOS, cfg, osVars>>

Next == Start \/ OSStep \/ ProcStep

Spec == Init /\ [][Next]_collectorVars
------------------------------------------------------------------------------

TypeOK ==
  /\ sources \in Sources
  /\ tracksOS \in BOOLEAN
  /\ cfg \in Config \cup {NoConfig}
  /\ TypeOKOS
  /\ TypeOKProc

(* The credentials and the address an agent starts with belong together:    *)
(* but for what the environment overrides they are all from the end of the  *)
(* executable, when that holds enough of them, or all from the file.        *)
OneSource ==
  cfg # NoConfig =>
    LET tail == sources.binary[Len(sources.binary)]
        whole == tail # Garbage /\ Required \subseteq tail \cup sources.env
    IN \A f \in Required : cfg[f] \in {"env", IF whole THEN "embedded" ELSE "file"}
===============================================================================
