------------------------------ MODULE AgentConfig ------------------------------
(***************************************************************************)
(* Where an agent's configuration comes from (agent/config.go and the      *)
(* beginning of main): the end of its own executable, or a file, and the   *)
(* environment.  A configuration maps each field to the source its value   *)
(* is from, "" being the zero value of a field that no source gave.        *)
(***************************************************************************)
EXTENDS Integers, Sequences

CONSTANTS
  Garbage,  \* bytes that are no YAML of a configuration
  NoConfig  \* an error instead of a configuration

\* In the order generateEmbeddedConfig writes them.
Fields == <<"api_key", "api_secret", "aggregator_url", "push_interval",
            "buffer_dir", "buffer_retention", "track_os", "processes">>
Field == {Fields[i] : i \in 1 .. Len(Fields)}
Source == {"", "embedded", "file", "env", "default"}
Config == [Field -> Source]

ASSUME ConfigAssumption == NoConfig \notin Config

Required == {"api_key", "api_secret", "aggregator_url"}
Defaulted == {"push_interval", "buffer_dir", "buffer_retention"}
Overridable == Required \cup {"buffer_dir"}

(* yaml.Unmarshal of bytes that give some of the fields.                    *)
Unmarshal(given, source) == [f \in Field |-> IF f \in given THEN source ELSE ""]

(* Variables that are set and not empty; the others change nothing.         *)
applyEnvOverrides(cfg, env) == [f \in Field |-> IF f \in env THEN "env" ELSE cfg[f]]

(* A duration that is not positive counts as missing.                       *)
validate(cfg) ==
  IF \E f \in Required : cfg[f] = "" THEN NoConfig
  ELSE [f \in Field |-> IF f \in Defaulted /\ cfg[f] = "" THEN "default" ELSE cfg[f]]

Load(given, source, env) ==
  IF given = Garbage THEN NoConfig
  ELSE validate(applyEnvOverrides(Unmarshal(given, source), env))

\* Faulty variant: bytes.Index for bytes.LastIndex.
FirstAfterMagic(binary) == binary[1]

(* An executable is what follows each occurrence of the magic delimiter in  *)
(* it; the first is the constant ConfigMagic itself, with garbage after it. *)
AfterMagic(binary) == binary[Len(binary)]

LoadEmbeddedConfig(binary, env) == Load(AfterMagic(binary), "embedded", env)

LoadConfig(file, env) == Load(file, "file", env)

(* main: any error of the embedded configuration, be it that there is none  *)
(* or that it is not valid, leads to the file.                              *)
Configure(binary, file, env) ==
  IF LoadEmbeddedConfig(binary, env) # NoConfig THEN LoadEmbeddedConfig(binary, env)
  ELSE LoadConfig(file, env)
===============================================================================
