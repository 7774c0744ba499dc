------------------------------ MODULE MCCollector -----------------------------
(* Model values for Collector.  Pids are interchangeable: the first of the   *)
(* matching ones is not told from the others.                               *)
EXTENDS Collector, TLC
Symmetry == Permutations(Pid)
===============================================================================
