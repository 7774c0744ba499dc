------------------------------ MODULE MCRegistry ------------------------------
(* Model values for Registry.  Requests are interchangeable: none is named   *)
(* in a definition.                                                         *)
EXTENDS Registry, TLC
Symmetry == Permutations(Handler)

(* An update that begins finds an agent whose create has stored its paths:  *)
(* RegistryFresh.cfg is about updates that cross one another.               *)
UpdatesAfterCreate ==
  \A h \in Handler : pc[h] = "idle" /\ pc'[h] = "store" => row.paths # {}
===============================================================================
