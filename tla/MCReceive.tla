------------------------------- MODULE MCReceive ------------------------------
(* Model values for Receive.  Requests are interchangeable, and so are      *)
(* agents and batches: none is named in a definition, nor in the abstract   *)
(* store's, whose steps are checked one by one and not as a liveness.       *)
EXTENDS Receive, TLC
Symmetry == Permutations(Handler) \cup Permutations(Agent) \cup Permutations(Batch)
==============================================================================
