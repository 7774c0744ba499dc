------------------------------ MODULE MCHotStore ------------------------------
(* Model values for HotStore: what a row holds does not steer archival, so  *)
(* one content is enough.                                                   *)
EXTENDS HotStore
CONSTANT r1
MCRow == {r1}
==============================================================================
