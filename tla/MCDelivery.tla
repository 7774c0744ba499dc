------------------------------ MODULE MCDelivery ------------------------------
(* Delivery with a bound on what Pending meets, which Agent's runs do not   *)
(* have: when the directory can be listed, its files can be read.           *)
EXTENDS Delivery

FilesReadable == pc = "list" /\ pc' = "replay" => clean'

\* The aggregator is out of reach while the agent collects: no live push is
\* stored, and the buffer is what the next start has.
LivePushesLost == \A b \in 1 .. MaxBatches : ~StoredBy(<<b, 0>>)'
===============================================================================
