-------------------------------- MODULE MCQuery --------------------------------
(* Values for Query: two times, three kinds of batch, two spans.            *)
EXTENDS Query
CONSTANTS a1, a2
MCTime == 1 .. 2
MCRow == {[agent |-> a1, captured |-> 1], [agent |-> a1, captured |-> 2],
          [agent |-> a2, captured |-> 2]}
MCSpan == {<<1, 1>>, <<1, 2>>}
===============================================================================
