---------------------------- MODULE MCInternalTx ---------------------------
EXTENDS InternalTx

(* The second block is empty and the third has no trace.                   *)
MCTxHeights == Heights \ {2}
MCCalls == [h \in Heights |-> IF h \in {2, 3} THEN 0 ELSE IF h = 4 THEN 2 ELSE 1]
=============================================================================
