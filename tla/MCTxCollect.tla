---------------------------- MODULE MCTxCollect ----------------------------
EXTENDS TxCollect

(* Two transactions in the first block and one in each of the next two;    *)
(* one internal call in each of the first two blocks.                      *)
CONSTANTS a, b, c
MCAccounts == {a, b, c}
MCEntries  == {"t1", "t2", "t3", "t4", "i1", "i2"}
MCWork == [k \in Kinds |-> [h \in Heights |->
  IF k = "tx" THEN <<<<"t1", "t2">>, <<"t3">>, <<"t4">>>>[h] ELSE <<<<"i1">>, <<"i2">>, <<>>>>[h]]]
MCAccountsOf == [e \in MCEntries |->
  CASE e = "t1" -> {a, b} [] e = "t2" -> {a} [] e = "t3" -> {b, c} [] e = "t4" -> {a, c}
    [] e = "i1" -> {b, c} [] e = "i2" -> {a, c}]
=============================================================================
