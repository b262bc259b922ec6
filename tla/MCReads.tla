------------------------------ MODULE MCReads ------------------------------
EXTENDS Reads

(* Calls with at most two nested calls each, two levels deep, and a few    *)
(* that go deeper.                                                         *)
Nest(S) == UNION {[1 .. n -> S] : n \in 0 .. 2}
Chain   == <<<<<<<<>>>>>>>>
MCCalls == Nest(Nest({<<>>})) \union {Chain, <<Chain, <<>>>>, <<<<>>, Chain>>, <<<<<<>>, <<>>>>, Chain>>}
=============================================================================
