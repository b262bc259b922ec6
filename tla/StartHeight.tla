---------------------------- MODULE StartHeight ----------------------------
(***************************************************************************)
(* indexer.go, computeStartHeight: where Indexer.Run resumes, from         *)
(*   dbNext     the height after the last block row in the database,       *)
(*   chainHead  the height a node reported when the process started,       *)
(*   startSet, startVal   the START_HEIGHT setting (a natural number).     *)
(***************************************************************************)
EXTENDS Integers

MinOf(a, b) == IF a <= b THEN a ELSE b
MaxOf(a, b) == IF a >= b THEN a ELSE b

computeStartHeight(dbNext, chainHead, startSet, startVal) ==
  IF ~startSet
  THEN dbNext
  ELSE MaxOf(dbNext, MinOf(chainHead, MaxOf(0, startVal)))
=============================================================================
