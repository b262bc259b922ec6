----------------------------- MODULE ChainLog ------------------------------
(***************************************************************************)
(* What the pipeline promises the readers of the database: block rows are  *)
(* only ever added, one at a time, and above START_HEIGHT each is the      *)
(* successor of the last one.                                              *)
(***************************************************************************)
EXTENDS Integers

CONSTANTS StartSet, StartVal

VARIABLE db  \* the heights of the block rows

LogInit == db = {}

(* The next block after the last one.                                      *)
Append1(h) ==
  /\ h = 1 \/ h - 1 \in db
  /\ \A x \in db : x < h

(* A block a process starting at START_HEIGHT begins with.                 *)
Early(h) == StartSet /\ h <= StartVal

LogNext == \E h \in db' \ db : db' = db \union {h} /\ (Append1(h) \/ Early(h))

Spec == LogInit /\ [][LogNext]_db
=============================================================================
