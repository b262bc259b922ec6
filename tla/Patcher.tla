------------------------------ MODULE Patcher ------------------------------
(***************************************************************************)
(* patcher.Patch: what an indexer does to the data when it starts, before  *)
(* it runs.  The patches are taken in order, each in a SERIALIZABLE        *)
(* transaction that looks up upgrade_history, applies the patch and adds   *)
(* its row to the history.  Several indexers may start together, and any   *)
(* of them may be killed anywhere.                                         *)
(*                                                                         *)
(* What a patch does to the tables is left to the modules that have them.  *)
(***************************************************************************)
EXTENDS Integers, Sequences

CONSTANTS
  Processes,
  Patches,   \* versions, oldest first
  MaxKills   \* bound: how often processes fail or are killed

ASSUME PatcherAssumption ==
  /\ Patches \in Seq(STRING)
  /\ \A i, j \in DOMAIN Patches : Patches[i] = Patches[j] => i = j
  /\ MaxKills \in Nat

VARIABLES
  applied,  \* upgrade_history
  patching, \* process -> [next : the patch it is at, saw : the history in its transaction, or NoTxn]
  runs,     \* history: version -> how often it was committed
  kills

patcherVars == <<applied, patching, runs, kills>>

Versions == {Patches[i] : i \in DOMAIN Patches}
NoTxn    == {"no transaction"}

Patched(p) == patching[p].next > Len(Patches)
version(p) == Patches[patching[p].next]

(* isApplied reads the history.                                            *)
PatchBegin(p) ==
  /\ ~Patched(p)
  /\ patching[p].saw = NoTxn
  /\ patching' = [patching EXCEPT ![p].saw = applied]
  /\ UNCHANGED <<applied, runs, kills>>

(* A patch that is applied is skipped.                                     *)
PatchSkip(p) ==
  /\ ~Patched(p)
  /\ patching[p].saw # NoTxn
  /\ version(p) \in patching[p].saw
  /\ patching' = [patching EXCEPT ![p] = [next |-> @.next + 1, saw |-> NoTxn]]
  /\ UNCHANGED <<applied, runs, kills>>

(* Bug: the row is created after the transaction, and the process dies.    *)
PatchCommitApart(p) ==
  /\ ~Patched(p)
  /\ patching[p].saw = applied
  /\ version(p) \notin applied
  /\ runs' = [runs EXCEPT ![version(p)] = @ + 1]
  /\ patching' = [patching EXCEPT ![p] = [next |-> 1, saw |-> NoTxn]]
  /\ UNCHANGED <<applied, kills>>

(* apply: the patch and its row are committed together, unless the history *)
(* that was read has changed (the transaction is then not serializable).   *)
PatchCommit(p) ==
  /\ ~Patched(p)
  /\ patching[p].saw = applied
  /\ version(p) \notin applied
  /\ applied' = applied \union {version(p)}
  /\ runs' = [runs EXCEPT ![version(p)] = @ + 1]
  /\ patching' = [patching EXCEPT ![p] = [next |-> @.next + 1, saw |-> NoTxn]]
  /\ UNCHANGED kills

(* Bug: the loop over the patches starts before the first.                 *)
PatchAgainAtZero(p) == patching' = [patching EXCEPT ![p] = [next |-> 0, saw |-> NoTxn]]

(* A process that starts again starts with the first patch.                *)
PatchAgain(p) == patching' = [patching EXCEPT ![p] = [next |-> 1, saw |-> NoTxn]]

(* Patch returns an error, and so does the command; or it is killed.       *)
PatcherKill(p) ==
  /\ kills < MaxKills
  /\ kills' = kills + 1
  /\ PatchAgain(p)
  /\ UNCHANGED <<applied, runs>>

(* Its transaction was not serializable: the command ends.                 *)
PatchConflict(p) ==
  /\ ~Patched(p)
  /\ patching[p].saw \notin {NoTxn, applied}
  /\ version(p) \notin patching[p].saw
  /\ PatchAgain(p)
  /\ UNCHANGED <<applied, runs, kills>>

(* A database of an older release has a prefix of the patches.             *)
PatcherInit ==
  /\ \E n \in 0 .. Len(Patches) : applied = {Patches[i] : i \in 1 .. n}
  /\ patching = [p \in Processes |-> [next |-> 1, saw |-> NoTxn]]
  /\ runs = [v \in Versions |-> 0]
  /\ kills = 0

(* Each patch is committed at most once, none before an older one, and a   *)
(* process runs only when all are, whoever else starts, fails or is killed *)
(* meanwhile (Patch, isApplied, apply).                                    *)
PatchesOnce ==
  /\ \A v \in Versions : runs[v] <= 1
  /\ \A i, j \in DOMAIN Patches : i < j /\ Patches[j] \in applied => Patches[i] \in applied
  /\ \A p \in Processes : Patched(p) => applied = Versions
=============================================================================
