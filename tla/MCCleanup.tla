----------------------------- MODULE MCCleanup -----------------------------
EXTENDS Cleanup

(* Two transactions in the first block and one in each of the next two.    *)
(* In the first, carol occurs in `ret` only and its signer too; in the     *)
(* second bob does, and so does its signer.                                *)
CONSTANTS alice, bob, carol
MCAccounts == {alice, bob, carol}
MCHeight == [s \in Seqs |-> <<1, 1, 2, 3>>[s]]
MCSigner == [s \in Seqs |-> <<alice, carol, alice, alice>>[s]]
MCNamed  == [s \in Seqs |-> <<{bob}, {alice}, {bob}, {alice, carol}>>[s]]
MCRet    == [s \in Seqs |-> <<{alice, bob, carol}, {bob, carol}, {carol}, {bob}>>[s]]
=============================================================================
