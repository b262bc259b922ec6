---------------------------- MODULE MCRichList ----------------------------
EXTENDS RichList

MCPatches == <<"v1.0.14", "v1.0.15">>

(* The module mints, pays a user, and is paid back; it also pays           *)
(* outside transactions.                                                   *)
Users    == Accounts \ Modules
MCHidden == Modules \X Users
MCMoves  == MCHidden \union (Users \X Modules) \union ({Zero} \X Modules)
=============================================================================
