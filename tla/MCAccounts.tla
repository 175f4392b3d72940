------------------------------ MODULE MCAccounts ------------------------------
(***************************************************************************)
(* Constants for Accounts: a login in two cases.                           *)
(***************************************************************************)
EXTENDS Accounts

CONSTANTS bob, BOB

FoldToLower == [l \in Login |-> bob]
=============================================================================
