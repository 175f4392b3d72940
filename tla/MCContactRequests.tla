--------------------------- MODULE MCContactRequests ---------------------------
(***************************************************************************)
(* Constants for ContactRequests: two users who ask each other. They are   *)
(* not interchangeable for the queue's order, so no symmetry is used.      *)
(***************************************************************************)
EXTENDS ContactRequests

CONSTANTS a, b
=============================================================================
