--------------------------- MODULE MCRecordDirectory ---------------------------
(***************************************************************************)
(* Constants for RecordDirectory: users and sessions that are alike.       *)
(***************************************************************************)
EXTENDS RecordDirectory, TLC

CONSTANTS a, b, h1, h2, h3

Alike == Permutations(Handler)
=============================================================================
