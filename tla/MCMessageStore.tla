---------------------------- MODULE MCMessageStore ----------------------------
(***************************************************************************)
(* Constants for MessageStore: two accounts that list each other.          *)
(***************************************************************************)
EXTENDS MessageStore

CONSTANTS a, b

BothWays == {<<a, b>>, <<b, a>>}
OneWay == {<<a, b>>}
=============================================================================
