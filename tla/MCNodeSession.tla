---------------------------- MODULE MCNodeSession ----------------------------
(***************************************************************************)
(* Constants for NodeSession: bytes of base 3. A 1 alone is a length of    *)
(* zero, and a 2 that of the shortest frame, which no command fits; a 3 is *)
(* marked, and begins frames of 3 bytes, the most that MaxFrame allows,    *)
(* lengths it refuses, and lengths without end.                            *)
(***************************************************************************)
EXTENDS NodeSession

CONSTANTS c1, c2
=============================================================================
