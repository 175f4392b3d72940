----------------------------- MODULE MCChatSender -----------------------------
(***************************************************************************)
(* Constants for ChatSender: the peer may send each command an exchange    *)
(* waits for, at any time. Outside an exchange nothing reads what the last *)
(* one left in the globals before they are set again, and the view that    *)
(* tells states apart leaves it out.                                       *)
(***************************************************************************)
EXTENDS ChatSender

Awaited == {"23", "0F", "29", "10", "15", "13", "2B", "1E", "46", "27"}

Kept == <<db, insertIds, calls, acked, outcome, undeleted>>

View ==
  CASE pc \in {"idle", "connect", "load"} -> <<pc, Kept>>
    [] pc = "undo" -> <<pc, step, Kept>>
    [] OTHER -> <<vars>>
=============================================================================
