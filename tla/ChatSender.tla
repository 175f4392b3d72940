------------------------------ MODULE ChatSender ------------------------------
(***************************************************************************)
(* The message sender of skypeopensource2 (goodsendrelay4_dll; the files   *)
(* of goodsendrelay3 it shares are the same): one call of relaysend_main   *)
(* sends one message to one peer over a relay and keeps main.db, the       *)
(* tables Messages and Chats, in step. Each access to main.db opens the    *)
(* file, runs one statement and closes it, and is one step that may fail.  *)
(*                                                                         *)
(* The peer may send any command at any time, several in one reception.    *)
(* Header ids, checksums and chat strings only shape what is sent and      *)
(* stored; they are left out, and a row is its id, its call and its kind.  *)
(* So is a first keep-alive packet, which changes nothing.                 *)
(***************************************************************************)
EXTENDS Integers, Sequences, FiniteSets

CONSTANTS
  MaxCalls,   \* bound on the calls of relaysend in a behaviour
  Sent,       \* the chat commands a peer may send
  Spare       \* bound on the commands of a call beyond those it waits for

ASSUME SenderAssumption == MaxCalls \in Nat /\ Spare \in Nat

VARIABLES
  messages,   \* the rows of Messages
  lastId,     \* the id AUTOINCREMENT gave out last, in sqlite_sequence
  chats,      \* how many rows of Chats name this peer and this user
  pc,         \* where the call is, "idle" between calls
  mode,       \* which exchange the call runs
  step,       \* the wait of the exchange it is in, or the removal of the undo
  inBatch,    \* whether a reception is being taken apart
  commands,   \* RECV_CHAT_COMMANDS, each with its place among those received
  insertIds,  \* insert_id[0 .. insert_id_len)
  needSync,   \* global_cmd10_needsync_flag
  calls,      \* history: the number of calls so far
  received,   \* history: the commands received in this call
  matched,    \* history: the commands this call's waits have found
  acked,      \* history: the calls whose message body the peer confirmed
  outcome,    \* history: how each call ended
  undeleted   \* history: the rows an undo failed to delete

db == <<messages, lastId, chats>>
globals == <<commands, insertIds, needSync>>
history == <<calls, received, matched, acked, outcome, undeleted>>
vars == <<db, pc, mode, step, inBatch, globals, history>>

Call == 1 .. MaxCalls
Kind == {"service", "text", "peer"}
Receiving == {"wait", "closing", "reply", "final"}
Mode == {"new", "restore", "sync"}

\* The commands the exchanges wait for, in order.
Waits ==
  [new |-> <<"23", "0F", "29", "10", "15", "10", "13", "2B", "1E", "46", "27">>,
   restore |-> <<"0F", "10", "15", "10", "27">>,
   sync |-> <<"0F", "10", "15", "10", "13", "46", "27">>]

\* The wait that the peer's confirmation of the message body ends.
BodyConfirmed == [new |-> 6, restore |-> 4, sync |-> 4]

Init ==
  /\ messages = {} /\ lastId = 0 /\ chats = 0
  /\ pc = "idle" /\ mode = "new" /\ step = 1 /\ inBatch = FALSE
  /\ commands = <<>> /\ insertIds = <<>> /\ needSync = FALSE
  /\ calls = 0 /\ received = 0 /\ matched = <<>>
  /\ acked = {} /\ outcome = [c \in Call |-> "none"] /\ undeleted = {}

End(result) ==
  /\ pc' = "idle"
  /\ outcome' = [outcome EXCEPT ![calls] = result]

\* What a negative return of the exchange leads to: remove_messages_from_db.
Undo == pc' = "undo" /\ step' = 1

-----------------------------------------------------------------------------
(***************************************************************************)
(* relaysend_main resets the globals, reaches the peer through one of its  *)
(* vcards, and runs make_tcp_client_sess1_pkt4: a stored chat is restored, *)
(* otherwise a new one is opened. A call that never gets that far returns  *)
(* without touching main.db.                                               *)
(***************************************************************************)
StartKeepingIds ==
  /\ pc = "idle" /\ calls < MaxCalls
  /\ calls' = calls + 1
  /\ pc' = "connect"
  /\ commands' = <<>> /\ insertIds' = insertIds /\ needSync' = FALSE
  /\ inBatch' = FALSE /\ received' = 0 /\ matched' = <<>>
  /\ UNCHANGED <<db, mode, step, acked, outcome, undeleted>>

Start ==
  /\ pc = "idle" /\ calls < MaxCalls
  /\ calls' = calls + 1
  /\ pc' = "connect"
  /\ commands' = <<>> /\ insertIds' = <<>> /\ needSync' = FALSE
  /\ inBatch' = FALSE /\ received' = 0 /\ matched' = <<>>
  /\ UNCHANGED <<db, mode, step, acked, outcome, undeleted>>

Connect ==
  /\ pc = "connect"
  /\ \/ pc' = "load" /\ UNCHANGED outcome
     \/ End("failed")
  /\ UNCHANGED <<db, mode, step, inBatch, globals,
                 calls, received, matched, acked, undeleted>>

LoadChatOrNone ==
  /\ pc = "load"
  /\ \/ /\ chats > 0
        /\ mode' = "restore" /\ pc' = "wait" /\ step' = 1
     \/ mode' = "new" /\ pc' = "saveService" /\ step' = 1
  /\ UNCHANGED <<db, inBatch, globals, history>>

\* do_get_chatinit.
LoadChat ==
  /\ pc = "load"
  /\ \/ /\ chats > 0
        /\ mode' = "restore" /\ pc' = "wait" /\ step' = 1
     \/ /\ chats = 0
        /\ mode' = "new" /\ pc' = "saveService" /\ step' = 1
     \/ Undo /\ UNCHANGED mode
  /\ UNCHANGED <<db, inBatch, globals, history>>

-----------------------------------------------------------------------------
(***************************************************************************)
(* save_message_to_db. A new chat saves its service row and the message    *)
(* before it sends anything, a restored one saves the message after its    *)
(* second wait. Signing its block before that may fail as a save may.      *)
(***************************************************************************)
InsertFresh(kind) ==
  /\ lastId' = Cardinality(messages) + 1
  /\ messages' = messages \cup
       {[id |-> Cardinality(messages) + 1, call |-> calls, kind |-> kind]}
  /\ insertIds' = Append(insertIds, Cardinality(messages) + 1)
  /\ UNCHANGED <<chats, undeleted>>

Insert(kind) ==
  /\ lastId' = lastId + 1
  /\ messages' = messages \cup {[id |-> lastId + 1, call |-> calls, kind |-> kind]}
  /\ insertIds' = Append(insertIds, lastId + 1)
  /\ UNCHANGED <<chats, undeleted>>

SaveRow(kind, next) ==
  /\ \/ Insert(kind) /\ pc' = next /\ UNCHANGED step
     \/ Undo /\ UNCHANGED <<db, insertIds, undeleted>>
  /\ UNCHANGED <<mode, inBatch, commands, needSync,
                 calls, received, matched, acked, outcome>>

SaveService == pc = "saveService" /\ SaveRow("service", "saveText")

SaveText == pc = "saveText" /\ SaveRow("text", "wait")

-----------------------------------------------------------------------------
(***************************************************************************)
(* The waits. check_commands_array looks for the awaited command among     *)
(* those received, and drops what came before it; the command itself stays *)
(* in front. While there is none, another reception is taken.              *)
(***************************************************************************)
Found == {i \in 1 .. Len(commands) : commands[i].cmd = Waits[mode][step]}

KeepAll(i) == UNCHANGED commands

Keep(i) == commands' = SubSeq(commands, i, Len(commands))

AfterWaits(m) == IF m = "restore" THEN "reply" ELSE "closing"

\* The waits whose command is answered with a signed block, which may fail to be made.
SignsAfter == [new |-> {1, 4, 5}, restore |-> {3}, sync |-> {}]

\* What follows the wait: the next one, with a save or a flag in between, or the close.
Advance ==
  LET m == IF mode = "restore" /\ step = 4 /\ needSync THEN "sync" ELSE mode
  IN /\ mode' = m
     /\ needSync' = (needSync /\ ~(mode = "restore" /\ step = 3))
     /\ \/ /\ step = Len(Waits[m])
           /\ pc' = AfterWaits(m) /\ UNCHANGED step
        \/ /\ step < Len(Waits[m])
           /\ step' = step + 1
           /\ pc' = IF m = "restore" /\ step = 2 THEN "saveText" ELSE "wait"
        \/ step \in SignsAfter[m] /\ Undo

Match ==
  /\ pc = "wait" /\ ~inBatch
  /\ \E i \in Found :
       /\ \A j \in Found : i <= j
       /\ Keep(i)
       /\ matched' = Append(matched, commands[i])
  /\ Advance
  /\ acked' = IF step = BodyConfirmed[mode] THEN acked \cup {calls} ELSE acked
  /\ UNCHANGED <<db, inBatch, insertIds, calls, received, outcome, undeleted>>

-----------------------------------------------------------------------------
(***************************************************************************)
(* make_tcp_client_sess1_recv_loop and on_recv_A6_6D. A reception carries  *)
(* any number of commands, taken one by one; the headers (13) of a peer in *)
(* a new chat save a row of the peer's. What ends a reception with an      *)
(* error ends the call, except in the loop that waits for the close.       *)
(***************************************************************************)
MayReceive ==
  /\ pc \in Receiving
  /\ inBatch \/ pc # "wait" \/ Found = {}

ReceptionFails ==
  /\ inBatch' = FALSE
  /\ IF pc = "closing" THEN pc' = "final" /\ UNCHANGED step ELSE Undo

Command(cmd) ==
  /\ MayReceive
  /\ received < Len(matched) + Spare + (IF pc = "wait" THEN 1 ELSE 0)
  /\ received' = received + 1
  /\ commands' = Append(commands, [cmd |-> cmd, at |-> received + 1])
  /\ needSync' \in IF cmd = "10" THEN {needSync, TRUE} ELSE {needSync}
  /\ \/ /\ cmd = "13" /\ mode = "new"
        /\ \/ Insert("peer") /\ inBatch' = TRUE /\ UNCHANGED <<pc, step>>
           \/ ReceptionFails /\ UNCHANGED <<db, insertIds, undeleted>>
     \/ inBatch' = TRUE /\ UNCHANGED <<db, pc, step, insertIds, undeleted>>
  /\ UNCHANGED <<mode, calls, matched, acked, outcome>>

\* The peer closed the connection, sent the close packet, an unsupported command or
\* bytes out of step, or the relay a second keep-alive packet.
BadReception ==
  /\ MayReceive
  /\ ReceptionFails
  /\ UNCHANGED <<db, mode, globals, history>>

EndReception ==
  /\ pc \in Receiving
  /\ inBatch \/ pc \in {"reply", "final"}
  /\ inBatch' = FALSE
  /\ pc' = CASE pc = "reply" -> "final"
             [] pc = "final" -> IF mode = "new" THEN "saveChat" ELSE "succeeded"
             [] OTHER -> pc
  /\ UNCHANGED <<db, mode, step, globals, history>>

-----------------------------------------------------------------------------
(***************************************************************************)
(* The end of a call. The result of save_chatstring_to_db is not looked    *)
(* at, nor is that of remove_from_db but for the last row.                 *)
(***************************************************************************)
SaveChat ==
  /\ pc = "saveChat"
  /\ chats' \in {chats, chats + 1}
  /\ pc' = "succeeded"
  /\ UNCHANGED <<messages, lastId, mode, step, inBatch, globals, history>>

Succeed ==
  /\ pc = "succeeded"
  /\ End("ok")
  /\ UNCHANGED <<db, mode, step, inBatch, globals,
                 calls, received, matched, acked, undeleted>>

RowsOf(id) == {r \in messages : r.id = id}

RemoveRow ==
  /\ pc = "undo" /\ step <= Len(insertIds)
  /\ step' = step + 1
  /\ \/ messages' = messages \ RowsOf(insertIds[step]) /\ UNCHANGED undeleted
     \/ undeleted' = undeleted \cup {insertIds[step]} /\ UNCHANGED messages
  /\ UNCHANGED <<lastId, chats, pc, mode, inBatch, globals,
                 calls, received, matched, acked, outcome>>

UndoneEarly ==
  /\ pc = "undo" /\ step >= Len(insertIds)
  /\ End("failed")
  /\ UNCHANGED <<db, mode, step, inBatch, globals,
                 calls, received, matched, acked, undeleted>>

Undone ==
  /\ pc = "undo" /\ step > Len(insertIds)
  /\ End("failed")
  /\ UNCHANGED <<db, mode, step, inBatch, globals,
                 calls, received, matched, acked, undeleted>>

\* The process is killed: its globals are gone, main.db stays.
Kill ==
  /\ pc # "idle"
  /\ End("killed")
  /\ mode' = "new" /\ step' = 1 /\ inBatch' = FALSE
  /\ commands' = <<>> /\ insertIds' = <<>> /\ needSync' = FALSE
  /\ UNCHANGED <<db, calls, received, matched, acked, undeleted>>

Next ==
  \/ Start \/ Connect \/ LoadChat \/ SaveService \/ SaveText
  \/ Match
  \/ \E cmd \in Sent : Command(cmd)
  \/ BadReception \/ EndReception
  \/ SaveChat \/ Succeed \/ RemoveRow \/ Undone \/ Kill

Spec == Init /\ [][Next]_vars

-----------------------------------------------------------------------------
(***************************************************************************)
(* Properties.                                                             *)
(***************************************************************************)
\* The types, and ids: no two rows share one and none is above the last.
TypeOK ==
  /\ messages \subseteq [id : 1 .. lastId, call : Call, kind : Kind]
  /\ \A r, s \in messages : r.id = s.id => r = s
  /\ lastId \in Nat /\ chats \in Nat
  /\ pc \in Receiving \cup {"idle", "connect", "load", "saveService", "saveText",
                            "saveChat", "succeeded", "undo"}
  /\ mode \in Mode /\ step \in Nat \ {0}
  /\ inBatch \in BOOLEAN /\ needSync \in BOOLEAN
  /\ commands \in Seq([cmd : Sent, at : Nat])
  /\ matched \in Seq([cmd : Sent, at : Nat])
  /\ insertIds \in Seq(1 .. lastId)
  /\ calls \in 0 .. MaxCalls /\ received \in Nat
  /\ acked \subseteq Call /\ undeleted \subseteq 1 .. lastId
  /\ outcome \in [Call -> {"none", "ok", "failed", "killed"}]

\* A message whose call returned success is in Messages and stays: no later call
\* that fails, on any error path, undoes a row that is not its own.
SentIsStored ==
  \A c \in Call : outcome[c] = "ok" =>
    \E r \in messages : r.call = c /\ r.kind = "text"

\* A call that failed leaves no row behind, wherever it failed and whatever rows its
\* peer had made it save, but for those whose own deletion failed.
FailedRowsGo ==
  \A r \in messages : outcome[r.call] = "failed" => r.id \in undeleted

\* The exchange runs in step with the peer: the waits are ended by the commands of the
\* exchange in its order, each received after the one before it, so that an answer to
\* an earlier request never passes for the answer to a later one.
ScriptInOrder ==
  /\ \A i, j \in 1 .. Len(matched) : i < j => matched[i].at < matched[j].at
  /\ pc \in {"closing", "reply", "final", "saveChat", "succeeded"} =>
       [i \in 1 .. Len(matched) |-> matched[i].cmd] = Waits[mode]

\* A pair of users has one chat at most: no failure between the calls, in reading
\* Chats or before writing it, makes a later call store a second.
OneChat == chats <= 1

\* "if got HEADER_ID_SEND in cmd10 msg sended ok" (chatsend_restorechat.c): the row of
\* a message the peer confirmed is kept. The code removes it when a later step fails.
AcknowledgedIsKept ==
  \A c \in acked : \E r \in messages : r.call = c /\ r.kind = "text"

=============================================================================
