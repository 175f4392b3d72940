--------------------------- MODULE ChatSenderProofs ---------------------------
(***************************************************************************)
(* Theorems about ChatSender, for every number of calls, every set of      *)
(* commands a peer may send, and any number of them.                       *)
(***************************************************************************)
EXTENDS ChatSender, SequenceTheorems, TLAPS

(***************************************************************************)
(* The call in progress is the last, and has not ended.                    *)
(***************************************************************************)
CallsInOrder ==
  /\ \A r \in messages : r.call <= calls
  /\ \A c \in Call : c > calls => outcome[c] = "none"
  /\ pc # "idle" => calls \in Call /\ outcome[calls] = "none"

(***************************************************************************)
(* insert_id names the rows of the call in progress, all of them and no    *)
(* others.                                                                 *)
(***************************************************************************)
Tracked ==
  /\ pc \in {"connect", "load"} => insertIds = <<>>
  /\ pc # "idle" =>
       /\ \A r \in messages : r.call = calls =>
            \E i \in 1 .. Len(insertIds) : insertIds[i] = r.id
       /\ \A r \in messages : \A i \in 1 .. Len(insertIds) :
            insertIds[i] = r.id => r.call = calls

(***************************************************************************)
(* The undo has removed the rows it went through, or failed to.            *)
(***************************************************************************)
UndoneSoFar ==
  pc = "undo" => \A r \in messages : \A i \in 1 .. Len(insertIds) :
                   i < step /\ insertIds[i] = r.id => r.id \in undeleted

(***************************************************************************)
(* From where on a call has stored its message.                            *)
(***************************************************************************)
TextDue ==
  \/ pc \in {"closing", "reply", "final", "saveChat", "succeeded"}
  \/ pc = "wait" /\ (mode = "restore" => step > 2)

HasText(c) == \E r \in messages : r.call = c /\ r.kind = "text"

TextStored ==
  /\ TextDue => HasText(calls)
  /\ pc = "saveText" => (mode = "restore" => step > 2)

(***************************************************************************)
(* A new chat is opened only while none is stored.                         *)
(***************************************************************************)
ChatNew ==
  /\ pc \in {"saveService", "saveText", "saveChat"} \cup Receiving /\ mode = "new" => chats = 0
  /\ pc \in {"saveService", "saveChat"} => mode = "new"

IInv ==
  /\ TypeOK
  /\ CallsInOrder /\ Tracked /\ UndoneSoFar /\ TextStored /\ ChatNew
  /\ SentIsStored /\ FailedRowsGo /\ OneChat

LEMMA InitInv == Init => IInv
<1> SUFFICES ASSUME Init PROVE IInv
  OBVIOUS
<1>1. TypeOK
  <2>1. commands \in Seq([cmd : Sent, at : Nat]) /\ matched \in Seq([cmd : Sent, at : Nat])
        /\ insertIds \in Seq(1 .. lastId)
    BY EmptySeq DEF Init
  <2>2. messages \subseteq [id : 1 .. lastId, call : Call, kind : Kind]
        /\ acked \subseteq Call /\ undeleted \subseteq 1 .. lastId
        /\ outcome \in [Call -> {"none", "ok", "failed", "killed"}]
    BY DEF Init
  <2>3. /\ lastId = 0 /\ chats = 0 /\ pc = "idle" /\ mode \in Mode /\ step = 1 /\ messages = {}
        /\ calls \in 0 .. MaxCalls /\ received = 0
    BY SenderAssumption DEF Init, Mode
  <2>4. inBatch \in BOOLEAN /\ needSync \in BOOLEAN
    BY Zenon DEF Init
  <2> QED BY <2>1, <2>2, <2>3, <2>4 DEF TypeOK
<1> QED
  BY <1>1 DEF Init, IInv, CallsInOrder, Tracked, UndoneSoFar, TextStored, TextDue, ChatNew,
              SentIsStored, FailedRowsGo, OneChat, Receiving, Call

-----------------------------------------------------------------------------
(***************************************************************************)
(* What a step within a call keeps of the rows, whether it leaves them     *)
(* alone or adds one.                                                      *)
(***************************************************************************)
RowsKept == CallsInOrder' /\ Tracked' /\ SentIsStored' /\ FailedRowsGo'

LEMMA QuietStep ==
  ASSUME IInv, UNCHANGED <<messages, insertIds, calls, outcome, undeleted>>,
         pc # "idle", pc' \notin {"idle", "connect", "load"}
  PROVE  RowsKept /\ (HasText(calls) => HasText(calls)')
  BY DEF IInv, RowsKept, CallsInOrder, Tracked, SentIsStored, FailedRowsGo, HasText

\* The row Insert adds.
LEMMA InsertedRow ==
  ASSUME IInv, NEW kind \in Kind, Insert(kind), pc # "idle"
  PROVE  /\ messages' \subseteq [id : 1 .. lastId', call : Call, kind : Kind]
         /\ \A r, s \in messages' : r.id = s.id => r = s
         /\ lastId' \in Nat /\ undeleted' \subseteq 1 .. lastId'
         /\ insertIds' \in Seq(1 .. lastId')
         /\ Len(insertIds') = Len(insertIds) + 1
         /\ \A i \in 1 .. Len(insertIds) : insertIds'[i] = insertIds[i]
         /\ insertIds'[Len(insertIds) + 1] = lastId + 1
<1> DEFINE row == [id |-> lastId + 1, call |-> calls, kind |-> kind]
<1>1. TypeOK /\ lastId \in Nat /\ lastId' = lastId + 1 /\ lastId' \in Nat /\ calls \in Call
  BY DEF IInv, TypeOK, Insert, CallsInOrder
<1>2. 1 .. lastId \subseteq 1 .. lastId' /\ lastId + 1 \in 1 .. lastId' /\ lastId + 1 \notin 1 .. lastId
  BY <1>1
<1>3. messages' = messages \cup {row} /\ row.id = lastId + 1
      /\ row \in [id : 1 .. lastId', call : Call, kind : Kind]
  BY <1>1, <1>2 DEF Insert
<1>4. \A r \in messages : r \in [id : 1 .. lastId', call : Call, kind : Kind] /\ r.id # lastId + 1
  BY <1>1, <1>2 DEF TypeOK
<1> HIDE DEF row
<1>5. /\ messages' \subseteq [id : 1 .. lastId', call : Call, kind : Kind]
      /\ \A r, s \in messages' : r.id = s.id => r = s
  BY <1>1, <1>3, <1>4 DEF TypeOK
<1>6. insertIds \in Seq(1 .. lastId')
  <2>1. insertIds \in Seq(1 .. lastId)
    BY <1>1 DEF TypeOK
  <2> QED BY <1>2, <2>1, SeqMonotonic
<1>7. insertIds' = Append(insertIds, lastId + 1) /\ undeleted' = undeleted
  BY DEF Insert
<1>8. undeleted' \subseteq 1 .. lastId'
  BY <1>1, <1>2, <1>7 DEF TypeOK
<1> QED BY <1>1, <1>2, <1>5, <1>6, <1>7, <1>8, AppendProperties

LEMMA InsertStep ==
  ASSUME IInv, NEW kind \in Kind, Insert(kind), UNCHANGED <<calls, outcome>>,
         pc \notin {"idle", "connect", "load"}, pc' \notin {"idle", "connect", "load"}
  PROVE  /\ RowsKept /\ (HasText(calls) => HasText(calls)')
         /\ kind = "text" => HasText(calls)'
<1> DEFINE row == [id |-> lastId + 1, call |-> calls, kind |-> kind]
<1>1. /\ messages' = messages \cup {row} /\ row.id = lastId + 1 /\ row.call = calls
      /\ row.kind = kind /\ undeleted' = undeleted /\ UNCHANGED <<calls, outcome>>
  BY DEF Insert
<1> HIDE DEF row
<1>2. calls \in Call /\ calls \in Nat /\ outcome[calls] = "none"
  BY SenderAssumption DEF IInv, CallsInOrder, Call
<1>3. CallsInOrder' /\ SentIsStored' /\ FailedRowsGo' /\ (HasText(calls) => HasText(calls)')
  BY <1>1, <1>2 DEF IInv, CallsInOrder, SentIsStored, FailedRowsGo, HasText
<1>4. kind = "text" => HasText(calls)'
  BY <1>1 DEF HasText
<1>5. Tracked'
  <2>1. /\ insertIds \in Seq(1 .. lastId) /\ lastId \in Nat /\ Len(insertIds) \in Nat
        /\ \A r \in messages : r.id \in 1 .. lastId
    BY DEF IInv, TypeOK
  <2>2. /\ Len(insertIds') = Len(insertIds) + 1
        /\ \A i \in 1 .. Len(insertIds) : insertIds'[i] = insertIds[i]
        /\ insertIds'[Len(insertIds) + 1] = lastId + 1
    BY InsertedRow
  <2>3. /\ \A r \in messages : r.call = calls =>
             \E i \in 1 .. Len(insertIds) : insertIds[i] = r.id
        /\ \A r \in messages : \A i \in 1 .. Len(insertIds) :
             insertIds[i] = r.id => r.call = calls
    BY DEF IInv, Tracked
  <2>4. ASSUME NEW r \in messages', r.call = calls
        PROVE  \E i \in 1 .. Len(insertIds') : insertIds'[i] = r.id
    <3>1. CASE r = row
      BY <1>1, <2>1, <2>2, <3>1
    <3>2. CASE r \in messages
      BY <2>1, <2>2, <2>3, <2>4, <3>2
    <3> QED BY <1>1, <3>1, <3>2
  <2>5. ASSUME NEW r \in messages', NEW i \in 1 .. Len(insertIds'), insertIds'[i] = r.id
        PROVE  r.call = calls
    <3>1. CASE r = row
      BY <1>1, <3>1
    <3>2. CASE r \in messages
      <4>1. i \in 1 .. Len(insertIds)
        <5>1. r.id # lastId + 1
          BY <2>1, <3>2
        <5>2. i # Len(insertIds) + 1
          BY <2>2, <2>5, <5>1
        <5> QED BY <2>1, <2>2, <5>2
      <4>2. insertIds[i] = r.id
        BY <2>2, <2>5, <4>1
      <4> QED BY <2>3, <3>2, <4>1, <4>2
    <3> QED BY <1>1, <3>1, <3>2
  <2> QED BY <1>1, <2>4, <2>5 DEF Tracked
<1> QED BY <1>3, <1>4, <1>5 DEF RowsKept

-----------------------------------------------------------------------------
\* The Booleans of a step, which only the first-order prover handles.
Flags == inBatch \in BOOLEAN /\ needSync \in BOOLEAN

LEMMA StartStep == ASSUME IInv, Start PROVE IInv'
<1>1. /\ calls' = calls + 1 /\ calls' \in Call /\ calls' \in 0 .. MaxCalls /\ calls \in Nat
      /\ pc' = "connect" /\ UNCHANGED <<messages, lastId, chats, mode, step, acked, outcome, undeleted>>
      /\ insertIds' = <<>> /\ commands' = <<>> /\ matched' = <<>> /\ received' = 0
  BY SenderAssumption DEF IInv, TypeOK, Start, Call, db
<1>2. commands' \in Seq([cmd : Sent, at : Nat]) /\ matched' \in Seq([cmd : Sent, at : Nat])
      /\ insertIds' \in Seq(1 .. lastId) /\ Len(insertIds') = 0
  BY <1>1, EmptySeq
<1>3. Flags'
  BY Zenon DEF Start, Flags
<1>4. TypeOK'
  BY <1>1, <1>2, <1>3 DEF IInv, TypeOK, Flags
<1>5. CallsInOrder' /\ Tracked'
  BY <1>1, <1>2 DEF IInv, CallsInOrder, Tracked, Call, TypeOK
<1> QED
  BY <1>1, <1>4, <1>5
  DEF IInv, UndoneSoFar, TextStored, TextDue, ChatNew, SentIsStored, FailedRowsGo, OneChat, Receiving

\* What the end of a call does to the outcomes.
LEMMA EndOutcome ==
  ASSUME IInv, NEW result \in {"ok", "failed", "killed"}, End(result), pc # "idle"
  PROVE  /\ outcome' \in [Call -> {"none", "ok", "failed", "killed"}]
         /\ \A c \in Call : c # calls => outcome'[c] = outcome[c]
         /\ outcome'[calls] = result /\ calls \in Call
  BY DEF End, IInv, TypeOK, CallsInOrder

LEMMA ConnectStep == ASSUME IInv, Connect PROVE IInv'
<1>1. /\ pc = "connect" /\ calls \in Call /\ outcome[calls] = "none"
      /\ UNCHANGED <<messages, lastId, chats, insertIds, calls, mode, step, undeleted,
                     commands, matched, received, acked>>
  BY DEF Connect, IInv, CallsInOrder, db, globals
<1>2. Len(insertIds) = 0
  BY <1>1, EmptySeq DEF IInv, Tracked
<1>3. \A r \in messages : r.call # calls
  BY <1>1, <1>2 DEF IInv, Tracked
<1>4. \/ pc' = "load" /\ outcome' = outcome
      \/ pc' = "idle" /\ End("failed")
  BY DEF Connect, End
<1>5. Flags'
  BY Zenon DEF Connect, Flags, globals, IInv, TypeOK
<1>6. /\ outcome' \in [Call -> {"none", "ok", "failed", "killed"}]
      /\ \A c \in Call : c # calls => outcome'[c] = outcome[c]
      /\ pc' = "load" => outcome' = outcome
      /\ outcome'[calls] \in {"none", "failed"}
  BY <1>1, <1>4, EndOutcome DEF IInv, TypeOK
<1>7. TypeOK'
  BY <1>1, <1>4, <1>5, <1>6 DEF IInv, TypeOK, Flags, End
<1>8. CallsInOrder'
  BY <1>1, <1>4, <1>6 DEF IInv, TypeOK, CallsInOrder, End
<1>9. Tracked'
  BY <1>1, <1>4 DEF IInv, Tracked, End
<1>10. SentIsStored' /\ FailedRowsGo'
  <2>1. \A r \in messages : r.call \in Call
    BY DEF IInv, TypeOK
  <2> QED BY <1>1, <1>3, <1>6, <2>1 DEF IInv, SentIsStored, FailedRowsGo
<1> QED
  BY <1>1, <1>4, <1>7, <1>8, <1>9, <1>10
  DEF IInv, UndoneSoFar, TextStored, TextDue, ChatNew, OneChat, Receiving, End

LEMMA LoadChatStep == ASSUME IInv, LoadChat PROVE IInv'
<1>1. /\ pc = "load" /\ pc' \in {"wait", "saveService", "undo"} /\ step' = 1
      /\ UNCHANGED <<messages, lastId, chats, insertIds, calls, outcome, undeleted,
                     commands, matched, received, acked>>
      /\ mode' \in Mode
      /\ pc' = "wait" => mode' = "restore"
      /\ pc' = "saveService" => chats = 0 /\ mode' = "new"
  BY DEF LoadChat, Undo, db, globals, history, IInv, TypeOK, Mode
<1>2. Flags'
  BY Zenon DEF LoadChat, Flags, globals, IInv, TypeOK
<1>3. TypeOK'
  BY <1>1, <1>2 DEF IInv, TypeOK, Flags, Receiving
<1>4. RowsKept
  BY <1>1, QuietStep
<1> QED
  BY <1>1, <1>3, <1>4
  DEF RowsKept, IInv, UndoneSoFar, TextStored, TextDue, ChatNew, OneChat, Receiving

\* What a save does, and what it leaves to prove.
LEMMA SaveRowStep ==
  ASSUME IInv, NEW kind \in {"service", "text"}, NEW next, SaveRow(kind, next),
         \/ pc = "saveService" /\ next = "saveText" /\ kind = "service"
         \/ pc = "saveText" /\ next = "wait" /\ kind = "text"
  PROVE  IInv'
<1>1. /\ kind \in Kind /\ UNCHANGED <<mode, commands, calls, received, matched, acked, outcome, chats>>
      /\ next \in {"wait", "saveText"}
  BY DEF SaveRow, Kind, Insert, db
<1>2. Flags'
  BY Zenon DEF SaveRow, Flags, IInv, TypeOK
<1>3. pc \in {"saveService", "saveText"} /\ mode \in Mode
  BY DEF IInv, TypeOK
<1>4. CASE Insert(kind) /\ pc' = next /\ UNCHANGED step
  <2>1. TypeOK'
    BY <1>1, <1>2, <1>3, <1>4, InsertedRow DEF IInv, TypeOK, Flags, Receiving
  <2>2. RowsKept /\ (kind = "text" => HasText(calls)')
    BY <1>1, <1>3, <1>4, InsertStep
  <2>3. TextStored'
    BY <1>1, <1>3, <1>4, <2>2 DEF IInv, TextStored, TextDue, ChatNew
  <2> QED
    BY <1>1, <1>3, <1>4, <2>1, <2>2, <2>3
    DEF RowsKept, IInv, UndoneSoFar, ChatNew, OneChat, Receiving
<1>5. CASE Undo /\ UNCHANGED <<db, insertIds, undeleted>>
  <2>1. pc' = "undo" /\ step' = 1 /\ UNCHANGED <<messages, lastId, chats, insertIds, undeleted>>
    BY <1>5 DEF Undo, db
  <2>2. TypeOK'
    BY <1>1, <1>2, <2>1 DEF IInv, TypeOK, Flags
  <2>3. RowsKept
    BY <1>1, <1>3, <2>1, QuietStep
  <2> QED
    BY <1>1, <2>1, <2>2, <2>3
    DEF RowsKept, IInv, UndoneSoFar, TextStored, TextDue, ChatNew, OneChat, Receiving
<1> QED BY <1>4, <1>5 DEF SaveRow

-----------------------------------------------------------------------------
\* How many commands each exchange waits for.
LEMMA WaitsLengths ==
  Len(Waits["new"]) = 11 /\ Len(Waits["restore"]) = 5 /\ Len(Waits["sync"]) = 7
  BY DEF Waits

\* What an error on reception leads to.
LEMMA ReceptionFailsStep ==
  ASSUME IInv, ReceptionFails, pc \in Receiving, TypeOK',
         UNCHANGED <<messages, chats, insertIds, calls, outcome, undeleted, mode>>
  PROVE  IInv'
<1>1. \/ pc = "closing" /\ pc' = "final" /\ UNCHANGED step
      \/ pc' = "undo" /\ step' = 1
  BY DEF ReceptionFails, Undo
<1>2. RowsKept /\ (HasText(calls) => HasText(calls)')
  BY <1>1, QuietStep DEF Receiving
<1>3. TextStored'
  BY <1>1, <1>2 DEF IInv, TextStored, TextDue
<1> QED
  BY <1>1, <1>2, <1>3 DEF RowsKept, IInv, UndoneSoFar, ChatNew, OneChat, Receiving

LEMMA BadReceptionStep == ASSUME IInv, BadReception PROVE IInv'
<1>1. /\ UNCHANGED <<messages, lastId, chats, mode, commands, insertIds, needSync,
                     calls, received, matched, acked, outcome, undeleted>>
      /\ pc \in Receiving /\ ReceptionFails
  BY DEF BadReception, MayReceive, db, globals, history
<1>2. pc' \in {"final", "undo"} /\ step' \in Nat \ {0}
  BY <1>1 DEF ReceptionFails, Undo, IInv, TypeOK
<1>3. Flags'
  BY Zenon DEF BadReception, ReceptionFails, globals, Flags, IInv, TypeOK
<1>4. TypeOK'
  BY <1>1, <1>2, <1>3 DEF IInv, TypeOK, Flags, Receiving
<1> QED BY <1>1, <1>4, ReceptionFailsStep

LEMMA CommandStep == ASSUME IInv, NEW cmd \in Sent, Command(cmd) PROVE IInv'
<1>1. /\ pc \in Receiving /\ received \in Nat /\ received' = received + 1
      /\ commands' = Append(commands, [cmd |-> cmd, at |-> received + 1])
      /\ UNCHANGED <<mode, calls, matched, acked, outcome>>
      /\ commands \in Seq([cmd : Sent, at : Nat])
  BY DEF Command, MayReceive, IInv, TypeOK
<1>2. commands' \in Seq([cmd : Sent, at : Nat])
  BY <1>1, AppendProperties
<1>3. Flags'
  BY Zenon DEF Command, ReceptionFails, Flags, IInv, TypeOK
<1>4. CASE /\ cmd = "13" /\ mode = "new" /\ Insert("peer") /\ UNCHANGED <<pc, step>>
  <2>1. UNCHANGED chats /\ "peer" \in Kind
    BY <1>4 DEF Insert, Kind
  <2>2. TypeOK'
    BY <1>1, <1>2, <1>3, <1>4, <2>1, InsertedRow DEF IInv, TypeOK, Flags, Receiving
  <2>3. RowsKept /\ (HasText(calls) => HasText(calls)')
    BY <1>1, <1>4, <2>1, InsertStep DEF Receiving
  <2> QED
    BY <1>1, <1>4, <2>1, <2>2, <2>3
    DEF RowsKept, IInv, UndoneSoFar, TextStored, TextDue, ChatNew, OneChat, Receiving
<1>5. CASE ReceptionFails /\ UNCHANGED <<db, insertIds, undeleted>>
  <2>1. UNCHANGED <<messages, lastId, chats>>
    BY <1>5 DEF db
  <2>2. pc' \in {"final", "undo"} /\ step' \in Nat \ {0}
    BY <1>5 DEF ReceptionFails, Undo, IInv, TypeOK
  <2>3. TypeOK'
    BY <1>1, <1>2, <1>3, <1>5, <2>1, <2>2 DEF IInv, TypeOK, Flags, Receiving
  <2> QED BY <1>1, <1>5, <2>1, <2>3, ReceptionFailsStep
<1>6. CASE UNCHANGED <<db, pc, step, insertIds, undeleted>>
  <2>1. UNCHANGED <<messages, lastId, chats, pc, step, insertIds, undeleted>>
    BY <1>6 DEF db
  <2>2. TypeOK'
    BY <1>1, <1>2, <1>3, <2>1 DEF IInv, TypeOK, Flags, Receiving
  <2>3. RowsKept /\ (HasText(calls) => HasText(calls)')
    BY <1>1, <2>1, QuietStep DEF Receiving
  <2> QED
    BY <1>1, <2>1, <2>2, <2>3
    DEF RowsKept, IInv, UndoneSoFar, TextStored, TextDue, ChatNew, OneChat, Receiving
<1> QED BY <1>4, <1>5, <1>6 DEF Command

LEMMA EndReceptionStep == ASSUME IInv, EndReception PROVE IInv'
<1>1. /\ UNCHANGED <<messages, lastId, chats, mode, step, commands, insertIds, needSync,
                     calls, received, matched, acked, outcome, undeleted>>
      /\ pc \in Receiving
  BY DEF EndReception, db, globals, history
<1>2. \/ pc = "reply" /\ pc' = "final"
      \/ pc = "final" /\ mode = "new" /\ pc' = "saveChat"
      \/ pc = "final" /\ mode # "new" /\ pc' = "succeeded"
      \/ pc \in {"wait", "closing"} /\ pc' = pc
  BY <1>1 DEF EndReception, Receiving
<1>3. Flags'
  BY Zenon DEF EndReception, globals, Flags, IInv, TypeOK
<1>4. TypeOK'
  BY <1>1, <1>2, <1>3 DEF IInv, TypeOK, Flags, Receiving
<1>5. RowsKept /\ (HasText(calls) => HasText(calls)')
  BY <1>1, <1>2, QuietStep DEF Receiving
<1>6. TextStored'
  BY <1>1, <1>2, <1>5 DEF IInv, TextStored, TextDue
<1> QED
  BY <1>1, <1>2, <1>4, <1>5, <1>6 DEF RowsKept, IInv, UndoneSoFar, ChatNew, OneChat, Receiving

LEMMA MatchStep == ASSUME IInv, Match PROVE IInv'
<1>1. /\ UNCHANGED <<messages, lastId, chats, inBatch, insertIds, calls, received, outcome, undeleted>>
      /\ pc = "wait" /\ Advance /\ calls \in Call /\ step \in Nat \ {0} /\ mode \in Mode
  BY DEF Match, db, IInv, CallsInOrder, TypeOK
<1>2. commands' \in Seq([cmd : Sent, at : Nat]) /\ matched' \in Seq([cmd : Sent, at : Nat])
  <2>1. /\ commands \in Seq([cmd : Sent, at : Nat]) /\ matched \in Seq([cmd : Sent, at : Nat])
        /\ Len(commands) \in Nat
    BY DEF IInv, TypeOK
  <2>2. PICK i \in 1 .. Len(commands) :
          commands' = SubSeq(commands, i, Len(commands)) /\ matched' = Append(matched, commands[i])
    BY DEF Match, Found, Keep
  <2>3. \A k \in 1 .. Len(commands) : commands[k] \in [cmd : Sent, at : Nat]
    BY <2>1, ElementOfSeq
  <2>4. \A k \in i .. Len(commands) : commands[k] \in [cmd : Sent, at : Nat]
    BY <2>1, <2>3
  <2>5. commands' \in Seq([cmd : Sent, at : Nat])
    BY <2>1, <2>2, <2>4, SubSeqProperties
  <2> QED BY <2>1, <2>2, <2>3, <2>5, AppendProperties
<1>3. acked' \subseteq Call
  BY <1>1 DEF Match, IInv, TypeOK
<1>4. Flags'
  BY Zenon DEF Match, Advance, Flags, IInv, TypeOK
<1>5. /\ mode' \in Mode /\ step' \in Nat \ {0} /\ (mode' = "new" => mode = "new")
      /\ mode' = "restore" => mode = "restore"
      /\ \/ pc' \in {"reply", "closing"} /\ UNCHANGED step /\ step = Len(Waits[mode'])
         \/ pc' = "saveText" /\ step' = 3 /\ mode' = "restore"
         \/ pc' = "wait" /\ step' = step + 1 /\ (mode' = "restore" => step # 2)
         \/ pc' = "undo" /\ step' = 1
      /\ mode = "restore" /\ mode' # "restore" => step = 4
  BY <1>1 DEF Advance, AfterWaits, Undo, Mode
<1>6. TypeOK'
  BY <1>1, <1>2, <1>3, <1>4, <1>5 DEF IInv, TypeOK, Flags, Receiving
<1>7. RowsKept /\ (HasText(calls) => HasText(calls)')
  BY <1>1, <1>5, QuietStep
<1>8. TextStored'
  <2>1. Len(Waits["restore"]) = 5
    BY WaitsLengths
  <2> QED BY <1>1, <1>5, <1>7, <2>1 DEF IInv, TextStored, TextDue
<1> QED
  BY <1>1, <1>5, <1>6, <1>7, <1>8 DEF RowsKept, IInv, UndoneSoFar, ChatNew, OneChat, Receiving

-----------------------------------------------------------------------------
LEMMA SaveChatStep == ASSUME IInv, SaveChat PROVE IInv'
<1>1. /\ UNCHANGED <<messages, lastId, mode, step, commands, insertIds,
                     calls, received, matched, acked, outcome, undeleted>>
      /\ pc = "saveChat" /\ pc' = "succeeded" /\ chats = 0 /\ chats' \in {0, 1}
  BY DEF SaveChat, globals, history, IInv, ChatNew
<1>2. Flags'
  BY Zenon DEF SaveChat, globals, Flags, IInv, TypeOK
<1>3. TypeOK'
  BY <1>1, <1>2 DEF IInv, TypeOK, Flags
<1>4. RowsKept /\ (HasText(calls) => HasText(calls)')
  BY <1>1, QuietStep
<1> QED
  BY <1>1, <1>3, <1>4
  DEF RowsKept, IInv, UndoneSoFar, TextStored, TextDue, ChatNew, OneChat, Receiving

\* A call that ends, other than one that was never connected.
LEMMA EndStep ==
  ASSUME IInv, NEW result \in {"ok", "failed", "killed"}, End(result), pc # "idle", TypeOK',
         UNCHANGED <<messages, chats, calls, undeleted>>,
         result = "ok" => HasText(calls),
         result = "failed" => \A r \in messages : r.call = calls => r.id \in undeleted
  PROVE  IInv'
<1>1. /\ \A c \in Call : c # calls => outcome'[c] = outcome[c]
      /\ outcome'[calls] = result /\ calls \in Call /\ pc' = "idle"
  BY EndOutcome DEF End
<1>2. CallsInOrder' /\ Tracked'
  BY <1>1, SenderAssumption DEF IInv, CallsInOrder, Tracked, Call
<1>3. SentIsStored'
  BY <1>1 DEF IInv, SentIsStored, HasText
<1>4. FailedRowsGo'
  <2>1. \A r \in messages : r.call \in Call
    BY DEF IInv, TypeOK
  <2> QED BY <1>1, <2>1 DEF IInv, FailedRowsGo
<1> QED
  BY <1>1, <1>2, <1>3, <1>4
  DEF IInv, UndoneSoFar, TextStored, TextDue, ChatNew, OneChat, Receiving

LEMMA SucceedStep == ASSUME IInv, Succeed PROVE IInv'
<1>1. /\ UNCHANGED <<messages, lastId, chats, mode, step, commands, insertIds,
                     calls, received, matched, acked, undeleted>>
      /\ pc = "succeeded" /\ pc' = "idle" /\ End("ok")
  BY DEF Succeed, db, globals, End
<1>2. Flags'
  BY Zenon DEF Succeed, globals, Flags, IInv, TypeOK
<1>3. TypeOK'
  BY <1>1, <1>2, EndOutcome DEF IInv, TypeOK, Flags
<1>4. HasText(calls)
  BY <1>1 DEF IInv, TextStored, TextDue
<1> QED BY <1>1, <1>3, <1>4, EndStep

LEMMA UndoneStep == ASSUME IInv, Undone PROVE IInv'
<1>1. /\ UNCHANGED <<messages, lastId, chats, mode, step, commands, insertIds,
                     calls, received, matched, acked, undeleted>>
      /\ pc = "undo" /\ pc' = "idle" /\ End("failed") /\ step > Len(insertIds)
  BY DEF Undone, db, globals, End
<1>2. Flags'
  BY Zenon DEF Undone, globals, Flags, IInv, TypeOK
<1>3. TypeOK'
  BY <1>1, <1>2, EndOutcome DEF IInv, TypeOK, Flags
<1>4. ASSUME NEW r \in messages, r.call = calls PROVE r.id \in undeleted
  <2>1. PICK i \in 1 .. Len(insertIds) : insertIds[i] = r.id
    BY <1>1, <1>4 DEF IInv, Tracked
  <2>2. Len(insertIds) \in Nat /\ step \in Nat
    BY DEF IInv, TypeOK
  <2>3. i < step
    BY <1>1, <2>1, <2>2
  <2> QED BY <1>1, <2>1, <2>3 DEF IInv, UndoneSoFar
<1> QED BY <1>1, <1>3, <1>4, EndStep

LEMMA KillStep == ASSUME IInv, Kill PROVE IInv'
<1>1. /\ UNCHANGED <<messages, lastId, chats, calls, received, matched, acked, undeleted>>
      /\ pc # "idle" /\ pc' = "idle" /\ End("killed") /\ mode' \in Mode /\ step' = 1
      /\ commands' = <<>> /\ insertIds' = <<>>
  BY DEF Kill, db, End, Mode
<1>2. commands' \in Seq([cmd : Sent, at : Nat]) /\ insertIds' \in Seq(1 .. lastId)
  BY <1>1, EmptySeq
<1>3. Flags'
  BY Zenon DEF Kill, Flags
<1>4. TypeOK'
  BY <1>1, <1>2, <1>3, EndOutcome DEF IInv, TypeOK, Flags
<1> QED BY <1>1, <1>4, EndStep

LEMMA RemoveRowStep == ASSUME IInv, RemoveRow PROVE IInv'
<1>1. /\ UNCHANGED <<lastId, chats, pc, mode, commands, insertIds,
                     calls, received, matched, acked, outcome>>
      /\ pc = "undo" /\ step \in 1 .. Len(insertIds) /\ step' = step + 1 /\ step \in Nat \ {0}
      /\ Len(insertIds) \in Nat
  BY DEF RemoveRow, globals, IInv, TypeOK
<1>2. insertIds[step] \in 1 .. lastId
  BY <1>1, ElementOfSeq DEF IInv, TypeOK
<1>3. /\ messages' \subseteq messages /\ undeleted \subseteq undeleted'
      /\ undeleted' \subseteq 1 .. lastId
      /\ \A r \in messages : r \in messages' \/ r.id = insertIds[step]
      /\ \A r \in messages' : r.id = insertIds[step] => r.id \in undeleted'
  BY <1>2 DEF RemoveRow, RowsOf, IInv, TypeOK
<1>4. Flags'
  BY Zenon DEF RemoveRow, globals, Flags, IInv, TypeOK
<1>5. TypeOK'
  BY <1>1, <1>3, <1>4 DEF IInv, TypeOK, Flags
<1>6. CallsInOrder' /\ Tracked'
  BY <1>1, <1>3 DEF IInv, CallsInOrder, Tracked
<1>7. UndoneSoFar'
  <2>1. ASSUME NEW r \in messages', NEW i \in 1 .. Len(insertIds), i < step + 1,
               insertIds[i] = r.id
        PROVE  r.id \in undeleted'
    <3>1. CASE i = step
      BY <1>3, <2>1, <3>1
    <3>2. CASE i < step
      BY <1>1, <1>3, <2>1, <3>2 DEF IInv, UndoneSoFar
    <3> QED BY <1>1, <2>1, <3>1, <3>2
  <2> QED BY <1>1, <2>1 DEF UndoneSoFar
<1>8. SentIsStored'
  <2>1. \A r \in messages : r.id = insertIds[step] => outcome[r.call] = "none"
    BY <1>1 DEF IInv, Tracked, CallsInOrder
  <2> QED BY <1>1, <1>3, <2>1 DEF IInv, SentIsStored
<1>9. FailedRowsGo'
  BY <1>1, <1>3 DEF IInv, FailedRowsGo
<1> QED
  BY <1>1, <1>5, <1>6, <1>7, <1>8, <1>9
  DEF IInv, TextStored, TextDue, ChatNew, OneChat, Receiving

LEMMA StutterStep == ASSUME IInv, UNCHANGED vars PROVE IInv'
<1>1. UNCHANGED <<messages, lastId, chats, pc, mode, step, commands, insertIds,
                  calls, received, matched, acked, outcome, undeleted>>
  BY DEF vars, db, globals, history
<1>2. Flags'
  BY Zenon DEF vars, globals, Flags, IInv, TypeOK
<1>3. TypeOK'
  BY <1>1, <1>2 DEF IInv, TypeOK, Flags
<1> QED
  BY <1>1, <1>3
  DEF IInv, CallsInOrder, Tracked, UndoneSoFar, TextStored, TextDue, HasText, ChatNew,
      SentIsStored, FailedRowsGo, OneChat

-----------------------------------------------------------------------------
(***************************************************************************)
(* The invariants with what the call in progress rests on.                 *)
(***************************************************************************)
THEOREM Inductive == Spec => []IInv
<1>1. IInv /\ [Next]_vars => IInv'
  <2> SUFFICES ASSUME IInv, [Next]_vars PROVE IInv'
    OBVIOUS
  <2>1. CASE SaveService
    BY <2>1, SaveRowStep DEF SaveService
  <2>2. CASE SaveText
    BY <2>2, SaveRowStep DEF SaveText
  <2> QED
    BY <2>1, <2>2, StartStep, ConnectStep, LoadChatStep, MatchStep, CommandStep,
       BadReceptionStep, EndReceptionStep, SaveChatStep, SucceedStep, RemoveRowStep,
       UndoneStep, KillStep, StutterStep DEF Next
<1> QED BY <1>1, InitInv, PTL DEF Spec

(***************************************************************************)
(* Type correctness, and that no two rows of Messages share an id.         *)
(***************************************************************************)
THEOREM TypeCorrect == Spec => []TypeOK
  BY Inductive, PTL DEF IInv

(***************************************************************************)
(* The message of a call that succeeded stays in Messages, whatever the    *)
(* calls after it do and however they fail.                                *)
(***************************************************************************)
THEOREM SentStaysStored == Spec => []SentIsStored
  BY Inductive, PTL DEF IInv

(***************************************************************************)
(* A failed call leaves only the rows it could not delete.                 *)
(***************************************************************************)
THEOREM FailuresAreUndone == Spec => []FailedRowsGo
  BY Inductive, PTL DEF IInv

(***************************************************************************)
(* A pair of users never has two chats.                                    *)
(***************************************************************************)
THEOREM ChatIsUnique == Spec => []OneChat
  BY Inductive, PTL DEF IInv

-----------------------------------------------------------------------------
(***************************************************************************)
(* The order of the exchange. What check_commands_array leaves in front is *)
(* the command it matched last, and no exchange waits for one command      *)
(* twice in a row: that is why the next match is of a later command.       *)
(***************************************************************************)
Exchange == {"saveService", "saveText", "saveChat", "succeeded"} \cup Receiving
Closing == {"closing", "reply", "final", "saveChat", "succeeded"}

ArrivalOrder ==
  /\ \A i, j \in 1 .. Len(commands) : i < j => commands[i].at < commands[j].at
  /\ \A i \in 1 .. Len(commands) : commands[i].at <= received

MatchOrder == \A i, j \in 1 .. Len(matched) : i < j => matched[i].at < matched[j].at

LastInFront ==
  pc \in Exchange /\ Len(matched) > 0 =>
    Len(commands) > 0 /\ commands[1] = matched[Len(matched)]

Progress ==
  /\ pc \in {"connect", "load"} => commands = <<>> /\ matched = <<>>
  /\ pc \in Exchange =>
       \A i \in 1 .. Len(matched) : i <= Len(Waits[mode]) /\ matched[i].cmd = Waits[mode][i]
  /\ pc \in {"saveService", "saveText", "wait"} => Len(matched) = step - 1
  /\ pc \in Closing => Len(matched) = Len(Waits[mode])

ScriptInv == ArrivalOrder /\ MatchOrder /\ LastInFront /\ Progress

LEMMA WaitsDiffer ==
  \A m \in Mode : \A s \in 1 .. Len(Waits[m]) : s > 1 => Waits[m][s] # Waits[m][s - 1]
<1>1. ASSUME NEW s \in 1 .. Len(Waits["new"]), s > 1
      PROVE  Waits["new"][s] # Waits["new"][s - 1]
  <2>1. s \in 2 .. 11
    BY <1>1 DEF Waits
  <2> QED BY <2>1 DEF Waits
<1>2. ASSUME NEW s \in 1 .. Len(Waits["restore"]), s > 1
      PROVE  Waits["restore"][s] # Waits["restore"][s - 1]
  BY <1>2 DEF Waits
<1>3. ASSUME NEW s \in 1 .. Len(Waits["sync"]), s > 1
      PROVE  Waits["sync"][s] # Waits["sync"][s - 1]
  BY <1>3 DEF Waits
<1> QED BY <1>1, <1>2, <1>3 DEF Mode

\* The two exchanges of a stored chat begin with the same four commands.
LEMMA SyncContinues ==
  \A i \in 1 .. 4 : Waits["sync"][i] = Waits["restore"][i]
  BY DEF Waits

LEMMA ScriptInit == Init => ScriptInv
<1> SUFFICES ASSUME Init PROVE ScriptInv
  OBVIOUS
<1>1. commands = <<>> /\ matched = <<>> /\ Len(commands) = 0 /\ Len(matched) = 0 /\ pc = "idle"
  BY EmptySeq DEF Init
<1> QED
  BY <1>1 DEF ScriptInv, ArrivalOrder, MatchOrder, LastInFront, Progress, Exchange, Closing, Receiving

\* A step that neither receives nor matches.
LEMMA ScriptQuiet ==
  ASSUME ScriptInv, UNCHANGED <<commands, matched, received, mode>>,
         pc' \in Exchange => pc \in Exchange,
         pc' \in {"saveService", "saveText", "wait"} =>
           pc \in {"saveService", "saveText", "wait"} /\ step' = step,
         pc' \in Closing => pc \in Closing,
         pc' \notin {"connect", "load"}
  PROVE  ScriptInv'
  BY DEF ScriptInv, ArrivalOrder, MatchOrder, LastInFront, Progress

LEMMA ScriptFails ==
  ASSUME ScriptInv, ReceptionFails, pc \in Receiving,
         UNCHANGED <<commands, matched, received, mode>>
  PROVE  ScriptInv'
<1>1. \/ pc = "closing" /\ pc' = "final"
      \/ pc' = "undo"
  BY DEF ReceptionFails, Undo
<1> QED BY <1>1, ScriptQuiet DEF Exchange, Closing, Receiving

LEMMA ScriptCommand ==
  ASSUME IInv, ScriptInv, NEW cmd \in Sent, Command(cmd)
  PROVE  ScriptInv'
<1>1. /\ pc \in Receiving /\ received \in Nat /\ received' = received + 1
      /\ commands' = Append(commands, [cmd |-> cmd, at |-> received + 1])
      /\ UNCHANGED <<mode, matched>>
      /\ commands \in Seq([cmd : Sent, at : Nat])
  BY DEF Command, MayReceive, IInv, TypeOK
<1>2. /\ Len(commands) \in Nat /\ Len(commands') = Len(commands) + 1
      /\ \A i \in 1 .. Len(commands) : commands'[i] = commands[i] /\ commands[i].at \in Nat
      /\ commands'[Len(commands) + 1].at = received + 1
  <2> DEFINE entry == [cmd |-> cmd, at |-> received + 1]
  <2>1. entry \in [cmd : Sent, at : Nat] /\ entry.at = received + 1
    BY <1>1
  <2>2. \A i \in 1 .. Len(commands) : commands[i].at \in Nat
    <3>1. \A i \in 1 .. Len(commands) : commands[i] \in [cmd : Sent, at : Nat]
      BY <1>1, ElementOfSeq
    <3> QED BY <3>1
  <2> HIDE DEF entry
  <2>3. commands' = Append(commands, entry)
    BY <1>1 DEF entry
  <2> QED BY <1>1, <2>1, <2>2, <2>3, AppendProperties
<1>3. ArrivalOrder'
  BY <1>1, <1>2 DEF ScriptInv, ArrivalOrder
<1>4. \/ UNCHANGED <<pc, step>>
      \/ pc = "closing" /\ pc' = "final"
      \/ pc' = "undo"
  BY DEF Command, ReceptionFails, Undo
<1>5. LastInFront'
  BY <1>1, <1>2, <1>4 DEF ScriptInv, LastInFront, Exchange, Receiving
<1>6. Progress'
  BY <1>1, <1>4 DEF ScriptInv, Progress, Exchange, Closing, Receiving
<1> QED BY <1>1, <1>3, <1>5, <1>6 DEF ScriptInv, MatchOrder

LEMMA ScriptMatch == ASSUME IInv, ScriptInv, Match PROVE ScriptInv'
<1>1. /\ commands \in Seq([cmd : Sent, at : Nat]) /\ matched \in Seq([cmd : Sent, at : Nat])
      /\ Len(commands) \in Nat /\ Len(matched) \in Nat /\ mode \in Mode /\ step \in Nat \ {0}
      /\ pc = "wait" /\ Advance /\ received' = received
  BY DEF Match, IInv, TypeOK
<1>2. PICK i \in 1 .. Len(commands) :
        /\ commands[i].cmd = Waits[mode][step]
        /\ commands' = SubSeq(commands, i, Len(commands))
        /\ matched' = Append(matched, commands[i])
  BY DEF Match, Found, Keep
<1>3. \A k \in 1 .. Len(commands) : commands[k] \in [cmd : Sent, at : Nat]
  BY <1>1, ElementOfSeq
<1>4. \A k \in i .. Len(commands) : commands[k] \in [cmd : Sent, at : Nat]
  <2>1. \A k \in i .. Len(commands) : k \in 1 .. Len(commands)
    BY <1>1, <1>2
  <2> QED BY <1>3, <2>1
<1>5. /\ Len(commands') = Len(commands) - i + 1
      /\ \A k \in 1 .. Len(commands) - i + 1 : commands'[k] = commands[k + i - 1]
  <2>1. /\ Len(commands') = IF i <= Len(commands) THEN Len(commands) - i + 1 ELSE 0
        /\ \A k \in 1 .. Len(commands) - i + 1 : commands'[k] = commands[i + k - 1]
    BY <1>1, <1>2, <1>4, SubSeqProperties
  <2> QED BY <1>1, <2>1
<1>6. /\ Len(matched') = Len(matched) + 1
      /\ \A k \in 1 .. Len(matched) : matched'[k] = matched[k]
      /\ matched'[Len(matched) + 1] = commands[i]
  BY <1>1, <1>2, <1>3, AppendProperties
<1>7. /\ Len(matched) = step - 1
      /\ \A k \in 1 .. Len(matched) : k <= Len(Waits[mode]) /\ matched[k].cmd = Waits[mode][k]
  BY <1>1 DEF ScriptInv, Progress, Exchange, Receiving
<1>8. /\ mode' \in Mode
      /\ mode' = mode \/ (mode = "restore" /\ mode' = "sync" /\ step = 4)
      /\ \/ pc' \in {"reply", "closing"} /\ UNCHANGED step /\ step = Len(Waits[mode'])
         \/ pc' \in {"saveText", "wait"} /\ step' = step + 1 /\ step < Len(Waits[mode'])
         \/ pc' = "undo" /\ step \in SignsAfter[mode']
  BY <1>1 DEF Advance, AfterWaits, Undo, Mode
<1>9. step <= Len(Waits[mode]) /\ step <= Len(Waits[mode'])
  <2>1. step \in SignsAfter[mode'] => step <= Len(Waits[mode'])
    <3>1. \A s \in SignsAfter["new"] : s <= 11
      BY DEF SignsAfter
    <3>2. \A s \in SignsAfter["restore"] : s <= 5
      BY DEF SignsAfter
    <3>3. \A s \in SignsAfter["sync"] : s <= 7
      BY DEF SignsAfter
    <3> QED BY <1>8, <3>1, <3>2, <3>3, WaitsLengths DEF Mode
  <2>2. step <= Len(Waits[mode'])
    BY <1>1, <1>8, <2>1, WaitsLengths DEF Mode
  <2>3. CASE mode' = mode
    BY <2>2, <2>3
  <2>4. CASE mode = "restore" /\ step = 4
    <3>1. Len(Waits[mode]) = 5
      BY <2>4, WaitsLengths
    <3> QED BY <2>2, <2>4, <3>1
  <2> QED BY <1>8, <2>3, <2>4
<1>10. ArrivalOrder'
  <2>1. ASSUME NEW k \in 1 .. Len(commands')
        PROVE  k + i - 1 \in 1 .. Len(commands) /\ commands'[k] = commands[k + i - 1]
    BY <1>1, <1>2, <1>5
  <2>2. ASSUME NEW k \in 1 .. Len(commands'), NEW l \in 1 .. Len(commands'), k < l
        PROVE  commands'[k].at < commands'[l].at
    <3>1. k + i - 1 < l + i - 1
      BY <1>2, <2>2
    <3> QED BY <2>1, <3>1 DEF ScriptInv, ArrivalOrder
  <2>3. ASSUME NEW k \in 1 .. Len(commands') PROVE commands'[k].at <= received'
    BY <1>1, <2>1 DEF ScriptInv, ArrivalOrder
  <2> QED BY <2>2, <2>3 DEF ArrivalOrder
<1>11. LastInFront'
  <2>1. Len(commands') > 0 /\ commands'[1] = commands[i]
    BY <1>1, <1>2, <1>5
  <2> QED BY <1>6, <2>1 DEF LastInFront
<1>12. MatchOrder'
  <2>1. ASSUME Len(matched) > 0
        PROVE  matched[Len(matched)].at < commands[i].at
    <3>1. commands[1] = matched[Len(matched)] /\ 1 \in 1 .. Len(commands)
      BY <1>1, <2>1 DEF ScriptInv, LastInFront, Exchange, Receiving
    <3>2. step > 1 /\ step \in 1 .. Len(Waits[mode]) /\ Len(matched) \in 1 .. Len(matched)
      BY <1>1, <1>7, <1>9, <2>1, WaitsLengths DEF Mode
    <3>3. commands[1].cmd = Waits[mode][step - 1]
      BY <1>7, <3>1, <3>2
    <3>4. commands[1].cmd # commands[i].cmd
      BY <1>1, <1>2, <3>2, <3>3, WaitsDiffer
    <3>5. 1 < i
      BY <1>2, <3>4
    <3> QED BY <3>1, <3>5 DEF ScriptInv, ArrivalOrder
  <2>2. ASSUME NEW k \in 1 .. Len(matched) PROVE matched[k].at < commands[i].at
    <3>1. matched[k].at \in Nat /\ commands[i].at \in Nat /\ Len(matched) \in 1 .. Len(matched)
          /\ matched[Len(matched)].at \in Nat
      <4>1. Len(matched) \in 1 .. Len(matched)
        BY <1>1
      <4>2. \A l \in 1 .. Len(matched) : matched[l] \in [cmd : Sent, at : Nat]
        BY <1>1, ElementOfSeq
      <4> QED BY <1>3, <4>1, <4>2
    <3>2. k = Len(matched) \/ k < Len(matched)
      BY <1>1
    <3>3. matched[k].at <= matched[Len(matched)].at
      BY <3>1, <3>2 DEF ScriptInv, MatchOrder
    <3> QED BY <1>1, <2>1, <3>1, <3>3
  <2>3. ASSUME NEW k \in 1 .. Len(matched'), NEW l \in 1 .. Len(matched'), k < l
        PROVE  matched'[k].at < matched'[l].at
    <3>1. k \in 1 .. Len(matched) /\ (l \in 1 .. Len(matched) \/ l = Len(matched) + 1)
      BY <1>1, <1>6, <2>3
    <3> QED BY <1>6, <2>2, <2>3, <3>1 DEF ScriptInv, MatchOrder
  <2> QED BY <2>3 DEF MatchOrder
<1>13. \A k \in 1 .. Len(matched') : k <= Len(Waits[mode']) /\ matched'[k].cmd = Waits[mode'][k]
  <2>1. ASSUME NEW k \in 1 .. Len(matched') PROVE k <= step /\ matched'[k].cmd = Waits[mode][k]
    <3>1. k \in 1 .. Len(matched) \/ k = Len(matched) + 1
      BY <1>1, <1>6
    <3> QED BY <1>1, <1>2, <1>6, <1>7, <3>1
  <2>2. ASSUME NEW k \in 1 .. Len(matched') PROVE Waits[mode][k] = Waits[mode'][k]
    BY <1>8, <2>1, SyncContinues
  <2>3. ASSUME NEW k \in 1 .. Len(matched') PROVE k <= Len(Waits[mode'])
    BY <1>1, <1>8, <1>9, <2>1, WaitsLengths DEF Mode
  <2> QED BY <2>1, <2>2, <2>3
<1>14. Progress'
  <2>1. Len(matched') = step
    BY <1>1, <1>6, <1>7
  <2> QED BY <1>1, <1>8, <1>13, <2>1 DEF Progress, Exchange, Closing
<1> QED BY <1>10, <1>11, <1>12, <1>14 DEF ScriptInv

-----------------------------------------------------------------------------
LEMMA ScriptNext == ASSUME IInv, ScriptInv, [Next]_vars PROVE ScriptInv'
<1>1. CASE Start
  <2>1. /\ commands' = <<>> /\ matched' = <<>> /\ pc' = "connect"
        /\ Len(commands') = 0 /\ Len(matched') = 0
    BY <1>1, EmptySeq DEF Start
  <2> QED
    BY <2>1 DEF ScriptInv, ArrivalOrder, MatchOrder, LastInFront, Progress, Exchange, Closing, Receiving
<1>2. CASE Connect
  BY <1>2 DEF Connect, End, globals, ScriptInv, ArrivalOrder, MatchOrder, LastInFront, Progress,
              Exchange, Closing, Receiving
<1>3. CASE LoadChat
  <2>1. /\ commands = <<>> /\ matched = <<>> /\ UNCHANGED <<commands, matched>>
        /\ Len(commands) = 0 /\ Len(matched) = 0
        /\ pc' = "undo" \/ (pc' \in {"wait", "saveService"} /\ step' = 1)
    BY <1>3, EmptySeq DEF LoadChat, Undo, globals, history, ScriptInv, Progress
  <2> QED
    BY <2>1 DEF ScriptInv, ArrivalOrder, MatchOrder, LastInFront, Progress, Exchange, Closing, Receiving
<1>4. CASE SaveService \/ SaveText
  <2>1. /\ UNCHANGED <<commands, matched, received, mode>> /\ pc \in {"saveService", "saveText"}
        /\ (pc' \in {"saveText", "wait"} /\ step' = step) \/ pc' = "undo"
    BY <1>4 DEF SaveService, SaveText, SaveRow, Undo
  <2> QED BY <2>1, ScriptQuiet DEF Exchange, Closing, Receiving
<1>5. CASE BadReception
  BY <1>5, ScriptFails DEF BadReception, MayReceive, globals, history
<1>6. CASE EndReception
  <2>1. /\ UNCHANGED <<commands, matched, received, mode, step>> /\ pc \in Receiving
        /\ \/ pc \in {"reply", "final"} /\ pc' \in {"final", "saveChat", "succeeded"}
           \/ pc' = pc
    BY <1>6 DEF EndReception, globals, history
  <2> QED BY <2>1, ScriptQuiet DEF Exchange, Closing, Receiving
<1>7. CASE SaveChat
  BY <1>7, ScriptQuiet DEF SaveChat, globals, history, Exchange, Closing
<1>8. CASE Succeed
  BY <1>8, ScriptQuiet DEF Succeed, End, globals, Exchange, Closing, Receiving
<1>9. CASE RemoveRow
  BY <1>9, ScriptQuiet DEF RemoveRow, globals, Exchange, Closing, Receiving
<1>10. CASE Undone
  BY <1>10, ScriptQuiet DEF Undone, End, globals, Exchange, Closing, Receiving
<1>11. CASE Kill
  <2>1. commands' = <<>> /\ Len(commands') = 0 /\ pc' = "idle" /\ UNCHANGED <<matched, received>>
    BY <1>11, EmptySeq DEF Kill, End
  <2> QED
    BY <2>1 DEF ScriptInv, ArrivalOrder, MatchOrder, LastInFront, Progress, Exchange, Closing, Receiving
<1>12. CASE UNCHANGED vars
  BY <1>12 DEF vars, globals, history, ScriptInv, ArrivalOrder, MatchOrder, LastInFront, Progress
<1> QED
  BY <1>1, <1>2, <1>3, <1>4, <1>5, <1>6, <1>7, <1>8, <1>9, <1>10, <1>11, <1>12,
     ScriptMatch, ScriptCommand DEF Next

LEMMA ScriptDone == ASSUME IInv, ScriptInv PROVE ScriptInOrder
<1>1. ASSUME pc \in Closing
      PROVE  [i \in 1 .. Len(matched) |-> matched[i].cmd] = Waits[mode]
  <2>1. /\ Len(matched) = Len(Waits[mode]) /\ mode \in Mode
        /\ \A i \in 1 .. Len(matched) : matched[i].cmd = Waits[mode][i]
    BY <1>1 DEF ScriptInv, Progress, Exchange, Closing, Receiving, IInv, TypeOK
  <2>2. Waits[mode] = [i \in 1 .. Len(Waits[mode]) |-> Waits[mode][i]]
    <3>1. Waits["new"] = [i \in 1 .. Len(Waits["new"]) |-> Waits["new"][i]]
      BY DEF Waits
    <3>2. Waits["restore"] = [i \in 1 .. Len(Waits["restore"]) |-> Waits["restore"][i]]
      BY DEF Waits
    <3>3. Waits["sync"] = [i \in 1 .. Len(Waits["sync"]) |-> Waits["sync"][i]]
      BY DEF Waits
    <3> QED BY <2>1, <3>1, <3>2, <3>3 DEF Mode
  <2> QED BY <2>1, <2>2
<1> QED BY <1>1 DEF ScriptInv, MatchOrder, ScriptInOrder, Closing

(***************************************************************************)
(* Every exchange matches its commands in order, each received after the   *)
(* one matched before it, and a call reaches its end only with all of them.*)
(***************************************************************************)
THEOREM ExchangeInOrder == Spec => []ScriptInOrder
<1>1. Spec => []ScriptInv
  <2>1. ScriptInv /\ IInv /\ [Next]_vars => ScriptInv'
    BY ScriptNext
  <2> QED BY <2>1, ScriptInit, Inductive, PTL DEF Spec
<1>2. IInv /\ ScriptInv => ScriptInOrder
  BY ScriptDone
<1> QED BY <1>1, <1>2, Inductive, PTL
=============================================================================
