----------------------------- MODULE MessageStore -----------------------------
(***************************************************************************)
(* The message store of server/go behind the HTTP endpoints                *)
(* /api/message/send and /api/message/recv (api.go, database.go). As in    *)
(* NativeDocuments a run of the sqlite3 CLI is one step, and what a        *)
(* request keeps from one run to the next is in `job`. No mutex spans two  *)
(* runs here. Bodies are left out: a message is its id and its two ends.   *)
(***************************************************************************)
EXTENDS Integers, FiniteSets

CONSTANTS
  Login,          \* logins an account may have
  Handler,        \* goroutines of the API server; a semaphore allows 32
  InitAccounts,   \* the accounts and contacts of the database at the start
  InitContacts,
  Managed,        \* the logins that are removed and added again
  MaxMessages     \* bound on the ids given out in a behaviour

ASSUME MessagesAssumption ==
  /\ InitAccounts \subseteq Login
  /\ InitContacts \subseteq InitAccounts \X InitAccounts
  /\ Managed \subseteq Login
  /\ MaxMessages \in Nat

VARIABLES
  accounts,   \* SUBSET Login
  contacts,   \* SUBSET (Login \X Login): <<owner, contact>>
  messages,   \* SUBSET Message: the rows of messages
  lastId,     \* the id AUTOINCREMENT gave out last, in sqlite_sequence
  job,        \* [Handler -> Job]
  shown,      \* history: the ids a request of their recipient has selected
  answered    \* history: the ids replies have carried

vars == <<accounts, contacts, messages, lastId, job, shown, answered>>

Id == 1 .. MaxMessages

Message == [id : Id, from : Login, to : Login, delivered : BOOLEAN]

(***************************************************************************)
(* `from` and `to` are the ends of the messages the request is about: the  *)
(* authenticated user is `from` of a send and `to` of a receive. `seen` is *)
(* history: what had been answered when the request began.                 *)
(***************************************************************************)
Step == {"idle", "listed", "insert", "select", "mark", "reply"}

NoPair == <<>>

Job == [pc : Step, pair : (Login \X Login) \cup {NoPair}, ids : SUBSET Id,
        seen : SUBSET Id]

IdleJob == [pc |-> "idle", pair |-> NoPair, ids |-> {}, seen |-> {}]

Init ==
  /\ accounts = InitAccounts
  /\ contacts = InitContacts
  /\ messages = {}
  /\ lastId = 0
  /\ job = [h \in Handler |-> IdleJob]
  /\ shown = {}
  /\ answered = {}

Begin(h, pc, pair) ==
  /\ job[h].pc = "idle"
  /\ job' = [job EXCEPT ![h] = [pc |-> pc, pair |-> pair, ids |-> {}, seen |-> answered]]

Goto(h, pc, ids) == job' = [job EXCEPT ![h].pc = pc, ![h].ids = ids]

Finish(h) == job' = [job EXCEPT ![h] = IdleJob]

-----------------------------------------------------------------------------
(***************************************************************************)
(* SendMessage, after RequirePassword found the sender's account: the      *)
(* recipient is looked up in the contact list, and a later run inserts.    *)
(***************************************************************************)
BeginSend(h, from, to) ==
  /\ from \in accounts
  /\ Begin(h, "listed", <<from, to>>)
  /\ UNCHANGED <<accounts, contacts, messages, lastId, shown, answered>>

CheckListed(h) ==
  /\ job[h].pc = "listed"
  /\ IF job[h].pair \in contacts THEN Goto(h, "insert", {}) ELSE Finish(h)
  /\ UNCHANGED <<accounts, contacts, messages, lastId, shown, answered>>

(***************************************************************************)
(* INTEGER PRIMARY KEY AUTOINCREMENT: an id is never given out again, even *)
(* when its row is gone.                                                   *)
(***************************************************************************)
\* Mistake: INTEGER PRIMARY KEY alone, one more than the largest id in use.
NextIdInUse ==
  IF messages = {} THEN 1
  ELSE CHOOSE n \in 1 .. MaxMessages + 1 :
    /\ \A m \in messages : m.id < n
    /\ \E m \in messages : m.id = n - 1

\* Mistake: the id that was given out last.
NextIdLast == lastId

NextId == lastId + 1

\* Mistake: a connection without PRAGMA foreign_keys=ON.
InsertUnchecked(h) ==
  /\ job[h].pc = "insert"
  /\ lastId < MaxMessages
  /\ messages' = messages \cup {[id |-> NextId, from |-> job[h].pair[1],
                                 to |-> job[h].pair[2], delivered |-> FALSE]}
  /\ lastId' = NextId
  /\ Finish(h)
  /\ UNCHANGED <<accounts, contacts, shown, answered>>

Insert(h) ==
  LET pair == job[h].pair IN
  /\ job[h].pc = "insert"
  /\ IF {pair[1], pair[2]} \subseteq accounts      \* the foreign keys
     THEN /\ lastId < MaxMessages
          /\ messages' = messages \cup
               {[id |-> NextId, from |-> pair[1], to |-> pair[2], delivered |-> FALSE]}
          /\ lastId' = NextId
     ELSE UNCHANGED <<messages, lastId>>
  /\ Finish(h)
  /\ UNCHANGED <<accounts, contacts, shown, answered>>

-----------------------------------------------------------------------------
(***************************************************************************)
(* ReceiveMessages: one run selects what is undelivered, a later one marks *)
(* the ids it selected, and the reply is written after it.                 *)
(***************************************************************************)
BeginReceive(h, from, to) ==
  /\ to \in accounts
  /\ Begin(h, "select", <<from, to>>)
  /\ UNCHANGED <<accounts, contacts, messages, lastId, shown, answered>>

Between(pair) == {m \in messages : <<m.from, m.to>> = pair}

\* Mistake: the selection is limited to the newest message.
UndeliveredNewest(pair) ==
  {m.id : m \in {m \in Between(pair) : /\ ~m.delivered
                                       /\ \A k \in Between(pair) : k.id <= m.id}}

Undelivered(pair) == {m.id : m \in {m \in Between(pair) : ~m.delivered}}

Select(h) ==
  LET ids == Undelivered(job[h].pair) IN
  /\ job[h].pc = "select"
  /\ IF ids = {} THEN Finish(h) ELSE Goto(h, "mark", ids)
  /\ shown' = shown \cup ids
  /\ UNCHANGED <<accounts, contacts, messages, lastId, answered>>

\* Mistake: only the newest message of the reply is marked.
MarkNewest(h) ==
  LET newest == {n \in job[h].ids : \A k \in job[h].ids : k <= n} IN
  /\ job[h].pc = "mark"
  /\ messages' = {[m EXCEPT !.delivered = @ \/ m.id \in newest] : m \in messages}
  /\ Goto(h, "reply", job[h].ids)
  /\ UNCHANGED <<accounts, contacts, lastId, shown, answered>>

Mark(h) ==
  /\ job[h].pc = "mark"
  /\ messages' = {[m EXCEPT !.delivered = @ \/ m.id \in job[h].ids] : m \in messages}
  /\ Goto(h, "reply", job[h].ids)
  /\ UNCHANGED <<accounts, contacts, lastId, shown, answered>>

Reply(h) ==
  /\ job[h].pc = "reply"
  /\ answered' = answered \cup job[h].ids
  /\ Finish(h)
  /\ UNCHANGED <<accounts, contacts, messages, lastId, shown>>

-----------------------------------------------------------------------------
(***************************************************************************)
(* What other requests and administrative commands do beside them.         *)
(***************************************************************************)
AddContact(o, c) ==
  /\ {o, c} \subseteq accounts
  /\ contacts' = contacts \cup {<<o, c>>}
  /\ UNCHANGED <<accounts, messages, lastId, job, shown, answered>>

DropContact(o, c) ==          \* 0x178a of the contact's document
  /\ contacts' = contacts \ {<<o, c>>}
  /\ UNCHANGED <<accounts, messages, lastId, job, shown, answered>>

AddAccount(l) ==
  /\ accounts' = accounts \cup {l}
  /\ UNCHANGED <<contacts, messages, lastId, job, shown, answered>>

RemoveAccount(l) ==           \* with ON DELETE CASCADE at both ends
  LET kept == {m \in messages : l \notin {m.from, m.to}} IN
  /\ accounts' = accounts \ {l}
  /\ contacts' = {c \in contacts : l \notin {c[1], c[2]}}
  /\ messages' = kept
  /\ shown' = shown \cap {m.id : m \in kept}
  /\ UNCHANGED <<lastId, job, answered>>

(***************************************************************************)
(* A run of sqlite3 fails, the client's connection breaks, or the server   *)
(* is killed: the request is over, with what it has committed.             *)
(***************************************************************************)
Abort(h) ==
  /\ job[h].pc # "idle"
  /\ Finish(h)
  /\ UNCHANGED <<accounts, contacts, messages, lastId, shown, answered>>

Next ==
  \/ \E h \in Handler :
       \/ \E from, to \in Login : BeginSend(h, from, to) \/ BeginReceive(h, from, to)
       \/ CheckListed(h) \/ Insert(h) \/ Select(h) \/ Mark(h) \/ Reply(h) \/ Abort(h)
  \/ \E o, c \in Login : AddContact(o, c) \/ DropContact(o, c)
  \/ \E l \in Managed : AddAccount(l) \/ RemoveAccount(l)

Spec == Init /\ [][Next]_vars

-----------------------------------------------------------------------------
TypeOK ==
  /\ accounts \subseteq Login
  /\ contacts \subseteq Login \X Login
  /\ messages \subseteq Message
  /\ lastId \in 0 .. MaxMessages
  /\ job \in [Handler -> Job]
  /\ shown \subseteq Id
  /\ answered \subseteq Id

(* Every run of sqlite3 turns the foreign keys on: no message and no       *)
(* contact survives an account, nor is stored after it went, although a    *)
(* request looked the account up runs before.                              *)
ReferencesExist ==
  /\ \A m \in messages : {m.from, m.to} \subseteq accounts
  /\ contacts \subseteq accounts \X accounts

(* A message is never marked delivered unless a request of its recipient   *)
(* has selected that very message: an id a request still holds does not    *)
(* come to name another message when an account and its messages go.       *)
DeliveredWasShown == \A m \in messages : m.delivered => m.id \in shown

(* Delivery follows the order of sending: whatever two receive requests    *)
(* and the senders do between their runs, no message is marked delivered   *)
(* while an earlier one of the same pair is not.                           *)
DeliveredInOrder ==
  \A m, n \in messages :
    <<m.from, m.to>> = <<n.from, n.to>> /\ m.id < n.id /\ n.delivered => m.delivered

(* "second receive": what a reply has carried is not carried again by a    *)
(* receive that begins after it, although the reply is written long after  *)
(* the marking run and others select in between. Receives that overlap may *)
(* carry the same message.                                                 *)
NotReceivedAgain ==
  \A h \in Handler : job[h].pc = "reply" => job[h].ids \cap job[h].seen = {}
=============================================================================
