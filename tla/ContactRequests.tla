---------------------------- MODULE ContactRequests ----------------------------
(***************************************************************************)
(* The queue of contact requests of server/go: the account RPCs 0x1784     *)
(* (ask), 0x1780 (poll) and 0x1781 (fetch) of native.go, over the tables   *)
(* native_contact_requests and contacts of database.go. As in              *)
(* NativeDocuments a run of the sqlite3 CLI is one step. Flags, times and  *)
(* delivered_utc are left out: no path of the server sets the last one,    *)
(* MarkNativeContactRequestDelivered has no caller but the tests, so that  *)
(* every row is pending.                                                   *)
(***************************************************************************)
EXTENDS Integers

CONSTANTS
  Login,      \* logins an account may have
  Handler,    \* goroutines of the account server that serve a 0x1784
  MaxIds,     \* bound on the ids given out in a behaviour
  Limit       \* the largest id that ParseUint accepts: 2^32 - 1

ASSUME RequestsAssumption == MaxIds \in Nat /\ Limit \in Nat

VARIABLES
  accounts,   \* SUBSET Login
  contacts,   \* SUBSET Pair: <<owner, contact>>
  requests,   \* SUBSET Row: native_contact_requests
  lastId,     \* the id AUTOINCREMENT gave out last, in sqlite_sequence
  job,        \* [Handler -> Job]
  queued,     \* history: the rows of answered 0x1784, while both accounts stay
  listed,     \* history: the pairs of answered 0x1784, while nobody removes them
  told        \* history: [Login -> what a poll said since the last answered 0x1784]

vars == <<accounts, contacts, requests, lastId, job, queued, listed, told>>
tables == <<accounts, contacts, requests, lastId>>
history == <<queued, listed, told>>

Id == 1 .. MaxIds
Pair == Login \X Login
Row == [id : Id, pair : Pair]

\* The runs of a 0x1784 in their order; "idle" is after the last one and before the first.
Step == {"idle", "sender", "recipient", "queue", "owner", "contact", "insert", "reply"}

After == [sender |-> "recipient", recipient |-> "queue", queue |-> "owner",
          owner |-> "contact", contact |-> "insert", insert |-> "reply", reply |-> "idle"]

NoPair == <<>>

\* `stayed` is history: no end of the pair was removed, and the contact was not, meanwhile.
Job == [pc : Step, pair : Pair \cup {NoPair}, id : Id \cup {0},
        stayed : SUBSET {"accounts", "contact"}]

IdleJob == [pc |-> "idle", pair |-> NoPair, id |-> 0, stayed |-> {}]

Init ==
  /\ accounts = Login /\ contacts = {} /\ requests = {} /\ lastId = 0
  /\ job = [h \in Handler |-> IdleJob]
  /\ queued = {} /\ listed = {}
  /\ told = [l \in Login |-> "nothing"]

Goto(h, pc) == job' = [job EXCEPT ![h] = [@ EXCEPT !.pc = pc]]

Finish(h) == job' = [job EXCEPT ![h] = IdleJob]

-----------------------------------------------------------------------------
(***************************************************************************)
(* 0x1784: QueueNativeContactRequest looks up both accounts, each in a run *)
(* of its own, and queues in a transaction; then AddContact looks them up  *)
(* again and inserts. Any run that refuses or fails ends the request with  *)
(* an error, and what the earlier ones have committed stays.               *)
(***************************************************************************)
BeginAsk(h, pair) ==
  /\ job[h].pc = "idle"
  /\ pair[1] # pair[2]                     \* "cannot add self as contact"
  /\ job' = [job EXCEPT ![h] = [pc |-> "sender", pair |-> pair, id |-> 0,
                                stayed |-> {"accounts", "contact"}]]
  /\ UNCHANGED <<tables, history>>

\* GetAccount.
CheckAccount(h) ==
  LET j == job[h]
      asked == IF j.pc \in {"sender", "owner"} THEN j.pair[1] ELSE j.pair[2]
  IN
  /\ j.pc \in {"sender", "recipient", "owner", "contact"}
  /\ asked \in accounts
  /\ Goto(h, After[j.pc])
  /\ UNCHANGED <<tables, history>>

\* The foreign keys of both tables.
EndsExist(pair) == {pair[1], pair[2]} \subseteq accounts

RowsOf(pair) == {r \in requests : r.pair = pair}

\* Mistake: INSERT OR REPLACE, which gives a repeated request an id of its own.
ClaimAnew(pair, id) ==
  requests' = (requests \ RowsOf(pair)) \cup {[id |-> id, pair |-> pair]}

\* INSERT OR IGNORE: the row of a repeated request keeps its id.
Claim(pair, id) ==
  requests' = requests \cup (IF RowsOf(pair) = {} THEN {[id |-> id, pair |-> pair]} ELSE {})

(***************************************************************************)
(* AUTOINCREMENT takes an id before the UNIQUE pair is checked, so that a  *)
(* repeated request uses one up. The id of the row is read in the same     *)
(* transaction; when it does not fit 32 bits the request fails, committed. *)
(***************************************************************************)
\* Mistake: INTEGER PRIMARY KEY without AUTOINCREMENT.
NewIdInUse ==
  IF requests = {} THEN 1
  ELSE CHOOSE n \in 1 .. MaxIds + 1 :
    /\ \A r \in requests : r.id < n
    /\ \E r \in requests : r.id = n - 1

\* Mistake: the id that was given out last.
NewIdLast == lastId

NewId == lastId + 1

Queue(h) ==
  LET j == job[h] IN
  /\ j.pc = "queue"
  /\ EndsExist(j.pair)
  /\ lastId < MaxIds
  /\ lastId' = NewId
  /\ Claim(j.pair, NewId)
  /\ \E r \in requests' :
       /\ r.pair = j.pair
       /\ IF r.id <= Limit
          THEN job' = [job EXCEPT ![h] = [@ EXCEPT !.pc = After["queue"], !.id = r.id]]
          ELSE Finish(h)
  /\ UNCHANGED <<accounts, contacts, history>>

InsertContact(h) ==
  /\ job[h].pc = "insert"
  /\ EndsExist(job[h].pair)
  /\ contacts' = contacts \cup {job[h].pair}
  /\ Goto(h, After["insert"])
  /\ UNCHANGED <<accounts, requests, lastId, history>>

\* Mistake: the request is answered as soon as it is queued.
ReplyQueued(h) ==
  LET j == job[h] IN
  /\ j.pc = "owner"
  /\ queued' = queued \cup (IF "accounts" \in j.stayed
                            THEN {[id |-> j.id, pair |-> j.pair]} ELSE {})
  /\ listed' = listed \cup (IF j.stayed = {"accounts", "contact"} THEN {j.pair} ELSE {})
  /\ told' = [told EXCEPT ![j.pair[2]] = "nothing"]
  /\ Finish(h)
  /\ UNCHANGED tables

Reply(h) ==
  LET j == job[h] IN
  /\ j.pc = "reply"
  /\ queued' = queued \cup (IF "accounts" \in j.stayed
                            THEN {[id |-> j.id, pair |-> j.pair]} ELSE {})
  /\ listed' = listed \cup (IF j.stayed = {"accounts", "contact"} THEN {j.pair} ELSE {})
  /\ told' = [told EXCEPT ![j.pair[2]] = "nothing"]
  /\ Finish(h)
  /\ UNCHANGED tables

\* A run refuses or fails, or the connection's context ends.
Abort(h) == job[h].pc # "idle" /\ Finish(h) /\ UNCHANGED <<tables, history>>

-----------------------------------------------------------------------------
(***************************************************************************)
(* 0x1780 and 0x1781, one run each: NextNativeContactRequest. The client   *)
(* sends the cursor it remembers from another server, which no row is      *)
(* compared with. A poll tells whether there is a request; a fetch, which  *)
(* should return it, fails when there is one, as both do when its id does  *)
(* not parse.                                                              *)
(***************************************************************************)
\* Mistake: the cursor taken for an id of this database.
PendingAfterCursor(l, cursor) == {r \in requests : r.pair[2] = l /\ r.id > cursor}

Pending(l, cursor) == {r \in requests : r.pair[2] = l}

Oldest(rows) == CHOOSE r \in rows : \A s \in rows : r.id <= s.id

Poll(l, cursor) ==
  LET rows == Pending(l, cursor) IN
  /\ rows # {} => Oldest(rows).id <= Limit
  /\ told' = [told EXCEPT ![l] = IF rows = {} THEN "empty" ELSE "pending"]
  /\ UNCHANGED <<tables, job, queued, listed>>

Fetch(l, cursor) ==
  /\ Pending(l, cursor) = {}
  /\ told' = [told EXCEPT ![l] = "empty"]
  /\ UNCHANGED <<tables, job, queued, listed>>

-----------------------------------------------------------------------------
\* What the jobs and the history note when what pairs stand on is removed.
Note(gone, kinds) ==
  /\ job' = [h \in Handler |->
       IF job[h].pair \in gone THEN [job[h] EXCEPT !.stayed = @ \ kinds] ELSE job[h]]
  /\ listed' = listed \ gone

\* 0x178a of the contact's document, which deletes the contact and not the request.
DropContact(pair) ==
  /\ contacts' = contacts \ {pair}
  /\ Note({pair}, {"contact"})
  /\ UNCHANGED <<accounts, requests, lastId, queued, told>>

PairsOf(l) == {p \in Pair : l \in {p[1], p[2]}}

\* RemoveAccount, with ON DELETE CASCADE, and AddAccount.
RemoveAccount(l) ==
  /\ accounts' = accounts \ {l}
  /\ contacts' = contacts \ PairsOf(l)
  /\ requests' = {r \in requests : r.pair \notin PairsOf(l)}
  /\ Note(PairsOf(l), {"accounts", "contact"})
  /\ queued' = {r \in queued : r.pair \notin PairsOf(l)}
  /\ UNCHANGED <<lastId, told>>

AddAccount(l) ==
  /\ accounts' = accounts \cup {l}
  /\ UNCHANGED <<contacts, requests, lastId, job, history>>

-----------------------------------------------------------------------------
Next ==
  \/ \E h \in Handler :
       \/ \E pair \in Pair : BeginAsk(h, pair)
       \/ CheckAccount(h) \/ Queue(h) \/ InsertContact(h) \/ Reply(h) \/ Abort(h)
  \/ \E l \in Login, cursor \in Id : Poll(l, cursor) \/ Fetch(l, cursor)
  \/ \E pair \in Pair : DropContact(pair)
  \/ \E l \in Login : RemoveAccount(l) \/ AddAccount(l)

Spec == Init /\ [][Next]_vars

-----------------------------------------------------------------------------
TypeOK ==
  /\ accounts \subseteq Login
  /\ contacts \subseteq accounts \X accounts
  /\ requests \subseteq Row /\ \A r \in requests : EndsExist(r.pair)
  /\ lastId \in 0 .. MaxIds
  /\ job \in [Handler -> Job]
  /\ queued \subseteq Row
  /\ listed \subseteq Pair
  /\ told \in [Login -> {"nothing", "empty", "pending"}]

(* A 0x1784 that was answered is in the queue, under the id that was       *)
(* logged for it, until one of the two accounts is removed: no repetition  *)
(* of it, whatever fails and wherever, moves it behind later requests.     *)
AnsweredIsQueued == queued \subseteq requests

(* "A pending authorization is still contact-list membership for the       *)
(* sender" (native.go): the recipient of an answered 0x1784 is a contact   *)
(* of its sender until somebody removes it, although queue and membership  *)
(* are committed by different runs.                                        *)
AnsweredIsListed == listed \subseteq contacts

(* A poll or a fetch that finds nothing is true: after an answered 0x1784  *)
(* none tells the recipient so as long as both accounts exist.             *)
EmptyIsTrue ==
  \A l \in Login : told[l] = "empty" => \A r \in queued : r.pair[2] # l

(* An id of the queue names one request for ever: a row of a step has the  *)
(* id it had before, or one that was never given out.                      *)
IdsStable ==
  [][\A r \in requests' : r \in requests \/ (r.id > lastId /\ RowsOf(r.pair) = {})]_vars
=============================================================================
