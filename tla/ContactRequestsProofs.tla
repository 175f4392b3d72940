------------------------- MODULE ContactRequestsProofs -------------------------
(***************************************************************************)
(* Theorems about ContactRequests, for every number of logins and handlers *)
(* and every bound on the ids.                                             *)
(***************************************************************************)
EXTENDS ContactRequests, TLAPS

(***************************************************************************)
(* What the answer of a 0x1784 rests on before it is given: the row it has *)
(* queued and the contact it has inserted are there, if nothing under them *)
(* was removed.                                                            *)
(***************************************************************************)
JobSound(h) ==
  LET j == job[h] IN
  /\ j.pc # "idle" => j.pair \in Pair
  /\ j.pc \in {"owner", "contact", "insert", "reply"} /\ "accounts" \in j.stayed =>
       [id |-> j.id, pair |-> j.pair] \in requests
  /\ j.pc = "reply" /\ j.stayed = {"accounts", "contact"} => j.pair \in contacts

JobsSound == \A h \in Handler : JobSound(h)

IInv == TypeOK /\ JobsSound /\ AnsweredIsQueued /\ AnsweredIsListed /\ EmptyIsTrue

\* The steps after a step.
LEMMA AfterStep == \A pc \in Step \ {"idle"} : After[pc] \in Step
  BY DEF Step, After

LEMMA InitInv == Init => IInv
<1>1. IdleJob \in Job
  BY DEF IdleJob, Job, Step
<1>2. IdleJob.pc = "idle"
  BY DEF IdleJob
<1> QED
  BY <1>1, <1>2, RequestsAssumption
  DEF Init, IInv, TypeOK, JobsSound, JobSound, AnsweredIsQueued, AnsweredIsListed, EmptyIsTrue

(***************************************************************************)
(* A step of one 0x1784, beside which rows and contacts only appear.       *)
(***************************************************************************)
LEMMA AskStep ==
  ASSUME IInv, NEW h \in Handler, NEW j \in Job, job' = [job EXCEPT ![h] = j],
         requests \subseteq requests', contacts \subseteq contacts',
         j.pc # "idle" => j.pair \in Pair,
         j.pc \in {"owner", "contact", "insert", "reply"} /\ "accounts" \in j.stayed =>
           [id |-> j.id, pair |-> j.pair] \in requests',
         j.pc = "reply" /\ j.stayed = {"accounts", "contact"} => j.pair \in contacts'
  PROVE  job' \in [Handler -> Job] /\ JobsSound'
<1>1. job' \in [Handler -> Job] /\ job'[h] = j /\ \A g \in Handler \ {h} : job'[g] = job[g]
  BY DEF IInv, TypeOK
<1>2. ASSUME NEW g \in Handler PROVE JobSound(g)'
  <2>1. CASE g = h
    BY <1>1, <2>1 DEF JobSound
  <2>2. CASE g # h
    BY <1>1, <2>2 DEF JobSound, IInv, JobsSound
  <2> QED BY <2>1, <2>2
<1> QED BY <1>1, <1>2 DEF JobsSound

LEMMA FinishStep ==
  ASSUME IInv, NEW h \in Handler, Finish(h),
         requests \subseteq requests', contacts \subseteq contacts'
  PROVE  job' \in [Handler -> Job] /\ JobsSound'
<1>1. IdleJob \in Job /\ IdleJob.pc = "idle"
  BY DEF IdleJob, Job, Step
<1> QED BY <1>1, AskStep DEF Finish

-----------------------------------------------------------------------------
LEMMA BeginStep ==
  ASSUME IInv, NEW h \in Handler, NEW pair \in Pair, BeginAsk(h, pair)
  PROVE  IInv'
<1> DEFINE j == [pc |-> "sender", pair |-> pair, id |-> 0, stayed |-> {"accounts", "contact"}]
<1>1. j \in Job /\ job' = [job EXCEPT ![h] = j]
  BY DEF Job, Step, BeginAsk
<1>2. UNCHANGED <<tables, history>>
  BY DEF BeginAsk
<1>3. job' \in [Handler -> Job] /\ JobsSound'
  BY <1>1, <1>2, AskStep DEF tables
<1> QED
  BY <1>2, <1>3
  DEF tables, history, IInv, TypeOK, EndsExist, AnsweredIsQueued, AnsweredIsListed, EmptyIsTrue

LEMMA CheckStep ==
  ASSUME IInv, NEW h \in Handler, CheckAccount(h)
  PROVE  IInv'
<1> DEFINE j == [job[h] EXCEPT !.pc = After[job[h].pc]]
<1>1. job[h] \in Job /\ JobSound(h) /\ job[h].pc \in {"sender", "recipient", "owner", "contact"}
  BY DEF IInv, TypeOK, JobsSound, CheckAccount
<1>2. After[job[h].pc] \in Step \ {"reply"} /\ (After[job[h].pc] \in {"contact", "insert"}
                                              <=> job[h].pc \in {"owner", "contact"})
      /\ After[job[h].pc] # "owner"
  BY <1>1 DEF After, Step
<1>3. /\ j \in Job /\ j.pc = After[job[h].pc] /\ j.pair = job[h].pair
      /\ j.id = job[h].id /\ j.stayed = job[h].stayed
  BY <1>1, <1>2 DEF Job
<1>4. job' = [job EXCEPT ![h] = j] /\ UNCHANGED <<tables, history>>
  BY DEF CheckAccount, Goto
<1> HIDE DEF j
<1>5. job' \in [Handler -> Job] /\ JobsSound'
  BY <1>1, <1>2, <1>3, <1>4, AskStep DEF tables, JobSound
<1> QED
  BY <1>4, <1>5
  DEF tables, history, IInv, TypeOK, EndsExist, AnsweredIsQueued, AnsweredIsListed, EmptyIsTrue

\* What Queue does to the rows.
LEMMA QueuedRow ==
  ASSUME IInv, NEW h \in Handler, Queue(h)
  PROVE  /\ requests \subseteq requests' /\ requests' \subseteq Row
         /\ \A r \in requests' : r \in requests
              \/ (r.id = lastId + 1 /\ r.pair = job[h].pair /\ RowsOf(r.pair) = {})
         /\ lastId' = lastId + 1 /\ lastId' \in 0 .. MaxIds
         /\ job[h].pair \in Pair
<1>1. job[h].pair \in Pair
  BY DEF IInv, JobsSound, JobSound, Queue
<1>2. lastId' = lastId + 1 /\ lastId \in 0 .. MaxIds /\ lastId < MaxIds
  BY DEF Queue, NewId, IInv, TypeOK
<1>3. lastId + 1 \in Id /\ lastId' \in 0 .. MaxIds
  BY <1>2, RequestsAssumption DEF Id
<1>4. requests' = requests \cup (IF RowsOf(job[h].pair) = {}
                                 THEN {[id |-> lastId + 1, pair |-> job[h].pair]} ELSE {})
  BY DEF Queue, Claim, NewId
<1>5. [id |-> lastId + 1, pair |-> job[h].pair] \in Row
  BY <1>1, <1>3 DEF Row
<1> QED BY <1>1, <1>2, <1>3, <1>4, <1>5 DEF IInv, TypeOK

LEMMA QueueStep ==
  ASSUME IInv, NEW h \in Handler, Queue(h)
  PROVE  IInv'
<1>1. /\ requests \subseteq requests' /\ requests' \subseteq Row
      /\ \A r \in requests' : r \in requests \/ r.pair = job[h].pair
      /\ lastId' \in 0 .. MaxIds /\ job[h].pair \in Pair
  BY QueuedRow
<1>2. UNCHANGED <<accounts, contacts, history>> /\ EndsExist(job[h].pair) /\ job[h].pc = "queue"
  BY DEF Queue
<1>3. PICK r \in requests' :
        /\ r.pair = job[h].pair
        /\ IF r.id <= Limit
           THEN job' = [job EXCEPT ![h] = [@ EXCEPT !.pc = After["queue"], !.id = r.id]]
           ELSE Finish(h)
  BY DEF Queue
<1>4. job' \in [Handler -> Job] /\ JobsSound'
  <2>1. CASE r.id <= Limit
    <3> DEFINE j == [job[h] EXCEPT !.pc = "owner", !.id = r.id]
    <3>1. job[h] \in Job /\ r \in Row /\ After["queue"] = "owner"
      BY <1>1 DEF IInv, TypeOK, After
    <3>2. /\ j \in Job /\ j.pc = "owner" /\ j.pair = job[h].pair /\ j.id = r.id
          /\ job' = [job EXCEPT ![h] = j]
      BY <1>3, <2>1, <3>1 DEF Job, Step, Row
    <3>3. r = [id |-> r.id, pair |-> r.pair]
      BY <3>1 DEF Row
    <3> HIDE DEF j
    <3> QED BY <1>1, <1>2, <1>3, <3>2, <3>3, AskStep
  <2>2. CASE ~(r.id <= Limit)
    BY <1>1, <1>2, <1>3, <2>2, FinishStep
  <2> QED BY <2>1, <2>2
<1>5. \A s \in requests' : EndsExist(s.pair)'
  BY <1>1, <1>2 DEF IInv, TypeOK, EndsExist
<1> QED
  BY <1>1, <1>2, <1>4, <1>5
  DEF history, IInv, TypeOK, AnsweredIsQueued, AnsweredIsListed, EmptyIsTrue

LEMMA InsertStep ==
  ASSUME IInv, NEW h \in Handler, InsertContact(h)
  PROVE  IInv'
<1> DEFINE j == [job[h] EXCEPT !.pc = "reply"]
<1>1. job[h] \in Job /\ JobSound(h) /\ job[h].pc = "insert" /\ After["insert"] = "reply"
  BY DEF IInv, TypeOK, JobsSound, InsertContact, After
<1>2. job[h].pair \in Pair /\ EndsExist(job[h].pair)
  BY <1>1 DEF JobSound, InsertContact
<1>3. /\ j \in Job /\ j.pc = "reply" /\ j.pair = job[h].pair
      /\ j.id = job[h].id /\ j.stayed = job[h].stayed
  BY <1>1 DEF Job, Step
<1>4. /\ job' = [job EXCEPT ![h] = j] /\ contacts' = contacts \cup {job[h].pair}
      /\ UNCHANGED <<accounts, requests, lastId, history>>
  BY <1>1 DEF InsertContact, Goto
<1> HIDE DEF j
<1>5. job' \in [Handler -> Job] /\ JobsSound'
  BY <1>1, <1>2, <1>3, <1>4, AskStep DEF JobSound
<1>6. contacts' \subseteq accounts \X accounts
  BY <1>2, <1>4 DEF IInv, TypeOK, Pair, EndsExist
<1> QED
  BY <1>4, <1>5, <1>6
  DEF history, IInv, TypeOK, EndsExist, AnsweredIsQueued, AnsweredIsListed, EmptyIsTrue

LEMMA ReplyStep ==
  ASSUME IInv, NEW h \in Handler, Reply(h)
  PROVE  IInv'
<1> DEFINE j == job[h]
<1>1. j \in Job /\ JobSound(h) /\ j.pc = "reply" /\ j.pair \in Pair
  BY DEF IInv, TypeOK, JobsSound, JobSound, Reply
<1>2. UNCHANGED tables /\ Finish(h)
  BY DEF Reply
<1>3. job' \in [Handler -> Job] /\ JobsSound'
  BY <1>2, FinishStep DEF tables
<1>4. AnsweredIsQueued'
  BY <1>1, <1>2 DEF Reply, tables, JobSound, IInv, AnsweredIsQueued
<1>5. AnsweredIsListed'
  BY <1>1, <1>2 DEF Reply, tables, JobSound, IInv, AnsweredIsListed
<1>6. j.pair[2] \in Login /\ told' = [told EXCEPT ![j.pair[2]] = "nothing"]
  BY <1>1 DEF Pair, Reply
<1>7. EmptyIsTrue'
  <2> SUFFICES ASSUME NEW l \in Login, told'[l] = "empty", NEW r \in queued' PROVE r.pair[2] # l
    BY DEF EmptyIsTrue
  <2>1. l # j.pair[2] /\ told[l] = "empty"
    BY <1>6 DEF IInv, TypeOK
  <2>2. r \in queued \/ r.pair = j.pair
    BY DEF Reply
  <2> QED BY <2>1, <2>2 DEF IInv, EmptyIsTrue
<1>8. queued' \subseteq Row /\ listed' \subseteq Pair
  BY <1>1, <1>2, <1>4 DEF Reply, IInv, TypeOK, AnsweredIsQueued, tables
<1> QED
  BY <1>2, <1>3, <1>4, <1>5, <1>6, <1>7, <1>8 DEF tables, IInv, TypeOK, EndsExist

LEMMA AbortStep ==
  ASSUME IInv, NEW h \in Handler, Abort(h)
  PROVE  IInv'
<1>1. job' \in [Handler -> Job] /\ JobsSound' /\ UNCHANGED <<tables, history>>
  BY FinishStep DEF Abort, tables
<1> QED
  BY <1>1
  DEF tables, history, IInv, TypeOK, EndsExist, AnsweredIsQueued, AnsweredIsListed, EmptyIsTrue

-----------------------------------------------------------------------------
\* A poll or a fetch.
LEMMA InboxStep ==
  ASSUME IInv, NEW l \in Login, NEW cursor \in Id, Poll(l, cursor) \/ Fetch(l, cursor)
  PROVE  IInv'
<1>1. /\ UNCHANGED <<tables, job, queued, listed>>
      /\ told' = [told EXCEPT ![l] = "empty"] \/ told' = [told EXCEPT ![l] = "pending"]
      /\ Pending(l, cursor) # {} => told' = [told EXCEPT ![l] = "pending"]
  BY DEF Poll, Fetch
<1>2. told' \in [Login -> {"nothing", "empty", "pending"}]
  BY <1>1 DEF IInv, TypeOK
<1>3. EmptyIsTrue'
  <2> SUFFICES ASSUME NEW m \in Login, told'[m] = "empty", NEW r \in queued PROVE r.pair[2] # m
    BY <1>1 DEF EmptyIsTrue
  <2>1. CASE m = l
    <3>1. Pending(l, cursor) = {}
      BY <1>1, <2>1 DEF IInv, TypeOK
    <3> QED BY <2>1, <3>1 DEF Pending, IInv, AnsweredIsQueued
  <2>2. CASE m # l
    BY <1>1, <2>2 DEF IInv, TypeOK, EmptyIsTrue
  <2> QED BY <2>1, <2>2
<1>4. JobsSound'
  BY <1>1 DEF tables, IInv, JobsSound, JobSound
<1> QED
  BY <1>1, <1>2, <1>3, <1>4 DEF tables, IInv, TypeOK, EndsExist, AnsweredIsQueued, AnsweredIsListed

(***************************************************************************)
(* A removal: what stood on it is noted, for every 0x1784 in flight.       *)
(***************************************************************************)
LEMMA NoteStep ==
  ASSUME IInv, NEW gone \in SUBSET Pair, NEW kinds \in {{"contact"}, {"accounts", "contact"}},
         Note(gone, kinds),
         contacts \ gone \subseteq contacts',
         \A r \in requests : ("accounts" \in kinds /\ r.pair \in gone) \/ r \in requests'
  PROVE  job' \in [Handler -> Job] /\ JobsSound' /\ AnsweredIsListed' /\ listed' \subseteq Pair
<1>1. ASSUME NEW h \in Handler PROVE job'[h] \in Job /\ JobSound(h)'
  <2>1. job[h] \in Job /\ JobSound(h)
    BY DEF IInv, TypeOK, JobsSound
  <2>2. CASE job[h].pair \notin gone
    <3>1. job'[h] = job[h]
      BY <2>2 DEF Note
    <3> QED BY <2>1, <2>2, <3>1 DEF JobSound
  <2>3. CASE job[h].pair \in gone
    <3>1. job'[h] = [job[h] EXCEPT !.stayed = @ \ kinds]
      BY <2>3 DEF Note
    <3>2. /\ job'[h] \in Job /\ job'[h].pc = job[h].pc /\ job'[h].pair = job[h].pair
          /\ job'[h].id = job[h].id /\ job'[h].stayed = job[h].stayed \ kinds
      BY <2>1, <3>1 DEF Job
    <3>3. "contact" \notin job'[h].stayed
      BY <3>2
    <3>4. "accounts" \in job'[h].stayed => "accounts" \in job[h].stayed /\ "accounts" \notin kinds
      BY <3>2
    <3> QED BY <2>1, <3>2, <3>3, <3>4 DEF JobSound
  <2> QED BY <2>2, <2>3
<1>2. job' \in [Handler -> Job]
  BY <1>1 DEF Note
<1>3. AnsweredIsListed' /\ listed' \subseteq Pair
  BY DEF Note, IInv, TypeOK, AnsweredIsListed
<1> QED BY <1>1, <1>2, <1>3 DEF JobsSound

LEMMA DropStep ==
  ASSUME IInv, NEW pair \in Pair, DropContact(pair)
  PROVE  IInv'
<1>1. /\ contacts' = contacts \ {pair} /\ Note({pair}, {"contact"})
      /\ UNCHANGED <<accounts, requests, lastId, queued, told>>
  BY DEF DropContact
<1>2. job' \in [Handler -> Job] /\ JobsSound' /\ AnsweredIsListed' /\ listed' \subseteq Pair
  BY <1>1, NoteStep
<1> QED BY <1>1, <1>2 DEF IInv, TypeOK, EndsExist, AnsweredIsQueued, EmptyIsTrue

LEMMA RemoveStep ==
  ASSUME IInv, NEW l \in Login, RemoveAccount(l)
  PROVE  IInv'
<1>1. /\ accounts' = accounts \ {l} /\ contacts' = contacts \ PairsOf(l)
      /\ requests' = {r \in requests : r.pair \notin PairsOf(l)}
      /\ Note(PairsOf(l), {"accounts", "contact"})
      /\ queued' = {r \in queued : r.pair \notin PairsOf(l)}
      /\ UNCHANGED <<lastId, told>>
  BY DEF RemoveAccount
<1>2. PairsOf(l) \in SUBSET Pair
  BY DEF PairsOf
<1>3. job' \in [Handler -> Job] /\ JobsSound' /\ AnsweredIsListed' /\ listed' \subseteq Pair
  BY <1>1, <1>2, NoteStep
<1>4. accounts' \subseteq Login /\ contacts' \subseteq accounts' \X accounts'
  BY <1>1 DEF IInv, TypeOK, PairsOf, Pair
<1>5. requests' \subseteq Row /\ \A r \in requests' : EndsExist(r.pair)'
  BY <1>1 DEF IInv, TypeOK, PairsOf, Pair, Row, EndsExist
<1> QED BY <1>1, <1>3, <1>4, <1>5 DEF IInv, TypeOK, AnsweredIsQueued, EmptyIsTrue

LEMMA AddStep ==
  ASSUME IInv, NEW l \in Login, AddAccount(l)
  PROVE  IInv'
<1>1. accounts' = accounts \cup {l} /\ UNCHANGED <<contacts, requests, lastId, job, history>>
  BY DEF AddAccount
<1>2. JobsSound'
  BY <1>1 DEF IInv, JobsSound, JobSound
<1> QED
  BY <1>1, <1>2
  DEF history, IInv, TypeOK, EndsExist, AnsweredIsQueued, AnsweredIsListed, EmptyIsTrue

LEMMA StutterStep ==
  ASSUME IInv, UNCHANGED vars
  PROVE  IInv'
<1>1. JobsSound'
  BY DEF vars, IInv, JobsSound, JobSound
<1> QED
  BY <1>1
  DEF vars, IInv, TypeOK, EndsExist, AnsweredIsQueued, AnsweredIsListed, EmptyIsTrue

-----------------------------------------------------------------------------
(***************************************************************************)
(* The four invariants with what the requests in flight rest on.           *)
(***************************************************************************)
THEOREM Inductive == Spec => []IInv
<1>1. IInv /\ [Next]_vars => IInv'
  BY BeginStep, CheckStep, QueueStep, InsertStep, ReplyStep, AbortStep, InboxStep, DropStep,
     RemoveStep, AddStep, StutterStep DEF Next
<1> QED BY <1>1, InitInv, PTL DEF Spec

(***************************************************************************)
(* Type correctness, and the foreign keys of both tables.                  *)
(***************************************************************************)
THEOREM TypeCorrect == Spec => []TypeOK
  BY Inductive, PTL DEF IInv

(***************************************************************************)
(* Every answered 0x1784 stays in the queue under its id.                  *)
(***************************************************************************)
THEOREM AnsweredStaysQueued == Spec => []AnsweredIsQueued
  BY Inductive, PTL DEF IInv

(***************************************************************************)
(* Every answered 0x1784 has made the recipient a contact of the sender.   *)
(***************************************************************************)
THEOREM AnsweredStaysListed == Spec => []AnsweredIsListed
  BY Inductive, PTL DEF IInv

(***************************************************************************)
(* No poll or fetch denies an answered request.                            *)
(***************************************************************************)
THEOREM EmptyRepliesAreTrue == Spec => []EmptyIsTrue
  BY Inductive, PTL DEF IInv

(***************************************************************************)
(* An id names one request for ever, across repetitions and removals.      *)
(***************************************************************************)
THEOREM IdsAreStable == Spec => IdsStable
<1>1. ASSUME IInv, [Next]_vars
      PROVE  \A r \in requests' : r \in requests \/ (r.id > lastId /\ RowsOf(r.pair) = {})
  <2>1. CASE UNCHANGED requests
    BY <2>1
  <2>2. ASSUME NEW h \in Handler, Queue(h)
        PROVE  \A r \in requests' : r \in requests \/ (r.id > lastId /\ RowsOf(r.pair) = {})
    <3>1. lastId \in Int
      BY <1>1, RequestsAssumption DEF IInv, TypeOK
    <3> QED BY <1>1, <2>2, <3>1, QueuedRow
  <2>3. ASSUME NEW l \in Login, RemoveAccount(l) PROVE requests' \subseteq requests
    BY <2>3 DEF RemoveAccount
  <2> QED
    BY <1>1, <2>1, <2>2, <2>3
    DEF Next, BeginAsk, CheckAccount, InsertContact, Reply, Abort, Poll, Fetch, DropContact,
        AddAccount, vars, tables
<1> QED BY <1>1, Inductive, PTL DEF Spec, IdsStable
=============================================================================
