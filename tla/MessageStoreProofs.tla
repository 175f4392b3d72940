-------------------------- MODULE MessageStoreProofs --------------------------
(***************************************************************************)
(* Theorems about MessageStore, for every number of accounts, API requests *)
(* and messages.                                                           *)
(***************************************************************************)
EXTENDS MessageStore, TLAPS

(***************************************************************************)
(* The inductive invariant. An id names one message; and the ids a receive *)
(* request is about to mark name messages of its pair that it has selected,*)
(* none of them passed over.                                               *)
(***************************************************************************)
IdsNameOne ==
  /\ \A m \in messages : m.id <= lastId
  /\ \A m, n \in messages : m.id = n.id => m = n

Holds(h) ==
  /\ \A i \in job[h].ids : i <= lastId
  /\ \A m \in messages : m.id \in job[h].ids =>
       m.id \in shown /\ <<m.from, m.to>> = job[h].pair
  /\ \A m, n \in messages :
       /\ <<m.from, m.to>> = job[h].pair
       /\ n.id \in job[h].ids /\ m.id < n.id
       => m.delivered \/ m.id \in job[h].ids

HoldsInv == \A h \in Handler : job[h].pc = "mark" => Holds(h)

\* The requests that insert or receive are about two logins.
PairsOK == \A h \in Handler : job[h].pc # "idle" => job[h].pair \in Login \X Login

IInv == TypeOK /\ PairsOK /\ IdsNameOne /\ HoldsInv /\ DeliveredWasShown /\ DeliveredInOrder

\* An empty message store satisfies the invariant.
LEMMA InitInv == Init => IInv
  BY MessagesAssumption
  DEF Init, IInv, TypeOK, PairsOK, IdsNameOne, HoldsInv, DeliveredWasShown, DeliveredInOrder,
      IdleJob, Job, Step, Id

(***************************************************************************)
(* What a step does to one request, and to the others: nothing.            *)
(***************************************************************************)
LEMMA JobStep ==
  ASSUME TypeOK, PairsOK, NEW h \in Handler, NEW j \in Job,
         j.pc # "idle" => j.pair \in Login \X Login,
         job' = [job EXCEPT ![h] = j]
  PROVE  /\ job' \in [Handler -> Job] /\ PairsOK'
         /\ job'[h] = j /\ \A g \in Handler \ {h} : job'[g] = job[g]
  BY DEF TypeOK, PairsOK

\* A request that moves on with new ids keeps its pair and its history.
LEMMA GotoStep ==
  ASSUME TypeOK, PairsOK, NEW h \in Handler, job[h].pc # "idle",
         NEW pc \in Step, NEW ids \in SUBSET Id, Goto(h, pc, ids)
  PROVE  /\ job' \in [Handler -> Job] /\ PairsOK'
         /\ job'[h].pc = pc /\ job'[h].ids = ids /\ job'[h].pair = job[h].pair
         /\ job'[h].seen = job[h].seen
         /\ \A g \in Handler \ {h} : job'[g] = job[g]
  <1> DEFINE next == [job[h] EXCEPT !.pc = pc, !.ids = ids]
  <1>1. job[h] \in Job /\ job[h].pair \in Login \X Login
    BY DEF TypeOK, PairsOK
  <1>2. /\ next \in Job /\ next.pair \in Login \X Login
        /\ next.pc = pc /\ next.ids = ids /\ next.pair = job[h].pair
        /\ next.seen = job[h].seen
    BY <1>1 DEF Job
  <1>3. job' = [job EXCEPT ![h] = next]
    BY <1>1 DEF Goto, TypeOK, Job
  <1> HIDE DEF next
  <1> QED
    BY <1>2, <1>3, JobStep

\* A request that ends is idle, and the others are as they were.
LEMMA FinishStep ==
  ASSUME TypeOK, PairsOK, NEW h \in Handler, Finish(h)
  PROVE  /\ job' \in [Handler -> Job] /\ PairsOK' /\ job'[h] = IdleJob /\ job'[h].pc = "idle"
         /\ \A g \in Handler \ {h} : job'[g] = job[g]
  <1>1. IdleJob \in Job /\ IdleJob.pc = "idle"
    BY DEF IdleJob, Job, Step
  <1> QED
    BY <1>1, JobStep DEF Finish

(***************************************************************************)
(* A step that leaves messages alone and moves one request, to a place     *)
(* where it marks nothing.                                                 *)
(***************************************************************************)
LEMMA QuietStep ==
  ASSUME IInv, NEW h \in Handler,
         job' \in [Handler -> Job], PairsOK', job'[h].pc # "mark",
         \A g \in Handler \ {h} : job'[g] = job[g],
         UNCHANGED <<messages, lastId, shown>>,
         accounts' \subseteq Login, contacts' \subseteq Login \X Login,
         answered' \subseteq Id
  PROVE  IInv'
  <1>1. TypeOK'
    BY DEF IInv, TypeOK
  <1>2. HoldsInv'
    BY DEF IInv, HoldsInv, Holds
  <1> QED
    BY <1>1, <1>2 DEF IInv, IdsNameOne, DeliveredWasShown, DeliveredInOrder

\* SendMessage inserts under an id above all that requests hold, so what they
\* hold still names the same messages.
LEMMA InsertStep ==
  ASSUME IInv, NEW h \in Handler, Insert(h) PROVE IInv'
  <1>1. TypeOK /\ PairsOK /\ job[h].pc = "insert"
    BY DEF IInv, Insert
  <1>2. /\ job' \in [Handler -> Job] /\ PairsOK' /\ job'[h].pc = "idle"
        /\ \A g \in Handler \ {h} : job'[g] = job[g]
    BY <1>1, FinishStep DEF Insert
  <1>3. CASE UNCHANGED <<messages, lastId>>
    BY <1>1, <1>2, <1>3, QuietStep DEF Insert, TypeOK
  <1>4. CASE ~UNCHANGED <<messages, lastId>>
    <2> DEFINE new == [id |-> lastId + 1, from |-> job[h].pair[1],
                       to |-> job[h].pair[2], delivered |-> FALSE]
    <2>1. /\ messages' = messages \cup {new} /\ lastId' = lastId + 1
          /\ lastId < MaxMessages /\ lastId \in Nat
      BY <1>1, <1>4, MessagesAssumption DEF Insert, NextId, TypeOK
    <2>2. new \in Message /\ new.id = lastId + 1 /\ ~new.delivered
      BY <1>1, <2>1, MessagesAssumption DEF PairsOK, Message, Id
    <2> HIDE DEF new
    <2>3. TypeOK'
      BY <1>1, <1>2, <2>1, <2>2, MessagesAssumption DEF Insert, TypeOK
    <2>4. \A m \in messages : m.id \in Nat /\ m.id <= lastId /\ m.id # new.id
      BY <1>1, <2>1, <2>2 DEF IInv, IdsNameOne, TypeOK, Message, Id
    <2>5. IdsNameOne'
      BY <2>1, <2>2, <2>4 DEF IInv, IdsNameOne
    <2>6. DeliveredWasShown'
      BY <2>1, <2>2 DEF IInv, DeliveredWasShown, Insert
    <2>7. DeliveredInOrder'
      BY <2>1, <2>2, <2>4 DEF IInv, DeliveredInOrder
    <2>8. ASSUME NEW g \in Handler, job'[g].pc = "mark" PROVE Holds(g)'
      <3>1. g # h /\ job'[g] = job[g] /\ Holds(g)
        BY <1>2, <2>8 DEF IInv, HoldsInv
      <3>2. \A i \in job[g].ids : i \in Nat /\ i <= lastId /\ i # new.id
        BY <1>1, <2>1, <2>2, <3>1 DEF Holds, TypeOK, Job, Id
      <3>3. \A i \in job[g].ids : i <= lastId'
        BY <2>1, <3>2
      <3>4. \A m \in messages' : m.id \in job[g].ids =>
              m \in messages /\ m.id \in shown /\ <<m.from, m.to>> = job[g].pair
        BY <2>1, <3>1, <3>2 DEF Holds
      <3>5. \A m, n \in messages' : n.id \in job[g].ids /\ m.id < n.id =>
              m \in messages /\ n \in messages
        BY <2>1, <2>2, <2>4, <3>2
      <3> QED
        BY <3>1, <3>3, <3>4, <3>5 DEF Holds, Insert
    <2> QED
      BY <1>2, <2>3, <2>5, <2>6, <2>7, <2>8 DEF IInv, HoldsInv
  <1> QED
    BY <1>3, <1>4

\* A selection takes every undelivered message of its pair: none is passed
\* over.
LEMMA SelectStep ==
  ASSUME IInv, NEW h \in Handler, Select(h) PROVE IInv'
  <1> DEFINE ids == Undelivered(job[h].pair)
  <1>1. TypeOK /\ PairsOK /\ job[h].pc = "select"
    BY DEF IInv, Select
  <1>2. \A i : i \in ids <=>
          \E m \in messages : <<m.from, m.to>> = job[h].pair /\ ~m.delivered /\ m.id = i
    BY DEF Undelivered, Between
  <1>3. ids \subseteq Id
    BY <1>1, <1>2 DEF TypeOK, Message
  <1>4. /\ shown' = shown \cup ids
        /\ UNCHANGED <<accounts, contacts, messages, lastId, answered>>
        /\ Finish(h) \/ Goto(h, "mark", ids)
    BY DEF Select
  <1> HIDE DEF ids
  <1>5. /\ job' \in [Handler -> Job] /\ PairsOK'
        /\ job'[h].pc = "mark" => job'[h].ids = ids /\ job'[h].pair = job[h].pair
        /\ \A g \in Handler \ {h} : job'[g] = job[g]
    BY <1>1, <1>3, <1>4, FinishStep, GotoStep DEF Step
  <1>6. TypeOK'
    BY <1>1, <1>3, <1>4, <1>5 DEF TypeOK
  <1>7. IdsNameOne' /\ DeliveredWasShown' /\ DeliveredInOrder'
    BY <1>4 DEF IInv, IdsNameOne, DeliveredWasShown, DeliveredInOrder
  <1>8. ASSUME NEW g \in Handler, g # h, job'[g].pc = "mark" PROVE Holds(g)'
    <2>1. job'[g] = job[g] /\ Holds(g)
      BY <1>5, <1>8 DEF IInv, HoldsInv
    <2> QED
      BY <1>4, <2>1 DEF Holds
  <1>9. ASSUME job'[h].pc = "mark" PROVE Holds(h)'
    <2>1. \A i \in ids : i <= lastId
      BY <1>2 DEF IInv, IdsNameOne
    <2>2. \A m \in messages : m.id \in ids => <<m.from, m.to>> = job[h].pair
      BY <1>2 DEF IInv, IdsNameOne
    <2>3. \A m \in messages : <<m.from, m.to>> = job[h].pair => m.delivered \/ m.id \in ids
      BY <1>2
    <2> QED
      BY <1>4, <1>5, <1>9, <2>1, <2>2, <2>3 DEF Holds
  <1> QED
    BY <1>5, <1>6, <1>7, <1>8, <1>9 DEF IInv, HoldsInv

\* Marking what was selected marks shown messages only, and no message behind
\* an undelivered one, although others marked and sent since the selection.
LEMMA MarkStep ==
  ASSUME IInv, NEW h \in Handler, Mark(h) PROVE IInv'
  <1> DEFINE after(m) == [m EXCEPT !.delivered = @ \/ m.id \in job[h].ids]
  <1>1. TypeOK /\ PairsOK /\ job[h].pc = "mark" /\ Holds(h) /\ job[h].ids \in SUBSET Id
    BY DEF IInv, Mark, HoldsInv, TypeOK, Job
  <1>2. messages' = {after(m) : m \in messages} /\ UNCHANGED <<accounts, contacts, lastId, shown, answered>>
    BY DEF Mark
  <1>3. /\ job' \in [Handler -> Job] /\ PairsOK' /\ job'[h].pc = "reply"
        /\ \A g \in Handler \ {h} : job'[g] = job[g]
    BY <1>1, GotoStep DEF Mark, Step
  <1>4. \A m \in messages :
          /\ after(m) \in Message
          /\ after(m).id = m.id /\ after(m).from = m.from /\ after(m).to = m.to
          /\ after(m).delivered <=> m.delivered \/ m.id \in job[h].ids
    BY <1>1 DEF TypeOK, Message
  <1>5. \A x \in messages' : \E m \in messages : x = after(m)
    BY <1>2
  <1> HIDE DEF after
  <1>6. TypeOK'
    BY <1>1, <1>2, <1>3, <1>4 DEF TypeOK
  <1>7. IdsNameOne'
    BY <1>2, <1>4, <1>5 DEF IInv, IdsNameOne
  <1>8. DeliveredWasShown'
    BY <1>1, <1>2, <1>4, <1>5 DEF IInv, DeliveredWasShown, Holds
  <1>9. DeliveredInOrder'
    <2> SUFFICES ASSUME NEW x \in messages', NEW y \in messages',
                        <<x.from, x.to>> = <<y.from, y.to>>, x.id < y.id, y.delivered
                 PROVE  x.delivered
      BY DEF DeliveredInOrder
    <2>1. PICK m \in messages, n \in messages : x = after(m) /\ y = after(n)
      BY <1>5
    <2>2. <<m.from, m.to>> = <<n.from, n.to>> /\ m.id < n.id
      BY <1>4, <2>1
    <2>3. n.delivered \/ n.id \in job[h].ids
      BY <1>4, <2>1
    <2>4. m.delivered \/ m.id \in job[h].ids
      BY <1>1, <2>2, <2>3 DEF IInv, DeliveredInOrder, Holds
    <2> QED
      BY <1>4, <2>1, <2>4
  <1>10. ASSUME NEW g \in Handler, job'[g].pc = "mark" PROVE Holds(g)'
    <2>1. g # h /\ job'[g] = job[g] /\ Holds(g)
      BY <1>3, <1>10 DEF IInv, HoldsInv
    <2>2. \A i \in job[g].ids : i <= lastId'
      BY <1>2, <2>1 DEF Holds
    <2>3. \A x \in messages' : x.id \in job[g].ids =>
            x.id \in shown' /\ <<x.from, x.to>> = job[g].pair
      BY <1>2, <1>4, <1>5, <2>1 DEF Holds
    <2>4. ASSUME NEW x \in messages', NEW y \in messages',
                 <<x.from, x.to>> = job[g].pair, y.id \in job[g].ids, x.id < y.id
          PROVE  x.delivered \/ x.id \in job[g].ids
      <3>1. PICK m \in messages, n \in messages : x = after(m) /\ y = after(n)
        BY <1>5
      <3>2. m.delivered \/ m.id \in job[g].ids
        BY <1>4, <2>1, <2>4, <3>1 DEF Holds
      <3> QED
        BY <1>4, <3>1, <3>2
    <2> QED
      BY <2>1, <2>2, <2>3, <2>4 DEF Holds
  <1> QED
    BY <1>3, <1>6, <1>7, <1>8, <1>9, <1>10 DEF IInv, HoldsInv

\* The cascade of an account takes messages away and gives no id away.
LEMMA RemoveAccountStep ==
  ASSUME IInv, NEW l \in Login, RemoveAccount(l) PROVE IInv'
  <1>1. /\ messages' \subseteq messages /\ shown' = shown \cap {m.id : m \in messages'}
        /\ accounts' \subseteq Login /\ contacts' \subseteq contacts
        /\ UNCHANGED <<lastId, job, answered>>
    BY DEF RemoveAccount, IInv, TypeOK
  <1>2. TypeOK' /\ PairsOK'
    BY <1>1 DEF IInv, TypeOK, PairsOK
  <1>3. IdsNameOne' /\ DeliveredInOrder'
    BY <1>1 DEF IInv, IdsNameOne, DeliveredInOrder
  <1>4. DeliveredWasShown'
    BY <1>1 DEF IInv, DeliveredWasShown
  <1>5. HoldsInv'
    BY <1>1 DEF IInv, HoldsInv, Holds
  <1> QED
    BY <1>2, <1>3, <1>4, <1>5 DEF IInv

\* Every step keeps the invariant.
LEMMA NextInv == IInv /\ [Next]_vars => IInv'
  <1> SUFFICES ASSUME IInv, [Next]_vars PROVE IInv'
    OBVIOUS
  <1>1. TypeOK /\ PairsOK
    BY DEF IInv
  <1>2. ASSUME NEW h \in Handler, NEW from \in Login, NEW to \in Login,
               BeginSend(h, from, to) \/ BeginReceive(h, from, to)
        PROVE  IInv'
    <2>1. PICK pc \in {"listed", "select"} :
            job' = [job EXCEPT ![h] =
              [pc |-> pc, pair |-> <<from, to>>, ids |-> {}, seen |-> answered]]
      BY <1>2 DEF BeginSend, BeginReceive, Begin
    <2>2. [pc |-> pc, pair |-> <<from, to>>, ids |-> {}, seen |-> answered] \in Job
      BY <1>1 DEF TypeOK, Job, Step
    <2>3. /\ job' \in [Handler -> Job] /\ PairsOK' /\ job'[h].pc # "mark"
          /\ \A g \in Handler \ {h} : job'[g] = job[g]
      BY <1>1, <2>1, <2>2, JobStep
    <2> QED
      BY <1>1, <1>2, <2>3, QuietStep DEF BeginSend, BeginReceive, TypeOK
  <1>3. ASSUME NEW h \in Handler, CheckListed(h) PROVE IInv'
    <2>1. job[h].pc # "idle" /\ (Goto(h, "insert", {}) \/ Finish(h))
      BY <1>3 DEF CheckListed
    <2>2. /\ job' \in [Handler -> Job] /\ PairsOK' /\ job'[h].pc # "mark"
          /\ \A g \in Handler \ {h} : job'[g] = job[g]
      BY <1>1, <2>1, GotoStep, FinishStep DEF Step
    <2> QED
      BY <1>1, <1>3, <2>2, QuietStep DEF CheckListed, TypeOK
  <1>4. ASSUME NEW h \in Handler, Reply(h) \/ Abort(h) PROVE IInv'
    <2>1. /\ job' \in [Handler -> Job] /\ PairsOK' /\ job'[h].pc = "idle"
          /\ \A g \in Handler \ {h} : job'[g] = job[g]
      BY <1>1, <1>4, FinishStep DEF Reply, Abort
    <2>2. answered' \subseteq Id
      BY <1>1, <1>4 DEF Reply, Abort, TypeOK, Job
    <2> QED
      BY <1>1, <1>4, <2>1, <2>2, QuietStep DEF Reply, Abort, TypeOK
  <1>5. ASSUME NEW h \in Handler, Insert(h) \/ Select(h) \/ Mark(h) PROVE IInv'
    BY <1>5, InsertStep, SelectStep, MarkStep
  <1>6. ASSUME NEW o \in Login, NEW c \in Login, AddContact(o, c) \/ DropContact(o, c) PROVE IInv'
    BY <1>6 DEF AddContact, DropContact, IInv, TypeOK, PairsOK, IdsNameOne, HoldsInv, Holds,
       DeliveredWasShown, DeliveredInOrder
  <1>7. ASSUME NEW l \in Managed, AddAccount(l) PROVE IInv'
    BY <1>7, MessagesAssumption
    DEF AddAccount, IInv, TypeOK, PairsOK, IdsNameOne, HoldsInv, Holds,
        DeliveredWasShown, DeliveredInOrder
  <1>8. ASSUME NEW l \in Managed, RemoveAccount(l) PROVE IInv'
    BY <1>8, MessagesAssumption, RemoveAccountStep
  <1>9. CASE UNCHANGED vars
    BY <1>9 DEF vars, IInv, TypeOK, PairsOK, IdsNameOne, HoldsInv, Holds,
       DeliveredWasShown, DeliveredInOrder
  <1> QED
    BY <1>2, <1>3, <1>4, <1>5, <1>6, <1>7, <1>8, <1>9 DEF Next

(***************************************************************************)
(* Type correctness: ids stay among those AUTOINCREMENT has given out, and *)
(* requests, rows and replies have values of the right kind.               *)
(***************************************************************************)
THEOREM TypeCorrect == Spec => []TypeOK
  <1>1. IInv => TypeOK
    BY DEF IInv
  <1> QED
    BY <1>1, InitInv, NextInv, PTL DEF Spec

(***************************************************************************)
(* Whatever receive requests, senders and account removals interleave: a   *)
(* message is marked delivered only after its recipient was shown it, ...  *)
(***************************************************************************)
THEOREM DeliveredOnlyIfShown == Spec => []DeliveredWasShown
  <1>1. IInv => DeliveredWasShown
    BY DEF IInv
  <1> QED
    BY <1>1, InitInv, NextInv, PTL DEF Spec

(***************************************************************************)
(* ... and in the order in which the messages of its pair were sent.       *)
(***************************************************************************)
THEOREM DeliveryIsInOrder == Spec => []DeliveredInOrder
  <1>1. IInv => DeliveredInOrder
    BY DEF IInv
  <1> QED
    BY <1>1, InitInv, NextInv, PTL DEF Spec

(***************************************************************************)
(* Foreign keys are checked in the run that writes, so that no message and *)
(* no contact refers to an account that is gone.                           *)
(***************************************************************************)
THEOREM ReferencesAlwaysExist == Spec => []ReferencesExist
  <1>1. Init => ReferencesExist
    BY MessagesAssumption DEF Init, ReferencesExist
  <1>2. IInv /\ ReferencesExist /\ [Next]_vars => ReferencesExist'
    <2> SUFFICES ASSUME IInv, ReferencesExist, [Next]_vars PROVE ReferencesExist'
      OBVIOUS
    <2>1. ASSUME NEW h \in Handler, Insert(h) PROVE ReferencesExist'
      BY <2>1 DEF Insert, ReferencesExist
    <2>2. ASSUME NEW h \in Handler, Mark(h) PROVE ReferencesExist'
      BY <2>2 DEF Mark, ReferencesExist, IInv, TypeOK, Message
    <2>3. ASSUME NEW l \in Managed, RemoveAccount(l) PROVE ReferencesExist'
      BY <2>3 DEF RemoveAccount, ReferencesExist
    <2>4. ASSUME NEW l \in Managed, AddAccount(l) PROVE ReferencesExist'
      BY <2>4 DEF AddAccount, ReferencesExist
    <2>5. ASSUME NEW o \in Login, NEW c \in Login, AddContact(o, c) \/ DropContact(o, c)
          PROVE  ReferencesExist'
      BY <2>5 DEF AddContact, DropContact, ReferencesExist
    <2>6. CASE UNCHANGED <<accounts, contacts, messages>>
      BY <2>6 DEF ReferencesExist
    <2> QED
      BY <2>1, <2>2, <2>3, <2>4, <2>5, <2>6
      DEF Next, vars, BeginSend, BeginReceive, CheckListed, Select, Reply, Abort
  <1> QED
    BY <1>1, <1>2, InitInv, NextInv, PTL DEF Spec

-----------------------------------------------------------------------------
(***************************************************************************)
(* Messages that a reply has carried, or is about to carry, are marked;    *)
(* what a request saw answered when it began is answered still.            *)
(***************************************************************************)
AnsweredIsMarked ==
  /\ \A i \in answered : i <= lastId
  /\ \A m \in messages : m.id \in answered => m.delivered

Replying(h) ==
  /\ job[h].seen \subseteq answered
  /\ job[h].pc \in {"mark", "reply"} =>
       /\ \A i \in job[h].ids : i <= lastId
       /\ job[h].ids \cap job[h].seen = {}
  /\ job[h].pc = "reply" => \A m \in messages : m.id \in job[h].ids => m.delivered

AnswerInv == AnsweredIsMarked /\ \A h \in Handler : Replying(h)

(***************************************************************************)
(* The invariant survives a step that leaves messages alone or marks more  *)
(* of them, if the requests it moves satisfy it.                           *)
(***************************************************************************)
LEMMA AnswerFrame ==
  ASSUME AnswerInv, UNCHANGED <<lastId, answered>>,
         \A x \in messages' : \E m \in messages : x.id = m.id /\ (m.delivered => x.delivered),
         \A g \in Handler : job'[g] = job[g] \/ Replying(g)'
  PROVE  AnswerInv'
  <1>1. AnsweredIsMarked'
    BY DEF AnswerInv, AnsweredIsMarked
  <1>2. ASSUME NEW g \in Handler PROVE Replying(g)'
    BY DEF AnswerInv, Replying
  <1> QED
    BY <1>1, <1>2 DEF AnswerInv

\* Every step keeps the invariant about what replies have carried.
LEMMA AnswerStep == IInv /\ AnswerInv /\ [Next]_vars => AnswerInv'
  <1> SUFFICES ASSUME IInv, AnswerInv, [Next]_vars PROVE AnswerInv'
    OBVIOUS
  <1>1. TypeOK /\ PairsOK
    BY DEF IInv
  <1>2. ASSUME NEW h \in Handler, NEW from \in Login, NEW to \in Login,
               BeginSend(h, from, to) \/ BeginReceive(h, from, to)
        PROVE  AnswerInv'
    <2>1. /\ job'[h].pc \in {"listed", "select"} /\ job'[h].seen = answered
          /\ \A g \in Handler \ {h} : job'[g] = job[g]
          /\ UNCHANGED <<messages, lastId, answered>>
      BY <1>1, <1>2 DEF BeginSend, BeginReceive, Begin, TypeOK
    <2>2. Replying(h)'
      BY <2>1 DEF Replying
    <2> QED
      BY <2>1, <2>2, AnswerFrame
  <1>3. ASSUME NEW h \in Handler, CheckListed(h) PROVE AnswerInv'
    <2>1. /\ job[h].pc = "listed" /\ UNCHANGED <<messages, lastId, answered>>
          /\ Goto(h, "insert", {}) \/ Finish(h)
      BY <1>3 DEF CheckListed
    <2>2. /\ job'[h].pc \in {"insert", "idle"} /\ job'[h].seen \subseteq job[h].seen
          /\ \A g \in Handler \ {h} : job'[g] = job[g]
      BY <1>1, <2>1, GotoStep, FinishStep DEF Step, IdleJob
    <2>3. Replying(h)'
      BY <2>1, <2>2 DEF AnswerInv, Replying
    <2> QED
      BY <2>1, <2>2, <2>3, AnswerFrame
  <1>4. ASSUME NEW h \in Handler, Insert(h) PROVE AnswerInv'
    <2>1. /\ job'[h] = IdleJob /\ \A g \in Handler \ {h} : job'[g] = job[g]
          /\ UNCHANGED answered
      BY <1>1, <1>4, FinishStep DEF Insert
    <2>2. lastId \in Nat /\ lastId' \in Nat /\ lastId <= lastId'
      BY <1>1, <1>4, MessagesAssumption DEF Insert, NextId, TypeOK
    <2>3. \A x \in messages' : x \in messages \/ x.id = lastId + 1
      BY <1>4 DEF Insert, NextId
    <2>4. \A i \in Id : i <= lastId => i <= lastId' /\ i # lastId + 1
      BY <2>2 DEF Id
    <2>5. AnsweredIsMarked'
      BY <1>1, <2>1, <2>3, <2>4 DEF AnswerInv, AnsweredIsMarked, TypeOK
    <2>6. ASSUME NEW g \in Handler, g # h PROVE Replying(g)'
      BY <1>1, <2>1, <2>3, <2>4, <2>6 DEF AnswerInv, Replying, TypeOK, Job
    <2>7. Replying(h)'
      BY <2>1 DEF Replying, IdleJob
    <2> QED
      BY <2>5, <2>6, <2>7 DEF AnswerInv
  <1>5. ASSUME NEW h \in Handler, Select(h) PROVE AnswerInv'
    <2> DEFINE ids == Undelivered(job[h].pair)
    <2>1. /\ job[h].pc = "select" /\ UNCHANGED <<messages, lastId, answered>>
          /\ Finish(h) \/ Goto(h, "mark", ids)
      BY <1>5 DEF Select
    <2>2. \A i \in ids : \E m \in messages : ~m.delivered /\ m.id = i
      BY DEF Undelivered, Between
    <2>3. ids \subseteq Id /\ \A i \in ids : i <= lastId /\ i \notin answered
      BY <1>1, <2>2 DEF IInv, IdsNameOne, AnswerInv, AnsweredIsMarked, TypeOK, Message
    <2> HIDE DEF ids
    <2>4. /\ \A g \in Handler \ {h} : job'[g] = job[g]
          /\ \/ job'[h].pc = "idle" /\ job'[h].seen = {}
             \/ job'[h].pc = "mark" /\ job'[h].ids = ids /\ job'[h].seen = job[h].seen
      BY <1>1, <2>1, <2>3, GotoStep, FinishStep DEF Step, IdleJob
    <2>5. Replying(h)'
      BY <2>1, <2>3, <2>4 DEF AnswerInv, Replying
    <2> QED
      BY <2>1, <2>4, <2>5, AnswerFrame
  <1>6. ASSUME NEW h \in Handler, Mark(h) PROVE AnswerInv'
    <2>1. job[h].pc = "mark" /\ job[h].ids \in SUBSET Id
      BY <1>1, <1>6 DEF Mark, TypeOK, Job
    <2>2. /\ job'[h].pc = "reply" /\ job'[h].ids = job[h].ids /\ job'[h].seen = job[h].seen
          /\ \A g \in Handler \ {h} : job'[g] = job[g]
          /\ UNCHANGED <<lastId, answered>>
      BY <1>1, <1>6, <2>1, GotoStep DEF Mark, Step
    <2>3. \A x \in messages' : \E m \in messages :
            x.id = m.id /\ (x.delivered <=> m.delivered \/ m.id \in job[h].ids)
      BY <1>1, <1>6 DEF Mark, TypeOK, Message
    <2>4. Replying(h)'
      BY <2>1, <2>2, <2>3 DEF AnswerInv, Replying
    <2> QED
      BY <2>2, <2>3, <2>4, AnswerFrame
  <1>7. ASSUME NEW h \in Handler, Reply(h) PROVE AnswerInv'
    <2>1. /\ job[h].pc = "reply" /\ UNCHANGED <<messages, lastId>>
          /\ answered' = answered \cup job[h].ids
          /\ job'[h] = IdleJob /\ \A g \in Handler \ {h} : job'[g] = job[g]
      BY <1>1, <1>7, FinishStep DEF Reply
    <2>2. AnsweredIsMarked'
      BY <2>1 DEF AnswerInv, AnsweredIsMarked, Replying
    <2>3. ASSUME NEW g \in Handler, g # h PROVE Replying(g)'
      BY <2>1, <2>3 DEF AnswerInv, Replying
    <2>4. Replying(h)'
      BY <2>1 DEF Replying, IdleJob
    <2> QED
      BY <2>2, <2>3, <2>4 DEF AnswerInv
  <1>8. ASSUME NEW h \in Handler, Abort(h) PROVE AnswerInv'
    <2>1. /\ job'[h] = IdleJob /\ \A g \in Handler \ {h} : job'[g] = job[g]
          /\ UNCHANGED <<messages, lastId, answered>>
      BY <1>1, <1>8, FinishStep DEF Abort
    <2>2. Replying(h)'
      BY <2>1 DEF Replying, IdleJob
    <2> QED
      BY <2>1, <2>2, AnswerFrame
  <1>9. ASSUME messages' \subseteq messages, UNCHANGED <<lastId, job, answered>> PROVE AnswerInv'
    BY <1>9, AnswerFrame
  <1> QED
    BY <1>2, <1>3, <1>4, <1>5, <1>6, <1>7, <1>8, <1>9
    DEF Next, vars, AddContact, DropContact, AddAccount, RemoveAccount

(***************************************************************************)
(* What a reply has carried no later receive carries again: its messages   *)
(* were marked before it was written, and a marked message stays marked.   *)
(***************************************************************************)
THEOREM ReceivedOnce == Spec => []NotReceivedAgain
  <1>1. Init => AnswerInv
    BY DEF Init, AnswerInv, AnsweredIsMarked, Replying, IdleJob
  <1>2. AnswerInv => NotReceivedAgain
    BY DEF AnswerInv, Replying, NotReceivedAgain
  <1> QED
    BY <1>1, <1>2, InitInv, NextInv, AnswerStep, PTL DEF Spec
=============================================================================
