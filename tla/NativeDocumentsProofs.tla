------------------------ MODULE NativeDocumentsProofs ------------------------
(***************************************************************************)
(* Theorems about NativeDocuments, for every set of logins, documents and  *)
(* processes.                                                              *)
(***************************************************************************)
EXTENDS NativeDocuments, FiniteSetTheorems, TLAPS

(***************************************************************************)
(* The locals of a handler have values when its next run of sqlite3 needs  *)
(* them.                                                                   *)
(***************************************************************************)
LocalsOK(j) ==
  /\ j.pc \in Locked \cup {"published"} \/ j.kind = "manifest" => j.owner \in Login
  /\ j.pc \in {"record", "snapshot"} => j.name \in Login
  /\ j.pc \in {"snapshot", "peer", "commit"} => j.name \in Name /\ j.body \in Body

TypeInv == TypeOK /\ \A p \in Proc : LocalsOK(job[p])

\* What a finished or killed handler leaves behind is well typed.
LEMMA IdleJobType == IdleJob \in Job /\ LocalsOK(IdleJob)
  BY DEF IdleJob, Job, Kind, Step, Store, EmptyStore, Name, LocalsOK, Locked

\* What a manifest request owes stays a set of logins.
LEMMA TrackDueType ==
  ASSUME due \in [Proc -> SUBSET Login], TrackDue
  PROVE  due' \in [Proc -> SUBSET Login]
  BY DEF TrackDue

(***************************************************************************)
(* One process changes its job to one of the right type.                   *)
(***************************************************************************)
LEMMA JobStep ==
  ASSUME TypeInv, NEW p \in Proc, NEW j \in Job, LocalsOK(j),
         job' = [job EXCEPT ![p] = j]
  PROVE  job' \in [Proc -> Job] /\ \A q \in Proc : LocalsOK(job'[q])
  BY DEF TypeInv, TypeOK

JobsOK == job \in [Proc -> Job] /\ \A q \in Proc : LocalsOK(job[q])

\* Ending one request or command (Finish) keeps all jobs well typed.
LEMMA FinishType ==
  ASSUME TypeInv, NEW p \in Proc, Finish(p)
  PROVE  JobsOK'
  BY IdleJobType, JobStep DEF Finish, JobsOK

\* The transaction of putNativeDocumentUnlocked: the CHECK keeps the revision
\* in 32 bits, and the rows it writes have the types of their columns.
LEMMA PutTransactionType ==
  ASSUME TypeInv, NEW o \in Login, NEW n \in Name, NEW b \in Body,
         PutTransaction(o, n, b)
  PROVE  /\ version' \in [Login -> 0 .. MaxRevision]
         /\ docs' \in [Login -> Store]
         /\ contacts' \subseteq Login \X Login
  <1>1. version' \in [Login -> 0 .. MaxRevision]
    BY BoundsAssumption DEF PutTransaction, PutAccepted, NextRevision, Revision, TypeInv, TypeOK
  <1>2. docs' \in [Login -> Store]
    BY DEF PutTransaction, TypeInv, TypeOK, Store
  <1>3. contacts' \subseteq Login \X Login
    BY DEF PutTransaction, TypeInv, TypeOK
  <1> QED
    BY <1>1, <1>2, <1>3

\* The second read of the documents (Snapshot) keeps the types.
LEMMA SnapshotType ==
  ASSUME TypeInv, NEW p \in Proc, Snapshot(p) PROVE TypeInv'
  <1>1. JobsOK'
    BY DEF Snapshot, TypeInv, TypeOK, Job, Step, JobsOK, LocalsOK, Locked, Name
  <1> QED
    BY <1>1, TrackDueType DEF Snapshot, TypeInv, TypeOK, JobsOK, db

\* The lookup of the contact's account (CheckPeer) keeps the types.
LEMMA CheckPeerType ==
  ASSUME TypeInv, NEW p \in Proc, CheckPeer(p) PROVE TypeInv'
  <1>1. JobsOK'
    BY DEF CheckPeer, Goto, TypeInv, TypeOK, Job, Step, JobsOK, LocalsOK, Locked
  <1> QED
    BY <1>1, TrackDueType DEF CheckPeer, TypeInv, TypeOK, JobsOK, db

\* The write of a document (Commit) keeps the types.
LEMMA CommitType ==
  ASSUME TypeInv, NEW p \in Proc, Commit(p) PROVE TypeInv'
  <1>1. JobsOK'
    <2>1. CASE job[p].kind = "put"
      BY <2>1, FinishType DEF Commit
    <2>2. CASE job[p].kind # "put"
      <3> DEFINE next == [job[p] EXCEPT !.pc = "each", !.todo = @ \ {job[p].name},
                                        !.name = NoLogin, !.body = NoBody,
                                        !.snap = EmptyStore]
      <3>1. job[p] \in Job /\ LocalsOK(job[p])
        BY DEF TypeInv, TypeOK
      <3>2. EmptyStore \in Store
        BY DEF EmptyStore, Store
      <3>3. next \in Job /\ LocalsOK(next)
        BY <3>1, <3>2 DEF Commit, Job, Step, LocalsOK, Locked
      <3>4. job' = [job EXCEPT ![p] = next]
        BY <2>2, <3>1 DEF Commit, TypeInv, TypeOK, Job
      <3> QED
        BY <3>3, <3>4, JobStep DEF JobsOK
    <2> QED BY <2>1, <2>2
  <1>2. PutTransaction(job[p].owner, job[p].name, job[p].body)
    BY DEF Commit
  <1>3. job[p].owner \in Login /\ job[p].name \in Name /\ job[p].body \in Body
    BY DEF Commit, TypeInv, LocalsOK, Locked
  <1> QED
    BY <1>1, <1>2, <1>3, PutTransactionType, TrackDueType
    DEF Commit, PutTransaction, TypeInv, TypeOK, JobsOK

\* An upload that takes docMu (BeginPut) keeps the types.
LEMMA BeginPutType ==
  ASSUME TypeInv, NEW p \in Proc, BeginPut(p) PROVE TypeInv'
  <1>1. JobsOK'
    <2>1. PICK u \in Uploads :
            /\ ValidIdentity(u[1], u[2], u[3])
            /\ job' = [job EXCEPT ![p] =
                 [IdleJob EXCEPT !.kind = "put", !.owner = u[1], !.name = u[2],
                                 !.body = u[3], !.snap = docs[u[1]],
                                 !.pc = IF u[2] \in Login THEN "peer" ELSE "commit"]]
      BY DEF BeginPut
    <2> DEFINE next ==
          [IdleJob EXCEPT !.kind = "put", !.owner = u[1], !.name = u[2],
                          !.body = u[3], !.snap = docs[u[1]],
                          !.pc = IF u[2] \in Login THEN "peer" ELSE "commit"]
    <2>2. u[1] \in Login /\ u[2] \in Name /\ u[3] \in Body
      BY SystemAssumption
    <2>3. docs[u[1]] \in Store
      BY <2>2 DEF TypeInv, TypeOK
    <2>4. next \in Job /\ LocalsOK(next)
      BY <2>2, <2>3 DEF IdleJob, Job, Kind, Step, LocalsOK, Locked
    <2> QED
      BY <2>1, <2>4, JobStep DEF JobsOK
  <1> QED
    BY <1>1, TrackDueType DEF BeginPut, TypeInv, TypeOK, JobsOK, db

\* The deletion of a document (RemoveDocument) keeps the types.
LEMMA RemoveDocumentType ==
  ASSUME TypeInv, NEW p \in Proc, NEW o \in Login, NEW n \in Name,
         RemoveDocument(p, o, n)
  PROVE  TypeInv'
  <1>1. version' \in [Login -> 0 .. MaxRevision]
    BY BoundsAssumption DEF RemoveDocument, NextRevision, Revision, TypeInv, TypeOK
  <1>2. docs' \in [Login -> Store]
    BY DEF RemoveDocument, TypeInv, TypeOK, Store
  <1> QED
    BY <1>1, <1>2, TrackDueType DEF RemoveDocument, TypeInv, TypeOK

(***************************************************************************)
(* A request or command that starts a loop over owners.                    *)
(***************************************************************************)
LEMMA StartType ==
  ASSUME TypeInv, NEW p \in Proc, NEW kind \in Kind, NEW pc \in Step \ Locked,
         NEW o \in Login \cup {NoLogin}, NEW os \in SUBSET Login,
         pc = "published" \/ kind = "manifest" => o \in Login,
         Start(p, kind, pc, o, os)
  PROVE  JobsOK'
  <1> DEFINE next == [IdleJob EXCEPT !.kind = kind, !.pc = pc, !.owner = o, !.owners = os]
  <1>1. next \in Job /\ LocalsOK(next)
    BY DEF IdleJob, Job, Kind, Step, Store, EmptyStore, Name, LocalsOK, Locked
  <1> QED
    BY <1>1, JobStep DEF Start, JobsOK

\* A manifest request that arrives keeps the types.
LEMMA BeginManifestType ==
  ASSUME TypeInv, NEW p \in Proc, NEW o \in Login, BeginManifest(p, o) PROVE TypeInv'
  <1>1. JobsOK'
    BY StartType DEF BeginManifest, Kind, Step, Locked
  <1> QED
    BY <1>1, TrackDueType DEF BeginManifest, TypeInv, TypeOK, JobsOK, db

\* Storing a signed record (Publish) keeps the types.
LEMMA PublishType ==
  ASSUME TypeInv, NEW p \in Proc, Publish(p) PROVE TypeInv'
  <1>1. PICK e \in Publications :
          /\ record' = [record EXCEPT ![e[1]] = e[2]]
          /\ Start(p, "publish", "published", e[1], {})
    BY DEF Publish
  <1>2. e[1] \in Login /\ e[2] \in Record
    BY SystemAssumption
  <1>3. JobsOK'
    BY <1>1, <1>2, StartType DEF Kind, Step, Locked
  <1>4. record' \in [Login -> Record \cup {NoRecord}]
    BY <1>1, <1>2 DEF TypeInv, TypeOK
  <1> QED
    BY <1>3, <1>4, TrackDueType DEF Publish, TypeInv, TypeOK, JobsOK

\* Selecting the owners who list a publisher keeps the types.
LEMMA SelectOwnersType ==
  ASSUME TypeInv, NEW p \in Proc, SelectOwners(p) PROVE TypeInv'
  <1> DEFINE next == [job[p] EXCEPT !.pc = "owners",
                        !.owners = {o \in Login : <<o, job[p].owner>> \in contacts}]
  <1>2. job[p] \in Job /\ LocalsOK(job[p])
    BY DEF TypeInv, TypeOK
  <1>3. next \in Job /\ LocalsOK(next)
    BY <1>2 DEF SelectOwners, Job, Step, LocalsOK, Locked
  <1>4. job' = [job EXCEPT ![p] = next]
    BY <1>2 DEF SelectOwners, TypeInv, TypeOK, Job
  <1>1. JobsOK'
    BY <1>3, <1>4, JobStep DEF JobsOK
  <1> QED
    BY <1>1, TrackDueType DEF SelectOwners, TypeInv, TypeOK, JobsOK, db

\* A process that starts with EnsureSchema keeps the types.
LEMMA BeginSchemaType ==
  ASSUME TypeInv, NEW p \in Proc, BeginSchema(p) PROVE TypeInv'
  <1>1. {o \in accounts : ContactsOf(o) # {}} \in SUBSET Login
    BY DEF TypeInv, TypeOK
  <1>2. JobsOK'
    BY <1>1, StartType DEF BeginSchema, Kind, Step, Locked
  <1> QED
    BY <1>2, TrackDueType DEF BeginSchema, TypeInv, TypeOK, JobsOK, db

\* Taking docMu in EnsureNativeContactDocuments keeps the types.
LEMMA BeginEnsureType ==
  ASSUME TypeInv, NEW p \in Proc, BeginEnsure(p) PROVE TypeInv'
  <1>1. PICK o \in job[p].owners \cap accounts :
          job' = [job EXCEPT ![p].pc = "contacts", ![p].owner = o,
                    ![p].owners = @ \ {o}, ![p].snap = docs[o]]
    BY DEF BeginEnsure
  <1> DEFINE next == [job[p] EXCEPT !.pc = "contacts", !.owner = o,
                        !.owners = @ \ {o}, !.snap = docs[o]]
  <1>2. job[p] \in Job /\ LocalsOK(job[p])
    BY DEF TypeInv, TypeOK
  <1>3. o \in Login /\ docs[o] \in Store
    BY DEF TypeInv, TypeOK
  <1>4. next \in Job /\ LocalsOK(next)
    BY <1>2, <1>3 DEF Job, Step, LocalsOK, Locked
  <1>5. job' = [job EXCEPT ![p] = next]
    BY <1>1, <1>2 DEF TypeInv, TypeOK, Job
  <1>6. JobsOK'
    BY <1>4, <1>5, JobStep DEF JobsOK
  <1> QED
    BY <1>6, TrackDueType DEF BeginEnsure, TypeInv, TypeOK, JobsOK, db

\* GetContacts inside EnsureNativeContactDocuments keeps the types.
LEMMA ReadContactsType ==
  ASSUME TypeInv, NEW p \in Proc, ReadContacts(p) PROVE TypeInv'
  <1> DEFINE todo == {c \in ContactsOf(job[p].owner) :
                        job[p].snap[c] = NoBody \/ IsLegacy(c, job[p].snap[c])}
             next == [job[p] EXCEPT !.pc = "each", !.snap = EmptyStore, !.todo = todo]
  <1>1. job[p] \in Job /\ LocalsOK(job[p])
    BY DEF TypeInv, TypeOK
  <1>2. todo \in SUBSET Login /\ EmptyStore \in Store
    BY DEF ContactsOf, EmptyStore, Store
  <1>3. next \in Job /\ LocalsOK(next)
    <2> HIDE DEF todo
    <2> QED BY <1>1, <1>2 DEF ReadContacts, Job, Step, LocalsOK, Locked
  <1>4. job' = [job EXCEPT ![p] = next]
    BY <1>1 DEF ReadContacts, TypeInv, TypeOK, Job
  <1>5. JobsOK'
    BY <1>3, <1>4, JobStep DEF JobsOK
  <1> QED
    BY <1>5, TrackDueType DEF ReadContacts, TypeInv, TypeOK, JobsOK, db

\* mutualContact, and passing a contact over, keeps the types.
LEMMA CheckMutualType ==
  ASSUME TypeInv, NEW p \in Proc, CheckMutual(p) PROVE TypeInv'
  <1>1. job[p].pc = "each"
    BY DEF CheckMutual
  <1>2. PICK c \in job[p].todo :
          job' = IF Mutual(job[p].owner, c)
                 THEN [job EXCEPT ![p].pc = "record", ![p].name = c]
                 ELSE [job EXCEPT ![p].todo = @ \ {c}]
    BY DEF CheckMutual
  <1>3. job[p] \in Job /\ LocalsOK(job[p])
    BY DEF TypeInv, TypeOK
  <1>4. c \in Login
    BY <1>3 DEF Job
  <1>5. CASE Mutual(job[p].owner, c)
    <2> DEFINE next == [job[p] EXCEPT !.pc = "record", !.name = c]
    <2>1. next \in Job /\ LocalsOK(next)
      BY <1>1, <1>3, <1>4 DEF Job, Step, Name, LocalsOK, Locked
    <2>2. job' = [job EXCEPT ![p] = next]
      BY <1>2, <1>3, <1>5 DEF TypeInv, TypeOK, Job
    <2>3. JobsOK'
      BY <2>1, <2>2, JobStep DEF JobsOK
    <2> QED
      BY <2>3, TrackDueType DEF CheckMutual, TypeInv, TypeOK, JobsOK, db
  <1>6. CASE ~Mutual(job[p].owner, c)
    <2> DEFINE next == [job[p] EXCEPT !.todo = @ \ {c}]
    <2>1. next \in Job /\ LocalsOK(next)
      BY <1>1, <1>3, <1>4 DEF Job, Step, LocalsOK, Locked
    <2>2. job' = [job EXCEPT ![p] = next]
      BY <1>2, <1>3, <1>6 DEF TypeInv, TypeOK, Job
    <2>3. JobsOK'
      BY <2>1, <2>2, JobStep DEF JobsOK
    <2> QED
      BY <2>3, TrackDueType DEF CheckMutual, TypeInv, TypeOK, JobsOK, db
  <1> QED
    BY <1>5, <1>6

\* Reading the record of a contact, and passing over one that cannot be
\* projected, keeps the types.
LEMMA ReadRecordType ==
  ASSUME TypeInv, NEW p \in Proc, ReadRecord(p) PROVE TypeInv'
  <1>1. job[p].pc = "record"
    BY DEF ReadRecord
  <1>2. job[p] \in Job /\ LocalsOK(job[p])
    BY DEF TypeInv, TypeOK
  <1>3. job[p].name \in Login /\ job[p].owner \in Login
    BY <1>1, <1>2 DEF LocalsOK, Locked
  <1>4. JobsOK'
    <2>1. ASSUME NEW r \in RecordsOf(job[p].name) \cap FullRecord,
                 job' = [job EXCEPT ![p].pc = "snapshot",
                                    ![p].body = ContactDocument[job[p].name, r]]
          PROVE  JobsOK'
      <3> DEFINE next == [job[p] EXCEPT !.pc = "snapshot",
                                        !.body = ContactDocument[job[p].name, r]]
      <3>1. ContactDocument[job[p].name, r] \in Body
        BY <1>3, BodiesAssumption
      <3>2. next \in Job /\ LocalsOK(next)
        BY <1>2, <1>3, <3>1 DEF Job, Step, Name, LocalsOK, Locked
      <3>3. job' = [job EXCEPT ![p] = next]
        BY <2>1, <1>2 DEF TypeInv, TypeOK, Job
      <3> QED
        BY <3>2, <3>3, JobStep DEF JobsOK
    <2>2. ASSUME job' = [job EXCEPT ![p].pc = "each", ![p].todo = @ \ {job[p].name},
                                    ![p].name = NoLogin]
          PROVE  JobsOK'
      <3> DEFINE next == [job[p] EXCEPT !.pc = "each", !.todo = @ \ {job[p].name},
                                        !.name = NoLogin]
      <3>1. next \in Job /\ LocalsOK(next)
        BY <1>2, <1>3 DEF Job, Step, LocalsOK, Locked
      <3>2. job' = [job EXCEPT ![p] = next]
        BY <2>2, <1>2 DEF TypeInv, TypeOK, Job
      <3> QED
        BY <3>1, <3>2, JobStep DEF JobsOK
    <2> QED
      BY <2>1, <2>2 DEF ReadRecord
  <1> QED
    BY <1>4, TrackDueType DEF ReadRecord, TypeInv, TypeOK, JobsOK, db

(***************************************************************************)
(* A process moves to a place where it needs no local but its owner.       *)
(***************************************************************************)
LEMMA GotoType ==
  ASSUME TypeInv, NEW p \in Proc, NEW pc \in {"owners", "manifest", "command"},
         Goto(p, pc)
  PROVE  JobsOK'
  <1> DEFINE next == [job[p] EXCEPT !.pc = pc]
  <1>1. job[p] \in Job /\ LocalsOK(job[p])
    BY DEF TypeInv, TypeOK
  <1>2. next \in Job /\ LocalsOK(next)
    BY <1>1 DEF Job, Step, LocalsOK, Locked
  <1>3. job' = [job EXCEPT ![p] = next]
    BY <1>1 DEF Goto, TypeInv, TypeOK, Job
  <1> QED
    BY <1>2, <1>3, JobStep DEF JobsOK

\* Releasing docMu (EndEnsure) keeps the types.
LEMMA EndEnsureType ==
  ASSUME TypeInv, NEW p \in Proc, EndEnsure(p) PROVE TypeInv'
  <1>1. JobsOK'
    BY GotoType DEF EndEnsure
  <1> QED
    BY <1>1, TrackDueType DEF EndEnsure, TypeInv, TypeOK, JobsOK, db

\* A manifest reply keeps the types.
LEMMA ReplyManifestType ==
  ASSUME TypeInv, NEW p \in Proc, ReplyManifest(p) PROVE TypeInv'
  BY FinishType, TrackDueType DEF ReplyManifest, TypeInv, TypeOK, JobsOK, db

\* An error return keeps the types.
LEMMA RefuseType ==
  ASSUME TypeInv, NEW p \in Proc, Refuse(p) PROVE TypeInv'
  BY FinishType, TrackDueType DEF Refuse, TypeInv, TypeOK, JobsOK, db

\* A failing sqlite3, or a killed command, keeps the types.
LEMMA FailType ==
  ASSUME TypeInv, NEW p \in Proc, Fail(p) PROVE TypeInv'
  BY FinishType, TrackDueType DEF Fail, TypeInv, TypeOK, JobsOK, db

\* The death of the server with all its goroutines keeps the types.
LEMMA CrashType ==
  ASSUME TypeInv, Crash PROVE TypeInv'
  <1>1. JobsOK'
    BY IdleJobType DEF Crash, JobsOK, TypeInv, TypeOK
  <1> QED
    BY <1>1, TrackDueType DEF Crash, TypeInv, TypeOK, JobsOK, db

(***************************************************************************)
(* The commands and requests about accounts and contacts.                  *)
(***************************************************************************)
LEMMA AccountsType ==
  ASSUME TypeInv, NEW p \in Proc, NEW l \in Login,
         AddAccount(p, l) \/ RemoveAccount(p, l) \/ RegisterAccount(p, l)
  PROVE  TypeInv'
  <1>1. CASE AddAccount(p, l)
    BY <1>1, FinishType, TrackDueType DEF AddAccount, CommandEnds, TypeInv, TypeOK, JobsOK
  <1>2. CASE RemoveAccount(p, l)
    <2>1. JobsOK'
      BY <1>2, FinishType DEF RemoveAccount, CommandEnds
    <2>2. docs' \in [Login -> Store]
      BY <1>2 DEF RemoveAccount, TypeInv, TypeOK, Store, EmptyStore
    <2>3. version' \in [Login -> 0 .. MaxRevision]
      BY <1>2, BoundsAssumption DEF RemoveAccount, TypeInv, TypeOK
    <2>4. record' \in [Login -> Record \cup {NoRecord}]
      BY <1>2 DEF RemoveAccount, TypeInv, TypeOK
    <2> QED
      BY <1>2, <2>1, <2>2, <2>3, <2>4, TrackDueType DEF RemoveAccount, TypeInv, TypeOK, JobsOK
  <1>3. CASE RegisterAccount(p, l)
    BY <1>3, TrackDueType DEF RegisterAccount, TypeInv, TypeOK
  <1> QED
    BY <1>1, <1>2, <1>3

\* Adding a contact, by command or request, keeps the types.
LEMMA ContactsType ==
  ASSUME TypeInv, NEW p \in Proc, NEW o \in Login, NEW c \in Login,
         AddContact(p, o, c) \/ RequestContact(p, o, c)
  PROVE  TypeInv'
  <1>1. CASE AddContact(p, o, c)
    BY <1>1, FinishType, TrackDueType DEF AddContact, CommandEnds, TypeInv, TypeOK, JobsOK
  <1>2. CASE RequestContact(p, o, c)
    BY <1>2, TrackDueType DEF RequestContact, TypeInv, TypeOK
  <1> QED
    BY <1>1, <1>2

\* The end of the loop over owners, after which a server serves and a command
\* runs, keeps the types.
LEMMA EndOwnersType ==
  ASSUME TypeInv, NEW p \in Proc, EndOwners(p) PROVE TypeInv'
  <1>1. Goto(p, "manifest") \/ Goto(p, "command") \/ Finish(p)
    BY DEF EndOwners
  <1>2. JobsOK'
    BY <1>1, GotoType, FinishType
  <1>3. serving' \in BOOLEAN
    BY DEF EndOwners, TypeInv, TypeOK
  <1> QED
    BY <1>2, <1>3, TrackDueType DEF EndOwners, TypeInv, TypeOK, JobsOK, db

\* A database with accounts and contacts only is well typed.
LEMMA InitType == Init => TypeInv
  <1> SUFFICES ASSUME Init PROVE TypeInv
    OBVIOUS
  <1>1. EmptyStore \in Store
    BY DEF EmptyStore, Store
  <1>2. version \in [Login -> 0 .. MaxRevision] /\ docs \in [Login -> Store]
    BY <1>1, BoundsAssumption DEF Init
  <1>3. record \in [Login -> Record \cup {NoRecord}]
    BY DEF Init
  <1>4. /\ accounts \subseteq Login
        /\ contacts \subseteq Login \X Login
        /\ serving \in BOOLEAN
        /\ due \in [Proc -> SUBSET Login]
        /\ removed \subseteq Login
    BY SystemAssumption DEF Init
  <1>5. job \in [Proc -> Job] /\ \A p \in Proc : LocalsOK(job[p])
    BY IdleJobType DEF Init
  <1> QED
    BY <1>2, <1>3, <1>4, <1>5 DEF TypeInv, TypeOK

(***************************************************************************)
(* Every step of every process preserves the types.                        *)
(***************************************************************************)
LEMMA NextType == TypeInv /\ [Next]_vars => TypeInv'
  <1> SUFFICES ASSUME TypeInv, [Next]_vars PROVE TypeInv'
    OBVIOUS
  <1>1. ASSUME NEW p \in Proc, Continue(p) PROVE TypeInv'
    BY <1>1, SnapshotType, CheckPeerType, CommitType, SelectOwnersType, BeginEnsureType,
       ReadContactsType, CheckMutualType, ReadRecordType, EndEnsureType, EndOwnersType,
       ReplyManifestType
    DEF Continue
  <1>2. ASSUME NEW p \in Proc, Refuse(p) \/ Fail(p) \/ BeginSchema(p) PROVE TypeInv'
    BY <1>2, RefuseType, FailType, BeginSchemaType
  <1>3. ASSUME NEW p \in Proc, Command(p) PROVE TypeInv'
    <2>1. ASSUME NEW l \in Managed, AddAccount(p, l) \/ RemoveAccount(p, l)
          PROVE  TypeInv'
      BY <2>1, SystemAssumption, AccountsType
    <2>2. ASSUME NEW o \in Login, NEW c \in Login, AddContact(p, o, c)
          PROVE  TypeInv'
      BY <2>2, ContactsType
    <2> QED
      BY <1>3, <2>1, <2>2 DEF Command
  <1>4. ASSUME NEW p \in Server, Request(p) PROVE TypeInv'
    <2> p \in Proc
      BY DEF Proc
    <2>1. CASE BeginPut(p) \/ Publish(p)
      BY <2>1, BeginPutType, PublishType
    <2>2. ASSUME NEW o \in Clients, BeginManifest(p, o) PROVE TypeInv'
      BY <2>2, SystemAssumption, BeginManifestType
    <2>3. ASSUME NEW o \in Clients, NEW n \in Name, RemoveDocument(p, o, n) PROVE TypeInv'
      BY <2>3, SystemAssumption, RemoveDocumentType
    <2>4. ASSUME NEW o \in Clients, NEW c \in Login, RequestContact(p, o, c) PROVE TypeInv'
      BY <2>4, SystemAssumption, ContactsType
    <2>5. ASSUME NEW l \in Managed, RegisterAccount(p, l) PROVE TypeInv'
      BY <2>5, SystemAssumption, AccountsType
    <2> QED
      BY <1>4, <2>1, <2>2, <2>3, <2>4, <2>5 DEF Request
  <1>5. CASE Crash
    BY <1>5, CrashType
  <1>6. CASE UNCHANGED vars
    BY <1>6 DEF vars, db, TypeInv, TypeOK
  <1> QED
    BY <1>1, <1>2, <1>3, <1>4, <1>5, <1>6 DEF Next

(***************************************************************************)
(* Type correctness: the local variables of every handler and command have *)
(* values of the right kind when its next run of sqlite3 uses them.        *)
(***************************************************************************)
THEOREM TypeCorrect == Spec => []TypeOK
  <1>1. TypeInv => TypeOK
    BY DEF TypeInv
  <1> QED
    BY <1>1, InitType, NextType, PTL DEF Spec

-----------------------------------------------------------------------------
(***************************************************************************)
(* What a step does to the documents and the contacts, whoever takes it:   *)
(* the invariants of the database need no other case.                      *)
(***************************************************************************)
ContactStep == \E o, c \in Login :
  /\ contacts' = contacts \cup {<<o, c>>}
  /\ UNCHANGED <<version, docs, removed>>

\* Every step adds a contact, writes one document, deletes one, removes an
\* account, or leaves documents, revisions and contacts alone.
LEMMA DatabaseStep ==
  ASSUME TypeInv, [Next]_vars
  PROVE  \/ UNCHANGED <<contacts, version, docs, removed>>
         \/ ContactStep
         \/ \E o \in Login, n \in Name, b \in Body :
               PutTransaction(o, n, b) /\ UNCHANGED removed
         \/ \E p \in Proc, o \in Login, n \in Name : RemoveDocument(p, o, n)
         \/ \E p \in Proc, l \in Login : RemoveAccount(p, l)
  <1> DEFINE Quiet == UNCHANGED <<contacts, version, docs, removed>>
  <1>1. ASSUME NEW p \in Proc, Continue(p)
        PROVE  Quiet \/ \E o \in Login, n \in Name, b \in Body :
                 PutTransaction(o, n, b) /\ UNCHANGED removed
    <2>1. CASE Commit(p)
      <3>1. job[p].owner \in Login /\ job[p].name \in Name /\ job[p].body \in Body
        BY <2>1 DEF Commit, TypeInv, LocalsOK, Locked
      <3> QED
        BY <2>1, <3>1 DEF Commit
    <2>2. CASE ~Commit(p)
      BY <1>1, <2>2 DEF Continue, Snapshot, CheckPeer, SelectOwners, BeginEnsure, ReadContacts,
         CheckMutual, ReadRecord, EndEnsure, EndOwners, ReplyManifest, db
    <2> QED
      BY <2>1, <2>2
  <1>2. ASSUME NEW p \in Proc, Refuse(p) \/ Fail(p) \/ BeginSchema(p) PROVE Quiet
    BY <1>2 DEF Refuse, Fail, BeginSchema, db
  <1>3. ASSUME NEW p \in Proc, Command(p)
        PROVE  Quiet \/ ContactStep \/ \E l \in Login : RemoveAccount(p, l)
    BY <1>3, SystemAssumption DEF Command, AddAccount, AddContact, ContactStep
  <1>4. ASSUME NEW p \in Server, Request(p)
        PROVE  Quiet \/ ContactStep \/ \E o \in Login, n \in Name : RemoveDocument(p, o, n)
    BY <1>4, SystemAssumption DEF Request, BeginPut, Publish, BeginManifest, RequestContact,
       RegisterAccount, ContactStep, db
  <1>5. CASE Crash
    BY <1>5 DEF Crash, db
  <1>6. CASE UNCHANGED vars
    BY <1>6 DEF vars, db
  <1> QED
    <2> Server \subseteq Proc
      BY DEF Proc
    <2> QED
      BY <1>1, <1>2, <1>3, <1>4, <1>5, <1>6 DEF Next

(***************************************************************************)
(* Membership. Only PutTransaction stores a contact document, and it lists *)
(* the contact in the same transaction; RemoveDocument deletes both; and   *)
(* what RemoveAccount leaves dangling is excused by `removed`.             *)
(***************************************************************************)
THEOREM MembershipFollowsDocuments == Spec => []DocumentImpliesMembership
  <1>1. Init => DocumentImpliesMembership
    BY DEF Init, DocumentImpliesMembership, EmptyStore, Name
  <1>2. TypeInv /\ DocumentImpliesMembership /\ [Next]_vars => DocumentImpliesMembership'
    <2> SUFFICES ASSUME TypeInv, DocumentImpliesMembership, [Next]_vars,
                        NEW o \in Login, NEW c \in Login, docs'[o][c] # NoBody
                 PROVE  <<o, c>> \in contacts' \/ c \in removed'
      BY DEF DocumentImpliesMembership
    <2> c \in Name
      BY DEF Name
    <2>1. docs[o] \in Store /\ docs \in [Login -> Store]
      BY DEF TypeInv, TypeOK
    <2>2. docs[o][c] # NoBody => <<o, c>> \in contacts \/ c \in removed
      BY DEF DocumentImpliesMembership
    <2>3. CASE UNCHANGED <<contacts, version, docs, removed>> \/ ContactStep
      BY <2>2, <2>3 DEF ContactStep
    <2>4. ASSUME NEW q \in Login, NEW n \in Name, NEW b \in Body,
                 PutTransaction(q, n, b), UNCHANGED removed
          PROVE  <<o, c>> \in contacts' \/ c \in removed'
      BY <2>1, <2>2, <2>4 DEF PutTransaction, Store
    <2>5. ASSUME NEW p \in Proc, NEW q \in Login, NEW n \in Name, RemoveDocument(p, q, n)
          PROVE  <<o, c>> \in contacts' \/ c \in removed'
      BY <2>1, <2>2, <2>5 DEF RemoveDocument, Store
    <2>6. ASSUME NEW p \in Proc, NEW l \in Login, RemoveAccount(p, l)
          PROVE  <<o, c>> \in contacts' \/ c \in removed'
      <3>1. docs' = [docs EXCEPT ![l] = EmptyStore]
        BY <2>6 DEF RemoveAccount
      <3>2. o # l
        BY <2>1, <3>1 DEF EmptyStore
      <3> QED
        BY <2>1, <2>2, <2>6, <3>2 DEF RemoveAccount
    <2> QED
      BY <2>3, <2>4, <2>5, <2>6, DatabaseStep
  <1> QED
    BY <1>1, <1>2, InitType, NextType, PTL DEF Spec

(***************************************************************************)
(* A checksum names one document. The transaction that writes a document   *)
(* of another checksum is refused by UNIQUE(login,checksum), so that the   *)
(* check on a snapshot taken before is not needed for this.                *)
(***************************************************************************)
THEOREM ChecksumsUnique == Spec => []UniqueChecksums
  <1>1. Init => UniqueChecksums
    BY DEF Init, UniqueChecksums, NamesIn, EmptyStore
  <1>2. TypeInv /\ UniqueChecksums /\ [Next]_vars => UniqueChecksums'
    <2> SUFFICES ASSUME TypeInv, UniqueChecksums, [Next]_vars, NEW o \in Login,
                        NEW m \in Name, NEW n \in Name,
                        docs'[o][m] # NoBody, docs'[o][n] # NoBody,
                        Crc[docs'[o][m]] = Crc[docs'[o][n]]
                 PROVE  m = n
      BY DEF UniqueChecksums, NamesIn
    <2>1. docs[o] \in Store /\ docs \in [Login -> Store]
      BY DEF TypeInv, TypeOK
    <2>2. docs[o][m] # NoBody /\ docs[o][n] # NoBody /\ Crc[docs[o][m]] = Crc[docs[o][n]]
          => m = n
      BY DEF UniqueChecksums, NamesIn
    <2>3. CASE UNCHANGED docs
      BY <2>2, <2>3
    <2>4. ASSUME NEW q \in Login, NEW k \in Name, NEW b \in Body, PutTransaction(q, k, b)
          PROVE  m = n
      <3>1. \A l \in Name \ {k} : docs[q][l] # NoBody => Crc[docs[q][l]] # Crc[b]
        BY <2>4 DEF PutTransaction, PutAccepted, NoCollision, NamesIn
      <3>2. docs' = [docs EXCEPT ![q][k] = b]
        BY <2>4 DEF PutTransaction
      <3> QED
        BY <2>1, <2>2, <3>1, <3>2 DEF Store
    <2>5. ASSUME NEW p \in Proc, NEW q \in Login, NEW k \in Name, RemoveDocument(p, q, k)
          PROVE  m = n
      <3>1. docs' = [docs EXCEPT ![q][k] = NoBody]
        BY <2>5 DEF RemoveDocument
      <3> QED
        BY <2>1, <2>2, <3>1 DEF Store
    <2>6. ASSUME NEW p \in Proc, NEW l \in Login, RemoveAccount(p, l) PROVE m = n
      <3>1. docs' = [docs EXCEPT ![l] = EmptyStore]
        BY <2>6 DEF RemoveAccount
      <3> QED
        BY <2>1, <2>2, <3>1 DEF EmptyStore
    <2> QED
      BY <2>3, <2>4, <2>5, <2>6, DatabaseStep DEF ContactStep
  <1> QED
    BY <1>1, <1>2, InitType, NextType, PTL DEF Spec

(***************************************************************************)
(* The names of a store after one of them is written or deleted.           *)
(***************************************************************************)
LEMMA NamesFinite == ASSUME NEW s \in Store PROVE IsFiniteSet(NamesIn(s))
  <1>1. IsFiniteSet(Name)
    BY NamesAssumption, FS_Union DEF Name
  <1> QED
    BY <1>1, FS_Subset DEF NamesIn

\* A write adds at most the name it writes; a deletion adds none.
LEMMA NamesAfterWrite ==
  ASSUME NEW s \in Store, NEW n \in Name, NEW b \in Body \cup {NoBody}
  PROVE  LET t == [s EXCEPT ![n] = b] IN
         /\ b # NoBody => NamesIn(t) = NamesIn(s) \cup {n}
         /\ b = NoBody => NamesIn(t) \subseteq NamesIn(s)
  BY DEF NamesIn, Store

(***************************************************************************)
(* The quota holds whichever processes insert: the trigger is evaluated in *)
(* the transaction, the count of the snapshot may be stale by then.        *)
(***************************************************************************)
THEOREM QuotaHolds == Spec => []QuotaRespected
  <1>1. Init => QuotaRespected
    <2>1. NamesIn(EmptyStore) = {}
      BY DEF NamesIn, EmptyStore
    <2> QED
      BY <2>1, FS_EmptySet, BoundsAssumption DEF Init, QuotaRespected
  <1>2. TypeInv /\ QuotaRespected /\ [Next]_vars => QuotaRespected'
    <2> SUFFICES ASSUME TypeInv, QuotaRespected, [Next]_vars, NEW o \in Login
                 PROVE  Cardinality(NamesIn(docs'[o])) <= MaxDocuments
      BY DEF QuotaRespected, NamesIn
    <2>1. docs[o] \in Store /\ docs \in [Login -> Store]
      BY DEF TypeInv, TypeOK
    <2>2. /\ Cardinality(NamesIn(docs[o])) <= MaxDocuments
          /\ IsFiniteSet(NamesIn(docs[o]))
          /\ Cardinality(NamesIn(docs[o])) \in Nat
      BY <2>1, NamesFinite, FS_CardinalityType DEF QuotaRespected
    <2>3. CASE docs'[o] = docs[o]
      BY <2>2, <2>3
    <2>4. ASSUME NEW n \in Name, NEW b \in Body, docs'[o] = [docs[o] EXCEPT ![n] = b],
                 Room(docs[o], n)
          PROVE  Cardinality(NamesIn(docs'[o])) <= MaxDocuments
      <3>1. NamesIn(docs'[o]) = NamesIn(docs[o]) \cup {n}
        BY <2>1, <2>4, NamesAfterWrite, BodiesAssumption
      <3>2. CASE docs[o][n] # NoBody
        <4>1. NamesIn(docs'[o]) = NamesIn(docs[o])
          BY <3>1, <3>2 DEF NamesIn
        <4> QED BY <2>2, <4>1
      <3>3. CASE docs[o][n] = NoBody
        <4>1. Cardinality(NamesIn(docs[o])) < MaxDocuments
          BY <2>4, <3>3 DEF Room
        <4>2. n \notin NamesIn(docs[o])
          BY <3>3 DEF NamesIn
        <4>3. Cardinality(NamesIn(docs[o]) \cup {n}) = Cardinality(NamesIn(docs[o])) + 1
          <5> DEFINE N == NamesIn(docs[o])
          <5>1. IsFiniteSet(N) /\ n \notin N
            BY <2>2, <4>2
          <5> HIDE DEF N
          <5>2. Cardinality(N \cup {n}) = Cardinality(N) + 1
            BY <5>1, FS_AddElement
          <5> QED BY <5>2 DEF N
        <4> QED BY <2>2, <3>1, <4>1, <4>3, BoundsAssumption
      <3> QED BY <3>2, <3>3
    <2>5. ASSUME NamesIn(docs'[o]) \subseteq NamesIn(docs[o])
          PROVE  Cardinality(NamesIn(docs'[o])) <= MaxDocuments
      <3>1. /\ Cardinality(NamesIn(docs'[o])) <= Cardinality(NamesIn(docs[o]))
            /\ Cardinality(NamesIn(docs'[o])) \in Nat
        BY <2>2, <2>5, FS_Subset, FS_CardinalityType
      <3> QED BY <2>2, <3>1, BoundsAssumption
    <2>6. ASSUME NEW q \in Login, NEW n \in Name, NEW b \in Body, PutTransaction(q, n, b)
          PROVE  Cardinality(NamesIn(docs'[o])) <= MaxDocuments
      BY <2>1, <2>3, <2>4, <2>6 DEF PutTransaction, PutAccepted
    <2>7. ASSUME NEW p \in Proc, NEW q \in Login, NEW n \in Name, RemoveDocument(p, q, n)
          PROVE  Cardinality(NamesIn(docs'[o])) <= MaxDocuments
      <3>1. docs'[o] = docs[o] \/ docs'[o] = [docs[o] EXCEPT ![n] = NoBody]
        BY <2>1, <2>7 DEF RemoveDocument
      <3> QED
        BY <2>1, <2>3, <2>5, <3>1, NamesAfterWrite
    <2>8. ASSUME NEW p \in Proc, NEW l \in Login, RemoveAccount(p, l)
          PROVE  Cardinality(NamesIn(docs'[o])) <= MaxDocuments
      <3>1. docs'[o] = docs[o] \/ docs'[o] = EmptyStore
        BY <2>1, <2>8 DEF RemoveAccount
      <3>2. NamesIn(EmptyStore) = {}
        BY DEF NamesIn, EmptyStore
      <3> QED
        BY <2>3, <2>5, <3>1, <3>2
    <2> QED
      BY <2>3, <2>6, <2>7, <2>8, DatabaseStep DEF ContactStep
  <1> QED
    BY <1>1, <1>2, InitType, NextType, PTL DEF Spec

-----------------------------------------------------------------------------
(***************************************************************************)
(* The refinement. A transaction that writes the document that is already  *)
(* there keeps the revision, so it is a stuttering step of the abstract    *)
(* store, although it may create the row of native_document_versions.      *)
(***************************************************************************)
RevisionOf == [l \in Login |-> Revision(l)]

\* A write or deletion of one document is a Change of the abstract store, or
\* nothing at all when it leaves the document as it was.
LEMMA RevisionStep ==
  ASSUME TypeInv, NEW o \in Login, NEW n \in Name, NEW b \in Body \cup {NoBody},
         version' = [version EXCEPT ![o] = NextRevision(o, docs[o][n] # b)],
         docs' = [docs EXCEPT ![o][n] = b]
  PROVE  Versioned!Change(o) \/ (docs' = docs /\ RevisionOf' = RevisionOf)
  <1>1. version \in [Login -> 0 .. MaxRevision] /\ docs \in [Login -> Store]
    BY DEF TypeInv, TypeOK
  <1>2. \A l \in Login : Revision(l)' = IF l = o THEN NextRevision(o, docs[o][n] # b)
                                                 ELSE Revision(l)
    BY <1>1, BoundsAssumption DEF Revision, NextRevision
  <1>3. CASE docs[o][n] = b
    <2>1. docs' = docs
      BY <1>1, <1>3 DEF Store
    <2>2. \A l \in Login : Revision(l)' = Revision(l)
      BY <1>2, <1>3 DEF NextRevision
    <2> QED
      BY <2>1, <2>2 DEF RevisionOf
  <1>4. CASE docs[o][n] # b
    <2>1. RevisionOf' = [RevisionOf EXCEPT ![o] = @ + 1]
      BY <1>2, <1>4 DEF RevisionOf, NextRevision
    <2> QED
      BY <2>1, <1>4 DEF Versioned!Change, RevisionOf
  <1> QED
    BY <1>3, <1>4

(***************************************************************************)
(* The document store implements VersionedDocuments: the revision a client *)
(* compares moves by one with every change of the documents of an account, *)
(* by nothing else, and restarts only when the account is removed.         *)
(***************************************************************************)
THEOREM DocumentsAreVersioned == Spec => RevisionFollowsDocuments
  <1>1. Init => Versioned!Init
    BY DEF Init, Versioned!Init, Versioned!EmptyStore, EmptyStore, Revision
  <1>2. TypeInv /\ [Next]_vars => [Versioned!Next]_(Versioned!vars)
    <2> SUFFICES ASSUME TypeInv, [Next]_vars
                 PROVE  \/ \E l \in Login : Versioned!Change(l) \/ Versioned!Reset(l)
                        \/ docs' = docs /\ RevisionOf' = RevisionOf
      BY DEF Versioned!Next, Versioned!vars, RevisionOf
    <2>1. CASE UNCHANGED <<version, docs>>
      BY <2>1 DEF RevisionOf, Revision
    <2>2. ASSUME NEW o \in Login, NEW n \in Name, NEW b \in Body, PutTransaction(o, n, b)
          PROVE  Versioned!Change(o) \/ (docs' = docs /\ RevisionOf' = RevisionOf)
      BY <2>2, RevisionStep DEF PutTransaction
    <2>3. ASSUME NEW p \in Proc, NEW o \in Login, NEW n \in Name, RemoveDocument(p, o, n)
          PROVE  Versioned!Change(o) \/ (docs' = docs /\ RevisionOf' = RevisionOf)
      BY <2>3, RevisionStep DEF RemoveDocument
    <2>4. ASSUME NEW p \in Proc, NEW l \in Login, RemoveAccount(p, l)
          PROVE  Versioned!Reset(l)
      <3>1. version \in [Login -> 0 .. MaxRevision]
        BY DEF TypeInv, TypeOK
      <3>2. RevisionOf' = [RevisionOf EXCEPT ![l] = 1]
        BY <2>4, <3>1 DEF RemoveAccount, RevisionOf, Revision
      <3> QED
        BY <2>4, <3>2 DEF RemoveAccount, RevisionOf, EmptyStore,
           Versioned!Reset, Versioned!EmptyStore
    <2> QED
      BY <2>1, <2>2, <2>3, <2>4, DatabaseStep DEF ContactStep
  <1> QED
    BY <1>1, <1>2, InitType, NextType, PTL DEF Spec, RevisionFollowsDocuments, Versioned!Spec

-----------------------------------------------------------------------------
(***************************************************************************)
(* docMu. Two goroutines of one process are never inside it at once.       *)
(***************************************************************************)
DocMuInv == \A p, q \in Proc :
  p # q /\ SameProcess(p, q) /\ job[p].pc \in Locked => job[q].pc \notin Locked

\* A step in which some goroutine comes to hold docMu is a step of that
\* goroutine alone, and nobody of its process held docMu.
LEMMA LockStep ==
  ASSUME TypeInv, [Next]_vars
  PROVE  \/ \A q \in Proc : job'[q].pc \in Locked => job[q].pc \in Locked
         \/ \E p \in Proc : DocMuFree(p) /\ \A q \in Proc \ {p} : job'[q] = job[q]
  <1> DEFINE NobodyTakes == \A q \in Proc : job'[q].pc \in Locked => job[q].pc \in Locked
             OneTakes == \E p \in Proc : DocMuFree(p) /\ \A q \in Proc \ {p} : job'[q] = job[q]
  <1>1. job \in [Proc -> Job]
    BY DEF TypeInv, TypeOK
  <1>2. ASSUME NEW p \in Proc, Finish(p) PROVE NobodyTakes
    BY <1>1, <1>2 DEF Finish, IdleJob, Locked
  <1>3. ASSUME NEW p \in Proc, NEW kind, NEW pc \in Step \ Locked, NEW o, NEW os,
               Start(p, kind, pc, o, os)
        PROVE  NobodyTakes
    BY <1>1, <1>3 DEF Start, IdleJob
  <1>4. ASSUME NEW p \in Proc, NEW pc \in Step, pc \notin Locked \/ job[p].pc \in Locked, Goto(p, pc)
        PROVE  NobodyTakes
    BY <1>1, <1>4 DEF Goto, Job
  <1>5. ASSUME NEW p \in Proc, Continue(p) PROVE NobodyTakes \/ OneTakes
    <2>1. CASE Snapshot(p) \/ CheckPeer(p) \/ ReadContacts(p)
      BY <1>1, <2>1 DEF Snapshot, CheckPeer, Goto, ReadContacts, Job, Locked
    <2>2. CASE CheckMutual(p)
      <3>1. \A q \in Proc \ {p} : job'[q] = job[q]
        BY <1>1, <2>2 DEF CheckMutual
      <3>2. job[p].pc \in Locked
        BY <2>2 DEF CheckMutual, Locked
      <3> QED BY <3>1, <3>2
    <2>3. CASE ReadRecord(p)
      <3>1. \A q \in Proc \ {p} : job'[q] = job[q]
        BY <1>1, <2>3 DEF ReadRecord
      <3>2. job[p].pc \in Locked
        BY <2>3 DEF ReadRecord, Locked
      <3> QED BY <3>1, <3>2
    <2>4. CASE Commit(p)
      <3>1. \A q \in Proc \ {p} : job'[q] = job[q]
        BY <1>1, <2>4 DEF Commit, Finish
      <3>2. job[p].pc \in Locked
        BY <2>4 DEF Commit, Locked
      <3> QED BY <3>1, <3>2
    <2>5. CASE SelectOwners(p)
      BY <1>1, <2>5 DEF SelectOwners, Job, Locked
    <2>6. CASE BeginEnsure(p)
      <3>1. DocMuFree(p)
        BY <2>6 DEF BeginEnsure
      <3>2. \A q \in Proc \ {p} : job'[q] = job[q]
        BY <1>1, <2>6 DEF BeginEnsure
      <3> QED BY <3>1, <3>2
    <2>7. CASE EndEnsure(p)
      BY <1>4, <2>7 DEF EndEnsure, Step, Locked
    <2>8. CASE EndOwners(p)
      <3>1. Goto(p, "manifest") \/ Goto(p, "command") \/ Finish(p)
        BY <2>8 DEF EndOwners
      <3>2. {"manifest", "command"} \subseteq Step \ Locked
        BY DEF Step, Locked
      <3> QED BY <1>2, <1>4, <3>1, <3>2
    <2>9. CASE ReplyManifest(p)
      BY <1>2, <2>9 DEF ReplyManifest
    <2> QED
      BY <1>5, <2>1, <2>2, <2>3, <2>4, <2>5, <2>6, <2>7, <2>8, <2>9 DEF Continue
  <1>6. ASSUME NEW p \in Proc, Refuse(p) \/ Fail(p) PROVE NobodyTakes
    BY <1>2, <1>6 DEF Refuse, Fail
  <1>7. ASSUME NEW p \in Proc, BeginSchema(p) PROVE NobodyTakes
    BY <1>3, <1>7 DEF BeginSchema, Step, Locked
  <1>8. ASSUME NEW p \in Proc, Command(p) PROVE NobodyTakes
    BY <1>2, <1>8 DEF Command, AddAccount, RemoveAccount, AddContact, CommandEnds
  <1>9. ASSUME NEW p \in Server, Request(p) PROVE NobodyTakes \/ OneTakes
    <2> p \in Proc
      BY DEF Proc
    <2>1. CASE BeginPut(p)
      <3>1. DocMuFree(p)
        BY <2>1 DEF BeginPut
      <3>2. \A q \in Proc \ {p} : job'[q] = job[q]
        BY <1>1, <2>1 DEF BeginPut
      <3> QED BY <3>1, <3>2
    <2>2. CASE Publish(p)
      <3>1. PICK e \in Publications : Start(p, "publish", "published", e[1], {})
        BY <2>2 DEF Publish
      <3> QED BY <1>3, <3>1 DEF Step, Locked
    <2>3. ASSUME NEW o \in Clients, BeginManifest(p, o) PROVE NobodyTakes
      BY <1>3, <2>3 DEF BeginManifest, Step, Locked
    <2>4. CASE job' = job
      BY <2>4
    <2> QED
      BY <1>9, <2>1, <2>2, <2>3, <2>4 DEF Request, RemoveDocument, RequestContact, RegisterAccount
  <1>10. CASE Crash
    BY <1>1, <1>10 DEF Crash, IdleJob, Locked
  <1>11. CASE UNCHANGED vars
    BY <1>11 DEF vars
  <1> QED
    BY <1>5, <1>6, <1>7, <1>8, <1>9, <1>10, <1>11 DEF Next

\* docMu is a mutex: no two goroutines of a process are inside the document
\* methods at once.
LEMMA DocMuMutex == Spec => []DocMuInv
  <1>1. Init => DocMuInv
    BY DEF Init, DocMuInv, IdleJob, Locked
  <1>2. TypeInv /\ DocMuInv /\ [Next]_vars => DocMuInv'
    <2> SUFFICES ASSUME TypeInv, DocMuInv, [Next]_vars, NEW p \in Proc, NEW q \in Proc,
                        p # q, SameProcess(p, q), job'[p].pc \in Locked, job'[q].pc \in Locked
                 PROVE  FALSE
      BY DEF DocMuInv, SameProcess
    <2>1. CASE \A r \in Proc : job'[r].pc \in Locked => job[r].pc \in Locked
      BY <2>1 DEF DocMuInv
    <2>2. ASSUME NEW r \in Proc, DocMuFree(r), \A s \in Proc \ {r} : job'[s] = job[s]
          PROVE  FALSE
      <3>1. SameProcess(q, p)
        BY DEF SameProcess
      <3>2. CASE r = p
        BY <2>2, <3>2 DEF DocMuFree
      <3>3. CASE r = q
        BY <2>2, <3>1, <3>3 DEF DocMuFree
      <3>4. CASE r # p /\ r # q
        BY <2>2, <3>4 DEF DocMuInv
      <3> QED BY <3>2, <3>3, <3>4
    <2> QED
      BY <2>1, <2>2, LockStep
  <1> QED
    BY <1>1, <1>2, InitType, NextType, PTL DEF Spec

(***************************************************************************)
(* What a goroutine inside EnsureNativeContactDocuments knows of the       *)
(* documents, as long as it is the only process: the snapshot is current,  *)
(* and no contact still to do has got a document since.                    *)
(***************************************************************************)
Knows(q) ==
  LET j == job[q] IN
  j.pc \in Locked /\ j.kind # "put" =>
    /\ j.pc = "contacts" => j.snap = docs[j.owner]
    /\ j.pc # "contacts" => \A c \in j.todo : ~Covered(j.owner, c)
    /\ j.pc \in {"record", "snapshot", "peer", "commit"} => j.name \in j.todo

KnowsInv == \A q \in Proc : Knows(q)

\* A step of others that leaves the documents alone leaves Knows alone.
LEMMA KnowsFrame ==
  ASSUME NEW q \in Proc, Knows(q), job'[q] = job[q], docs' = docs
  PROVE  Knows(q)'
  BY DEF Knows, Covered

\* A goroutine without docMu claims to know nothing.
LEMMA KnowsOutside ==
  ASSUME NEW q \in Proc, job'[q].pc \notin Locked
  PROVE  Knows(q)'
  BY DEF Knows, Locked

(***************************************************************************)
(* A step of the loop over contacts: the contacts still to do are fewer,   *)
(* and the documents of those that remain are the same.                    *)
(***************************************************************************)
LEMMA KnowsLess ==
  ASSUME NEW q \in Proc, Knows(q),
         job[q].pc \in Locked \ {"contacts"}, job'[q].pc \in Locked \ {"contacts"},
         job'[q].kind = job[q].kind, job'[q].owner = job[q].owner,
         job'[q].todo \subseteq job[q].todo,
         \A c \in job'[q].todo : docs'[job[q].owner][c] = docs[job[q].owner][c],
         job'[q].pc # "each" => job'[q].name \in job'[q].todo
  PROVE  Knows(q)'
  BY DEF Knows, Covered, Locked

\* A goroutine's own step inside EnsureNativeContactDocuments keeps what it
\* knows.
LEMMA KnowsContinue ==
  ASSUME TypeInv, KnowsInv, NEW p \in Proc, Continue(p)
  PROVE  Knows(p)'
  <1> USE DEF Locked
  <1>1. job \in [Proc -> Job] /\ Knows(p) /\ job[p] \in Job /\ LocalsOK(job[p])
    BY DEF TypeInv, TypeOK, KnowsInv
  <1>2. ASSUME docs' = docs, job'[p].todo = job[p].todo, job'[p].name = job[p].name,
               job'[p].owner = job[p].owner, job'[p].kind = job[p].kind,
               job[p].pc \in {"snapshot", "peer"}, job'[p].pc \in {"peer", "commit"}
        PROVE  Knows(p)'
    BY <1>1, <1>2 DEF Knows, Covered
  <1>3. CASE Snapshot(p)
    BY <1>1, <1>2, <1>3 DEF Snapshot, Job, db
  <1>4. CASE CheckPeer(p)
    BY <1>1, <1>2, <1>4 DEF CheckPeer, Goto, Job, db
  <1>5. CASE Commit(p) /\ job[p].kind = "put"
    <2>1. job'[p] = IdleJob
      BY <1>1, <1>5 DEF Commit, Finish
    <2> QED
      BY <2>1, KnowsOutside DEF IdleJob
  <1>6. CASE Commit(p) /\ job[p].kind # "put"
    <2>1. /\ job[p].pc = "commit"
          /\ job' = [job EXCEPT ![p].pc = "each", ![p].todo = @ \ {job[p].name},
                               ![p].name = NoLogin, ![p].body = NoBody,
                               ![p].snap = EmptyStore]
          /\ docs' = [docs EXCEPT ![job[p].owner][job[p].name] = job[p].body]
      BY <1>6 DEF Commit, PutTransaction
    <2>2. /\ job'[p].pc = "each" /\ job'[p].todo = job[p].todo \ {job[p].name}
          /\ job'[p].kind = job[p].kind /\ job'[p].owner = job[p].owner
      BY <1>1, <2>1 DEF Job
    <2>3. job[p].owner \in Login /\ job[p].todo \subseteq Login
      BY <1>1, <2>1 DEF LocalsOK, Job
    <2>4. \A c \in job'[p].todo : docs'[job[p].owner][c] = docs[job[p].owner][c]
      BY <2>1, <2>2, <2>3 DEF TypeInv, TypeOK, Store, Name
    <2> QED
      BY <1>1, <2>1, <2>2, <2>4, KnowsLess
  <1>7. CASE BeginEnsure(p)
    <2>1. PICK o \in job[p].owners \cap accounts :
            job' = [job EXCEPT ![p].pc = "contacts", ![p].owner = o,
                      ![p].owners = @ \ {o}, ![p].snap = docs[o]]
      BY <1>7 DEF BeginEnsure
    <2>2. job'[p].pc = "contacts" /\ job'[p].owner = o /\ job'[p].snap = docs[o]
      BY <1>1, <2>1 DEF Job
    <2> QED
      BY <1>7, <2>2 DEF BeginEnsure, db, Knows
  <1>8. CASE ReadContacts(p)
    <2>1. /\ job'[p].pc = "each" /\ job'[p].owner = job[p].owner /\ job'[p].kind = job[p].kind
          /\ job'[p].todo = {c \in ContactsOf(job[p].owner) :
                              job[p].snap[c] = NoBody \/ IsLegacy(c, job[p].snap[c])}
      BY <1>1, <1>8 DEF ReadContacts, Job
    <2>2. job[p].kind # "put" => job[p].snap = docs[job[p].owner]
      BY <1>1, <1>8 DEF ReadContacts, Knows
    <2> QED
      BY <1>8, <2>1, <2>2 DEF ReadContacts, db, Knows, Covered
  <1>9. CASE CheckMutual(p)
    <2>1. PICK c \in job[p].todo :
            job' = IF Mutual(job[p].owner, c)
                   THEN [job EXCEPT ![p].pc = "record", ![p].name = c]
                   ELSE [job EXCEPT ![p].todo = @ \ {c}]
      BY <1>9 DEF CheckMutual
    <2>2. /\ job'[p].kind = job[p].kind /\ job'[p].owner = job[p].owner
          /\ \/ job'[p].pc = "record" /\ job'[p].todo = job[p].todo /\ job'[p].name = c
             \/ job'[p].pc = "each" /\ job'[p].todo = job[p].todo \ {c}
      BY <1>1, <1>9, <2>1 DEF CheckMutual, Job
    <2> QED
      BY <1>1, <1>9, <2>1, <2>2, KnowsLess DEF CheckMutual, db
  <1>10. CASE ReadRecord(p)
    <2>1. /\ job'[p].kind = job[p].kind /\ job'[p].owner = job[p].owner
          /\ \/ /\ job'[p].pc = "snapshot" /\ job'[p].todo = job[p].todo
                /\ job'[p].name = job[p].name
             \/ job'[p].pc = "each" /\ job'[p].todo = job[p].todo \ {job[p].name}
      <3>1. CASE job' = [job EXCEPT ![p].pc = "each", ![p].todo = @ \ {job[p].name},
                                    ![p].name = NoLogin]
        BY <1>1, <3>1 DEF Job
      <3>2. ASSUME NEW t, job' = [job EXCEPT ![p].pc = "snapshot", ![p].body = t]
            PROVE  /\ job'[p].kind = job[p].kind /\ job'[p].owner = job[p].owner
                   /\ job'[p].pc = "snapshot" /\ job'[p].todo = job[p].todo
                   /\ job'[p].name = job[p].name
        BY <1>1, <3>2 DEF Job
      <3> QED
        BY <1>10, <3>1, <3>2 DEF ReadRecord
    <2>2. job[p].pc = "record" /\ docs' = docs
      BY <1>10 DEF ReadRecord, db
    <2> QED
      BY <1>1, <2>1, <2>2, KnowsLess DEF Knows
  <1>11. CASE SelectOwners(p)
    BY <1>1, <1>11, KnowsOutside DEF SelectOwners, Job
  <1>12. CASE EndEnsure(p)
    BY <1>1, <1>12, KnowsOutside DEF EndEnsure, Goto, Job
  <1>13. CASE EndOwners(p)
    <2>1. Goto(p, "manifest") \/ Goto(p, "command") \/ Finish(p)
      BY <1>13 DEF EndOwners
    <2> QED
      BY <1>1, <2>1, KnowsOutside DEF Goto, Finish, IdleJob, Job
  <1>14. CASE ReplyManifest(p)
    BY <1>1, <1>14, KnowsOutside DEF ReplyManifest, Finish, IdleJob
  <1> QED
    BY <1>3, <1>4, <1>5, <1>6, <1>7, <1>8, <1>9, <1>10, <1>11, <1>12, <1>13, <1>14 DEF Continue

\* No step of a system without administrative processes invalidates what a
\* goroutine knows: only holders of docMu change documents, and there is one.
LEMMA KnowsStep ==
  ASSUME Admin = {}, TypeInv, DocMuInv, KnowsInv, [Next]_vars
  PROVE  KnowsInv'
  <1>1. job \in [Proc -> Job] /\ \A q \in Proc : Knows(q)
    BY DEF TypeInv, TypeOK, KnowsInv
  <1>2. \A p, q \in Proc : SameProcess(p, q)
    BY DEF Proc, SameProcess
  <1>3. ASSUME NEW p \in Proc, Continue(p) PROVE KnowsInv'
    <2>1. \A q \in Proc \ {p} : job'[q] = job[q]
      BY <1>1, <1>3 DEF Continue, Snapshot, CheckPeer, Goto, Commit, Finish, SelectOwners,
         BeginEnsure, ReadContacts, CheckMutual, ReadRecord, EndEnsure, EndOwners, ReplyManifest
    <2>2. CASE docs' = docs
      BY <1>1, <1>3, <2>1, <2>2, KnowsFrame, KnowsContinue DEF KnowsInv
    <2>3. CASE Commit(p)
      <3>1. job[p].pc \in Locked
        BY <2>3 DEF Commit, Locked
      <3>2. \A q \in Proc \ {p} : job'[q].pc \notin Locked
        BY <1>2, <2>1, <3>1 DEF DocMuInv
      <3> QED
        BY <1>3, <3>2, KnowsOutside, KnowsContinue DEF KnowsInv
    <2> QED
      BY <1>3, <2>2, <2>3 DEF Continue, Snapshot, CheckPeer, SelectOwners, BeginEnsure,
         ReadContacts, CheckMutual, ReadRecord, EndEnsure, EndOwners, ReplyManifest, db
  <1>4. ASSUME NEW p \in Proc, Finish(p), docs' = docs PROVE KnowsInv'
    <2>1. job'[p].pc \notin Locked /\ \A q \in Proc \ {p} : job'[q] = job[q]
      BY <1>1, <1>4 DEF Finish, IdleJob, Locked
    <2> QED
      BY <1>1, <1>4, <2>1, KnowsFrame, KnowsOutside DEF KnowsInv
  <1>5. ASSUME NEW p \in Proc, NEW kind, NEW pc, pc \notin Locked, NEW o, NEW os,
               Start(p, kind, pc, o, os), docs' = docs
        PROVE  KnowsInv'
    <2>1. job'[p].pc \notin Locked /\ \A q \in Proc \ {p} : job'[q] = job[q]
      BY <1>1, <1>5 DEF Start, IdleJob
    <2> QED
      BY <1>1, <1>5, <2>1, KnowsFrame, KnowsOutside DEF KnowsInv
  <1>6. ASSUME NEW p \in Proc, Refuse(p) \/ Fail(p) PROVE KnowsInv'
    BY <1>4, <1>6 DEF Refuse, Fail, db
  <1>7. ASSUME NEW p \in Proc, BeginSchema(p) PROVE KnowsInv'
    BY <1>5, <1>7 DEF BeginSchema, db, Locked
  <1>8. ASSUME NEW p \in Proc PROVE ~Command(p)
    BY DEF Command, AddAccount, RemoveAccount, AddContact, CommandEnds
  <1>9. ASSUME NEW p \in Server, Request(p) PROVE KnowsInv'
    <2> p \in Proc
      BY DEF Proc
    <2>1. CASE BeginPut(p)
      <3>1. docs' = docs /\ \A q \in Proc \ {p} : job'[q] = job[q]
        BY <1>1, <2>1 DEF BeginPut, db
      <3>2. job'[p].kind = "put"
        BY <1>1, <2>1 DEF BeginPut, IdleJob
      <3>3. Knows(p)'
        BY <3>2 DEF Knows
      <3> QED
        BY <1>1, <3>1, <3>3, KnowsFrame DEF KnowsInv
    <2>2. CASE Publish(p)
      <3>1. PICK e \in Publications : Start(p, "publish", "published", e[1], {})
        BY <2>2 DEF Publish
      <3> QED
        BY <1>5, <2>2, <3>1 DEF Publish, Locked
    <2>3. ASSUME NEW o \in Clients, BeginManifest(p, o) PROVE KnowsInv'
      BY <1>5, <2>3 DEF BeginManifest, db, Locked
    <2>4. ASSUME NEW o \in Clients, NEW n \in Name, RemoveDocument(p, o, n) PROVE KnowsInv'
      <3>1. \A q \in Proc : job'[q].pc \notin Locked
        BY <1>2, <2>4 DEF RemoveDocument, DocMuFree, Busy, Locked
      <3> QED
        BY <3>1, KnowsOutside DEF KnowsInv
    <2>5. CASE job' = job /\ docs' = docs
      BY <1>1, <2>5, KnowsFrame DEF KnowsInv
    <2> QED
      BY <1>9, <2>1, <2>2, <2>3, <2>4, <2>5 DEF Request, RequestContact, RegisterAccount
  <1>10. CASE Crash
    <2>1. docs' = docs /\ \A q \in Proc : job'[q].pc \notin Locked \/ job'[q] = job[q]
      BY <1>1, <1>10 DEF Crash, IdleJob, Locked, db
    <2> QED
      BY <1>1, <2>1, KnowsFrame, KnowsOutside DEF KnowsInv
  <1>11. CASE UNCHANGED vars
    BY <1>1, <1>11, KnowsFrame DEF vars, db, KnowsInv
  <1> QED
    BY <1>3, <1>6, <1>7, <1>8, <1>9, <1>10, <1>11 DEF Next

(***************************************************************************)
(* While the server is the only process on the database, a projection      *)
(* fills a gap or replaces an old server document, and never a document a  *)
(* client has written between the look and the commit. With an             *)
(* administrative command beside the server this is false.                 *)
(***************************************************************************)
THEOREM ProjectionsFillGaps ==
  ASSUME Admin = {}
  PROVE  Spec => ProjectionFillsGaps
  <1>1. Init => KnowsInv
    BY DEF Init, KnowsInv, Knows, IdleJob, Locked
  <1>2. TypeInv /\ DocMuInv /\ KnowsInv /\ [Next]_vars => KnowsInv'
    BY KnowsStep
  <1>3. KnowsInv => [\A p \in Proc : ProjectionStep(p) => ~Covered(job[p].owner, job[p].name)]_vars
    BY DEF KnowsInv, Knows, ProjectionStep, Locked
  <1> QED
    BY <1>1, <1>2, <1>3, InitType, NextType, DocMuMutex, PTL DEF Spec, ProjectionFillsGaps

-----------------------------------------------------------------------------
(***************************************************************************)
(* What a goroutine inside EnsureNativeContactDocuments writes: a document *)
(* projected from a record of the contact it is written for.               *)
(***************************************************************************)
Projects(q) ==
  LET j == job[q] IN
  j.kind # "put" /\ j.pc \in {"snapshot", "peer", "commit"} =>
    j.name \in Login /\ \E r \in Record : j.body = ContactDocument[j.name, r]

(***************************************************************************)
(* A contact a manifest request owes its client is still to come: in the   *)
(* snapshot it has no document to keep, or the loop has it still to do.    *)
(***************************************************************************)
Pending(j, c) ==
  \/ j.pc = "contacts" /\ (j.snap[c] = NoBody \/ IsLegacy(c, j.snap[c]))
  \/ j.pc \in Locked \ {"contacts"} /\ c \in j.todo

Owes(q) ==
  \A c \in due[q] : /\ Due(job[q].owner, c)
                    /\ Covered(job[q].owner, c) \/ Pending(job[q], c)

DueInv == \A q \in Proc : Projects(q) /\ Owes(q)

\* What a request still owes was owed before, and TrackDue has excused nothing
\* else: a contact that was covered is covered.
LEMMA DueTracked ==
  ASSUME TypeInv, TrackDue, NEW q \in Proc,
         job[q].pc # "owners" \/ job'[q].pc # "contacts"
  PROVE  /\ job'[q].kind # "manifest" => due'[q] = {}
         /\ \A c \in due'[q] : /\ c \in due[q] /\ Due(job[q].owner, c)'
                               /\ Covered(job[q].owner, c) => Covered(job[q].owner, c)'
  BY DEF TrackDue

\* A request keeps what it owes in sight, if it drops a contact from its loop
\* only when the contact is covered or is no longer due.
LEMMA OwesLater ==
  ASSUME TypeInv, TrackDue, NEW q \in Proc, Owes(q),
         job[q].pc # "owners" \/ job'[q].pc # "contacts",
         \A c \in due[q] : Pending(job[q], c) /\ Due(job[q].owner, c)' =>
                             Pending(job[q], c)' \/ Covered(job[q].owner, c)'
  PROVE  Owes(q)'
  BY DueTracked DEF Owes

\* A process that is not, or no longer, at a manifest request owes nothing.
LEMMA OwesNothing ==
  ASSUME TypeInv, TrackDue, NEW q \in Proc, job'[q].kind # "manifest",
         job[q].pc # "owners" \/ job'[q].pc # "contacts"
  PROVE  Owes(q)'
  BY DueTracked DEF Owes

\* The steps of others change nothing of what a process owes and projects.
LEMMA DueOthers ==
  ASSUME TypeInv, TrackDue, NEW q \in Proc, Projects(q), Owes(q), job'[q] = job[q]
  PROVE  Projects(q)' /\ Owes(q)'
  <1>1. Projects(q)'
    BY DEF Projects
  <1>2. job[q].pc # "owners" \/ job'[q].pc # "contacts"
    OBVIOUS
  <1>3. \A c \in due[q] : Pending(job[q], c) => Pending(job[q], c)'
    BY DEF Pending
  <1> QED
    BY <1>1, <1>2, <1>3, OwesLater

\* A request that ends owes nothing.
LEMMA DueFinish ==
  ASSUME TypeInv, DueInv, TrackDue, NEW p \in Proc, Finish(p)
  PROVE  DueInv'
  <1>1. job'[p] = IdleJob /\ \A q \in Proc \ {p} : job'[q] = job[q]
    BY DEF Finish, TypeInv, TypeOK
  <1>2. job'[p].kind = "none" /\ job'[p].pc = "idle"
    BY <1>1 DEF IdleJob
  <1>3. Projects(p)' /\ Owes(p)'
    BY <1>2, OwesNothing DEF Projects
  <1> QED
    BY <1>1, <1>3, DueOthers DEF DueInv

\* Outside docMu nothing is pending, and a process that comes there to nothing
\* owes what it owed.
LEMMA DueOutside ==
  ASSUME TypeInv, DueInv, TrackDue, NEW p \in Proc,
         \A q \in Proc \ {p} : job'[q] = job[q],
         \A c \in due[p] : ~Pending(job[p], c), job'[p].pc \notin Locked
  PROVE  DueInv'
  <1>1. Owes(p)'
    BY OwesLater DEF DueInv, Locked
  <1>2. Projects(p)'
    BY DEF Projects, Locked
  <1> QED
    BY <1>1, <1>2, DueOthers DEF DueInv

\* The steps of a goroutine inside EnsureNativeContactDocuments.
LEMMA DueContinue ==
  ASSUME TypeInv, DueInv, NEW p \in Proc, Continue(p)
  PROVE  DueInv'
  <1> USE DEF Locked
  <1>1. /\ job \in [Proc -> Job] /\ job[p] \in Job /\ LocalsOK(job[p])
        /\ Projects(p) /\ Owes(p)
    BY DEF TypeInv, TypeOK, DueInv
  <1>2. TrackDue /\ \A q \in Proc \ {p} : job'[q] = job[q]
    BY <1>1 DEF Continue, Snapshot, CheckPeer, Goto, Commit, Finish, SelectOwners,
       BeginEnsure, ReadContacts, CheckMutual, ReadRecord, EndEnsure, EndOwners, ReplyManifest
  <1>3. ASSUME Projects(p)', Owes(p)' PROVE DueInv'
    BY <1>2, <1>3, DueOthers DEF DueInv
  (* A step inside the loop: what it drops is covered, or no longer due. *)
  <1>4. ASSUME job[p].pc \in Locked \ {"contacts"}, job'[p].pc \in Locked \ {"contacts"},
               \A c \in due[p] \cap job[p].todo : Due(job[p].owner, c)' =>
                 c \in job'[p].todo \/ Covered(job[p].owner, c)'
        PROVE  Owes(p)'
    <2>1. \A c \in due[p] : Pending(job[p], c) /\ Due(job[p].owner, c)' =>
                              Pending(job[p], c)' \/ Covered(job[p].owner, c)'
      BY <1>4 DEF Pending
    <2> QED
      BY <1>1, <1>2, <1>4, <2>1, OwesLater
  <1>5. CASE Snapshot(p)
    <2>1. /\ job[p].pc = "snapshot" /\ job'[p].pc = "peer" /\ job'[p].todo = job[p].todo
          /\ job'[p].name = job[p].name /\ job'[p].body = job[p].body
          /\ job'[p].kind = job[p].kind
      BY <1>1, <1>5 DEF Snapshot, Job
    <2>2. Owes(p)'
      BY <1>4, <2>1
    <2>3. Projects(p)'
      BY <1>1, <2>1 DEF Projects
    <2> QED
      BY <1>3, <2>2, <2>3
  <1>6. CASE CheckPeer(p)
    <2>1. /\ job[p].pc = "peer" /\ job'[p].pc = "commit" /\ job'[p].todo = job[p].todo
          /\ job'[p].name = job[p].name /\ job'[p].body = job[p].body
          /\ job'[p].kind = job[p].kind
      BY <1>1, <1>6 DEF CheckPeer, Goto, Job
    <2>2. Owes(p)'
      BY <1>4, <2>1
    <2>3. Projects(p)'
      BY <1>1, <2>1 DEF Projects
    <2> QED
      BY <1>3, <2>2, <2>3
  <1>7. CASE Commit(p) /\ job[p].kind = "put"
    BY <1>2, <1>7, DueFinish DEF Commit
  <1>8. CASE Commit(p) /\ job[p].kind # "put"
    <2>0. PICK o \in Login, n \in Login, r \in Record :
            /\ o = job[p].owner /\ n = job[p].name /\ job[p].body = ContactDocument[n, r]
      <3>1. job[p].kind # "put" /\ job[p].pc = "commit" /\ job[p].owner \in Login
        BY <1>1, <1>8 DEF Commit, LocalsOK, Locked
      <3>2. job[p].name \in Login /\ \E r \in Record : job[p].body = ContactDocument[job[p].name, r]
        BY <1>1, <3>1, Zenon DEF Projects
      <3>3. QED
        BY <3>1, <3>2, Zenon
    <2>1. /\ job[p].pc = "commit"
          /\ job' = [job EXCEPT ![p].pc = "each", ![p].todo = @ \ {job[p].name},
                               ![p].name = NoLogin, ![p].body = NoBody,
                               ![p].snap = EmptyStore]
          /\ docs' = [docs EXCEPT ![o][n] = job[p].body]
      BY <1>8, <2>0 DEF Commit, PutTransaction
    <2>2. /\ job'[p].pc = "each" /\ job'[p].todo = job[p].todo \ {n} /\ job'[p].owner = o
      BY <1>1, <2>0, <2>1 DEF Job
    <2>4. docs'[o][n] = job[p].body
      BY <1>1, <2>0, <2>1 DEF TypeInv, TypeOK, Store, Name, LocalsOK
    <2>5. job[p].body \in Body /\ job[p].body \notin ThreeField
      BY <2>0, BodiesAssumption, ProjectionAssumption
    <2>6. Covered(job[p].owner, n)'
      BY <2>2, <2>4, <2>5, BodiesAssumption DEF Covered, IsLegacy
    <2>7. Owes(p)'
      BY <1>4, <2>0, <2>1, <2>2, <2>6
    <2>8. Projects(p)'
      BY <2>2 DEF Projects
    <2> QED
      BY <1>3, <2>7, <2>8
  <1>9. CASE BeginEnsure(p)
    <2>1. PICK o \in job[p].owners \cap accounts :
            job' = [job EXCEPT ![p].pc = "contacts", ![p].owner = o,
                      ![p].owners = @ \ {o}, ![p].snap = docs[o]]
      BY <1>9 DEF BeginEnsure
    <2>2. /\ job[p].pc = "owners" /\ UNCHANGED db
          /\ job'[p].pc = "contacts" /\ job'[p].owner = o /\ job'[p].snap = docs[o]
          /\ job'[p].kind = job[p].kind
      BY <1>1, <1>9, <2>1 DEF BeginEnsure, Job
    <2>3. \A c \in due'[p] : Due(o, c)
      BY <1>2, <2>2 DEF TrackDue
    <2>4. \A c \in due'[p] : Due(job[p].owner, c)'
      BY <2>2, <2>3 DEF Due, Mutual, RecordsOf, db
    <2>5. \A c \in due'[p] : Covered(job[p].owner, c)' \/ Pending(job[p], c)'
      BY <2>2 DEF Covered, Pending, db
    <2>6. Owes(p)'
      BY <2>4, <2>5 DEF Owes
    <2>7. Projects(p)'
      BY <2>2 DEF Projects
    <2> QED
      BY <1>3, <2>6, <2>7
  <1>10. CASE ReadContacts(p)
    <2>1. /\ job[p].pc = "contacts" /\ job'[p].pc = "each" /\ job'[p].owner = job[p].owner
          /\ job'[p].todo = {c \in ContactsOf(job[p].owner) :
                              job[p].snap[c] = NoBody \/ IsLegacy(c, job[p].snap[c])}
          /\ contacts' = contacts
      BY <1>1, <1>10 DEF ReadContacts, Job, db
    <2>2. \A c \in due[p] : Pending(job[p], c) /\ Due(job[p].owner, c)' => Pending(job[p], c)'
      BY <2>1 DEF Pending, Due, Mutual, ContactsOf, TypeInv, TypeOK
    <2>3. Owes(p)'
      BY <1>1, <1>2, <2>1, <2>2, OwesLater
    <2>4. Projects(p)'
      BY <2>1 DEF Projects
    <2> QED
      BY <1>3, <2>3, <2>4
  <1>11. CASE CheckMutual(p)
    <2>1. PICK c \in job[p].todo :
            job' = IF Mutual(job[p].owner, c)
                   THEN [job EXCEPT ![p].pc = "record", ![p].name = c]
                   ELSE [job EXCEPT ![p].todo = @ \ {c}]
      BY <1>11 DEF CheckMutual
    <2>2. /\ job[p].pc = "each" /\ job'[p].pc \in {"each", "record"}
          /\ job'[p].owner = job[p].owner /\ contacts' = contacts
          /\ \/ job'[p].todo = job[p].todo
             \/ job'[p].todo = job[p].todo \ {c} /\ ~Mutual(job[p].owner, c)
      BY <1>1, <1>11, <2>1 DEF CheckMutual, Job, db
    <2>3. ~Mutual(job[p].owner, c) => ~Due(job[p].owner, c)'
      BY <2>2 DEF Due, Mutual
    <2>4. Owes(p)'
      <3>1. CASE job'[p].todo = job[p].todo
        BY <1>4, <2>2, <3>1
      <3>2. CASE job'[p].todo = job[p].todo \ {c} /\ ~Mutual(job[p].owner, c)
        BY <1>4, <2>2, <2>3, <3>2
      <3> QED
        BY <2>2, <3>1, <3>2
    <2>5. Projects(p)'
      BY <2>2 DEF Projects
    <2> QED
      BY <1>3, <2>4, <2>5
  <1>12. CASE ReadRecord(p)
    <2>0. PICK c \in Login : c = job[p].name /\ job[p].pc = "record" /\ UNCHANGED db
      BY <1>1, <1>12 DEF ReadRecord, LocalsOK
    <2>1. ASSUME NEW r \in RecordsOf(c) \cap FullRecord,
                 job' = [job EXCEPT ![p].pc = "snapshot", ![p].body = ContactDocument[c, r]]
          PROVE  DueInv'
      <3>1. /\ job'[p].pc = "snapshot" /\ job'[p].todo = job[p].todo
            /\ job'[p].name = c /\ job'[p].body = ContactDocument[c, r]
        BY <1>1, <2>0, <2>1 DEF Job
      <3>2. Owes(p)'
        BY <1>4, <2>0, <3>1
      <3>3. Projects(p)'
        BY <2>0, <3>1, BodiesAssumption DEF Projects
      <3> QED
        BY <1>3, <3>2, <3>3
    <2>2. ASSUME RecordsOf(c) = {} \/ RecordsOf(c) \ FullRecord # {},
                 job' = [job EXCEPT ![p].pc = "each", ![p].todo = @ \ {c}, ![p].name = NoLogin]
          PROVE  DueInv'
      <3>1. /\ job'[p].pc = "each" /\ job'[p].todo = job[p].todo \ {c}
            /\ job'[p].owner = job[p].owner
        BY <1>1, <2>0, <2>2 DEF Job
      <3>2. ~Due(job[p].owner, c)'
        BY <2>0, <2>2 DEF Due, RecordsOf, db
      <3>3. Owes(p)'
        BY <1>4, <2>0, <3>1, <3>2
      <3>4. Projects(p)'
        BY <3>1 DEF Projects
      <3> QED
        BY <1>3, <3>3, <3>4
    <2> QED
      BY <1>12, <2>0, <2>1, <2>2 DEF ReadRecord
  <1>13. CASE SelectOwners(p)
    <2>1. job[p].pc = "published" /\ job'[p].pc = "owners"
      BY <1>1, <1>13 DEF SelectOwners, Job
    <2> QED
      BY <1>2, <2>1, DueOutside DEF Pending
  <1>14. CASE EndEnsure(p)
    <2>1. job[p].pc = "each" /\ job[p].todo = {} /\ job'[p].pc = "owners"
      BY <1>1, <1>14 DEF EndEnsure, Goto, Job
    <2> QED
      BY <1>2, <2>1, DueOutside DEF Pending
  <1>15. CASE EndOwners(p)
    <2>1. Goto(p, "manifest") \/ Goto(p, "command") \/ Finish(p)
      BY <1>15 DEF EndOwners
    <2>2. CASE Finish(p)
      BY <1>2, <2>2, DueFinish
    <2>3. CASE Goto(p, "manifest") \/ Goto(p, "command")
      <3>1. job[p].pc = "owners" /\ job'[p].pc \in {"manifest", "command"}
        BY <1>1, <1>15, <2>3 DEF EndOwners, Goto, Job
      <3> QED
        BY <1>2, <3>1, DueOutside DEF Pending
    <2> QED
      BY <2>1, <2>2, <2>3
  <1>16. CASE ReplyManifest(p)
    BY <1>2, <1>16, DueFinish DEF ReplyManifest
  <1> QED
    BY <1>5, <1>6, <1>7, <1>8, <1>9, <1>10, <1>11, <1>12, <1>13, <1>14, <1>15, <1>16
       DEF Continue

\* Every step, of a request, a command or the system, keeps what requests owe.
LEMMA DueStep ==
  ASSUME TypeInv, DueInv, [Next]_vars
  PROVE  DueInv'
  <1>1. job \in [Proc -> Job] /\ \A q \in Proc : Projects(q) /\ Owes(q)
    BY DEF TypeInv, TypeOK, DueInv
  <1>2. ASSUME TrackDue, job' = job PROVE DueInv'
    BY <1>1, <1>2, DueOthers DEF DueInv
  <1>3. ASSUME TrackDue, NEW p \in Proc, ~Busy(p), NEW kind, NEW pc, pc \notin Locked,
               NEW o, NEW os, Start(p, kind, pc, o, os)
        PROVE  DueInv'
    <2>1. job'[p].pc \notin Locked /\ \A q \in Proc \ {p} : job'[q] = job[q]
      BY <1>1, <1>3 DEF Start, IdleJob
    <2>2. \A c \in due[p] : ~Pending(job[p], c)
      BY <1>3 DEF Busy, Pending, Locked
    <2> QED
      BY <1>3, <2>1, <2>2, DueOutside
  <1>4. ASSUME NEW p \in Proc, Continue(p) PROVE DueInv'
    BY <1>4, DueContinue
  <1>5. ASSUME NEW p \in Proc, Refuse(p) \/ Fail(p) PROVE DueInv'
    BY <1>5, DueFinish DEF Refuse, Fail
  <1>6. ASSUME NEW p \in Proc, BeginSchema(p) PROVE DueInv'
    BY <1>3, <1>6 DEF BeginSchema, Locked
  <1>7. ASSUME NEW p \in Proc, Command(p) PROVE DueInv'
    BY <1>7, DueFinish DEF Command, AddAccount, RemoveAccount, AddContact, CommandEnds
  <1>8. ASSUME NEW p \in Server, Request(p) PROVE DueInv'
    <2> p \in Proc
      BY DEF Proc
    <2>1. CASE BeginPut(p)
      <3>1. TrackDue /\ \A q \in Proc \ {p} : job'[q] = job[q]
        BY <1>1, <2>1 DEF BeginPut
      <3>2. job'[p].kind = "put" /\ job[p].pc = "idle"
        BY <1>1, <2>1 DEF BeginPut, IdleJob, Busy
      <3>3. Projects(p)' /\ Owes(p)'
        BY <3>1, <3>2, OwesNothing DEF Projects
      <3> QED
        BY <1>1, <3>1, <3>3, DueOthers DEF DueInv
    <2>2. CASE Publish(p)
      <3>1. PICK e \in Publications : Start(p, "publish", "published", e[1], {})
        BY <2>2 DEF Publish
      <3> QED
        BY <1>3, <2>2, <3>1 DEF Publish, Locked
    <2>3. ASSUME NEW o \in Clients, BeginManifest(p, o) PROVE DueInv'
      BY <1>3, <2>3 DEF BeginManifest, Locked
    <2>4. ASSUME NEW o \in Clients, NEW n \in Name, RemoveDocument(p, o, n) PROVE DueInv'
      BY <1>2, <2>4 DEF RemoveDocument
    <2>5. ASSUME NEW o \in Clients, NEW c \in Login, RequestContact(p, o, c) PROVE DueInv'
      BY <1>2, <2>5 DEF RequestContact
    <2>6. ASSUME NEW l \in Managed, RegisterAccount(p, l) PROVE DueInv'
      BY <1>2, <2>6 DEF RegisterAccount
    <2> QED
      BY <1>8, <2>1, <2>2, <2>3, <2>4, <2>5, <2>6 DEF Request
  <1>9. CASE Crash
    <2>1. TrackDue /\ \A q \in Proc : job'[q] = IdleJob \/ job'[q] = job[q]
      BY <1>1, <1>9 DEF Crash
    <2>2. ASSUME NEW q \in Proc, job'[q] = IdleJob PROVE Projects(q)' /\ Owes(q)'
      <3>1. job'[q].kind = "none" /\ job'[q].pc = "idle"
        BY <2>2 DEF IdleJob
      <3> QED
        BY <2>1, <3>1, OwesNothing DEF Projects
    <2> QED
      BY <1>1, <2>1, <2>2, DueOthers DEF DueInv
  <1>10. CASE UNCHANGED vars
    <2>1. ASSUME NEW q \in Proc PROVE Projects(q)' /\ Owes(q)'
      <3>1. job' = job /\ due' = due /\ docs' = docs /\ record' = record /\ contacts' = contacts
        BY <1>10 DEF vars, db
      <3>2. Projects(q)'
        BY <1>1, <3>1 DEF Projects
      <3>3. Owes(q)'
        BY <1>1, <3>1 DEF Owes, Pending, Due, Mutual, RecordsOf, Covered
      <3> QED
        BY <3>2, <3>3
    <2> QED
      BY <2>1 DEF DueInv
  <1> QED
    BY <1>4, <1>5, <1>6, <1>7, <1>8, <1>9, <1>10 DEF Next

(***************************************************************************)
(* A manifest reply leaves out no contact it owes: one that was mutual and *)
(* had a record that can be projected from the moment the request took     *)
(* docMu. No assumption about administrative commands beside the server is *)
(* needed: one that takes a document away excuses the request.             *)
(***************************************************************************)
THEOREM ManifestsAreComplete == Spec => []ManifestComplete
  <1>1. Init => DueInv
    <2> SUFFICES ASSUME Init, NEW q \in Proc PROVE Projects(q) /\ Owes(q)
      BY DEF DueInv
    <2>1. job[q].pc = "idle" /\ due[q] = {}
      BY DEF Init, IdleJob
    <2> QED
      BY <2>1 DEF Projects, Owes
  <1>2. DueInv => ManifestComplete
    BY DEF DueInv, Owes, Pending, Locked, ManifestComplete
  <1> QED
    BY <1>1, <1>2, DueStep, InitType, NextType, PTL DEF Spec

-----------------------------------------------------------------------------
(***************************************************************************)
(* Once mutualContact has said so, the two stay mutual contacts until the  *)
(* projected document is committed, as long as the server is the only      *)
(* process: a request that deletes a contact needs docMu.                  *)
(***************************************************************************)
StaysMutual(q) ==
  LET j == job[q] IN
  j.kind # "put" /\ j.pc \in {"record", "snapshot", "peer", "commit"} =>
    Mutual(j.owner, j.name)

MutualInv == \A q \in Proc : StaysMutual(q)

\* Only an administrative command, or a deletion with docMu free, takes a
\* contact away.
LEMMA ContactsGrow ==
  ASSUME Admin = {}, TypeInv, [Next]_vars
  PROVE  \/ contacts \subseteq contacts'
         \/ job' = job /\ \A q \in Proc : job[q].pc \notin Locked
  <1>1. \A p, q \in Proc : SameProcess(p, q)
    BY DEF Proc, SameProcess
  <1>2. ASSUME NEW p \in Proc, NEW o \in Login, NEW n \in Name, RemoveDocument(p, o, n)
        PROVE  job' = job /\ \A q \in Proc : job[q].pc \notin Locked
    BY <1>1, <1>2 DEF RemoveDocument, DocMuFree, Busy, Locked
  <1>3. ASSUME NEW p \in Proc, NEW l \in Login PROVE ~RemoveAccount(p, l)
    BY DEF RemoveAccount, CommandEnds
  <1> QED
    BY <1>2, <1>3, DatabaseStep DEF ContactStep, PutTransaction

\* A goroutine that keeps its contact, or is not yet or no longer at one.
LEMMA MutualKept ==
  ASSUME NEW q \in Proc, contacts \subseteq contacts',
         \/ job'[q].pc \notin {"record", "snapshot", "peer", "commit"} \/ job'[q].kind = "put"
         \/ /\ job[q].pc \in {"record", "snapshot", "peer", "commit"} /\ StaysMutual(q)
            /\ job'[q].kind = job[q].kind /\ job'[q].owner = job[q].owner
            /\ job'[q].name = job[q].name
         \/ Mutual(job'[q].owner, job'[q].name)
  PROVE  StaysMutual(q)'
  BY DEF StaysMutual, Mutual

\* A goroutine comes to a contact only by asking mutualContact.
LEMMA MutualContinue ==
  ASSUME TypeInv, MutualInv, NEW p \in Proc, Continue(p), contacts \subseteq contacts'
  PROVE  StaysMutual(p)'
  <1>1. job \in [Proc -> Job] /\ job[p] \in Job /\ StaysMutual(p)
    BY DEF TypeInv, TypeOK, MutualInv
  <1>2. CASE Snapshot(p)
    BY <1>1, <1>2, MutualKept DEF Snapshot, Job
  <1>3. CASE CheckPeer(p)
    BY <1>1, <1>3, MutualKept DEF CheckPeer, Goto, Job
  <1>4. CASE Commit(p)
    <2>1. job'[p].pc \in {"idle", "each"}
      BY <1>1, <1>4 DEF Commit, Finish, IdleJob, Job
    <2> QED
      BY <2>1, MutualKept
  <1>5. CASE CheckMutual(p)
    <2>1. PICK c \in job[p].todo :
            job' = IF Mutual(job[p].owner, c)
                   THEN [job EXCEPT ![p].pc = "record", ![p].name = c]
                   ELSE [job EXCEPT ![p].todo = @ \ {c}]
      BY <1>5 DEF CheckMutual
    <2>2. \/ job'[p].pc = "each"
          \/ Mutual(job'[p].owner, job'[p].name)
      BY <1>1, <1>5, <2>1 DEF CheckMutual, Job
    <2> QED
      BY <2>2, MutualKept
  <1>6. CASE ReadRecord(p)
    <2>1. \/ job'[p].pc = "each"
          \/ /\ job[p].pc = "record" /\ job'[p].kind = job[p].kind
             /\ job'[p].owner = job[p].owner /\ job'[p].name = job[p].name
      <3>1. CASE job' = [job EXCEPT ![p].pc = "each", ![p].todo = @ \ {job[p].name},
                                    ![p].name = NoLogin]
        BY <1>1, <3>1 DEF Job
      <3>2. ASSUME NEW t, job' = [job EXCEPT ![p].pc = "snapshot", ![p].body = t]
            PROVE  /\ job'[p].kind = job[p].kind
                   /\ job'[p].owner = job[p].owner /\ job'[p].name = job[p].name
        BY <1>1, <3>2 DEF Job
      <3> QED
        BY <1>6, <3>1, <3>2 DEF ReadRecord
    <2> QED
      BY <1>1, <2>1, MutualKept
  <1>7. CASE SelectOwners(p) \/ BeginEnsure(p) \/ ReadContacts(p)
    <2>1. job'[p].pc \in {"owners", "contacts", "each"}
      <3>1. CASE SelectOwners(p)
        BY <1>1, <3>1 DEF SelectOwners, Job
      <3>2. CASE BeginEnsure(p)
        BY <1>1, <3>2 DEF BeginEnsure, Job
      <3>3. CASE ReadContacts(p)
        BY <1>1, <3>3 DEF ReadContacts, Job
      <3> QED
        BY <1>7, <3>1, <3>2, <3>3
    <2> QED
      BY <2>1, MutualKept
  <1>8. CASE EndEnsure(p) \/ EndOwners(p) \/ ReplyManifest(p)
    <2>1. Goto(p, "owners") \/ Goto(p, "manifest") \/ Goto(p, "command") \/ Finish(p)
      BY <1>8 DEF EndEnsure, EndOwners, ReplyManifest
    <2>2. job'[p].pc \in {"owners", "manifest", "command", "idle"}
      BY <1>1, <2>1 DEF Goto, Finish, IdleJob, Job
    <2> QED
      BY <2>2, MutualKept
  <1> QED
    BY <1>2, <1>3, <1>4, <1>5, <1>6, <1>7, <1>8 DEF Continue

\* No step of a server that is alone ends the mutuality a projection needs.
LEMMA MutualStep ==
  ASSUME Admin = {}, TypeInv, MutualInv, [Next]_vars
  PROVE  MutualInv'
  <1>1. job \in [Proc -> Job] /\ \A q \in Proc : StaysMutual(q)
    BY DEF TypeInv, TypeOK, MutualInv
  <1>2. CASE job' = job /\ \A q \in Proc : job[q].pc \notin Locked
    BY <1>2 DEF MutualInv, StaysMutual, Locked
  <1>3. CASE contacts \subseteq contacts'
    <2>1. ASSUME NEW q \in Proc,
                 \/ job'[q] = job[q] \/ job'[q].kind = "put"
                 \/ job'[q].pc \notin {"record", "snapshot", "peer", "commit"}
          PROVE  StaysMutual(q)'
      BY <1>1, <1>3, <2>1, MutualKept
    <2>2. ASSUME NEW p \in Proc, Continue(p) PROVE MutualInv'
      <3>1. \A q \in Proc \ {p} : job'[q] = job[q]
        BY <1>1, <2>2 DEF Continue, Snapshot, CheckPeer, Goto, Commit, Finish, SelectOwners,
           BeginEnsure, ReadContacts, CheckMutual, ReadRecord, EndEnsure, EndOwners,
           ReplyManifest
      <3> QED
        BY <1>3, <2>1, <2>2, <3>1, MutualContinue DEF MutualInv
    <2>3. ASSUME NEW p \in Proc, Refuse(p) \/ Fail(p) \/ BeginSchema(p) PROVE MutualInv'
      <3>1. \A q \in Proc : job'[q] = job[q] \/ job'[q].pc \in {"idle", "owners"}
        <4>1. Finish(p) \/ \E os : Start(p, "schema", "owners", NoLogin, os)
          BY <2>3 DEF Refuse, Fail, BeginSchema
        <4>2. CASE Finish(p)
          BY <1>1, <4>2 DEF Finish, IdleJob
        <4>3. ASSUME NEW os, Start(p, "schema", "owners", NoLogin, os)
              PROVE  \A q \in Proc : job'[q] = job[q] \/ job'[q].pc = "owners"
          BY <1>1, <4>3 DEF Start, IdleJob
        <4> QED
          BY <4>1, <4>2, <4>3
      <3> QED
        BY <2>1, <3>1 DEF MutualInv
    <2>4. ASSUME NEW p \in Proc PROVE ~Command(p)
      BY DEF Command, AddAccount, RemoveAccount, AddContact, CommandEnds
    <2>5. ASSUME NEW p \in Server, Request(p) PROVE MutualInv'
      <3> p \in Proc
        BY DEF Proc
      <3>1. ASSUME NEW pc \in {"owners", "published"}, NEW kind, NEW o, NEW os,
                   Start(p, kind, pc, o, os)
            PROVE  MutualInv'
        <4>1. job'[p].pc = pc /\ \A q \in Proc \ {p} : job'[q] = job[q]
          BY <1>1, <3>1 DEF Start, IdleJob
        <4> QED
          BY <2>1, <4>1 DEF MutualInv
      <3>2. CASE BeginPut(p)
        <4>1. job'[p].kind = "put" /\ \A q \in Proc \ {p} : job'[q] = job[q]
          BY <1>1, <3>2 DEF BeginPut, IdleJob
        <4> QED
          BY <2>1, <4>1 DEF MutualInv
      <3>3. CASE Publish(p)
        <4>1. PICK e \in Publications : Start(p, "publish", "published", e[1], {})
          BY <3>3 DEF Publish
        <4> QED
          BY <3>1, <4>1
      <3>4. ASSUME NEW o \in Clients, BeginManifest(p, o) PROVE MutualInv'
        BY <3>1, <3>4 DEF BeginManifest
      <3>5. CASE job' = job
        BY <2>1, <3>5 DEF MutualInv
      <3> QED
        BY <2>5, <3>2, <3>3, <3>4, <3>5
           DEF Request, RemoveDocument, RequestContact, RegisterAccount
    <2>6. CASE Crash
      <3>1. \A q \in Proc : job'[q] = job[q] \/ job'[q].pc = "idle"
        BY <1>1, <2>6 DEF Crash, IdleJob
      <3> QED
        BY <2>1, <3>1 DEF MutualInv
    <2>7. CASE UNCHANGED vars
      BY <2>1, <2>7 DEF vars, MutualInv
    <2> QED
      BY <2>2, <2>3, <2>4, <2>5, <2>6, <2>7 DEF Next
  <1> QED
    BY <1>2, <1>3, ContactsGrow

(***************************************************************************)
(* While the server is the only process on the database, a projected       *)
(* document is committed only for contacts that are mutual at that moment, *)
(* though mutualContact was asked several runs of sqlite3 before.          *)
(***************************************************************************)
THEOREM ProjectionsOnlyForMutual ==
  ASSUME Admin = {}
  PROVE  Spec => ProjectedOnlyForMutual
  <1>1. Init => MutualInv
    BY DEF Init, MutualInv, StaysMutual, IdleJob
  <1>2. TypeInv /\ MutualInv /\ [Next]_vars => MutualInv'
    BY MutualStep
  <1>3. MutualInv => [\A p \in Proc : ProjectionStep(p) => Mutual(job[p].owner, job[p].name)]_vars
    BY DEF MutualInv, StaysMutual, ProjectionStep
  <1> QED
    BY <1>1, <1>2, <1>3, InitType, NextType, PTL DEF Spec, ProjectedOnlyForMutual
=============================================================================
