--------------------------- MODULE NativeDocuments ---------------------------
(***************************************************************************)
(* The document store of server/go (database.go): the per-account set of   *)
(* named documents with its revision, the contact membership tied to the   *)
(* "u/<login>" documents, and the projection of verified signed records    *)
(* into the documents of mutual contacts.                                  *)
(*                                                                         *)
(* Every Database method is a sequence of runs of the sqlite3 CLI. One run *)
(* is one atomic step here: `execute` holds d.mu around it, and SQLite     *)
(* isolates it from other operating-system processes. What a method read   *)
(* in one run and uses in a later one is kept in `job`. The Go mutex docMu *)
(* serialises the document methods of ONE process: the server's goroutines *)
(* share it, and each administrative command (--add-account and the rest)  *)
(* has its own.                                                            *)
(*                                                                         *)
(* A GetAccount that only anticipates a check of a later run of the same   *)
(* method (the join with accounts, a foreign key) is part of that run.     *)
(***************************************************************************)
EXTENDS Integers, FiniteSets

CONSTANTS
  Login,          \* logins an account may have
  Item,           \* document names outside "u/", such as p/profile
  Body,           \* document bodies
  Record,         \* signed location records, verified before they come here
  NoBody, NoRecord, NoLogin,
  FullRecord,     \* the records of exactly 392 bytes, which can be projected
  ThreeField,     \* the bodies with the shape of an old server document
  Crc,            \* [Body -> Int]: CRC32Skype
  Identity,       \* [Body -> Login \cup {NoLogin}]: field 3/10 of the body
  ContactDocument,\* [Login \X Record -> Body]: the projected document
  Fold,           \* [Login -> Int]: equal for logins that differ only in case
  MaxDocuments,   \* 1024 in the code
  MaxRevision,    \* 2^32 - 1 in the code
  Server,         \* goroutines of the server that handle requests
  Admin,          \* processes that run administrative commands
  InitAccounts,   \* the accounts and contacts of the database at the start,
  InitContacts,   \*   all of them entered by administrative commands
  Clients,        \* the logins whose clients send document requests,
  Uploads,        \*   the <<owner, name, body>> they upload
  Publications,   \*   and the <<login, record>> they publish
  Managed         \* the logins administrative commands are about

(***************************************************************************)
(* A login used as a document name stands for "u/" followed by the login.  *)
(***************************************************************************)
Name == Login \cup Item
Proc == Server \cup Admin
Store == [Name -> Body \cup {NoBody}]

ASSUME NamesAssumption ==
  /\ Login \cap Item = {}
  /\ NoLogin \notin Login
  /\ IsFiniteSet(Login) /\ IsFiniteSet(Item)

ASSUME BodiesAssumption ==
  /\ NoBody \notin Body
  /\ NoRecord \notin Record
  /\ FullRecord \subseteq Record
  /\ ThreeField \subseteq Body
  /\ Crc \in [Body -> Int]
  /\ Identity \in [Body -> Login \cup {NoLogin}]
  /\ ContactDocument \in [Login \X Record -> Body]
  /\ Fold \in [Login -> Int]

(***************************************************************************)
(* A projected document names its contact and has five fields.             *)
(***************************************************************************)
ASSUME ProjectionAssumption ==
  \A c \in Login, r \in Record :
    /\ Identity[ContactDocument[c, r]] = c
    /\ ContactDocument[c, r] \notin ThreeField

ASSUME BoundsAssumption ==
  /\ MaxDocuments \in Nat \ {0}
  /\ MaxRevision \in Nat \ {0}

ASSUME SystemAssumption ==
  /\ Server \cap Admin = {}
  /\ InitAccounts \subseteq Login
  /\ InitContacts \subseteq InitAccounts \X InitAccounts
  /\ Uploads \subseteq Login \X Name \X Body
  /\ Publications \subseteq Login \X Record
  /\ Clients \subseteq Login /\ Managed \subseteq Login

VARIABLES
  accounts,   \* SUBSET Login: the rows of accounts, all active
  contacts,   \* SUBSET (Login \X Login): <<owner, contact>>
  version,    \* [Login -> 0 .. MaxRevision]: native_document_versions, 0 for no row
  docs,       \* [Login -> Store]: native_documents
  record,     \* [Login -> Record \cup {NoRecord}]: native_signed_records
  serving,    \* the server accepts requests
  job,        \* [Proc -> Job]: what each handler or command is doing
  due,        \* history: the contacts a manifest request must cover
  removed     \* history: the logins whose account has ever been removed

db == <<accounts, contacts, version, docs, record>>
vars == <<db, serving, job, due, removed>>

(***************************************************************************)
(* The local state of a request or command: the loop over owners of        *)
(* EnsureSchema and StoreVerifiedNativeSignedRecord, the loop over the     *)
(* contacts of EnsureNativeContactDocuments, and the document that         *)
(* putNativeDocumentUnlocked is writing.                                   *)
(***************************************************************************)
Kind == {"none", "put", "manifest", "publish", "schema"}
Step == {"idle", "published", "owners", "contacts", "each", "record",
         "snapshot", "peer", "commit", "manifest", "command"}
Locked == {"contacts", "each", "record", "snapshot", "peer", "commit"}

Job == [kind : Kind, pc : Step, owner : Login \cup {NoLogin},
        owners : SUBSET Login, todo : SUBSET Login,
        name : Name \cup {NoLogin}, body : Body \cup {NoBody}, snap : Store]

EmptyStore == [n \in Name |-> NoBody]

IdleJob == [kind |-> "none", pc |-> "idle", owner |-> NoLogin, owners |-> {},
            todo |-> {}, name |-> NoLogin, body |-> NoBody, snap |-> EmptyStore]

Init ==
  /\ accounts = InitAccounts
  /\ contacts = InitContacts
  /\ version = [l \in Login |-> 0]
  /\ docs = [l \in Login |-> EmptyStore]
  /\ record = [l \in Login |-> NoRecord]
  /\ serving = FALSE
  /\ job = [p \in Proc |-> IdleJob]
  /\ due = [p \in Proc |-> {}]
  /\ removed = {}

-----------------------------------------------------------------------------
(***************************************************************************)
(* Reading the database.                                                   *)
(***************************************************************************)
Revision(l) == IF version[l] = 0 THEN 1 ELSE version[l]

NamesIn(store) == {n \in Name : store[n] # NoBody}

IsLegacy(n, b) == b \in ThreeField /\ Identity[b] = n

ContactsOf(o) == {c \in Login : <<o, c>> \in contacts}

Mutual(o, c) == {<<o, c>>, <<c, o>>} \subseteq contacts

(***************************************************************************)
(* The rows `WHERE login=... COLLATE NOCASE` selects; the caller takes the *)
(* first, in no specified order.                                           *)
(***************************************************************************)
RecordsOf(c) ==
  {record[m] : m \in {l \in Login : Fold[l] = Fold[c]}} \ {NoRecord}

Busy(p) == job[p].pc # "idle"

SameProcess(p, q) == p = q \/ (p \in Server /\ q \in Server)

\* Mistake: the document methods do not take docMu.
DocMuIgnored(p) == TRUE

DocMuFree(p) ==
  \A q \in Proc \ {p} : SameProcess(p, q) => job[q].pc \notin Locked

(***************************************************************************)
(* What a manifest request owes its client: the contacts that were mutual, *)
(* with a record that can be projected, from the moment it took docMu on.  *)
(* A contact is excused when that stops, or when its document is deleted   *)
(* or replaced by an old-style one.                                        *)
(***************************************************************************)
Covered(o, c) == docs[o][c] # NoBody /\ ~IsLegacy(c, docs[o][c])

Due(o, c) ==
  Mutual(o, c) /\ RecordsOf(c) # {} /\ RecordsOf(c) \subseteq FullRecord

TrackDue ==
  due' = [p \in Proc |->
    IF job[p].pc = "owners" /\ job'[p].pc = "contacts" /\ job[p].kind = "manifest"
    THEN {c \in Login : Due(job'[p].owner, c)}
    ELSE IF job'[p].kind # "manifest" THEN {}
    ELSE {c \in due[p] : /\ Due(job[p].owner, c)'
                         /\ Covered(job[p].owner, c) => Covered(job[p].owner, c)'}]

Goto(p, pc) == job' = [job EXCEPT ![p].pc = pc]
Finish(p) == job' = [job EXCEPT ![p] = IdleJob]
Start(p, kind, pc, owner, owners) ==
  job' = [job EXCEPT ![p] =
    [IdleJob EXCEPT !.kind = kind, !.pc = pc, !.owner = owner, !.owners = owners]]

-----------------------------------------------------------------------------
(***************************************************************************)
(* putNativeDocumentUnlocked: a snapshot, the checks on it, and one        *)
(* transaction.                                                            *)
(***************************************************************************)
ValidIdentity(o, n, b) == n \in Login => Identity[b] = n /\ n # o

NoCollision(store, n, b) ==
  \A m \in NamesIn(store) \ {n} : Crc[store[m]] # Crc[b]

Room(store, n) ==
  store[n] # NoBody \/ Cardinality(NamesIn(store)) < MaxDocuments

\* Mistake: an identical upload moves the revision too.
NextRevisionAlways(o, changed) == Revision(o) + 1

NextRevision(o, changed) == IF changed THEN Revision(o) + 1 ELSE Revision(o)

(***************************************************************************)
(* The constraints the transaction runs into: the foreign keys of          *)
(* native_document_versions and contacts, UNIQUE(login,checksum), the      *)
(* quota trigger, and CHECK(revision BETWEEN 1 AND 4294967295). -bail then *)
(* ends sqlite3 before COMMIT, which rolls everything back.                *)
(***************************************************************************)
\* Mistake: the schema has no UNIQUE(login,checksum) ...
PutAcceptedAnyChecksum(o, n, b) ==
  /\ o \in accounts
  /\ n \in Login => n \in accounts
  /\ Room(docs[o], n)
  /\ NextRevision(o, docs[o][n] # b) <= MaxRevision

\* ... no quota trigger ...
PutAcceptedNoQuota(o, n, b) ==
  /\ o \in accounts
  /\ n \in Login => n \in accounts
  /\ NoCollision(docs[o], n, b)
  /\ NextRevision(o, docs[o][n] # b) <= MaxRevision

\* ... or no CHECK on the revision.
PutAcceptedAnyRevision(o, n, b) ==
  /\ o \in accounts
  /\ n \in Login => n \in accounts
  /\ NoCollision(docs[o], n, b)
  /\ Room(docs[o], n)

PutAccepted(o, n, b) ==
  /\ o \in accounts
  /\ n \in Login => n \in accounts
  /\ NoCollision(docs[o], n, b)
  /\ Room(docs[o], n)
  /\ NextRevision(o, docs[o][n] # b) <= MaxRevision

\* Mistake: the contact is not inserted in the document's transaction.
PutTransactionDocumentOnly(o, n, b) ==
  /\ PutAccepted(o, n, b)
  /\ version' = [version EXCEPT ![o] = NextRevision(o, docs[o][n] # b)]
  /\ docs' = [docs EXCEPT ![o][n] = b]
  /\ UNCHANGED <<accounts, contacts, record>>

PutTransaction(o, n, b) ==
  /\ PutAccepted(o, n, b)
  /\ version' = [version EXCEPT ![o] = NextRevision(o, docs[o][n] # b)]
  /\ docs' = [docs EXCEPT ![o][n] = b]
  /\ contacts' = IF n \in Login THEN contacts \cup {<<o, n>>} ELSE contacts
  /\ UNCHANGED <<accounts, record>>

(***************************************************************************)
(* 0x1789. PutNativeDocument takes docMu and the snapshot.                 *)
(***************************************************************************)
BeginPut(p) ==
  /\ serving /\ ~Busy(p) /\ DocMuFree(p)
  /\ \E u \in Uploads :
       LET o == u[1]  n == u[2]  b == u[3] IN
       /\ o \in accounts
       /\ ValidIdentity(o, n, b)
       /\ job' = [job EXCEPT ![p] =
            [IdleJob EXCEPT !.kind = "put", !.owner = o, !.name = n, !.body = b,
                            !.snap = docs[o],
                            !.pc = IF n \in Login THEN "peer" ELSE "commit"]]
  /\ UNCHANGED <<db, serving, removed>> /\ TrackDue

(***************************************************************************)
(* Inside EnsureNativeContactDocuments the same method reads the account's *)
(* documents again before it writes the projected one.                     *)
(***************************************************************************)
Snapshot(p) ==
  LET o == job[p].owner IN
  /\ job[p].pc = "snapshot"
  /\ o \in accounts
  /\ ValidIdentity(o, job[p].name, job[p].body)
  /\ job' = [job EXCEPT ![p].snap = docs[o], ![p].pc = "peer"]
  /\ UNCHANGED <<db, serving, removed>> /\ TrackDue

CheckPeer(p) ==
  /\ job[p].pc = "peer"
  /\ job[p].name \in accounts
  /\ Goto(p, "commit")
  /\ UNCHANGED <<db, serving, removed>> /\ TrackDue

SnapshotAccepts(j) == NoCollision(j.snap, j.name, j.body) /\ Room(j.snap, j.name)

Commit(p) ==
  LET j == job[p] IN
  /\ j.pc = "commit"
  /\ SnapshotAccepts(j)
  /\ PutTransaction(j.owner, j.name, j.body)
  /\ IF j.kind = "put" THEN Finish(p)
     ELSE job' = [job EXCEPT ![p].pc = "each", ![p].todo = @ \ {j.name},
                             ![p].name = NoLogin, ![p].body = NoBody,
                             ![p].snap = EmptyStore]
  /\ UNCHANGED <<serving, removed>> /\ TrackDue

\* Mistake: deleting a document that is not there moves the revision.
RemoveDocumentAlwaysMoves(p, o, n) ==
  LET revision == NextRevision(o, TRUE) IN
  /\ serving /\ ~Busy(p) /\ DocMuFree(p)
  /\ o \in accounts
  /\ revision <= MaxRevision
  /\ version' = [version EXCEPT ![o] = revision]
  /\ docs' = [docs EXCEPT ![o][n] = NoBody]
  /\ contacts' = contacts \ {<<o, n>>}
  /\ UNCHANGED <<accounts, record, serving, job, removed>> /\ TrackDue

(***************************************************************************)
(* 0x178a. docMu is free before and after, so the run of sqlite3 inside it *)
(* is one step. Only a document that exists moves the revision.            *)
(***************************************************************************)
RemoveDocument(p, o, n) ==
  LET revision == NextRevision(o, docs[o][n] # NoBody) IN
  /\ serving /\ ~Busy(p) /\ DocMuFree(p)
  /\ o \in accounts
  /\ revision <= MaxRevision
  /\ version' = [version EXCEPT ![o] = revision]
  /\ docs' = [docs EXCEPT ![o][n] = NoBody]
  /\ contacts' = contacts \ {<<o, n>>}
  /\ UNCHANGED <<accounts, record, serving, job, removed>> /\ TrackDue

-----------------------------------------------------------------------------
(***************************************************************************)
(* Requests and commands that ensure the contact documents of owners.      *)
(***************************************************************************)
BeginManifest(p, o) ==       \* 0x178b and 0x178c
  /\ serving /\ ~Busy(p)
  /\ Start(p, "manifest", "owners", o, {o})
  /\ UNCHANGED <<db, serving, removed>> /\ TrackDue

Publish(p) ==                \* StoreVerifiedNativeSignedRecord, first half
  /\ serving /\ ~Busy(p)
  /\ \E e \in Publications :
       /\ e[1] \in accounts
       /\ record' = [record EXCEPT ![e[1]] = e[2]]
       /\ Start(p, "publish", "published", e[1], {})
  /\ UNCHANGED <<accounts, contacts, version, docs, serving, removed>> /\ TrackDue

SelectOwners(p) ==           \* the owners who list the publisher
  /\ job[p].pc = "published"
  /\ job' = [job EXCEPT ![p].pc = "owners",
               ![p].owners = {o \in Login : <<o, job[p].owner>> \in contacts}]
  /\ UNCHANGED <<db, serving, removed>> /\ TrackDue

(***************************************************************************)
(* EnsureSchema, first thing in every process: the server has no request   *)
(* before it is done, an administrative command runs it beside the server. *)
(***************************************************************************)
BeginSchema(p) ==
  /\ ~Busy(p)
  /\ p \in Server => ~serving /\ \A q \in Server : ~Busy(q)
  /\ Start(p, "schema", "owners", NoLogin, {o \in accounts : ContactsOf(o) # {}})
  /\ UNCHANGED <<db, serving, removed>> /\ TrackDue

(***************************************************************************)
(* EnsureNativeContactDocuments: docMu, the documents, then the contacts.  *)
(* Contacts with a document that is not an old server document are passed  *)
(* over at once: nothing they read depends on the order.                   *)
(***************************************************************************)
BeginEnsure(p) ==
  /\ job[p].pc = "owners" /\ DocMuFree(p)
  /\ \E o \in job[p].owners \cap accounts :
       job' = [job EXCEPT ![p].pc = "contacts", ![p].owner = o,
                 ![p].owners = @ \ {o}, ![p].snap = docs[o]]
  /\ UNCHANGED <<db, serving, removed>> /\ TrackDue

\* Mistake: any document of a contact counts, as in the C# server.
ReadContactsAnyDocument(p) ==
  LET j == job[p] IN
  /\ j.pc = "contacts"
  /\ job' = [job EXCEPT ![p].pc = "each", ![p].snap = EmptyStore,
               ![p].todo = {c \in ContactsOf(j.owner) : j.snap[c] = NoBody}]
  /\ UNCHANGED <<db, serving, removed>> /\ TrackDue

ReadContacts(p) ==
  LET j == job[p] IN
  /\ j.pc = "contacts"
  /\ job' = [job EXCEPT ![p].pc = "each", ![p].snap = EmptyStore,
               ![p].todo = {c \in ContactsOf(j.owner) :
                              j.snap[c] = NoBody \/ IsLegacy(c, j.snap[c])}]
  /\ UNCHANGED <<db, serving, removed>> /\ TrackDue

\* Mistake: being listed by the owner is enough.
CheckMutualOneWay(p) ==
  LET j == job[p] IN
  /\ j.pc = "each"
  /\ \E c \in j.todo :
       job' = [job EXCEPT ![p].pc = "record", ![p].name = c]
  /\ UNCHANGED <<db, serving, removed>> /\ TrackDue

CheckMutual(p) ==
  LET j == job[p] IN
  /\ j.pc = "each"
  /\ \E c \in j.todo :
       job' = IF Mutual(j.owner, c)
              THEN [job EXCEPT ![p].pc = "record", ![p].name = c]
              ELSE [job EXCEPT ![p].todo = @ \ {c}]
  /\ UNCHANGED <<db, serving, removed>> /\ TrackDue

ReadRecord(p) ==
  LET c == job[p].name IN
  /\ job[p].pc = "record"
  /\ \/ \E r \in RecordsOf(c) \cap FullRecord :
          job' = [job EXCEPT ![p].pc = "snapshot",
                             ![p].body = ContactDocument[c, r]]
     \/ /\ RecordsOf(c) = {} \/ RecordsOf(c) \ FullRecord # {}
        /\ job' = [job EXCEPT ![p].pc = "each", ![p].todo = @ \ {c},
                              ![p].name = NoLogin]
  /\ UNCHANGED <<db, serving, removed>> /\ TrackDue

EndEnsure(p) ==              \* docMu is released, the next owner follows
  /\ job[p].pc = "each" /\ job[p].todo = {}
  /\ Goto(p, "owners")
  /\ UNCHANGED <<db, serving, removed>> /\ TrackDue

EndOwners(p) ==
  LET j == job[p] IN
  /\ j.pc = "owners" /\ j.owners = {}
  /\ CASE j.kind = "manifest" -> Goto(p, "manifest")
       [] j.kind = "schema" /\ p \in Admin -> Goto(p, "command")
       [] OTHER -> Finish(p)
  /\ serving' = (serving \/ (j.kind = "schema" /\ p \in Server))
  /\ UNCHANGED <<db, removed>> /\ TrackDue

ReplyManifest(p) ==          \* the revision and the checksums, in one SELECT
  /\ job[p].pc = "manifest"
  /\ Finish(p)
  /\ UNCHANGED <<db, serving, removed>> /\ TrackDue

-----------------------------------------------------------------------------
(***************************************************************************)
(* Accounts and contacts.                                                  *)
(***************************************************************************)
CommandEnds(p) == p \in Admin /\ job[p].pc = "command" /\ Finish(p)

AddContact(p, o, c) ==       \* --add-contact
  /\ CommandEnds(p)
  /\ {o, c} \subseteq accounts
  /\ contacts' = contacts \cup {<<o, c>>}
  /\ UNCHANGED <<accounts, version, docs, record, serving, removed>> /\ TrackDue

RequestContact(p, o, c) ==   \* 0x1784, whose queue refuses o = c
  /\ serving /\ p \in Server /\ ~Busy(p)
  /\ o # c /\ {o, c} \subseteq accounts
  /\ contacts' = contacts \cup {<<o, c>>}
  /\ UNCHANGED <<accounts, version, docs, record, serving, job, removed>> /\ TrackDue

AddAccount(p, l) ==          \* --add-account
  /\ CommandEnds(p)
  /\ accounts' = accounts \cup {l}
  /\ UNCHANGED <<contacts, version, docs, record, serving, removed>> /\ TrackDue

RemoveAccount(p, l) ==       \* --remove-account, with ON DELETE CASCADE
  /\ CommandEnds(p)
  /\ accounts' = accounts \ {l}
  /\ contacts' = {c \in contacts : l \notin {c[1], c[2]}}
  /\ version' = [version EXCEPT ![l] = 0]
  /\ docs' = [docs EXCEPT ![l] = EmptyStore]
  /\ record' = [record EXCEPT ![l] = NoRecord]
  /\ removed' = removed \cup {l}
  /\ UNCHANGED serving /\ TrackDue

RegisterAccount(p, l) ==     \* 0x139a, which refuses a taken login in any case
  /\ serving /\ p \in Server /\ ~Busy(p)
  /\ \A m \in accounts : Fold[m] # Fold[l]
  /\ accounts' = accounts \cup {l}
  /\ UNCHANGED <<contacts, version, docs, record, serving, job, removed>> /\ TrackDue

-----------------------------------------------------------------------------
(***************************************************************************)
(* A check or a constraint refuses: the method returns its error, docMu is *)
(* released, and the request or command is over with what it committed. An *)
(* error of one owner ends the loop over owners too; that its account is   *)
(* gone shows when docMu is taken.                                         *)
(***************************************************************************)
\* Mistake: the error of a refused commit is dropped with docMu held.
RefusedBeforeCommit(j) ==
  \/ j.pc = "owners" /\ j.owners \ accounts # {}
  \/ j.pc = "snapshot" /\ (j.owner \notin accounts \/ ~ValidIdentity(j.owner, j.name, j.body))
  \/ j.pc = "peer" /\ j.name \notin accounts

Refused(j) ==
  \/ j.pc = "owners" /\ j.owners \ accounts # {}
  \/ j.pc = "snapshot" /\ (j.owner \notin accounts \/ ~ValidIdentity(j.owner, j.name, j.body))
  \/ j.pc = "peer" /\ j.name \notin accounts
  \/ j.pc = "commit" /\ ~(SnapshotAccepts(j) /\ PutAccepted(j.owner, j.name, j.body))

Refuse(p) ==
  /\ Refused(job[p])
  /\ job[p].pc = "owners" => DocMuFree(p)
  /\ Finish(p)
  /\ UNCHANGED <<db, serving, removed>> /\ TrackDue

(***************************************************************************)
(* sqlite3 itself fails: the database stays locked for 5 seconds, or an    *)
(* administrative command is killed. The server is killed with all its     *)
(* goroutines.                                                             *)
(***************************************************************************)
Fail(p) ==
  /\ Busy(p)
  /\ Finish(p)
  /\ UNCHANGED <<db, serving, removed>> /\ TrackDue

Crash ==
  /\ serving
  /\ serving' = FALSE
  /\ job' = [p \in Proc |-> IF p \in Server THEN IdleJob ELSE job[p]]
  /\ UNCHANGED <<db, removed>> /\ TrackDue

-----------------------------------------------------------------------------
Continue(p) ==
  \/ Snapshot(p) \/ CheckPeer(p) \/ Commit(p)
  \/ SelectOwners(p) \/ BeginEnsure(p) \/ ReadContacts(p) \/ CheckMutual(p)
  \/ ReadRecord(p) \/ EndEnsure(p) \/ EndOwners(p) \/ ReplyManifest(p)

Request(p) ==
  \/ BeginPut(p) \/ Publish(p)
  \/ \E o \in Clients : BeginManifest(p, o)
  \/ \E o \in Clients, n \in Name : RemoveDocument(p, o, n)
  \/ \E o \in Clients, c \in Login : RequestContact(p, o, c)
  \/ \E l \in Managed : RegisterAccount(p, l)

Command(p) ==
  \/ \E l \in Managed : AddAccount(p, l) \/ RemoveAccount(p, l)
  \/ \E o, c \in Login : {o, c} \cap Managed # {} /\ AddContact(p, o, c)

Next ==
  \/ \E p \in Proc : \/ Continue(p) \/ Refuse(p) \/ Fail(p)
                     \/ BeginSchema(p) \/ Command(p)
  \/ \E p \in Server : Request(p)
  \/ Crash

Spec == Init /\ [][Next]_vars

(***************************************************************************)
(* Goroutines are scheduled and sqlite3 ends; a sync.Mutex hands itself to *)
(* the goroutine that has waited longest. Nobody has to send a request, and*)
(* nothing has to fail.                                                    *)
(***************************************************************************)
Fairness ==
  \A p \in Server : /\ WF_vars(Continue(p) \/ Refuse(p))
                     /\ SF_vars(BeginEnsure(p) \/ Refuse(p))

FairSpec == Spec /\ Fairness

-----------------------------------------------------------------------------
(***************************************************************************)
(* Properties.                                                             *)
(***************************************************************************)
TypeOK ==
  /\ accounts \subseteq Login
  /\ contacts \subseteq Login \X Login
  /\ version \in [Login -> 0 .. MaxRevision]
  /\ docs \in [Login -> Store]
  /\ record \in [Login -> Record \cup {NoRecord}]
  /\ serving \in BOOLEAN
  /\ job \in [Proc -> Job]
  /\ due \in [Proc -> SUBSET Login]
  /\ removed \subseteq Login

(* A checksum names one document of its owner: 0x1788 fetches by checksum  *)
(* alone, and two documents with one checksum could not both be fetched.   *)
UniqueChecksums ==
  \A o \in Login : \A m, n \in NamesIn(docs[o]) :
    Crc[docs[o][m]] = Crc[docs[o][n]] => m = n

(* No owner exceeds the quota, whichever processes insert at the same time.*)
QuotaRespected == \A o \in Login : Cardinality(NamesIn(docs[o])) <= MaxDocuments

(* "Client-written u/<login> contact documents update the SQL contact      *)
(* membership in the same transaction as the document": a contact document *)
(* is stored only while its contact is listed, except where the contact's  *)
(* account was removed, which deletes the membership and not the document. *)
DocumentImpliesMembership ==
  \A o, c \in Login :
    docs[o][c] # NoBody => <<o, c>> \in contacts \/ c \in removed

(* The committing step of a projection, as opposed to a client's upload.   *)
ProjectionStep(p) ==
  job[p].pc = "commit" /\ job[p].kind # "put" /\ job'[p].pc = "each"

(* EnsureNativeContactDocuments only fills a gap or replaces an old server *)
(* document: between its look at the documents and its commit, steps apart,*)
(* no other goroutine put a document there.                                *)
ProjectionFillsGaps ==
  [][\A p \in Proc : ProjectionStep(p) => ~Covered(job[p].owner, job[p].name)]_vars

(* "... projects that five-field document only for mutual contacts": also  *)
(* at the commit, not only when mutualContact was asked.                   *)
ProjectedOnlyForMutual ==
  [][\A p \in Proc : ProjectionStep(p) => Mutual(job[p].owner, job[p].name)]_vars

(* "client-written documents are preserved": what a projection replaces is *)
(* an old server document or an earlier projection.                        *)
ClientDocumentsPreserved ==
  [][\A p \in Proc : ProjectionStep(p) =>
       LET o == job[p].owner  c == job[p].name IN
       Covered(o, c) => \E r \in Record : docs[o][c] = ContactDocument[c, r]]_vars

(* When a manifest reply is read, every contact that was mutual and had a  *)
(* projectable record for the whole request has its document, unless the   *)
(* document was deleted or replaced meanwhile.                             *)
ManifestComplete ==
  \A p \in Proc : job[p].pc = "manifest" =>
    \A c \in due[p] : Covered(job[p].owner, c)

(* "cannot add self as contact": no account is its own contact when its    *)
(* documents are ensured.                                                  *)
OwnerIsNoContact ==
  \A p \in Proc : job[p].pc = "snapshot" => job[p].name # job[p].owner

(* The store and its revision, as clients see them.                        *)
Versioned == INSTANCE VersionedDocuments WITH
  revision <- [l \in Login |-> Revision(l)],
  store <- docs

RevisionFollowsDocuments == Versioned!Spec

(* Every request ends: docMu is never kept past an error, and a goroutine  *)
(* waiting for it gets it.                                                 *)
RequestsEnd == \A p \in Server : Busy(p) ~> ~Busy(p)
=============================================================================
