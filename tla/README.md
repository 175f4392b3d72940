# Open-SkyServer in TLA+

A model of the Go server of Open-SkyServer (`server/go`), the development target that the
repository's documentation names, and of the message sender of `skypeopensource2`, the part of
those older sources that keeps state of its own in a database. The modules are written from the
Go and C sources. The C# server is read only as documentation of intent.

    tlc -workers 2 -config docs_server.cfg MCNativeDocuments.tla
    tlapm NativeDocumentsProofs.tla

## The system

One process serves; others run administrative commands (`--add-account`, `--remove-account`,
`--add-contact`, `--set-email`, `--init-db`) on the same SQLite file. `database.go` never opens
the file itself: every statement is a run of the `sqlite3` CLI, under a mutex `mu` of the
process and with `.timeout 5000`, `-bail` and `PRAGMA foreign_keys=ON`. A method is a sequence
of runs; between two of them anything may happen.

| Component | State | Operations | Meets others by | Correct when |
|---|---|---|---|---|
| Document store (`database.go`, `native.go`) | `native_documents`, `native_document_versions`, `docMu` | put 0x1789, delete 0x178a, manifest 0x178b/0x178c, fetch 0x1788, `EnsureNativeContactDocuments`, `EnsureSchema` | `contacts`, `native_signed_records`, other processes | the revision moves exactly with the documents, a checksum names one document, the quota holds, a projection loses no client document, a manifest is complete |
| Contact membership | `contacts` | `AddContact`, insert and delete with `u/<login>` documents, cascade | document store, message store | a contact document has its membership |
| Message store (`database.go`, `api.go`) | `messages`, ids in `sqlite_sequence` | send, receive, history | `accounts`, `contacts` | delivered means shown, in order, once a reply carried it never again |
| Record directory (`node.go`) | `d.records` under `d.mu`, `native_signed_records` | publish 0xc, lookup 0xe, `restore`, `expire` | document store (projection), restarts | fresh, never superseded, bounded |
| Accounts and credentials (`database.go`) | `accounts`, `native_password_verifiers` | add, register 0x139a, remove, validate password or digest | everything, by cascade | a verifier is of the current password, a signup overwrites nothing, no request accepts a password changed before it began |
| Contact requests (`database.go`, `native.go`) | `native_contact_requests`, `contacts` | ask 0x1784, poll 0x1780, fetch 0x1781 | accounts, contacts | one row and one id per pair, what was answered stays queued and listed, "nothing" is true |
| TCP node sessions (`tcp.go`, `node.go`, `legacy.c`) | `sem` of 128, `FrameBuffer`, two RC4 streams | key exchange, early bytes, handshake, frames | record directory, account protocol | what is handled does not depend on how bytes arrive, ciphers stay in step, slots come back |
| Account protocol (`auth.go`) | 32 slots | direct and stock login | accounts, documents, handed over by a node session | every session ends |
| HTTP API (`api.go`) | 32 slots | login, contacts, profile, message, history | message store | slots are given back |
| Message sender (`goodsendrelay4_dll`) | `main.db`: `Messages`, `Chats`; globals `insert_id`, `RECV_CHAT_COMMANDS` | one call sends one message | the peer; its own later calls | what was sent is stored, what failed is undone, the exchange is in step, one chat |
| UDP probe, access policy, configuration, keys, blob codec and worker, debug log | none that changes after startup | | | |

What is hard: a method reads in one run and uses the result in a later one; `docMu` serialises
goroutines and not processes; errors end loops in the middle; the schema's constraints, not the
Go checks, are what concurrent processes really meet; the directory updates a cache and a
database at different times; TCP cuts bytes anywhere, and a wait of 500 ms decides what they are
taken for; a library keeps globals from one call to the next while a peer answers as it likes.
`PROJECT.json` lists these hazards at their lines.

## Modules

| Module | Role |
|---|---|
| `VersionedDocuments` | what the document store promises: one document changes, the revision moves by one; an account is removed, its store starts again |
| `NativeDocuments` | the document store, contacts, projection and schema, as the code runs them; implements `VersionedDocuments` |
| `MCNativeDocuments` | two logins, bodies and checksums for the `docs_*` runs |
| `NativeDocumentsProofs` | theorems about `NativeDocuments` |
| `MessageStore`, `MCMessageStore`, `MessageStoreProofs` | messages, the same way |
| `RecordDirectory`, `MCRecordDirectory`, `RecordDirectoryProofs` | the cache of signed location records over the database |
| `Credentials` | what accounts promise: a map from logins to passwords that a signup only adds to |
| `Accounts`, `MCAccounts`, `AccountsProofs` | accounts, both formats of a password and their checks; implements `Credentials` |
| `ContactRequests`, `MCContactRequests`, `ContactRequestsProofs` | the queue of contact requests and the inbox poll |
| `FrameBuffer`, `FrameBufferProofs` | the cutting of a byte stream into frames, and a reference for it |
| `NodeSession`, `MCNodeSession`, `NodeSessionProofs` | the TCP sessions, over `FrameBuffer` |
| `ChatSender`, `MCChatSender`, `ChatSenderProofs` | the message sender over its database |

**Granularity.** A run of `sqlite3` is one step, for `execute` holds `mu` around it and SQLite
isolates it from other processes; a script in `BEGIN IMMEDIATE ... COMMIT` commits whole or,
with `-bail`, not at all. What a method keeps between runs is in `job`. A critical section of
`d.mu` is one step of `RecordDirectory`. A `GetAccount` that only anticipates a later check of
the same method is part of that later run. A failing run is `Fail` or `Abort` at any moment.

**`NativeDocuments`.** `accounts`, `contacts`, `version`, `docs`, `record` are the tables (0 in
`version` is "no row", which reads as revision 1); `serving` says that the server is past its
`EnsureSchema`. `BeginPut`, `CheckPeer`, `Commit` are `putNativeDocumentUnlocked`;
`BeginEnsure`, `ReadContacts`, `CheckMutual`, `ReadRecord`, `Snapshot`, `CheckPeer`, `Commit`,
`EndEnsure` are `EnsureNativeContactDocuments`, entered from a manifest request, a publication
(`Publish`, `SelectOwners`) or `EnsureSchema` (`BeginSchema`). Being inside is `pc \in Locked`,
which is holding `docMu` of one's process. `PutAccepted` is the schema, `SnapshotAccepts` the
Go checks on the snapshot; both must accept. The order in which contacts and owners are visited
is left open where the code sorts: it is fixed by names the model does not have.
`due` and `removed` are history variables that no action reads.

**`MessageStore`.** A message is its id, its ends and whether it is delivered. `CheckListed` and
`Insert` are the last two runs of `SendMessage`, `Select` and `Mark` those of `ReceiveMessages`.
`shown`, `answered` and the field `seen` are history.

**`RecordDirectory`.** `stored` is `native_signed_records` with the time stamp, `cache` is
`d.records`. `now` is read when a request arrives (`tcp.go:61`) and kept in `job`. A record is
named by the number of its publication. `stampOf`, `before`, `done`, `superseded` and the field
`avoid` are history. The removal of an account is modelled by the loss of its stored record,
and a publisher whose account is gone by `Fail`.

**`Accounts`.** A hash is named by the password and salt it was made from, salts are never
repeated. `ReadPassword`, `CountVerifiers`, `CreateVerifier`, `Reply` are the runs of
`ValidatePassword`; a failing count counts as "there is one", and in `AddAccount` as "no such
account", as in the code. `Unknown` is the random hash a signup stores. `secrets` is history.
`CreateVerifier` needs the old row (the `WHERE` on salt and hash) although `INSERT OR IGNORE`
would do, because every change of a password writes a verifier; the model keeps both.

**`ContactRequests`.** `CheckAccount` is the four `GetAccount` of a 0x1784, `Queue` its
transaction, `InsertContact` the last run. A repeated request uses up an `AUTOINCREMENT` id and
keeps its own. `Limit` is 2^32 - 1, past which `ParseUint` fails a request after it has
committed and makes polls of its recipient fail. A fetch that finds a request fails ("not
implemented"). `delivered_utc` is left out, for only tests call what sets it.

**`FrameBuffer` and `NodeSession`.** `Feed` is `Append` byte by byte; `IsFrame` and `Cut` are the
reference: the one way to cut a whole stream into words of a prefix code. A session is its
phase, counters of what it has read, `FrameBuffer`'s pending bytes and the state of its ciphers
(`os_session` of `legacy.c`: ready or not, and how many bytes it went through). A read returns any part of what may be there.
`Process` may end the session at any frame, which stands for a frame that does not decode, a
refused command and a failed write.

**`ChatSender`.** One call of `relaysend_main`: `Start` is `make_setup_global_init`, `Connect`
everything up to `pkt2`, `LoadChat` the choice between a new and a restored chat, `SaveService`
and `SaveText` the inserts, `Match` and `Advance` a wait and what follows it, `Command`,
`BadReception`, `EndReception` a reception, `RemoveRow` and `Undone` the undo. `Waits` lists
the commands each of the three exchanges waits for: a restored chat goes over to `sync` when the
peer asks for it. `goodsendrelay3` has the same files. `received`, `matched`, `acked`,
`outcome`, `undeleted` and the place `at` of a command are history.

## Runs

| Run | Shows | States |
|---|---|---|
| `docs_server` | two goroutines and no other process: types and the 32-bit revision, manifests are complete, projections fill gaps only and only for mutual contacts, refinement of `VersionedDocuments` | 91,634 |
| `docs_admin` | a goroutine beside administrative processes: unique checksums, quota, membership with documents, refinement | 1,084,150 |
| `docs_live` | every request of the server ends | 4,458 |
| `docs_overwrite` | *violated*: an administrative `EnsureSchema` overwrites a client's document | |
| `docs_self_contact` | *violated*: `--add-contact u u` makes `u` its own contact | |
| `messages` | types, references, delivered means shown, in order, not received again | 2,347,176 |
| `directory` | types, freshness, no superseded record, capacity | 1,252,821 |
| `accounts` | types, verifiers of the current password, accepted passwords are current, refinement of `Credentials` | 2,185,776 |
| `requests` | types, answered requests stay queued and listed, "nothing" is true, ids are stable | 961,368 |
| `sessions` | types and slots, frames of the stream, ciphers in step, what a failed signature comes from, every session ends | 61,389 |
| `chat` | types and ids, sent is stored, failed is undone, the exchange in step, one chat | 3,700,697 |
| `chat_acked` | *violated*: a failure after the peer's confirmation removes the message's row | |

Three of them describe disagreements.

- `docs_overwrite`: `server/go/README.md:59` says that client-written documents are preserved.
  `docMu` is a field of `Database` and so of one process. A command that has looked at the
  documents in its `EnsureSchema` writes its projection over a document that a client puts
  through the server meanwhile. Without such a process the property is a theorem.
- `docs_self_contact`: `QueueNativeContactRequest` refuses "cannot add self as contact",
  `AddContact` does not. Once the account publishes a record it is its own mutual contact, the
  projection is refused ("contact document identity mismatch"), and `EnsureSchema`, and so every
  start of the server, ends with that error.
- `chat_acked`: `chatsend_restorechat.c:317` says "if got HEADER_ID_SEND in cmd10 msg sended ok."
  From there on any failing wait, or the reception after the close, still returns a negative
  number, on which `relay_main.c:303` removes every row of the call. The row of a message that
  the peer has is gone, and the call has failed.

Observed in passing, without a run: the error of `Append` in the loop of `handle` (`tcp.go:70`)
is overwritten, so that a malformed length loses the frames read with it and leaves the session
open until its client is silent for 120 seconds (`FramesOfStream` says what remains true);
`load_*headers_from_db` always return 1, so that the check for "Loading LASTSYNC data failed"
never fires; the results of `save_chatstring_to_db` and of all but the last `remove_from_db`
are not looked at, nor is -101 for expired credentials.

**Bounds and why they suffice.** Document hazards need an owner, a contact and two actors: two
logins, two processes or goroutines; two names beside the contact's for collisions and a quota
of 2 that is met; `MaxRevision` of 3 or 4 stands for 2^32 - 1 and is reached. Bodies: one a
client wrote, one of the old three-field shape, two others, and the projections of three
records of which one is too long to project. In `docs_server` no account is removed, in
`docs_admin` the contact's is, and is added or registered again. `messages` has two messages,
two requests, one account that is removed and added, ids bounded by `MaxMessages`. `directory`
has two users over a cache of one, so that the capacity refuses; a lease of 3 ticks, requests
of at most 1, a clock of 4, so that a lease runs out in a behaviour; two publications, enough
for one to supersede the other; sessions are symmetric. Time to answer below half a lease
(`TimeAssumption`) is 5 seconds per run of `sqlite3` against six hours in the code.
`accounts` has two logins of one fold, so that a signup meets a taken name in another case, two
passwords, two checks beside one command, and three changes of a password after the first salt:
a check can span a removal, a signup and a change. `requests` has two users who may ask each
other, two handlers for a repetition that overlaps, and three ids of which the last does not
fit. `sessions` has two connections for one slot; bytes of base 3 with a length in up to three
digits and frames of up to 3 bytes make all shapes: empty and shortest frames, a frame of the
largest size, lengths too large and without end; 7 bytes of stream hold the frame that is
skipped, two others and a part, or a malformed length after them. The lengths of the key
exchange are small; the code only compares them. `chat` has two calls, enough for the second
to restore the first one's chat or undo what it left, and one command more than the exchange
waits for in each call, at any place. Its `VIEW` drops the globals that are dead between two
exchanges, since `Start` sets them before anything reads them.

**Deadlock** is checked except in `sessions`, where all connections end closed, and in `chat` and
`chat_acked`, where no more messages are sent after `MaxCalls`.

**Fairness** (`sessions`). `Step(c)` is weakly fair: the goroutine of a session runs, and each of
its reads ends with bytes or at a deadline (10 s, 500 ms, 120 s; `HandleStock` has its own).
That a session reads `MaxData` bytes at most says that its client falls silent; one that keeps
sending is served for ever, in the code and without the bound. `chat` claims no liveness: `recv`
in the sender has no timeout.

In `docs_live`, `Continue(p) \/ Refuse(p)` is weakly fair for each goroutine of the server: the
Go scheduler runs it and `sqlite3` ends, after 5 seconds at the latest when the file is locked.
Taking `docMu` is strongly fair, because it is free only now and then: a
`sync.Mutex` in starvation mode hands itself to the longest waiter. No fairness is assumed of
clients, of commands, or of failures.

## Proofs

For all logins, names, bodies, records, processes and bounds, from the named assumptions of the
modules (names and logins differ, a projected document names its contact and has five fields,
bounds are positive, goroutines and commands differ; the directory's users are finitely many and
a request takes less than half a lease; the early bytes of a session end before the two bytes of
the stream that come with the handshake, and the bound on a stream leaves room for these two):

- `TypeCorrect`: `Spec => []TypeOK`. The inductive invariant is `TypeInv`, which adds what a
  handler's locals hold at each place (`LocalsOK`): without it the owner and the body a
  `Commit` writes would be unknown. One lemma per action.
- `MembershipFollowsDocuments`, `ChecksumsUnique`, `QuotaHolds`: each from `DatabaseStep`, which
  says what any step does to the database (a contact, a write, a deletion, a removal, or
  nothing), so that an invariant of the tables has five cases and not twenty-five. They use
  `PutAccepted` only and never the snapshot: the schema alone keeps them, whichever processes run.
- `DocumentsAreVersioned`: the refinement of `VersionedDocuments`, by `RevisionStep`; a retried
  upload maps to a stuttering step although it may create a row.
- `ProjectionsFillGaps`: without administrative processes, a projection replaces nothing but an
  old server document. It needs mutual exclusion (`DocMuMutex`) and `KnowsInv`: a goroutine
  inside knows that the contacts it has still to do have no document. `docs_overwrite` shows
  that the assumption `Admin = {}` cannot be dropped.
- `ManifestsAreComplete`: `DueInv` says of every contact a manifest request owes its client that
  it has a document by now or is still to come: in the snapshot without a document to keep, or
  in the part of the loop that is left. It needs no assumption about administrative processes,
  since one that takes a document away excuses the request (`DueTracked`).
- `ProjectionsOnlyForMutual`: without administrative processes `Mutual` holds from the answer of
  `mutualContact` to the commit (`MutualInv`), for contacts only grow while somebody holds
  `docMu` (`ContactsGrow`).
- `TypeCorrect`, `DeliveredOnlyIfShown`, `DeliveryIsInOrder`, `ReferencesAlwaysExist`, `ReceivedOnce`
  (`MessageStoreProofs`): the invariant `IInv` says that an id names one message and that the
  ids a receive is about to mark were selected without passing one over; `AnswerInv` adds that
  what a reply has carried is marked. Neither property is inductive by itself, for what a
  request holds was read runs before.
- `DirectoryTypeCorrect`, `CapacityHolds`, `AnswersAreFresh` (`RecordDirectoryProofs`). Capacity
  is inductive: whoever inserts counts again after expiry. Freshness is not, and rests on
  `LeaseInv`: a row's stamp is not after its publication's last store, a lease in the cache ends
  `TTL` after it at most, and a session holds what its next step relies on (`JobSound`). Others
  disturb none of it, for the clock and the stamps only move forward (`SessionKept`).
- `CompletedStaysVisible`: a publication has one owner (`OwnInv`) and what the database, the cache
  and a restore hold are publications of their user (`KnownInv`). `VisibleInv` says that neither
  database nor cache holds a superseded record, and that a restore which read one that was
  superseded since finds a newer one in the cache under a lease that outlives the restore: two
  requests that overlap are less than a lease apart, which is where `2 * MaxDelay < TTL` is used.
- `VerifiersAreCurrent`, `AcceptedAreCurrent`, `AccountsAreCredentials` (`AccountsProofs`): the
  inductive invariant adds that a check's row in hand is of a password the login had since the
  check began, and that salts grow, so that an account with the salt a request has read is the
  account it read. The refinement maps a lazily created verifier to a stuttering step.
- `AnsweredStaysQueued`, `AnsweredStaysListed`, `EmptyRepliesAreTrue`, `IdsAreStable`
  (`ContactRequestsProofs`): from `JobsSound`, which says at each place of a 0x1784 what of it is
  committed, as long as nobody has removed what it stands on.
- `SentStaysStored`, `FailuresAreUndone`, `ChatIsUnique`, `ExchangeInOrder` (`ChatSenderProofs`):
  `Tracked` says that `insert_id` names exactly the rows of the call in progress, `UndoneSoFar`
  that the undo has dealt with the rows before its index, `TextStored` from which place on the
  message is stored. For the order, `RECV_CHAT_COMMANDS` begins with the command matched last,
  and no exchange waits for the same command twice in a row, so that the next match lies behind it.
- `CutIs`, `FeedCuts`, `FeedHopeless` (`FrameBufferProofs`): `Append` against the reference. The
  functions of `FrameBuffer` (`Size`, `Feed`, `Cut`) and `FlattenSeq` are recursive. The
  library's induction takes an operator as a parameter and cannot be used; stated of a set
  (`NatSetInduction`, `SeqSetInduction`, from the least element of a set of natural numbers) it
  can, so that each function is shown to have values and to have the right ones for every
  input. `IsCut(s, fs, r)` says that `s` is the frames `fs` followed by `r`, which begins with no
  frame. Frames are a prefix code (`PrefixCode`: a frame ends where its own length says), so that
  `fs` and `r` are unique and `Cut` finds them; one byte of `Append` keeps `IsCut`, or meets a
  beginning that is `Hopeless`, and stays there.
- `TypeCorrect`, `ServedInPlace`, `UnsignedHasLost`, `HandledAsSent` (`NodeSessionProofs`). The
  count of slots is inductive with the set of active sessions finite, though connections may be
  infinitely many. `Places` relates the counters of each phase: a session that lost early bytes
  may be out of place until the signature, and not after it. `Framing` says of a served session
  that what the frame buffer keeps is what follows the frames of the whole stream, and that the
  flag for the first frame is set exactly while the stream has none; a read extends the cut
  (`CutConcat`), and after a malformed length what was handled stays a beginning of the frames
  (`LaterFrames`). So `FramesOfStream` holds for any base, lengths and ways to cut a stream.

Every invariant and action property that a passing run checks is a theorem, two of them for
`Admin = {}` as in their run. Only model-checked are the liveness properties `SessionsEnd` and `RequestsEnd`: fairness and ENABLED are beyond the
prover. `Size` adds up its digits without powers of the base, because the provers know `*` and
not `^`.

## Not modelled

**Of the Go server.** Statements that only read; sessions rows, which nothing reads; the email
profile and directory search (one row, one run); logging; the UDP probe (one datagram in, at
most one out); access policy and configuration (constant after startup); what the fields of a
command or a blob hold. Cryptography: records, credentials and passwords are taken as verified,
ciphers by their place in the key stream. In the account protocol a request and its answer
alternate on one connection; `NodeSession` has the hand-over and the end of such a session, and
the operations it serves are in the modules of the tables they touch.

**Behaviour the models have and no property speaks against**, since nothing documents another
choice:

- a contact's document is projected once and not refreshed when the contact publishes again
  (`database.go:350`); documents of others stay when an account is removed (`database.go:189`);
- with two administrative accounts that differ only in case, the record of one is projected for
  the other (`database.go:284`; `Fold` is in `NativeDocuments`, and its runs use distinct folds);
- an administrative `EnsureSchema` may project for a contact that is deleted meanwhile;
- a contact may be deleted between `SendMessage`'s check and its insert (`database.go:390`); two
  overlapping receives may both carry a message; a receive whose connection breaks after its
  UPDATE has delivered to nobody (`api.go:50`);
- two overlapping publications of one login may leave cache and database with different records
  (`node.go:133`); `RecordDirectory` keeps logins that differ in case apart;
- on the account port the transport is told by whether data arrives within 500 ms
  (`auth.go:49`), so that a slow direct client is taken for a stock one;
- a sender that is killed leaves the rows of its call in `main.db`.

**Of the rest of the repository.** The measured C and C++ (some 1.75 million lines) is six copies
of the amalgamated sqlite3, copies of miracl, decompiled ciphers, packers and tables, packet
builders that encode constants, and the same files again in sibling directories. None of it has
states of its own to model: it is third-party, generated, or one pure encoding after another.
What has is the pair of message DLLs. The sender with its database is in `ChatSender`. The receiver
(`goodrecvrelay4_dll`) is its mirror image and is not modelled yet: it waits for the other side
of the same exchanges (`chatrecv_newchat_init.c`, `chatrecv_restorechat.c`), saves to the same
`main.db`, and undoes a failed call by the same `insert_id` (`relay_main.c:303`,
`tcp_dbio.c:83-95`). It differs in two places: `make_tcp_client_sess1_pkt4` (`tcp_sess1.c:136`)
restores unless the look-up of a stored chat returns 0, its failure included, and
`chatrecv_restorechat.c:373` clears the collected commands without their length. The tools
`skyauth*`, `skysearch*`, `skycontact*`, `skyrelay*`, `parse_proto` and `sqldbread*` make one
exchange and print it, or read. The Go server, where the program's own logic is, is modelled at
its lines, and a share of lines that counts C and C++ does not show it.

EpycsMessenger2 is a window that sends and receives with one HTTP request per button
(`Form2.cs:149`, `Form2.cs:210`) and keeps nothing; what the requests do is in the server's
modules. Of the DLL functions it declares it calls those of login and of the slot search only
(`Form3.cs:55`, `Form1.cs:494`), so that `relaysend` is reached by other callers of the DLL. The
patcher edits a binary on a workstation; the C# server is the earlier implementation that the Go
server ports.

## Plan

1. The steps of the liveness arguments that are safety: that a handler inside `docMu` always has a
   step, and a measure that each step of a session makes smaller.
2. The account session behind the hand-over (records that arrive together, `--once`) as phases of
   `NodeSession`, and runs of `NativeDocuments` with logins that differ only in case.
3. The receiver DLL, as a module beside `ChatSender` that shares what the two files do alike, and
   the composition of the two over one exchange.
