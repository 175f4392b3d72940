---------------------------- MODULE RecordDirectory ----------------------------
(***************************************************************************)
(* The directory of signed location records of server/go (node.go): a      *)
(* cache in memory, guarded by the mutex d.mu, over native_signed_records  *)
(* in the database. A session publishes its record (command 0xc) or looks  *)
(* up a peer's (0xe). A critical section of d.mu is one step here, and so  *)
(* is a run of sqlite3; between them other sessions run, and time passes.  *)
(* Logins that differ in case share a cache entry; here none do.           *)
(***************************************************************************)
EXTENDS Integers, FiniteSets

CONSTANTS
  Login,            \* the users whose records are published and looked up
  Handler,          \* goroutines of TCP sessions
  TTL,              \* locationRecordTTL, 6 hours in the code
  MaxDelay,         \* how long a request takes at most
  Capacity,         \* 1024 in the code
  MaxPublications,  \* bounds on a behaviour
  MaxTime

(***************************************************************************)
(* `now` is read when a request arrives and used until it is answered. A   *)
(* run of sqlite3 gives up after 5 seconds.                                *)
(***************************************************************************)
ASSUME TimeAssumption ==
  /\ TTL \in Nat /\ MaxDelay \in Nat /\ 2 * MaxDelay < TTL
  /\ Capacity \in Nat /\ MaxPublications \in Nat /\ MaxTime \in Nat
  /\ IsFiniteSet(Login) /\ Login # {}

VARIABLES
  clock,        \* Nat
  stored,       \* [Login -> Row \cup {None}]: native_signed_records
  cache,        \* [Login -> Entry \cup {None}]: d.records
  job,          \* [Handler -> Job]
  started,      \* the number of publications so far
  stampOf,      \* history: [Publication -> Time], when it was stored
  before,       \* history: the user's publications over when this one began
  done,         \* history: [Login -> those that are over]
  superseded    \* history: those over before a successful one began

vars == <<clock, stored, cache, job, started, stampOf, before, done, superseded>>
history == <<stampOf, before, done, superseded>>

(***************************************************************************)
(* Every publication is of a record of its own, named by its number.       *)
(***************************************************************************)
Publication == 1 .. MaxPublications
None == 0
Time == 0 .. MaxTime

NoRow == [value |-> None, stamp |-> 0]
Row == [value : Publication, stamp : Time]
NoEntry == [value |-> None, expires |-> 0]
Entry == [value : Publication, expires : 0 .. MaxTime + TTL]

Step == {"idle", "store", "project", "cache",
         "restore", "stamp", "body", "insert", "lookup", "reply"}

Job == [pc : Step, login : Login, value : Publication \cup {None}, now : Time,
        stamp : Time, avoid : SUBSET Publication]

NoJob == [pc |-> "idle", login |-> CHOOSE l \in Login : TRUE, value |-> None,
          now |-> 0, stamp |-> 0, avoid |-> {}]

Init ==
  /\ clock = 0
  /\ stored = [l \in Login |-> NoRow]
  /\ cache = [l \in Login |-> NoEntry]
  /\ job = [h \in Handler |-> NoJob]
  /\ started = 0
  /\ stampOf = [v \in Publication |-> 0]
  /\ before = [v \in Publication |-> {}]
  /\ done = [l \in Login |-> {}]
  /\ superseded = {}

Busy(h) == job[h].pc # "idle"

Goto(h, pc) == job' = [job EXCEPT ![h].pc = pc]
Finish(h) == job' = [job EXCEPT ![h] = NoJob]

Tick ==
  /\ clock < MaxTime
  /\ \A h \in Handler : Busy(h) => clock < job[h].now + MaxDelay
  /\ clock' = clock + 1
  /\ UNCHANGED <<stored, cache, job, started, history>>

-----------------------------------------------------------------------------
Expire(now) ==
  [l \in Login |-> IF cache[l].expires <= now THEN NoEntry ELSE cache[l]]

Cached(records) == {l \in Login : records[l] # NoEntry}

(***************************************************************************)
(* 0xc. The record is stored in the database, projected into the documents *)
(* of contacts (see NativeDocuments), and put in the cache at last.        *)
(***************************************************************************)
BeginPublish(h, l) ==
  /\ ~Busy(h) /\ started < MaxPublications
  /\ started' = started + 1
  /\ job' = [job EXCEPT ![h] =
       [NoJob EXCEPT !.pc = "store", !.login = l, !.value = started', !.now = clock]]
  /\ before' = [before EXCEPT ![started'] = done[l]]
  /\ UNCHANGED <<clock, stored, cache, stampOf, done, superseded>>

StoreRecord(h) ==
  LET j == job[h] IN
  /\ j.pc = "store"
  /\ stored' = [stored EXCEPT ![j.login] = [value |-> j.value, stamp |-> clock]]
  /\ stampOf' = [stampOf EXCEPT ![j.value] = clock]
  /\ Goto(h, "project")
  /\ UNCHANGED <<clock, cache, started, before, done, superseded>>

Project(h) ==
  /\ job[h].pc = "project"
  /\ Goto(h, "cache")
  /\ UNCHANGED <<clock, stored, cache, started, history>>

CacheRecord(h) ==
  LET j == job[h]  records == Expire(j.now) IN
  /\ j.pc = "cache"
  /\ IF j.login \in Cached(records) \/ Cardinality(Cached(records)) < Capacity
     THEN /\ cache' = [records EXCEPT ![j.login] =
                         [value |-> j.value, expires |-> j.now + TTL]]
          /\ superseded' = superseded \cup before[j.value]
     ELSE cache' = records /\ UNCHANGED superseded
  /\ done' = [done EXCEPT ![j.login] = @ \cup {j.value}]
  /\ Finish(h)
  /\ UNCHANGED <<clock, stored, started, stampOf, before>>

-----------------------------------------------------------------------------
(***************************************************************************)
(* 0xe. A record that is not cached is restored from the database, in two  *)
(* runs: its time stamp, and then its body.                                *)
(***************************************************************************)
BeginLookup(h, l) ==
  /\ ~Busy(h)
  /\ job' = [job EXCEPT ![h] =
       [NoJob EXCEPT !.pc = "restore", !.login = l, !.now = clock, !.avoid = superseded]]
  /\ UNCHANGED <<clock, stored, cache, started, history>>

Restore(h) ==
  LET j == job[h]  records == Expire(j.now) IN
  /\ j.pc = "restore"
  /\ cache' = records
  /\ Goto(h, IF j.login \in Cached(records) THEN "lookup" ELSE "stamp")
  /\ UNCHANGED <<clock, stored, started, history>>

ReadStamp(h) ==
  LET j == job[h]  row == stored[j.login] IN
  /\ j.pc = "stamp"
  /\ IF row # NoRow /\ row.stamp <= j.now /\ j.now < row.stamp + TTL
     THEN job' = [job EXCEPT ![h] = [@ EXCEPT !.pc = "body", !.stamp = row.stamp]]
     ELSE Goto(h, "lookup")
  /\ UNCHANGED <<clock, stored, cache, started, history>>

\* Mistake: what the second run returns is not looked at.
ReadBodyUnchecked(h) ==
  /\ job[h].pc = "body"
  /\ job' = [job EXCEPT ![h] =
                [@ EXCEPT !.pc = "insert", !.value = stored[job[h].login].value]]
  /\ UNCHANGED <<clock, stored, cache, started, history>>

ReadBody(h) ==
  LET j == job[h]  row == stored[j.login] IN
  /\ j.pc = "body"
  /\ \/ /\ row # NoRow
        /\ job' = [job EXCEPT ![h] = [@ EXCEPT !.pc = "insert", !.value = row.value]]
     \/ Goto(h, "lookup")      \* no row, or its credential has expired
  /\ UNCHANGED <<clock, stored, cache, started, history>>

\* Mistake: what was restored replaces what is cached, ...
InsertRestoredAlways(h) ==
  LET j == job[h]  records == Expire(j.now) IN
  /\ j.pc = "insert"
  /\ cache' = [records EXCEPT ![j.login] = [value |-> j.value, expires |-> j.stamp + TTL]]
  /\ Goto(h, "lookup")
  /\ UNCHANGED <<clock, stored, started, history>>

\* ... gets a lease from now on, ...
InsertRestoredFromNow(h) ==
  LET j == job[h]  records == Expire(j.now) IN
  /\ j.pc = "insert"
  /\ cache' = IF records[j.login] = NoEntry /\ Cardinality(Cached(records)) < Capacity
              THEN [records EXCEPT ![j.login] =
                      [value |-> j.value, expires |-> j.now + TTL]]
              ELSE records
  /\ Goto(h, "lookup")
  /\ UNCHANGED <<clock, stored, started, history>>

\* ... or comes on top of a full cache.
InsertRestoredUnbounded(h) ==
  LET j == job[h]  records == Expire(j.now) IN
  /\ j.pc = "insert"
  /\ cache' = IF records[j.login] = NoEntry
              THEN [records EXCEPT ![j.login] =
                      [value |-> j.value, expires |-> j.stamp + TTL]]
              ELSE records
  /\ Goto(h, "lookup")
  /\ UNCHANGED <<clock, stored, started, history>>

InsertRestored(h) ==
  LET j == job[h]  records == Expire(j.now) IN
  /\ j.pc = "insert"
  /\ cache' = IF records[j.login] = NoEntry /\ Cardinality(Cached(records)) < Capacity
              THEN [records EXCEPT ![j.login] =
                      [value |-> j.value, expires |-> j.stamp + TTL]]
              ELSE records
  /\ Goto(h, "lookup")
  /\ UNCHANGED <<clock, stored, started, history>>

Lookup(h) ==
  LET j == job[h]  records == Expire(j.now) IN
  /\ j.pc = "lookup"
  /\ cache' = records
  /\ job' = [job EXCEPT ![h] =
                [@ EXCEPT !.pc = "reply", !.value = records[j.login].value]]
  /\ UNCHANGED <<clock, stored, started, history>>

Reply(h) ==
  /\ job[h].pc = "reply"
  /\ Finish(h)
  /\ UNCHANGED <<clock, stored, cache, started, history>>

-----------------------------------------------------------------------------
(***************************************************************************)
(* A run of sqlite3 fails, the publisher's account is gone, or the         *)
(* projection into a contact's documents is refused: the publication is    *)
(* over, stored or not, and not cached.                                    *)
(***************************************************************************)
Publishing(h, l) == job[h].pc \in {"store", "project", "cache"} /\ job[h].login = l

DoneWith(handlers) ==
  [l \in Login |-> done[l] \cup {job[h].value : h \in {g \in handlers : Publishing(g, l)}}]

Fail(h) ==
  /\ job[h].pc \in {"store", "project", "stamp", "body"}
  /\ done' = DoneWith({h})
  /\ Finish(h)
  /\ UNCHANGED <<clock, stored, cache, started, stampOf, before, superseded>>

Restart ==
  /\ cache' = [l \in Login |-> NoEntry]
  /\ done' = DoneWith(Handler)
  /\ job' = [h \in Handler |-> NoJob]
  /\ UNCHANGED <<clock, stored, started, stampOf, before, superseded>>

RemoveAccount(l) ==        \* an administrative command; the cache stays
  /\ stored' = [stored EXCEPT ![l] = NoRow]
  /\ UNCHANGED <<clock, cache, job, started, history>>

Next ==
  \/ Tick
  \/ \E h \in Handler :
       \/ \E l \in Login : BeginPublish(h, l) \/ BeginLookup(h, l)
       \/ StoreRecord(h) \/ Project(h) \/ CacheRecord(h)
       \/ Restore(h) \/ ReadStamp(h) \/ ReadBody(h) \/ InsertRestored(h)
       \/ Lookup(h) \/ Reply(h) \/ Fail(h)
  \/ \E l \in Login : RemoveAccount(l)
  \/ Restart

Spec == Init /\ [][Next]_vars

-----------------------------------------------------------------------------
TypeOK ==
  /\ clock \in Time
  /\ stored \in [Login -> Row \cup {NoRow}]
  /\ cache \in [Login -> Entry \cup {NoEntry}]
  /\ job \in [Handler -> Job]
  /\ started \in 0 .. MaxPublications
  /\ stampOf \in [Publication -> Time]
  /\ before \in [Publication -> SUBSET Publication]
  /\ done \in [Login -> SUBSET Publication]
  /\ superseded \subseteq Publication

(* "reloads a record only within the original six-hour lease ... and       *)
(* preserves the remaining lease instead of starting a new one": no lookup *)
(* that begins after the lease of a publication answers with it, through   *)
(* restarts, and restores whose two reads see different rows.              *)
AnswerIsFresh ==
  \A h \in Handler :
    job[h].pc = "reply" /\ job[h].value # None =>
      job[h].now < stampOf[job[h].value] + TTL

(* A lookup that begins after a publication succeeded does not answer with *)
(* a record whose publication was over before that one began: no restore   *)
(* that read the database earlier puts the older record back.              *)
CompletedIsVisible ==
  \A h \in Handler :
    job[h].pc = "reply" => job[h].value \notin job[h].avoid

(* The cache never exceeds its capacity, whichever sessions fill it.       *)
CapacityRespected == Cardinality(Cached(cache)) <= Capacity
=============================================================================
