------------------------- MODULE RecordDirectoryProofs -------------------------
(***************************************************************************)
(* Theorems about RecordDirectory, for all users, sessions, leases and     *)
(* capacities.                                                             *)
(***************************************************************************)
EXTENDS RecordDirectory, FiniteSetTheorems, TLAPS

(***************************************************************************)
(* A job names a publication where it is about to store, cache or insert   *)
(* one, and was given its `now` by the clock.                              *)
(***************************************************************************)
LocalsOK(j) ==
  j.pc \in {"store", "project", "cache", "insert"} => j.value \in Publication

TypeInv == TypeOK /\ \A h \in Handler : LocalsOK(job[h])

\* A session that is done, or was never started, is well typed.
LEMMA NoJobType ==
  NoJob \in Job /\ LocalsOK(NoJob) /\ NoJob.pc = "idle" /\ NoJob.avoid = {}
  <1>1. (CHOOSE l \in Login : TRUE) \in Login
    BY TimeAssumption
  <1> QED
    BY <1>1, TimeAssumption DEF NoJob, Job, Step, Time, None, LocalsOK

\* One session changes its job to one of the right type.
LEMMA JobStep ==
  ASSUME TypeInv, NEW h \in Handler, NEW j \in Job, LocalsOK(j),
         job' = [job EXCEPT ![h] = j]
  PROVE  /\ job' \in [Handler -> Job] /\ \A g \in Handler : LocalsOK(job'[g])
         /\ job'[h] = j /\ \A g \in Handler \ {h} : job'[g] = job[g]
  BY DEF TypeInv, TypeOK

\* A publication that starts is well typed, and knows the time.
LEMMA BeginPublishType ==
  ASSUME TypeInv, NEW h \in Handler, NEW l \in Login, NEW value \in Publication,
         job' = [job EXCEPT ![h] = [NoJob EXCEPT !.pc = "store", !.login = l,
                                                 !.value = value, !.now = clock]]
  PROVE  /\ job' \in [Handler -> Job] /\ \A g \in Handler : LocalsOK(job'[g])
         /\ job'[h].pc = "store" /\ job'[h].now = clock
         /\ job'[h].login = l /\ job'[h].value = value /\ job'[h].avoid = {}
         /\ \A g \in Handler \ {h} : job'[g] = job[g]
  <1> DEFINE j == [NoJob EXCEPT !.pc = "store", !.login = l, !.value = value, !.now = clock]
  <1>1. /\ j \in Job /\ LocalsOK(j) /\ j.pc = "store" /\ j.now = clock
        /\ j.login = l /\ j.value = value /\ j.avoid = {}
    BY NoJobType DEF Job, Step, LocalsOK, TypeInv, TypeOK
  <1> HIDE DEF j
  <1>2. job' = [job EXCEPT ![h] = j]
    BY DEF j
  <1> QED
    BY <1>1, <1>2, JobStep

\* A lookup that starts is well typed, and knows the time.
LEMMA BeginLookupType ==
  ASSUME TypeInv, NEW h \in Handler, NEW l \in Login,
         job' = [job EXCEPT ![h] = [NoJob EXCEPT !.pc = "restore", !.login = l,
                                                 !.now = clock, !.avoid = superseded]]
  PROVE  /\ job' \in [Handler -> Job] /\ \A g \in Handler : LocalsOK(job'[g])
         /\ job'[h].pc = "restore" /\ job'[h].now = clock
         /\ job'[h].avoid = superseded
         /\ \A g \in Handler \ {h} : job'[g] = job[g]
  <1> DEFINE j == [NoJob EXCEPT !.pc = "restore", !.login = l, !.now = clock,
                                !.avoid = superseded]
  <1>1. /\ j \in Job /\ LocalsOK(j) /\ j.pc = "restore" /\ j.now = clock
        /\ j.avoid = superseded
    BY NoJobType DEF Job, Step, LocalsOK, TypeInv, TypeOK
  <1> HIDE DEF j
  <1>2. job' = [job EXCEPT ![h] = j]
    BY DEF j
  <1> QED
    BY <1>1, <1>2, JobStep

\* A request that ends (Finish) is idle, and the others are as they were.
LEMMA FinishType ==
  ASSUME TypeInv, NEW h \in Handler, Finish(h)
  PROVE  /\ job' \in [Handler -> Job] /\ \A g \in Handler : LocalsOK(job'[g])
         /\ job'[h] = NoJob /\ job'[h].pc = "idle" /\ job'[h].avoid = {}
         /\ \A g \in Handler \ {h} : job'[g] = job[g]
  BY NoJobType, JobStep DEF Finish

\* A request that goes on with a value it has read, in the cache or in the body.
LEMMA ValueType ==
  ASSUME TypeInv, NEW h \in Handler, NEW pc \in {"insert", "reply"},
         NEW value \in Publication \cup {None}, pc = "insert" => value \in Publication,
         job' = [job EXCEPT ![h] = [@ EXCEPT !.pc = pc, !.value = value]]
  PROVE  /\ job' \in [Handler -> Job] /\ \A g \in Handler : LocalsOK(job'[g])
         /\ job'[h].pc = pc /\ job'[h].value = value
         /\ job'[h].now = job[h].now /\ job'[h].stamp = job[h].stamp
         /\ job'[h].login = job[h].login /\ job'[h].avoid = job[h].avoid
         /\ \A g \in Handler \ {h} : job'[g] = job[g]
  <1> DEFINE j == [job[h] EXCEPT !.pc = pc, !.value = value]
  <1>1. job[h] \in Job
    BY DEF TypeInv, TypeOK
  <1>2. /\ j \in Job /\ LocalsOK(j) /\ j.pc = pc /\ j.value = value
        /\ j.now = job[h].now /\ j.stamp = job[h].stamp
        /\ j.login = job[h].login /\ j.avoid = job[h].avoid
    BY <1>1 DEF Job, LocalsOK, Step
  <1> HIDE DEF j
  <1>3. job' = [job EXCEPT ![h] = j]
    BY DEF j
  <1> QED
    BY <1>2, <1>3, JobStep

\* A restore that goes on with the time stamp it has read.
LEMMA StampType ==
  ASSUME TypeInv, NEW h \in Handler, NEW stamp \in Time,
         job' = [job EXCEPT ![h] = [@ EXCEPT !.pc = "body", !.stamp = stamp]]
  PROVE  /\ job' \in [Handler -> Job] /\ \A g \in Handler : LocalsOK(job'[g])
         /\ job'[h].pc = "body" /\ job'[h].stamp = stamp
         /\ job'[h].now = job[h].now /\ job'[h].login = job[h].login
         /\ job'[h].avoid = job[h].avoid
         /\ \A g \in Handler \ {h} : job'[g] = job[g]
  <1> DEFINE j == [job[h] EXCEPT !.pc = "body", !.stamp = stamp]
  <1>1. job[h] \in Job
    BY DEF TypeInv, TypeOK
  <1>2. /\ j \in Job /\ LocalsOK(j) /\ j.pc = "body" /\ j.stamp = stamp
        /\ j.now = job[h].now /\ j.login = job[h].login /\ j.avoid = job[h].avoid
    BY <1>1 DEF Job, LocalsOK, Step
  <1> HIDE DEF j
  <1>3. job' = [job EXCEPT ![h] = j]
    BY DEF j
  <1> QED
    BY <1>2, <1>3, JobStep

\* Expiry keeps the type of the cache.
LEMMA ExpireType ==
  ASSUME TypeInv, NEW now \in Time
  PROVE  Expire(now) \in [Login -> Entry \cup {NoEntry}]
  BY DEF TypeInv, TypeOK, Expire

\* Expiry and one insertion keep the type of the cache.
LEMMA CacheType ==
  ASSUME TypeInv, NEW now \in Time, NEW l \in Login,
         NEW v \in Publication, NEW e \in 0 .. MaxTime + TTL
  PROVE  /\ Expire(now) \in [Login -> Entry \cup {NoEntry}]
         /\ [Expire(now) EXCEPT ![l] = [value |-> v, expires |-> e]]
              \in [Login -> Entry \cup {NoEntry}]
         /\ [value |-> v, expires |-> e] # NoEntry
  BY DEF TypeInv, TypeOK, Expire, Entry, NoEntry, None, Publication

\* A request that only goes to its next step (Goto).
LEMMA GotoType ==
  ASSUME TypeInv, NEW h \in Handler, NEW pc \in Step, Goto(h, pc),
         pc \in {"store", "project", "cache", "insert"} => job[h].value \in Publication
  PROVE  /\ job' \in [Handler -> Job] /\ \A g \in Handler : LocalsOK(job'[g])
         /\ job'[h].pc = pc /\ job'[h].value = job[h].value
         /\ job'[h].stamp = job[h].stamp /\ job'[h].now = job[h].now
         /\ job'[h].login = job[h].login /\ job'[h].avoid = job[h].avoid
         /\ \A g \in Handler \ {h} : job'[g] = job[g]
  <1> DEFINE j == [job[h] EXCEPT !.pc = pc]
  <1>1. job[h] \in Job
    BY DEF TypeInv, TypeOK
  <1>2. /\ j \in Job /\ LocalsOK(j) /\ j.pc = pc /\ j.value = job[h].value
        /\ j.stamp = job[h].stamp /\ j.now = job[h].now /\ j.login = job[h].login
        /\ j.avoid = job[h].avoid
    BY <1>1 DEF Job, LocalsOK
  <1> HIDE DEF j
  <1>3. job' = [job EXCEPT ![h] = j]
    BY DEF j, Goto
  <1> QED
    BY <1>2, <1>3, JobStep

\* What is over stays a set of publications, whichever sessions end.
LEMMA DoneType ==
  ASSUME TypeInv, NEW handlers \in SUBSET Handler
  PROVE  DoneWith(handlers) \in [Login -> SUBSET Publication]
  BY DEF TypeInv, TypeOK, LocalsOK, DoneWith, Publishing

-----------------------------------------------------------------------------
\* The first state is well typed.
LEMMA InitType == Init => TypeInv
  <1> SUFFICES ASSUME Init PROVE TypeInv
    OBVIOUS
  <1>1. job \in [Handler -> Job] /\ \A h \in Handler : LocalsOK(job[h])
    BY NoJobType DEF Init
  <1>2. 0 \in Time /\ 0 \in 0 .. MaxPublications
    BY TimeAssumption DEF Time
  <1>3. NoRow \in Row \cup {NoRow} /\ NoEntry \in Entry \cup {NoEntry}
    OBVIOUS
  <1> QED
    BY <1>1, <1>2, <1>3 DEF Init, TypeInv, TypeOK

\* Every step keeps every variable in its type.
LEMMA NextType == TypeInv /\ [Next]_vars => TypeInv'
  <1> SUFFICES ASSUME TypeInv, [Next]_vars PROVE TypeInv'
    OBVIOUS
  <1> USE DEF TypeInv, history
  <1>1. CASE Tick
    BY <1>1, TimeAssumption DEF Tick, TypeOK, Time
  <1>2. ASSUME NEW h \in Handler, NEW l \in Login, BeginPublish(h, l)
        PROVE  TypeInv'
    <2>1. started' \in Publication /\ started' \in 0 .. MaxPublications
      BY <1>2, TimeAssumption DEF BeginPublish, TypeOK, Publication
    <2>2. job' \in [Handler -> Job] /\ \A g \in Handler : LocalsOK(job'[g])
      BY <1>2, <2>1, BeginPublishType DEF BeginPublish
    <2>3. before' \in [Publication -> SUBSET Publication]
      BY <1>2, <2>1 DEF BeginPublish, TypeOK
    <2> QED
      BY <1>2, <2>1, <2>2, <2>3 DEF BeginPublish, TypeOK
  <1>3. ASSUME NEW h \in Handler, NEW l \in Login, BeginLookup(h, l)
        PROVE  TypeInv'
    <2>1. job' \in [Handler -> Job] /\ \A g \in Handler : LocalsOK(job'[g])
      BY <1>3, BeginLookupType DEF BeginLookup
    <2> QED
      BY <1>3, <2>1 DEF BeginLookup, TypeOK
  <1>4. ASSUME NEW h \in Handler, StoreRecord(h)
        PROVE  TypeInv'
    <2>1. job[h].value \in Publication /\ job[h].login \in Login /\ clock \in Time
      BY <1>4 DEF StoreRecord, TypeOK, LocalsOK, Job
    <2>2. job' \in [Handler -> Job] /\ \A g \in Handler : LocalsOK(job'[g])
      BY <1>4, <2>1, GotoType DEF StoreRecord, Step
    <2>3. stored' \in [Login -> Row \cup {NoRow}] /\ stampOf' \in [Publication -> Time]
      BY <1>4, <2>1 DEF StoreRecord, TypeOK, Row
    <2> QED
      BY <1>4, <2>2, <2>3 DEF StoreRecord, TypeOK
  <1>5. ASSUME NEW h \in Handler, Project(h)
        PROVE  TypeInv'
    <2>1. job' \in [Handler -> Job] /\ \A g \in Handler : LocalsOK(job'[g])
      BY <1>5, GotoType DEF Project, Step, LocalsOK
    <2> QED
      BY <1>5, <2>1 DEF Project, TypeOK
  <1>6. ASSUME NEW h \in Handler, CacheRecord(h)
        PROVE  TypeInv'
    <2>1. /\ job[h].value \in Publication /\ job[h].login \in Login
          /\ job[h].now \in Time /\ job[h].now + TTL \in 0 .. MaxTime + TTL
      BY <1>6, TimeAssumption DEF CacheRecord, TypeOK, LocalsOK, Job, Time
    <2>2. cache' \in [Login -> Entry \cup {NoEntry}]
      BY <1>6, <2>1, CacheType DEF CacheRecord
    <2>3. done' \in [Login -> SUBSET Publication] /\ superseded' \subseteq Publication
      BY <1>6, <2>1 DEF CacheRecord, TypeOK
    <2>4. job' \in [Handler -> Job] /\ \A g \in Handler : LocalsOK(job'[g])
      BY <1>6, FinishType DEF CacheRecord
    <2> QED
      BY <1>6, <2>2, <2>3, <2>4 DEF CacheRecord, TypeOK
  <1>7. ASSUME NEW h \in Handler, Restore(h)
        PROVE  TypeInv'
    <2>1. job[h].now \in Time
      BY DEF TypeOK, Job
    <2>2. cache' \in [Login -> Entry \cup {NoEntry}]
      BY <1>7, <2>1, ExpireType DEF Restore
    <2>3. job' \in [Handler -> Job] /\ \A g \in Handler : LocalsOK(job'[g])
      BY <1>7, GotoType DEF Restore, Step
    <2> QED
      BY <1>7, <2>2, <2>3 DEF Restore, TypeOK
  <1>8. ASSUME NEW h \in Handler, ReadStamp(h)
        PROVE  TypeInv'
    <2>1. stored[job[h].login] # NoRow => stored[job[h].login].stamp \in Time
      BY DEF TypeOK, Job, Row
    <2>2. job' \in [Handler -> Job] /\ \A g \in Handler : LocalsOK(job'[g])
      BY <1>8, <2>1, GotoType, StampType DEF ReadStamp, Step
    <2> QED
      BY <1>8, <2>2 DEF ReadStamp, TypeOK
  <1>9. ASSUME NEW h \in Handler, ReadBody(h)
        PROVE  TypeInv'
    <2>1. stored[job[h].login] # NoRow => stored[job[h].login].value \in Publication
      BY DEF TypeOK, Job, Row
    <2>2. job' \in [Handler -> Job] /\ \A g \in Handler : LocalsOK(job'[g])
      BY <1>9, <2>1, GotoType, ValueType DEF ReadBody, Step
    <2> QED
      BY <1>9, <2>2 DEF ReadBody, TypeOK
  <1>10. ASSUME NEW h \in Handler, InsertRestored(h)
         PROVE  TypeInv'
    <2>1. /\ job[h].value \in Publication /\ job[h].login \in Login
          /\ job[h].now \in Time /\ job[h].stamp + TTL \in 0 .. MaxTime + TTL
      BY <1>10, TimeAssumption DEF InsertRestored, TypeOK, LocalsOK, Job, Time
    <2>2. cache' \in [Login -> Entry \cup {NoEntry}]
      BY <1>10, <2>1, CacheType DEF InsertRestored
    <2>3. job' \in [Handler -> Job] /\ \A g \in Handler : LocalsOK(job'[g])
      BY <1>10, GotoType DEF InsertRestored, Step
    <2> QED
      BY <1>10, <2>2, <2>3 DEF InsertRestored, TypeOK
  <1>11. ASSUME NEW h \in Handler, Lookup(h)
         PROVE  TypeInv'
    <2>1. job[h].now \in Time /\ job[h].login \in Login
      BY DEF TypeOK, Job
    <2>2. cache' \in [Login -> Entry \cup {NoEntry}]
      BY <1>11, <2>1, ExpireType DEF Lookup
    <2>3. Expire(job[h].now)[job[h].login].value \in Publication \cup {None}
      BY <2>1, ExpireType DEF Entry, NoEntry
    <2>4. job' \in [Handler -> Job] /\ \A g \in Handler : LocalsOK(job'[g])
      BY <1>11, <2>3, ValueType DEF Lookup
    <2> QED
      BY <1>11, <2>2, <2>4 DEF Lookup, TypeOK
  <1>12. ASSUME NEW h \in Handler, Reply(h)
         PROVE  TypeInv'
    BY <1>12, FinishType DEF Reply, TypeOK
  <1>13. ASSUME NEW h \in Handler, Fail(h)
         PROVE  TypeInv'
    BY <1>13, FinishType, DoneType DEF Fail, TypeOK
  <1>14. ASSUME NEW l \in Login, RemoveAccount(l)
         PROVE  TypeInv'
    BY <1>14 DEF RemoveAccount, TypeOK
  <1>15. CASE Restart
    BY <1>15, NoJobType, DoneType DEF Restart, TypeOK
  <1>16. CASE UNCHANGED vars
    BY <1>16 DEF vars, TypeOK
  <1> QED
    BY <1>1, <1>2, <1>3, <1>4, <1>5, <1>6, <1>7, <1>8, <1>9, <1>10, <1>11, <1>12,
       <1>13, <1>14, <1>15, <1>16 DEF Next

\* The types are kept, with the publications that sessions carry.
LEMMA TypeInvariant == Spec => []TypeInv
  BY InitType, NextType, PTL DEF Spec

\* Every variable of the directory stays in its type, at every interleaving.
THEOREM DirectoryTypeCorrect == Spec => []TypeOK
  <1>1. TypeInv => TypeOK
    BY DEF TypeInv
  <1> QED
    BY <1>1, TypeInvariant, PTL

-----------------------------------------------------------------------------
\* Expiry leaves no more users in the cache, and counts them.
LEMMA ExpireCached ==
  ASSUME NEW now
  PROVE  /\ Cached(Expire(now)) \subseteq Cached(cache)
         /\ IsFiniteSet(Cached(cache)) /\ IsFiniteSet(Cached(Expire(now)))
         /\ Cardinality(Cached(Expire(now))) <= Cardinality(Cached(cache))
         /\ Cardinality(Cached(cache)) \in Nat /\ Cardinality(Cached(Expire(now))) \in Nat
  <1>1. Cached(Expire(now)) \subseteq Cached(cache)
    BY DEF Cached, Expire
  <1>2. Cached(cache) \subseteq Login
    BY DEF Cached
  <1>3. IsFiniteSet(Cached(cache))
    BY <1>2, TimeAssumption, FS_Subset
  <1> QED
    BY <1>1, <1>3, FS_Subset, FS_CardinalityType

\* One insertion after expiry adds one user at most, and none that was there.
LEMMA InsertCached ==
  ASSUME TypeInv, NEW now \in Time, NEW l \in Login, NEW entry, CapacityRespected,
         \/ l \in Cached(Expire(now))
         \/ Cardinality(Cached(Expire(now))) < Capacity
  PROVE  Cardinality(Cached([Expire(now) EXCEPT ![l] = entry])) <= Capacity
  <1> DEFINE old == Cached(Expire(now))
             new == Cached([Expire(now) EXCEPT ![l] = entry])
  <1>1. new \subseteq old \cup {l}
    BY DEF Cached, Expire
  <1>2. /\ IsFiniteSet(old) /\ Cardinality(old) \in Nat
        /\ Cardinality(old) <= Cardinality(Cached(cache))
        /\ Cardinality(Cached(cache)) \in Nat
    BY ExpireCached
  <1>3. Cardinality(old) <= Capacity
    BY <1>2, TimeAssumption DEF CapacityRespected
  <1> HIDE DEF old, new
  <1>4. /\ IsFiniteSet(old \cup {l})
        /\ Cardinality(old \cup {l}) =
             IF l \in old THEN Cardinality(old) ELSE Cardinality(old) + 1
    BY <1>2, FS_AddElement
  <1>5. Cardinality(old \cup {l}) <= Capacity
    BY <1>2, <1>3, <1>4, TimeAssumption DEF old
  <1>6. /\ Cardinality(new) <= Cardinality(old \cup {l})
        /\ Cardinality(new) \in Nat /\ Cardinality(old \cup {l}) \in Nat
    BY <1>1, <1>4, FS_Subset, FS_CardinalityType
  <1> QED
    BY <1>5, <1>6, TimeAssumption DEF new

\* No step lets the cache grow beyond its capacity.
LEMMA CapacityStep ==
  TypeInv /\ CapacityRespected /\ [Next]_vars => CapacityRespected'
  <1> SUFFICES ASSUME TypeInv, CapacityRespected, [Next]_vars PROVE CapacityRespected'
    OBVIOUS
  <1>1. ASSUME NEW now \in Time, cache' = Expire(now)
        PROVE  CapacityRespected'
    <2>1. Cached(cache)' = Cached(Expire(now))
      BY <1>1 DEF Cached
    <2> QED
      BY <2>1, ExpireCached, TimeAssumption DEF CapacityRespected
  <1>2. ASSUME NEW h \in Handler
        PROVE  job[h].now \in Time /\ job[h].login \in Login
    BY DEF TypeInv, TypeOK, Job
  <1>3. ASSUME cache' = cache
        PROVE  CapacityRespected'
    BY <1>3 DEF CapacityRespected, Cached
  <1>4. ASSUME NEW h \in Handler, NEW entry,
               \/ job[h].login \in Cached(Expire(job[h].now))
               \/ Cardinality(Cached(Expire(job[h].now))) < Capacity,
               cache' = [Expire(job[h].now) EXCEPT ![job[h].login] = entry]
        PROVE  CapacityRespected'
    <2>1. Cached(cache)' = Cached([Expire(job[h].now) EXCEPT ![job[h].login] = entry])
      BY <1>4 DEF Cached
    <2>2. Cardinality(Cached([Expire(job[h].now) EXCEPT ![job[h].login] = entry])) <= Capacity
      BY <1>2, <1>4, InsertCached
    <2> QED
      BY <2>1, <2>2 DEF CapacityRespected
  <1>5. ASSUME NEW h \in Handler, CacheRecord(h)
        PROVE  CapacityRespected'
    BY <1>1, <1>2, <1>4, <1>5 DEF CacheRecord
  <1>6. ASSUME NEW h \in Handler, InsertRestored(h)
        PROVE  CapacityRespected'
    BY <1>1, <1>2, <1>4, <1>6 DEF InsertRestored
  <1>7. ASSUME NEW h \in Handler, Restore(h) \/ Lookup(h)
        PROVE  CapacityRespected'
    BY <1>1, <1>2, <1>7 DEF Restore, Lookup
  <1>8. CASE Restart
    <2>1. Cached(cache') = {}
      BY <1>8 DEF Restart, Cached
    <2> QED
      BY <2>1, FS_EmptySet, TimeAssumption DEF CapacityRespected, Cached
  <1>9. CASE Tick
    BY <1>3, <1>9 DEF Tick
  <1>10. ASSUME NEW h \in Handler,
                \/ \E l \in Login : BeginPublish(h, l) \/ BeginLookup(h, l)
                \/ StoreRecord(h) \/ Project(h) \/ ReadStamp(h) \/ ReadBody(h)
                \/ Reply(h) \/ Fail(h)
         PROVE  CapacityRespected'
    BY <1>3, <1>10 DEF BeginPublish, BeginLookup, StoreRecord, Project, ReadStamp,
                       ReadBody, Reply, Fail
  <1>11. ASSUME NEW l \in Login, RemoveAccount(l)
         PROVE  CapacityRespected'
    BY <1>3, <1>11 DEF RemoveAccount
  <1>12. CASE UNCHANGED vars
    BY <1>3, <1>12 DEF vars
  <1> QED
    BY <1>5, <1>6, <1>7, <1>8, <1>9, <1>10, <1>11, <1>12 DEF Next

(***************************************************************************)
(* The cache never exceeds its capacity, though sessions that were told it *)
(* has room put their record in it later: each looks again.                *)
(***************************************************************************)
THEOREM CapacityHolds == Spec => []CapacityRespected
  <1>1. Init => CapacityRespected
    <2>1. Init => Cached(cache) = {}
      BY DEF Init, Cached
    <2> QED
      BY <2>1, FS_EmptySet, TimeAssumption DEF CapacityRespected
  <1> QED
    BY <1>1, CapacityStep, TypeInvariant, PTL DEF Spec

-----------------------------------------------------------------------------
(***************************************************************************)
(* Why answers are fresh. The stamp of a row is not after the time its     *)
(* publication was last stored; a lease in the cache ends TTL after that   *)
(* time at the latest; and a session holds, at each step, what the next    *)
(* one relies on. A restore may insert a newer body under the stamp of an  *)
(* older row: the lease is then too short, never too long.                 *)
(***************************************************************************)
RowSound(l) == stored[l] # NoRow => stored[l].stamp <= stampOf[stored[l].value]

EntrySound(l) == cache[l] # NoEntry => cache[l].expires <= stampOf[cache[l].value] + TTL

JobSound(j) ==
  /\ j.now <= clock
  /\ j.pc \in {"project", "cache"} => j.now <= stampOf[j.value]
  /\ j.pc = "body" => /\ j.stamp <= clock
                      /\ stored[j.login] # NoRow => j.stamp <= stored[j.login].stamp
  /\ j.pc = "insert" => j.stamp <= stampOf[j.value]
  /\ j.pc = "reply" /\ j.value # None => j.now < stampOf[j.value] + TTL

LeaseInv ==
  /\ \A v \in Publication : stampOf[v] <= clock
  /\ \A l \in Login : RowSound(l)
  /\ \A l \in Login : EntrySound(l)
  /\ \A h \in Handler : JobSound(job[h])

\* What the leases rest on holds at the start.
LEMMA LeaseInit == Init => LeaseInv
  <1> SUFFICES ASSUME Init PROVE LeaseInv
    OBVIOUS
  <1>1. \A h \in Handler : JobSound(job[h])
    BY DEF Init, JobSound, NoJob
  <1>2. \A v \in Publication : stampOf[v] <= clock
    BY DEF Init
  <1>3. \A l \in Login : RowSound(l) /\ EntrySound(l)
    BY DEF Init, RowSound, EntrySound
  <1> QED
    BY <1>1, <1>2, <1>3 DEF LeaseInv

(***************************************************************************)
(* A session keeps what it relies on through the steps of the others:      *)
(* clocks and stamps only move forward, and a row changes to a newer one,  *)
(* or disappears.                                                          *)
(***************************************************************************)
Forward ==
  /\ clock <= clock'
  /\ \A v \in Publication : stampOf[v] <= stampOf'[v]
  /\ \A l \in Login : \/ stored'[l] = stored[l]
                       \/ stored'[l] = NoRow
                       \/ stored'[l].stamp = clock

LEMMA SessionKept ==
  ASSUME TypeInv, TypeInv', LeaseInv, Forward,
         NEW h \in Handler, job'[h] = job[h]
  PROVE  JobSound(job[h])'
  <1> DEFINE j == job[h]
  <1>1. /\ j \in Job /\ clock \in Time /\ clock' \in Time
        /\ stampOf \in [Publication -> Time] /\ stampOf' \in [Publication -> Time]
        /\ stored \in [Login -> Row \cup {NoRow}]
    BY DEF TypeInv, TypeOK
  <1>2. JobSound(j) /\ LocalsOK(j)
    BY DEF LeaseInv, TypeInv
  <1>3. /\ j.now \in Int /\ j.stamp \in Int /\ j.login \in Login
        /\ j.value \in Publication \cup {None} /\ clock \in Int /\ clock' \in Int
        /\ \A v \in Publication : stampOf[v] \in Int /\ stampOf'[v] \in Int
    BY <1>1 DEF Job, Time
  <1>4. stored[j.login] # NoRow => stored[j.login].stamp \in Int
    BY <1>1, <1>3 DEF Row, Time
  <1> HIDE DEF j
  <1>5. /\ j.now <= clock'
        /\ j.pc \in {"project", "cache"} => j.now <= stampOf'[j.value]
        /\ j.pc = "insert" => j.stamp <= stampOf'[j.value]
        /\ j.pc = "reply" /\ j.value # None => j.now < stampOf'[j.value] + TTL
    BY <1>2, <1>3, TimeAssumption DEF JobSound, LocalsOK, Forward
  <1>6. j.pc = "body" => /\ j.stamp <= clock'
                         /\ stored'[j.login] # NoRow => j.stamp <= stored'[j.login].stamp
    BY <1>2, <1>3, <1>4 DEF JobSound, Forward
  <1> QED
    BY <1>5, <1>6 DEF JobSound, j

\* Expiry and one insertion of a sound lease keep the leases of the cache.
LEMMA LeasesKept ==
  ASSUME LeaseInv, NEW now, NEW l \in Login, NEW v, NEW e,
         e <= stampOf[v] + TTL, stampOf' = stampOf,
         cache' = [Expire(now) EXCEPT ![l] = [value |-> v, expires |-> e]]
  PROVE  \A m \in Login : EntrySound(m)'
  <1>1. cache'[l].value = v /\ cache'[l].expires = e
    BY DEF Expire
  <1>2. \A m \in Login \ {l} : cache'[m] = NoEntry \/ cache'[m] = cache[m]
    BY DEF Expire
  <1> QED
    BY <1>1, <1>2 DEF LeaseInv, EntrySound

\* Expiry alone keeps them too.
LEMMA ExpiryKeepsLeases ==
  ASSUME LeaseInv, NEW now, stampOf' = stampOf, cache' = Expire(now)
  PROVE  \A l \in Login : EntrySound(l)'
  BY DEF LeaseInv, EntrySound, Expire

\* Sessions, and time, keep what the leases rest on.
LEMMA LeaseStep == TypeInv /\ TypeInv' /\ LeaseInv /\ [Next]_vars => LeaseInv'
  <1> SUFFICES ASSUME TypeInv, TypeInv', LeaseInv, [Next]_vars PROVE LeaseInv'
    OBVIOUS
  <1> USE DEF history
  <1>a. /\ clock \in Int /\ clock' \in Int
        /\ \A v \in Publication : stampOf[v] \in Int /\ stampOf'[v] \in Int
        /\ stampOf \in [Publication -> Time]
    BY DEF TypeInv, TypeOK, Time
  <1>b. ASSUME NEW h \in Handler
        PROVE  /\ JobSound(job[h]) /\ LocalsOK(job[h]) /\ job[h] \in Job
               /\ job[h].now \in Int /\ job[h].stamp \in Int /\ job[h].login \in Login
    BY DEF LeaseInv, TypeInv, TypeOK, Job, Time
  <1>c. ASSUME NEW l \in Login
        PROVE  /\ RowSound(l)
               /\ stored[l] # NoRow => /\ stored[l].stamp \in Int
                                       /\ stored[l].value \in Publication
    BY DEF LeaseInv, TypeInv, TypeOK, Row, Time
  <1>d. ASSUME NEW l \in Login
        PROVE  /\ EntrySound(l)
               /\ cache[l] # NoEntry => /\ cache[l].expires \in Int
                                        /\ cache[l].value \in Publication
    BY DEF LeaseInv, TypeInv, TypeOK, Entry
  <1>e. ASSUME clock' = clock, stampOf' = stampOf, stored' = stored
        PROVE  /\ Forward
               /\ \A v \in Publication : stampOf'[v] <= clock'
               /\ \A l \in Login : RowSound(l)'
    BY <1>a, <1>c, <1>e DEF Forward, LeaseInv, RowSound
  <1>f. ASSUME clock' = clock, stampOf' = stampOf, stored' = stored,
               \A l \in Login : EntrySound(l)', NEW h \in Handler, JobSound(job[h])',
               \A g \in Handler \ {h} : job'[g] = job[g]
        PROVE  LeaseInv'
    <2>1. ASSUME NEW g \in Handler PROVE JobSound(job[g])'
      BY <1>e, <1>f, SessionKept
    <2> QED
      BY <1>e, <1>f, <2>1 DEF LeaseInv
  <1>g. ASSUME cache' = cache, stampOf' = stampOf
        PROVE  \A l \in Login : EntrySound(l)'
    BY <1>d, <1>g DEF EntrySound
  <1>h. ASSUME NEW h \in Handler, Finish(h)
        PROVE  job'[h] = NoJob /\ \A g \in Handler \ {h} : job'[g] = job[g]
    BY <1>h DEF Finish, TypeInv, TypeOK
  <1>i. ASSUME NEW h \in Handler, job'[h] = NoJob
        PROVE  JobSound(job[h])'
    BY <1>i DEF JobSound, NoJob, TypeInv, TypeOK, Time
  <1>j. ASSUME NEW h \in Handler, Goto(h, "lookup"), clock' = clock
        PROVE  JobSound(job[h])' /\ \A g \in Handler \ {h} : job'[g] = job[g]
    <2>1. /\ job'[h].pc = "lookup" /\ job'[h].now = job[h].now
          /\ \A g \in Handler \ {h} : job'[g] = job[g]
      BY <1>j, GotoType DEF Step
    <2> QED
      BY <1>b, <1>j, <2>1 DEF JobSound
  <1>1. CASE Tick
    <2>1. Forward
      BY <1>1, <1>a DEF Tick, Forward
    <2>2. \A h \in Handler : JobSound(job[h])'
      BY <1>1, <2>1, SessionKept DEF Tick
    <2>3. \A v \in Publication : stampOf'[v] <= clock'
      BY <1>1, <1>a DEF Tick, LeaseInv
    <2>4. \A l \in Login : RowSound(l)'
      BY <1>1, <1>c DEF Tick, RowSound
    <2> QED
      BY <1>1, <1>g, <2>2, <2>3, <2>4 DEF Tick, LeaseInv
  <1>2. ASSUME NEW h \in Handler, NEW l \in Login, BeginPublish(h, l)
        PROVE  LeaseInv'
    <2>1. started' \in Publication
      BY <1>2, TimeAssumption DEF BeginPublish, TypeInv, TypeOK, Publication
    <2>2. /\ job'[h].pc = "store" /\ job'[h].now = clock
          /\ \A g \in Handler \ {h} : job'[g] = job[g]
      BY <1>2, <2>1, BeginPublishType DEF BeginPublish
    <2>3. JobSound(job[h])'
      BY <1>2, <1>a, <2>2 DEF BeginPublish, JobSound
    <2> QED
      BY <1>2, <1>f, <1>g, <2>2, <2>3 DEF BeginPublish
  <1>3. ASSUME NEW h \in Handler, NEW l \in Login, BeginLookup(h, l)
        PROVE  LeaseInv'
    <2>1. /\ job'[h].pc = "restore" /\ job'[h].now = clock
          /\ \A g \in Handler \ {h} : job'[g] = job[g]
      BY <1>3, BeginLookupType DEF BeginLookup
    <2>2. JobSound(job[h])'
      BY <1>3, <1>a, <2>1 DEF BeginLookup, JobSound
    <2> QED
      BY <1>3, <1>f, <1>g, <2>1, <2>2 DEF BeginLookup
  <1>4. ASSUME NEW h \in Handler, StoreRecord(h)
        PROVE  LeaseInv'
    <2>1. job[h].value \in Publication /\ job[h].pc = "store"
      BY <1>4, <1>b DEF StoreRecord, LocalsOK
    <2>2. /\ job'[h].pc = "project" /\ job'[h].value = job[h].value
          /\ job'[h].now = job[h].now
          /\ \A g \in Handler \ {h} : job'[g] = job[g]
      BY <1>4, <2>1, GotoType DEF StoreRecord, Step
    <2>3. /\ stampOf'[job[h].value] = clock /\ clock' = clock
          /\ \A v \in Publication \ {job[h].value} : stampOf'[v] = stampOf[v]
      BY <1>4, <1>a, <2>1 DEF StoreRecord
    <2>4. /\ stored'[job[h].login].value = job[h].value
          /\ stored'[job[h].login].stamp = clock
          /\ \A l \in Login \ {job[h].login} : stored'[l] = stored[l]
      BY <1>4, <1>b DEF StoreRecord, TypeInv, TypeOK
    <2>5. /\ \A v \in Publication : stampOf[v] <= stampOf'[v] /\ stampOf'[v] <= clock'
          /\ Forward
      BY <1>a, <2>3, <2>4 DEF LeaseInv, Forward
    <2>6. \A l \in Login : RowSound(l)'
      BY <1>a, <1>c, <2>3, <2>4, <2>5 DEF RowSound
    <2>7. \A l \in Login : EntrySound(l)'
      BY <1>4, <1>a, <1>d, <2>5, TimeAssumption DEF StoreRecord, EntrySound
    <2>8. JobSound(job[h])'
      BY <1>b, <2>2, <2>3 DEF JobSound
    <2>9. \A g \in Handler : JobSound(job[g])'
      BY <2>2, <2>5, <2>8, SessionKept
    <2> QED
      BY <2>5, <2>6, <2>7, <2>9 DEF LeaseInv
  <1>5. ASSUME NEW h \in Handler, Project(h)
        PROVE  LeaseInv'
    <2>1. /\ job'[h].pc = "cache" /\ job'[h].value = job[h].value
          /\ job'[h].now = job[h].now
          /\ \A g \in Handler \ {h} : job'[g] = job[g]
      BY <1>5, <1>b, GotoType DEF Project, Step, LocalsOK
    <2>2. JobSound(job[h])'
      BY <1>5, <1>b, <2>1 DEF Project, JobSound
    <2> QED
      BY <1>5, <1>f, <1>g, <2>1, <2>2 DEF Project
  <1>6. ASSUME NEW h \in Handler, CacheRecord(h)
        PROVE  LeaseInv'
    <2>1. job[h].value \in Publication /\ job[h].now <= stampOf[job[h].value]
      BY <1>6, <1>b DEF CacheRecord, LocalsOK, JobSound
    <2>2. job[h].now + TTL <= stampOf[job[h].value] + TTL
      BY <1>a, <1>b, <2>1, TimeAssumption
    <2>3. \A l \in Login : EntrySound(l)'
      BY <1>6, <1>b, <2>2, LeasesKept, ExpiryKeepsLeases DEF CacheRecord
    <2>4. job'[h] = NoJob /\ \A g \in Handler \ {h} : job'[g] = job[g]
      BY <1>6, <1>h DEF CacheRecord
    <2> QED
      BY <1>6, <1>f, <1>i, <2>3, <2>4 DEF CacheRecord
  <1>7. ASSUME NEW h \in Handler, Restore(h)
        PROVE  LeaseInv'
    <2>1. /\ job'[h].pc \in {"lookup", "stamp"} /\ job'[h].now = job[h].now
          /\ \A g \in Handler \ {h} : job'[g] = job[g]
      BY <1>7, GotoType DEF Restore, Step
    <2>2. JobSound(job[h])'
      BY <1>7, <1>b, <2>1 DEF Restore, JobSound
    <2> QED
      BY <1>7, <1>f, <2>1, <2>2, ExpiryKeepsLeases DEF Restore
  <1>8. ASSUME NEW h \in Handler, ReadStamp(h)
        PROVE  LeaseInv'
    <2> DEFINE row == stored[job[h].login]
    <2>1. CASE row # NoRow /\ row.stamp <= job[h].now /\ job[h].now < row.stamp + TTL
      <3>1. row.stamp \in Time
        BY <1>b, <2>1 DEF TypeInv, TypeOK, Row
      <3>2. /\ job'[h].pc = "body" /\ job'[h].stamp = row.stamp
            /\ job'[h].now = job[h].now /\ job'[h].login = job[h].login
            /\ \A g \in Handler \ {h} : job'[g] = job[g]
        BY <1>8, <2>1, <3>1, StampType DEF ReadStamp
      <3>3. row.stamp <= clock
        BY <1>a, <1>b, <1>c, <2>1 DEF JobSound
      <3>4. JobSound(job[h])'
        BY <1>8, <1>b, <1>c, <3>2, <3>3 DEF ReadStamp, JobSound
      <3> QED
        BY <1>8, <1>f, <1>g, <3>2, <3>4 DEF ReadStamp
    <2>2. CASE Goto(h, "lookup")
      <3>1. JobSound(job[h])' /\ \A g \in Handler \ {h} : job'[g] = job[g]
        BY <1>8, <1>j, <2>2 DEF ReadStamp
      <3> QED
        BY <1>8, <1>f, <1>g, <3>1 DEF ReadStamp
    <2> QED
      BY <1>8, <2>1, <2>2 DEF ReadStamp
  <1>9. ASSUME NEW h \in Handler, ReadBody(h)
        PROVE  LeaseInv'
    <2> DEFINE row == stored[job[h].login]
    <2>1. ASSUME row # NoRow,
                 job' = [job EXCEPT ![h] = [@ EXCEPT !.pc = "insert", !.value = row.value]]
          PROVE  LeaseInv'
      <3>1. row.value \in Publication /\ row.stamp \in Int
        BY <1>b, <1>c, <2>1
      <3>2. /\ job'[h].pc = "insert" /\ job'[h].value = row.value
            /\ job'[h].now = job[h].now /\ job'[h].stamp = job[h].stamp
            /\ \A g \in Handler \ {h} : job'[g] = job[g]
        BY <2>1, <3>1, ValueType
      <3>3. job[h].stamp <= row.stamp /\ row.stamp <= stampOf[row.value]
        BY <1>9, <1>b, <1>c, <2>1 DEF ReadBody, JobSound, RowSound
      <3>4. job[h].stamp <= stampOf[row.value]
        BY <1>a, <1>b, <3>1, <3>3
      <3>5. JobSound(job[h])'
        BY <1>9, <1>b, <3>2, <3>4 DEF ReadBody, JobSound
      <3> QED
        BY <1>9, <1>f, <1>g, <3>2, <3>5 DEF ReadBody
    <2>2. CASE Goto(h, "lookup")
      <3>1. JobSound(job[h])' /\ \A g \in Handler \ {h} : job'[g] = job[g]
        BY <1>9, <1>j, <2>2 DEF ReadBody
      <3> QED
        BY <1>9, <1>f, <1>g, <3>1 DEF ReadBody
    <2> QED
      BY <1>9, <2>1, <2>2 DEF ReadBody
  <1>10. ASSUME NEW h \in Handler, InsertRestored(h)
         PROVE  LeaseInv'
    <2>1. job[h].value \in Publication /\ job[h].stamp <= stampOf[job[h].value]
      BY <1>10, <1>b DEF InsertRestored, LocalsOK, JobSound
    <2>2. job[h].stamp + TTL <= stampOf[job[h].value] + TTL
      BY <1>a, <1>b, <2>1, TimeAssumption
    <2>3. \A l \in Login : EntrySound(l)'
      BY <1>10, <1>b, <2>2, LeasesKept, ExpiryKeepsLeases DEF InsertRestored
    <2>4. JobSound(job[h])' /\ \A g \in Handler \ {h} : job'[g] = job[g]
      BY <1>10, <1>j DEF InsertRestored
    <2> QED
      BY <1>10, <1>f, <2>3, <2>4 DEF InsertRestored
  <1>11. ASSUME NEW h \in Handler, Lookup(h)
         PROVE  LeaseInv'
    <2> DEFINE entry == Expire(job[h].now)[job[h].login]
    <2>1. \/ entry = NoEntry
          \/ /\ entry = cache[job[h].login] /\ entry # NoEntry
             /\ ~(entry.expires <= job[h].now)
      BY <1>b DEF Expire
    <2>2. entry.value \in Publication \cup {None}
      BY <1>b, <1>d, <2>1 DEF NoEntry
    <2>3. entry.value # None => job[h].now < stampOf[entry.value] + TTL
      <3>1. CASE entry = NoEntry
        BY <3>1 DEF NoEntry
      <3>2. CASE entry = cache[job[h].login] /\ entry # NoEntry
        <4>1. /\ entry.expires \in Int /\ entry.value \in Publication
              /\ entry.expires <= stampOf[entry.value] + TTL
          BY <1>b, <1>d, <3>2 DEF EntrySound
        <4>2. job[h].now < entry.expires
          BY <1>b, <2>1, <3>2, <4>1
        <4> QED
          BY <1>a, <1>b, <4>1, <4>2, TimeAssumption
      <3> QED
        BY <2>1, <3>1, <3>2
    <2> HIDE DEF entry
    <2>4. /\ job'[h].pc = "reply" /\ job'[h].value = entry.value
          /\ job'[h].now = job[h].now
          /\ \A g \in Handler \ {h} : job'[g] = job[g]
      BY <1>11, <2>2, ValueType DEF Lookup, entry
    <2>5. JobSound(job[h])'
      BY <1>11, <1>b, <2>3, <2>4 DEF Lookup, JobSound
    <2> QED
      BY <1>11, <1>f, <2>4, <2>5, ExpiryKeepsLeases DEF Lookup
  <1>12. ASSUME NEW h \in Handler, Reply(h) \/ Fail(h)
         PROVE  LeaseInv'
    <2>1. job'[h] = NoJob /\ \A g \in Handler \ {h} : job'[g] = job[g]
      BY <1>12, <1>h DEF Reply, Fail
    <2> QED
      BY <1>12, <1>f, <1>g, <1>i, <2>1 DEF Reply, Fail
  <1>13. ASSUME NEW l \in Login, RemoveAccount(l)
         PROVE  LeaseInv'
    <2>1. \A m \in Login : stored'[m] = stored[m] \/ stored'[m] = NoRow
      BY <1>13 DEF RemoveAccount, TypeInv, TypeOK
    <2>2. Forward
      BY <1>13, <1>a, <2>1 DEF RemoveAccount, Forward
    <2>3. \A h \in Handler : JobSound(job[h])'
      BY <1>13, <2>2, SessionKept DEF RemoveAccount
    <2>4. \A m \in Login : RowSound(m)'
      BY <1>13, <1>c, <2>1 DEF RemoveAccount, RowSound
    <2> QED
      BY <1>13, <1>g, <2>3, <2>4 DEF RemoveAccount, LeaseInv
  <1>14. CASE Restart
    <2>1. \A h \in Handler : JobSound(job[h])'
      BY <1>14, <1>i DEF Restart
    <2>2. \A l \in Login : EntrySound(l)'
      BY <1>14 DEF Restart, EntrySound
    <2> QED
      BY <1>14, <1>e, <2>1, <2>2 DEF Restart, LeaseInv
  <1>15. CASE UNCHANGED vars
    BY <1>15, <1>e, <1>g, SessionKept DEF vars, LeaseInv
  <1> QED
    BY <1>1, <1>2, <1>3, <1>4, <1>5, <1>6, <1>7, <1>8, <1>9, <1>10, <1>11, <1>12,
       <1>13, <1>14, <1>15 DEF Next

(***************************************************************************)
(* No lookup answers with a record whose lease ended before the lookup     *)
(* began: not after a restart, and not when the two reads of a restore     *)
(* meet different rows.                                                    *)
(***************************************************************************)
THEOREM AnswersAreFresh == Spec => []AnswerIsFresh
  <1>1. LeaseInv => AnswerIsFresh
    BY DEF LeaseInv, JobSound, AnswerIsFresh
  <1> QED
    BY <1>1, LeaseInit, LeaseStep, TypeInvariant, PTL DEF Spec

-----------------------------------------------------------------------------
(***************************************************************************)
(* Why a completed publication is visible. Every publication has one       *)
(* owner: it is over for one user, or a session of that user is publishing *)
(* it. What the database, the cache and the restores hold are publications *)
(* of their user.                                                          *)
(***************************************************************************)
IsPublishing(h) == job[h].pc \in {"store", "project", "cache"}

Known(l) == done[l] \cup {job[h].value : h \in {g \in Handler : Publishing(g, l)}}

OwnInv ==
  /\ \A h \in Handler : IsPublishing(h) =>
       /\ job[h].value \in 1 .. started
       /\ \A l \in Login : job[h].value \notin done[l]
       /\ before[job[h].value] \subseteq done[job[h].login]
  /\ \A h, g \in Handler :
       IsPublishing(h) /\ IsPublishing(g) /\ h # g => job[h].value # job[g].value
  /\ \A l, m \in Login : l # m => done[l] \cap done[m] = {}
  /\ \A l \in Login : done[l] \subseteq 1 .. started
  /\ \A v \in superseded : \E l \in Login : v \in done[l]

RowKnown(l) == stored[l] # NoRow => stored[l].value \in Known(l)
EntryKnown(l) == cache[l] # NoEntry => cache[l].value \in Known(l)
RestoreKnown(h) == job[h].pc = "insert" => job[h].value \in Known(job[h].login)

KnownInv ==
  /\ \A l \in Login : RowKnown(l) /\ EntryKnown(l)
  /\ \A h \in Handler : RestoreKnown(h)

(***************************************************************************)
(* Publications of the sessions in S are over, and the others go on: every *)
(* step but the beginning of a publication is of this form.                *)
(***************************************************************************)
Ends(S) ==
  /\ done' = DoneWith(S)
  /\ before' = before /\ started' = started
  /\ \A h \in S : ~IsPublishing(h)'
  /\ \A h \in Handler \ S :
       /\ IsPublishing(h)' <=> IsPublishing(h)
       /\ IsPublishing(h) => job'[h].value = job[h].value /\ job'[h].login = job[h].login
  /\ \A v \in superseded' :
       v \in superseded \/ \E h \in Handler : IsPublishing(h) /\ v \in before[job[h].value]

\* What is over after the sessions in S end.
LEMMA DoneWithValue ==
  ASSUME TypeInv, NEW S \in SUBSET Handler, NEW l \in Login
  PROVE  DoneWith(S)[l] = done[l] \cup {job[h].value : h \in {g \in S : Publishing(g, l)}}
  BY DEF DoneWith

LEMMA DoneWithNone == TypeInv => DoneWith({}) = done
  BY DEF DoneWith, TypeInv, TypeOK

\* Two users know no publication in common.
LEMMA KnownApart ==
  ASSUME OwnInv, NEW l \in Login, NEW m \in Login, l # m
  PROVE  Known(l) \cap Known(m) = {}
  BY DEF OwnInv, Known, Publishing, IsPublishing

\* A session that publishes has a user and a publication of the right type.
LEMMA PublisherType ==
  ASSUME TypeInv, NEW h \in Handler
  PROVE  /\ job[h].login \in Login
         /\ IsPublishing(h) => job[h].value \in Publication
  BY DEF TypeInv, TypeOK, LocalsOK, Job, IsPublishing

\* Every publication that ends goes to its user; none changes hands.
LEMMA EndsOwn ==
  ASSUME TypeInv, OwnInv, NEW S \in SUBSET Handler, Ends(S)
  PROVE  OwnInv' /\ \A l \in Login : Known(l)' = Known(l)
  <1>1. ASSUME NEW l \in Login
        PROVE  done'[l] = done[l] \cup {job[h].value : h \in {g \in S : Publishing(g, l)}}
    BY DoneWithValue DEF Ends
  <1>2. ASSUME NEW l \in Login
        PROVE  Known(l)' = Known(l)
    <2>1. ASSUME NEW h \in Handler \ S
          PROVE  /\ Publishing(h, l)' <=> Publishing(h, l)
                 /\ Publishing(h, l) => job'[h].value = job[h].value
      BY DEF Ends, Publishing, IsPublishing
    <2>2. \A h \in S : ~Publishing(h, l)'
      BY DEF Ends, Publishing, IsPublishing
    <2> QED
      BY <1>1, <2>1, <2>2 DEF Known
  <1>3. ASSUME NEW l \in Login
        PROVE  done[l] \subseteq done'[l] /\ done'[l] \subseteq Known(l)
    BY <1>1 DEF Known
  <1>4. ASSUME NEW h \in Handler, IsPublishing(h)'
        PROVE  /\ h \notin S /\ IsPublishing(h)
               /\ job'[h].value = job[h].value /\ job'[h].login = job[h].login
    BY <1>4 DEF Ends
  <1>5. ASSUME NEW h \in Handler, IsPublishing(h)'
        PROVE  /\ job'[h].value \in 1 .. started'
               /\ \A l \in Login : job'[h].value \notin done'[l]
               /\ before'[job'[h].value] \subseteq done'[job'[h].login]
    <2>1. /\ job[h].value \in 1 .. started
          /\ \A l \in Login : job[h].value \notin done[l]
          /\ before[job[h].value] \subseteq done[job[h].login]
      BY <1>4, <1>5 DEF OwnInv
    <2>2. \A l \in Login : job'[h].value \notin done'[l]
      <3> SUFFICES ASSUME NEW l \in Login, job'[h].value \in done'[l] PROVE FALSE
        OBVIOUS
      <3>1. PICK g \in S : Publishing(g, l) /\ job[g].value = job[h].value
        BY <1>1, <1>4, <1>5, <2>1
      <3>2. g # h /\ IsPublishing(g) /\ g \in Handler
        BY <1>4, <1>5, <3>1 DEF Publishing, IsPublishing
      <3> QED
        BY <1>4, <1>5, <3>1, <3>2 DEF OwnInv
    <2> QED
      BY <1>3, <1>4, <1>5, <2>1, <2>2, PublisherType DEF Ends
  <1>6. ASSUME NEW h \in Handler, NEW g \in Handler,
               IsPublishing(h)', IsPublishing(g)', h # g
        PROVE  job'[h].value # job'[g].value
    BY <1>4, <1>6 DEF OwnInv
  <1>7. ASSUME NEW l \in Login, NEW m \in Login, l # m
        PROVE  done'[l] \cap done'[m] = {}
    BY <1>3, <1>7, KnownApart
  <1>8. ASSUME NEW l \in Login
        PROVE  done'[l] \subseteq 1 .. started'
    <2>1. Known(l) \subseteq 1 .. started
      BY DEF Known, OwnInv, Publishing, IsPublishing
    <2> QED
      BY <1>3, <2>1 DEF Ends
  <1>9. ASSUME NEW v \in superseded'
        PROVE  \E l \in Login : v \in done'[l]
    <2>1. \E l \in Login : v \in done[l]
      BY <1>9, PublisherType DEF Ends, OwnInv
    <2> QED
      BY <1>3, <2>1
  <1> QED
    BY <1>2, <1>5, <1>6, <1>7, <1>8, <1>9 DEF OwnInv

\* A publication that begins is new, and comes after those that are over.
LEMMA BeginOwn ==
  ASSUME TypeInv, OwnInv, NEW h \in Handler, NEW l \in Login, BeginPublish(h, l)
  PROVE  /\ OwnInv' /\ \A m \in Login : Known(m) \subseteq Known(m)'
         /\ \A g \in Handler : IsPublishing(g) => before'[job[g].value] = before[job[g].value]
  <1>0. started \in Nat /\ started' = started + 1 /\ started' \in Publication
    BY TimeAssumption DEF BeginPublish, TypeInv, TypeOK, Publication
  <1>1. /\ job'[h].pc = "store" /\ job'[h].value = started' /\ job'[h].login = l
        /\ \A g \in Handler \ {h} : job'[g] = job[g]
    BY <1>0, BeginPublishType DEF BeginPublish
  <1>2. /\ before'[started'] = done[l]
        /\ \A v \in Publication \ {started'} : before'[v] = before[v]
        /\ done' = done /\ superseded' = superseded
    BY <1>0 DEF BeginPublish, TypeInv, TypeOK
  <1>3. ~IsPublishing(h)
    BY DEF BeginPublish, Busy, IsPublishing
  <1>4. 1 .. started \subseteq 1 .. started' /\ started' \notin 1 .. started
        /\ started' \in 1 .. started'
    BY <1>0
  <1>5. ASSUME NEW g \in Handler, IsPublishing(g)
        PROVE  /\ g # h /\ job'[g] = job[g] /\ job[g].value # started'
               /\ before'[job[g].value] = before[job[g].value]
    BY <1>1, <1>2, <1>3, <1>4, <1>5, PublisherType DEF OwnInv
  <1>6. ASSUME NEW g \in Handler, IsPublishing(g)'
        PROVE  g = h \/ IsPublishing(g)
    BY <1>1, <1>6 DEF IsPublishing
  <1>7. ASSUME NEW m \in Login
        PROVE  Known(m) \subseteq Known(m)'
    BY <1>2, <1>5 DEF Known, Publishing, IsPublishing
  <1>8. ASSUME NEW g \in Handler, IsPublishing(g)'
        PROVE  /\ job'[g].value \in 1 .. started'
               /\ \A m \in Login : job'[g].value \notin done'[m]
               /\ before'[job'[g].value] \subseteq done'[job'[g].login]
    <2>1. CASE g = h
      BY <1>1, <1>2, <1>4, <2>1 DEF OwnInv
    <2>2. CASE IsPublishing(g)
      BY <1>2, <1>4, <1>5, <2>2 DEF OwnInv
    <2> QED
      BY <1>6, <1>8, <2>1, <2>2
  <1>9. ASSUME NEW g \in Handler, NEW k \in Handler, IsPublishing(g)', IsPublishing(k)', g # k
        PROVE  job'[g].value # job'[k].value
    BY <1>1, <1>5, <1>6, <1>9 DEF OwnInv
  <1> QED
    BY <1>2, <1>4, <1>5, <1>7, <1>8, <1>9 DEF OwnInv

\* What a step that ends nothing must leave alone.
LEMMA EndsNone ==
  ASSUME TypeInv, done' = done, before' = before, started' = started,
         superseded' = superseded, NEW h \in Handler,
         \A g \in Handler \ {h} : job'[g] = job[g],
         IsPublishing(h)' <=> IsPublishing(h),
         IsPublishing(h) => job'[h].value = job[h].value /\ job'[h].login = job[h].login
  PROVE  Ends({})
  <1>1. done' = DoneWith({})
    BY DoneWithNone
  <1> QED
    BY <1>1 DEF Ends, IsPublishing

\* A lookup only goes on to its next step, until it answers.
LEMMA LookupMoves ==
  ASSUME TypeInv, NEW h \in Handler,
         Restore(h) \/ ReadStamp(h) \/ ReadBody(h) \/ InsertRestored(h) \/ Lookup(h)
  PROVE  /\ job[h].pc \in {"restore", "stamp", "body", "insert", "lookup"}
         /\ job'[h].pc \in {"stamp", "body", "insert", "lookup", "reply"}
         /\ job'[h].now = job[h].now /\ job'[h].login = job[h].login
         /\ job'[h].avoid = job[h].avoid
         /\ \A g \in Handler \ {h} : job'[g] = job[g]
  <1>1. CASE Restore(h)
    BY <1>1, GotoType DEF Restore, Step
  <1>2. CASE ReadStamp(h)
    <2>1. stored[job[h].login] # NoRow => stored[job[h].login].stamp \in Time
      BY DEF TypeInv, TypeOK, Job, Row
    <2> QED
      BY <1>2, <2>1, GotoType, StampType DEF ReadStamp, Step
  <1>3. CASE ReadBody(h)
    <2>1. stored[job[h].login] # NoRow => stored[job[h].login].value \in Publication
      BY DEF TypeInv, TypeOK, Job, Row
    <2> QED
      BY <1>3, <2>1, GotoType, ValueType DEF ReadBody, Step
  <1>4. CASE InsertRestored(h)
    BY <1>4, GotoType DEF InsertRestored, Step
  <1>5. CASE Lookup(h)
    <2>1. job[h].now \in Time /\ job[h].login \in Login
      BY DEF TypeInv, TypeOK, Job
    <2>2. Expire(job[h].now)[job[h].login].value \in Publication \cup {None}
      BY <2>1, ExpireType DEF Entry, NoEntry
    <2> QED
      BY <1>5, <2>2, ValueType DEF Lookup
  <1> QED
    BY <1>1, <1>2, <1>3, <1>4, <1>5

\* Every step begins a publication, or ends those of some sessions.
LEMMA StepEnds ==
  ASSUME TypeInv, [Next]_vars
  PROVE  \/ \E h \in Handler, l \in Login : BeginPublish(h, l)
         \/ \E S \in SUBSET Handler : Ends(S)
  <1> USE DEF history
  <1>1. ASSUME job' = job, UNCHANGED history, started' = started
        PROVE  Ends({})
    <2>1. done' = DoneWith({})
      BY <1>1, DoneWithNone
    <2> QED
      BY <1>1, <2>1 DEF Ends, IsPublishing
  <1>2. ASSUME NEW h \in Handler, NEW l \in Login, BeginLookup(h, l)
        PROVE  Ends({})
    <2>1. job'[h].pc = "restore" /\ \A g \in Handler \ {h} : job'[g] = job[g]
      BY <1>2, BeginLookupType DEF BeginLookup
    <2> QED
      BY <1>2, <2>1, EndsNone DEF BeginLookup, IsPublishing, Busy
  <1>3. ASSUME NEW h \in Handler, StoreRecord(h) \/ Project(h)
        PROVE  Ends({})
    <2>1. IsPublishing(h)
      BY <1>3 DEF StoreRecord, Project, IsPublishing
    <2>2. /\ IsPublishing(h)' /\ job'[h].value = job[h].value /\ job'[h].login = job[h].login
          /\ \A g \in Handler \ {h} : job'[g] = job[g]
      BY <1>3, <2>1, GotoType, PublisherType DEF StoreRecord, Project, Step, IsPublishing
    <2> QED
      BY <1>3, <2>1, <2>2, EndsNone DEF StoreRecord, Project
  <1>4. ASSUME NEW h \in Handler, CacheRecord(h)
        PROVE  Ends({h})
    <2>1. /\ job'[h].pc = "idle" /\ \A g \in Handler \ {h} : job'[g] = job[g]
      BY <1>4, FinishType DEF CacheRecord
    <2>2. ASSUME NEW l \in Login
          PROVE  DoneWith({h})[l] = IF l = job[h].login THEN done[l] \cup {job[h].value}
                                                        ELSE done[l]
      <3>1. DoneWith({h})[l] =
              done[l] \cup {job[k].value : k \in {g \in {h} : Publishing(g, l)}}
        BY DEF DoneWith
      <3>2. CASE l = job[h].login
        <4>1. {g \in {h} : Publishing(g, l)} = {h}
          BY <1>4, <3>2 DEF CacheRecord, Publishing
        <4> QED
          BY <3>1, <3>2, <4>1
      <3>3. CASE l # job[h].login
        <4>1. {g \in {h} : Publishing(g, l)} = {}
          BY <3>3 DEF Publishing
        <4> QED
          BY <3>1, <3>3, <4>1
      <3> QED
        BY <3>2, <3>3
    <2>3. \A l \in Login : done'[l] = DoneWith({h})[l]
      BY <1>4, <2>2 DEF CacheRecord, TypeInv, TypeOK
    <2>4. done' = DoneWith({h})
      BY <1>4, <2>3 DEF CacheRecord, TypeInv, TypeOK, DoneWith
    <2> QED
      BY <1>4, <2>1, <2>4 DEF CacheRecord, Ends, IsPublishing
  <1>5. ASSUME NEW h \in Handler,
               Restore(h) \/ ReadStamp(h) \/ ReadBody(h) \/ InsertRestored(h) \/ Lookup(h)
        PROVE  Ends({})
    <2>1. ~IsPublishing(h) /\ ~IsPublishing(h)'
      BY <1>5, LookupMoves DEF IsPublishing
    <2>2. \A g \in Handler \ {h} : job'[g] = job[g]
      BY <1>5, LookupMoves
    <2> QED
      BY <1>5, <2>1, <2>2, EndsNone
         DEF Restore, ReadStamp, ReadBody, InsertRestored, Lookup
  <1>6. ASSUME NEW h \in Handler, Reply(h)
        PROVE  Ends({})
    <2>1. /\ job'[h].pc = "idle" /\ \A g \in Handler \ {h} : job'[g] = job[g]
      BY <1>6, FinishType DEF Reply
    <2> QED
      BY <1>6, <2>1, EndsNone DEF Reply, IsPublishing
  <1>7. ASSUME NEW h \in Handler, Fail(h)
        PROVE  Ends({h})
    <2>1. /\ job'[h].pc = "idle" /\ \A g \in Handler \ {h} : job'[g] = job[g]
      BY <1>7, FinishType DEF Fail
    <2> QED
      BY <1>7, <2>1 DEF Fail, Ends, IsPublishing
  <1>8. CASE Restart
    BY <1>8, NoJobType DEF Restart, Ends, IsPublishing
  <1>9. CASE Tick
    BY <1>1, <1>9 DEF Tick
  <1>10. ASSUME NEW l \in Login, RemoveAccount(l)
         PROVE  Ends({})
    BY <1>1, <1>10 DEF RemoveAccount
  <1>11. CASE UNCHANGED vars
    BY <1>1, <1>11 DEF vars
  <1> QED
    BY <1>2, <1>3, <1>4, <1>5, <1>6, <1>7, <1>8, <1>9, <1>10, <1>11 DEF Next

\* Publications keep their owners, and users what they know.
LEMMA OwnStep ==
  ASSUME TypeInv, OwnInv, [Next]_vars
  PROVE  OwnInv' /\ \A l \in Login : Known(l) \subseteq Known(l)'
  BY StepEnds, EndsOwn, BeginOwn

\* What is not over yet was not superseded.
LEMMA NotOver ==
  ASSUME OwnInv, NEW h \in Handler, IsPublishing(h)
  PROVE  job[h].value \notin superseded
  BY DEF OwnInv

\* What a session publishes is known of its user.
LEMMA PublishedKnown ==
  ASSUME TypeInv, NEW h \in Handler, IsPublishing(h)
  PROVE  job[h].value \in Known(job[h].login)
  BY DEF Known, Publishing, IsPublishing

\* The database, the cache and the restores hold publications of their user.
LEMMA KnownStep ==
  ASSUME TypeInv, TypeInv', OwnInv, KnownInv, [Next]_vars
  PROVE  KnownInv'
  <1> USE DEF history
  <1>1. \A l \in Login : Known(l) \subseteq Known(l)'
    BY OwnStep
  <1>2. ASSUME stored' = stored
        PROVE  \A l \in Login : RowKnown(l)'
    BY <1>1, <1>2 DEF KnownInv, RowKnown
  <1>3. ASSUME NEW now, cache' = Expire(now) \/ cache' = cache
        PROVE  \A l \in Login : EntryKnown(l)'
    BY <1>1, <1>3 DEF KnownInv, EntryKnown, Expire
  <1>4. ASSUME NEW now, NEW l \in Login, NEW v \in Known(l), NEW e,
               cache' = [Expire(now) EXCEPT ![l] = [value |-> v, expires |-> e]]
        PROVE  \A m \in Login : EntryKnown(m)'
    <2>1. cache'[l].value = v
      BY <1>4 DEF Expire
    <2>2. \A m \in Login \ {l} : cache'[m] = NoEntry \/ cache'[m] = cache[m]
      BY <1>4 DEF Expire
    <2> QED
      BY <1>1, <2>1, <2>2 DEF KnownInv, EntryKnown
  <1>5. ASSUME NEW h \in Handler, job'[h].pc # "insert",
               \A g \in Handler \ {h} : job'[g] = job[g]
        PROVE  \A g \in Handler : RestoreKnown(g)'
    BY <1>1, <1>5, PublisherType DEF KnownInv, RestoreKnown
  <1>6. ASSUME NEW h \in Handler
        PROVE  job[h].login \in Login
    BY PublisherType
  <1>7. ASSUME job' = job
        PROVE  \A g \in Handler : RestoreKnown(g)'
    BY <1>1, <1>6, <1>7 DEF KnownInv, RestoreKnown
  <1>8. ASSUME NEW h \in Handler, NEW l \in Login, BeginPublish(h, l)
        PROVE  KnownInv'
    <2>1. started' \in Publication
      BY <1>8, TimeAssumption DEF BeginPublish, TypeInv, TypeOK, Publication
    <2>2. job'[h].pc = "store" /\ \A g \in Handler \ {h} : job'[g] = job[g]
      BY <1>8, <2>1, BeginPublishType DEF BeginPublish
    <2> QED
      BY <1>2, <1>3, <1>5, <1>8, <2>2 DEF BeginPublish, KnownInv
  <1>9. ASSUME NEW h \in Handler, NEW l \in Login, BeginLookup(h, l)
        PROVE  KnownInv'
    <2>1. job'[h].pc = "restore" /\ \A g \in Handler \ {h} : job'[g] = job[g]
      BY <1>9, BeginLookupType DEF BeginLookup
    <2> QED
      BY <1>2, <1>3, <1>5, <1>9, <2>1 DEF BeginLookup, KnownInv
  <1>10. ASSUME NEW h \in Handler, StoreRecord(h)
         PROVE  KnownInv'
    <2>1. IsPublishing(h) /\ job[h].value \in Publication
      BY <1>10, PublisherType DEF StoreRecord, IsPublishing
    <2>2. job'[h].pc = "project" /\ \A g \in Handler \ {h} : job'[g] = job[g]
      BY <1>10, <2>1, GotoType DEF StoreRecord, Step
    <2>3. /\ stored'[job[h].login].value = job[h].value
          /\ \A l \in Login \ {job[h].login} : stored'[l] = stored[l]
      BY <1>6, <1>10 DEF StoreRecord, TypeInv, TypeOK
    <2>4. \A l \in Login : RowKnown(l)'
      BY <1>1, <1>6, <2>1, <2>3, PublishedKnown DEF KnownInv, RowKnown
    <2> QED
      BY <1>3, <1>5, <1>10, <2>2, <2>4 DEF StoreRecord, KnownInv
  <1>11. ASSUME NEW h \in Handler, Project(h)
         PROVE  KnownInv'
    <2>1. job'[h].pc = "cache" /\ \A g \in Handler \ {h} : job'[g] = job[g]
      BY <1>11, GotoType, PublisherType DEF Project, Step, IsPublishing
    <2> QED
      BY <1>2, <1>3, <1>5, <1>11, <2>1 DEF Project, KnownInv
  <1>12. ASSUME NEW h \in Handler, CacheRecord(h)
         PROVE  KnownInv'
    <2>1. job[h].value \in Known(job[h].login)
      BY <1>12, PublishedKnown DEF CacheRecord, IsPublishing
    <2>2. job'[h].pc = "idle" /\ \A g \in Handler \ {h} : job'[g] = job[g]
      BY <1>12, FinishType DEF CacheRecord
    <2>3. \A l \in Login : EntryKnown(l)'
      BY <1>3, <1>4, <1>6, <1>12, <2>1 DEF CacheRecord
    <2> QED
      BY <1>2, <1>5, <1>12, <2>2, <2>3 DEF CacheRecord, KnownInv
  <1>13. ASSUME NEW h \in Handler, Restore(h)
         PROVE  KnownInv'
    <2>1. job'[h].pc # "insert" /\ \A g \in Handler \ {h} : job'[g] = job[g]
      BY <1>13, GotoType DEF Restore, Step
    <2> QED
      BY <1>2, <1>3, <1>5, <1>13, <2>1 DEF Restore, KnownInv
  <1>14. ASSUME NEW h \in Handler, ReadStamp(h)
         PROVE  KnownInv'
    <2>1. job'[h].pc # "insert" /\ \A g \in Handler \ {h} : job'[g] = job[g]
      <3>1. stored[job[h].login] # NoRow => stored[job[h].login].stamp \in Time
        BY DEF TypeInv, TypeOK, Job, Row
      <3> QED
        BY <1>14, <3>1, GotoType, StampType DEF ReadStamp, Step
    <2> QED
      BY <1>2, <1>3, <1>5, <1>14, <2>1 DEF ReadStamp, KnownInv
  <1>15. ASSUME NEW h \in Handler, ReadBody(h)
         PROVE  KnownInv'
    <2> DEFINE row == stored[job[h].login]
    <2>1. ASSUME row # NoRow,
                 job' = [job EXCEPT ![h] = [@ EXCEPT !.pc = "insert", !.value = row.value]]
          PROVE  \A g \in Handler : RestoreKnown(g)'
      <3>1. row.value \in Publication /\ row.value \in Known(job[h].login)
        BY <1>6, <2>1 DEF KnownInv, RowKnown, TypeInv, TypeOK, Row
      <3>2. /\ job'[h].value = row.value /\ job'[h].login = job[h].login
            /\ \A g \in Handler \ {h} : job'[g] = job[g]
        BY <2>1, <3>1, ValueType
      <3> QED
        BY <1>1, <1>6, <3>1, <3>2 DEF KnownInv, RestoreKnown
    <2>2. ASSUME Goto(h, "lookup")
          PROVE  \A g \in Handler : RestoreKnown(g)'
      BY <1>5, <2>2, GotoType DEF Step
    <2> QED
      BY <1>2, <1>3, <1>15, <2>1, <2>2 DEF ReadBody, KnownInv
  <1>16. ASSUME NEW h \in Handler, InsertRestored(h)
         PROVE  KnownInv'
    <2>1. job[h].value \in Known(job[h].login)
      BY <1>16 DEF InsertRestored, KnownInv, RestoreKnown
    <2>2. job'[h].pc = "lookup" /\ \A g \in Handler \ {h} : job'[g] = job[g]
      BY <1>16, GotoType DEF InsertRestored, Step
    <2>3. \A l \in Login : EntryKnown(l)'
      BY <1>3, <1>4, <1>6, <1>16, <2>1 DEF InsertRestored
    <2> QED
      BY <1>2, <1>5, <1>16, <2>2, <2>3 DEF InsertRestored, KnownInv
  <1>17. ASSUME NEW h \in Handler, Lookup(h)
         PROVE  KnownInv'
    <2>1. job'[h].pc # "insert" /\ \A g \in Handler \ {h} : job'[g] = job[g]
      BY <1>17 DEF Lookup, TypeInv, TypeOK, Job
    <2> QED
      BY <1>2, <1>3, <1>5, <1>17, <2>1 DEF Lookup, KnownInv
  <1>18. ASSUME NEW h \in Handler, Reply(h) \/ Fail(h)
         PROVE  KnownInv'
    <2>1. job'[h].pc = "idle" /\ \A g \in Handler \ {h} : job'[g] = job[g]
      BY <1>18, FinishType DEF Reply, Fail
    <2> QED
      BY <1>2, <1>3, <1>5, <1>18, <2>1 DEF Reply, Fail, KnownInv
  <1>19. ASSUME NEW l \in Login, RemoveAccount(l)
         PROVE  KnownInv'
    <2>1. \A m \in Login : stored'[m] = stored[m] \/ stored'[m] = NoRow
      BY <1>19 DEF RemoveAccount, TypeInv, TypeOK
    <2>2. \A m \in Login : RowKnown(m)'
      BY <1>1, <2>1 DEF KnownInv, RowKnown
    <2> QED
      BY <1>3, <1>7, <1>19, <2>2 DEF RemoveAccount, KnownInv
  <1>20. CASE Restart
    BY <1>2, <1>20, NoJobType DEF Restart, KnownInv, EntryKnown, RestoreKnown
  <1>21. CASE Tick \/ UNCHANGED vars
    BY <1>2, <1>3, <1>7, <1>21 DEF Tick, vars, KnownInv
  <1> QED
    BY <1>8, <1>9, <1>10, <1>11, <1>12, <1>13, <1>14, <1>15, <1>16, <1>17, <1>18,
       <1>19, <1>20, <1>21 DEF Next

(***************************************************************************)
(* A request is answered within MaxDelay of its arrival; that is what      *)
(* keeps two of them that overlap from being a lease apart.                *)
(***************************************************************************)
InTime(h) == Busy(h) => job[h].now <= clock /\ clock <= job[h].now + MaxDelay

(***************************************************************************)
(* Neither the database nor the cache holds what was superseded, nor the   *)
(* database what will be when a session that has stored its record puts it *)
(* in the cache.                                                           *)
(***************************************************************************)
Settled(l) ==
  /\ stored[l].value \notin superseded
  /\ cache[l].value \notin superseded
  /\ \A g \in Handler : job[g].pc \in {"project", "cache"} /\ job[g].login = l =>
       stored[l].value \notin before[job[g].value]

(***************************************************************************)
(* A restore that read a record which was superseded since finds the newer *)
(* one in the cache, under a lease that outlives the restore.              *)
(***************************************************************************)
Guarded(h) ==
  LET j == job[h] IN
  /\ j.avoid \subseteq superseded
  /\ j.pc = "reply" => j.value \notin j.avoid
  /\ j.pc = "insert" /\ j.value \in superseded =>
       cache[j.login] # NoEntry /\ j.now + MaxDelay < cache[j.login].expires

VisibleInv ==
  /\ \A l \in Login : Settled(l)
  /\ \A h \in Handler : Guarded(h) /\ InTime(h)

\* What the visibility of publications rests on holds at the start.
LEMMA VisibleInit == Init => OwnInv /\ KnownInv /\ VisibleInv
  <1> SUFFICES ASSUME Init PROVE OwnInv /\ KnownInv /\ VisibleInv
    OBVIOUS
  <1>1. \A h \in Handler : job[h].pc = "idle" /\ job[h].avoid = {}
    BY NoJobType DEF Init
  <1>2. OwnInv
    BY <1>1 DEF Init, OwnInv, IsPublishing
  <1>3. KnownInv
    BY <1>1 DEF Init, KnownInv, RowKnown, EntryKnown, RestoreKnown
  <1>4. \A l \in Login : Settled(l)
    BY <1>1 DEF Init, Settled
  <1>5. \A h \in Handler : Guarded(h) /\ InTime(h)
    BY <1>1 DEF Init, Guarded, InTime, Busy
  <1> QED
    BY <1>2, <1>3, <1>4, <1>5 DEF VisibleInv

\* Requests are in time: the clock waits for them.
LEMMA InTimeStep ==
  ASSUME TypeInv, TypeInv', \A h \in Handler : InTime(h), [Next]_vars
  PROVE  \A h \in Handler : InTime(h)'
  <1> USE DEF history
  <1>1. /\ clock \in Nat /\ clock' \in Nat /\ MaxDelay \in Nat
        /\ \A h \in Handler : job[h].now \in Nat
    BY TimeAssumption DEF TypeInv, TypeOK, Job, Time
  <1>2. ASSUME clock' = clock, NEW h \in Handler,
               \A g \in Handler \ {h} : job'[g] = job[g],
               \/ ~Busy(h)' \/ job'[h].now = clock
               \/ Busy(h) /\ job'[h].now = job[h].now
        PROVE  \A g \in Handler : InTime(g)'
    <2>1. InTime(h)'
      BY <1>1, <1>2 DEF InTime, Busy
    <2>2. \A g \in Handler \ {h} : InTime(g)'
      BY <1>2 DEF InTime, Busy
    <2> QED
      BY <2>1, <2>2
  <1>3. CASE Tick
    BY <1>1, <1>3 DEF Tick, InTime, Busy
  <1>4. ASSUME NEW h \in Handler, NEW l \in Login, BeginPublish(h, l)
        PROVE  \A g \in Handler : InTime(g)'
    <2>1. started' \in Publication
      BY <1>4, TimeAssumption DEF BeginPublish, TypeInv, TypeOK, Publication
    <2>2. job'[h].now = clock /\ \A g \in Handler \ {h} : job'[g] = job[g]
      BY <1>4, <2>1, BeginPublishType DEF BeginPublish
    <2> QED
      BY <1>2, <1>4, <2>2 DEF BeginPublish
  <1>5. ASSUME NEW h \in Handler, NEW l \in Login, BeginLookup(h, l)
        PROVE  \A g \in Handler : InTime(g)'
    <2>1. job'[h].now = clock /\ \A g \in Handler \ {h} : job'[g] = job[g]
      BY <1>5, BeginLookupType DEF BeginLookup
    <2> QED
      BY <1>2, <1>5, <2>1 DEF BeginLookup
  <1>6. ASSUME NEW h \in Handler, StoreRecord(h) \/ Project(h)
        PROVE  \A g \in Handler : InTime(g)'
    <2>1. Busy(h) /\ job'[h].now = job[h].now /\ \A g \in Handler \ {h} : job'[g] = job[g]
      BY <1>6, GotoType, PublisherType DEF StoreRecord, Project, Step, IsPublishing, Busy
    <2> QED
      BY <1>2, <1>6, <2>1 DEF StoreRecord, Project
  <1>7. ASSUME NEW h \in Handler,
               Restore(h) \/ ReadStamp(h) \/ ReadBody(h) \/ InsertRestored(h) \/ Lookup(h)
        PROVE  \A g \in Handler : InTime(g)'
    <2>1. Busy(h) /\ job'[h].now = job[h].now /\ \A g \in Handler \ {h} : job'[g] = job[g]
      BY <1>7, LookupMoves DEF Busy
    <2> QED
      BY <1>2, <1>7, <2>1 DEF Restore, ReadStamp, ReadBody, InsertRestored, Lookup
  <1>8. ASSUME NEW h \in Handler, CacheRecord(h) \/ Reply(h) \/ Fail(h)
        PROVE  \A g \in Handler : InTime(g)'
    <2>1. ~Busy(h)' /\ \A g \in Handler \ {h} : job'[g] = job[g]
      BY <1>8, FinishType DEF CacheRecord, Reply, Fail, Busy
    <2> QED
      BY <1>2, <1>8, <2>1 DEF CacheRecord, Reply, Fail
  <1>9. CASE Restart
    BY <1>9, NoJobType DEF Restart, InTime, Busy
  <1>10. CASE \/ \E l \in Login : RemoveAccount(l)
              \/ UNCHANGED vars
    BY <1>10 DEF RemoveAccount, vars, InTime, Busy
  <1> QED
    BY <1>3, <1>4, <1>5, <1>6, <1>7, <1>8, <1>9, <1>10 DEF Next

\* The lease that guards a restore does not end at the time of another request.
LEMMA LeaseOutlives ==
  ASSUME TypeInv, NEW h \in Handler, NEW g \in Handler, InTime(h), InTime(g),
         Busy(h), Busy(g), NEW l \in Login,
         cache[l] # NoEntry, job[g].now + MaxDelay < cache[l].expires
  PROVE  Expire(job[h].now)[l] = cache[l]
  <1>1. /\ job[h].now \in Nat /\ job[g].now \in Nat /\ clock \in Nat /\ MaxDelay \in Nat
        /\ cache[l].expires \in Nat
    BY TimeAssumption DEF TypeInv, TypeOK, Job, Time, Entry
  <1>2. job[h].now <= job[g].now + MaxDelay
    BY <1>1 DEF InTime
  <1> QED
    BY <1>1, <1>2 DEF Expire

\* A lease that begins now outlives every restore that is under way.
LEMMA NewLeaseOutlives ==
  ASSUME TypeInv, NEW h \in Handler, NEW g \in Handler, InTime(h), InTime(g),
         Busy(h), Busy(g)
  PROVE  job[g].now + MaxDelay < job[h].now + TTL
  <1>1. /\ job[h].now \in Nat /\ job[g].now \in Nat /\ clock \in Nat /\ MaxDelay \in Nat
        /\ TTL \in Nat /\ 2 * MaxDelay < TTL
    BY TimeAssumption DEF TypeInv, TypeOK, Job, Time
  <1> QED
    BY <1>1 DEF InTime

\* The cache keeps the guards through expiry; the record of another user comes on top.
LEMMA GuardKept ==
  ASSUME TypeInv, VisibleInv, NEW h \in Handler, Busy(h), NEW g \in Handler,
         job'[g] = job[g], superseded' = superseded,
         job[g].pc = "insert" /\ job[g].value \in superseded =>
           cache'[job[g].login] = Expire(job[h].now)[job[g].login]
  PROVE  Guarded(g)'
  <1>1. Guarded(g) /\ InTime(g) /\ InTime(h) /\ job[g].login \in Login
    BY PublisherType DEF VisibleInv
  <1>2. ASSUME job[g].pc = "insert", job[g].value \in superseded
        PROVE  cache'[job[g].login] = cache[job[g].login]
    BY <1>1, <1>2, LeaseOutlives DEF Guarded, Busy
  <1> QED
    BY <1>1, <1>2 DEF Guarded

\* Expiry puts nothing in the cache.
LEMMA ExpirySettled ==
  ASSUME TypeInv, NEW now, NEW l \in Login, cache[l].value \notin superseded
  PROVE  Expire(now)[l].value \notin superseded
  BY DEF Expire, TypeInv, TypeOK, NoEntry, None, Publication

(***************************************************************************)
(* What a publication supersedes was over when it began: the publications  *)
(* of its own user, none of which the database or the cache holds by then. *)
(***************************************************************************)
LEMMA CachedSettles ==
  ASSUME TypeInv, OwnInv, KnownInv, VisibleInv,
         NEW h \in Handler, CacheRecord(h), NEW l \in Login
  PROVE  Settled(l)'
  <1> DEFINE v == job[h].value
             m == job[h].login
  <1>1. IsPublishing(h) /\ m \in Login /\ v \in Publication
    BY PublisherType DEF CacheRecord, IsPublishing
  <1>2. before[v] \subseteq done[m] /\ v \notin done[m] /\ v \notin superseded
    BY <1>1, NotOver DEF OwnInv
  <1>3. before[v] \subseteq Known(m) /\ v \notin before[v]
    BY <1>2 DEF Known
  <1>4. Settled(l) /\ RowKnown(l) /\ EntryKnown(l)
    BY DEF VisibleInv, KnownInv
  <1>5. superseded \subseteq superseded' /\ superseded' \subseteq superseded \cup before[v]
    BY DEF CacheRecord
  <1>6. None \notin superseded /\ None \notin before[v]
    BY <1>1 DEF TypeInv, TypeOK, None, Publication
  <1>7. stored[l].value \notin before[v]
    <2>1. CASE l = m
      BY <1>4, <2>1 DEF Settled, CacheRecord
    <2>2. CASE l # m
      BY <1>1, <1>3, <1>4, <1>6, <2>2, KnownApart DEF RowKnown, NoRow
    <2> QED
      BY <2>1, <2>2
  <1>8. cache'[l].value \notin superseded'
    <2>1. CASE l = m /\ cache' = [Expire(job[h].now) EXCEPT ![m] =
                                    [value |-> v, expires |-> job[h].now + TTL]]
      BY <1>2, <1>3, <1>5, <2>1 DEF Expire
    <2>2. CASE superseded' = superseded /\ cache' = Expire(job[h].now)
      BY <1>4, <2>2, ExpirySettled DEF Settled
    <2>3. CASE l # m /\ cache' = [Expire(job[h].now) EXCEPT ![m] =
                                    [value |-> v, expires |-> job[h].now + TTL]]
      <3>1. cache'[l] = Expire(job[h].now)[l]
        BY <2>3 DEF Expire
      <3>2. cache'[l].value \notin superseded
        BY <1>4, <3>1, ExpirySettled DEF Settled
      <3>3. cache'[l] = NoEntry \/ cache'[l] = cache[l]
        BY <3>1 DEF Expire
      <3>4. cache'[l].value \notin before[v]
        BY <1>1, <1>3, <1>4, <1>6, <2>3, <3>3, KnownApart DEF EntryKnown, NoEntry
      <3> QED
        BY <1>5, <3>2, <3>4
    <2> QED
      BY <2>1, <2>2, <2>3 DEF CacheRecord
  <1>9. job'[h].pc = "idle" /\ \A g \in Handler \ {h} : job'[g] = job[g]
    BY FinishType DEF CacheRecord
  <1>10. stored' = stored /\ before' = before
    BY DEF CacheRecord
  <1> HIDE DEF v
  <1>11. stored'[l].value \notin superseded'
    BY <1>4, <1>5, <1>7, <1>10 DEF Settled
  <1>12. \A g \in Handler : job'[g].pc \in {"project", "cache"} /\ job'[g].login = l =>
           stored'[l].value \notin before'[job'[g].value]
    BY <1>4, <1>9, <1>10 DEF Settled
  <1> QED
    BY <1>8, <1>11, <1>12 DEF Settled

(***************************************************************************)
(* A restore that read a record which is superseded now is of the same     *)
(* user, and finds the new one in the cache.                               *)
(***************************************************************************)
LEMMA CachedGuards ==
  ASSUME TypeInv, OwnInv, KnownInv, VisibleInv,
         NEW h \in Handler, CacheRecord(h), NEW g \in Handler
  PROVE  Guarded(g)'
  <1> DEFINE v == job[h].value
             m == job[h].login
  <1>1. /\ IsPublishing(h) /\ m \in Login /\ Busy(h) /\ job[g].login \in Login
        /\ before[v] \subseteq Known(m)
    BY PublisherType DEF CacheRecord, IsPublishing, Busy, OwnInv, Known
  <1>2. /\ job'[h].pc = "idle" /\ job'[h].avoid = {}
        /\ \A k \in Handler \ {h} : job'[k] = job[k]
    BY FinishType DEF CacheRecord
  <1>3. CASE g = h
    BY <1>2, <1>3 DEF Guarded
  <1>4. CASE g # h /\ superseded' = superseded /\ cache' = Expire(job[h].now)
    BY <1>1, <1>2, <1>4, GuardKept
  <1>5. CASE /\ g # h
             /\ superseded' = superseded \cup before[v]
             /\ cache' = [Expire(job[h].now) EXCEPT ![m] =
                            [value |-> v, expires |-> job[h].now + TTL]]
    <2>1. Guarded(g) /\ InTime(g) /\ InTime(h) /\ RestoreKnown(g) /\ job'[g] = job[g]
      BY <1>2, <1>5 DEF VisibleInv, KnownInv
    <2>2. ASSUME job[g].pc = "insert", job[g].value \in superseded'
          PROVE  /\ cache'[job[g].login] # NoEntry
                 /\ job[g].now + MaxDelay < cache'[job[g].login].expires
      <3>1. Busy(g)
        BY <2>2 DEF Busy
      <3>2. CASE job[g].login = m
        <4>1. /\ cache'[m].value = v /\ cache'[m].expires = job[h].now + TTL
          BY <1>1, <1>5 DEF Expire
        <4>2. v # None
          BY <1>1, PublisherType DEF None, Publication
        <4> QED
          BY <1>1, <2>1, <3>1, <3>2, <4>1, <4>2, NewLeaseOutlives DEF NoEntry
      <3>3. CASE job[g].login # m
        <4>1. job[g].value \in superseded
          BY <1>1, <1>5, <2>1, <2>2, <3>3, KnownApart DEF RestoreKnown
        <4>2. cache'[job[g].login] = Expire(job[h].now)[job[g].login]
          BY <1>1, <1>5, <3>3 DEF Expire
        <4>3. cache'[job[g].login] = cache[job[g].login]
          BY <1>1, <2>1, <2>2, <3>1, <4>1, <4>2, LeaseOutlives DEF Guarded
        <4> QED
          BY <2>1, <2>2, <4>1, <4>3 DEF Guarded
      <3> QED
        BY <3>2, <3>3
    <2> QED
      BY <1>5, <2>1, <2>2 DEF Guarded
  <1> QED
    BY <1>3, <1>4, <1>5 DEF CacheRecord

\* Sessions and time keep what the visibility of publications rests on.
LEMMA VisibleStep ==
  ASSUME TypeInv, TypeInv', OwnInv, KnownInv, VisibleInv, [Next]_vars
  PROVE  VisibleInv'
  <1> USE DEF history
  <1>a. \A h \in Handler : InTime(h)'
    BY InTimeStep DEF VisibleInv
  <1>b. ASSUME NEW h \in Handler
        PROVE  Guarded(h) /\ InTime(h) /\ job[h].login \in Login
    BY PublisherType DEF VisibleInv
  <1>c. ASSUME NEW l \in Login
        PROVE  Settled(l)
    BY DEF VisibleInv
  <1>d. ASSUME NEW h \in Handler, cache' = cache, superseded' = superseded, job'[h] = job[h]
        PROVE  Guarded(h)'
    BY <1>b, <1>d DEF Guarded
  <1>e. ASSUME \A l \in Login : Settled(l)', \A h \in Handler : Guarded(h)'
        PROVE  VisibleInv'
    BY <1>a, <1>e DEF VisibleInv
  (* One session goes on, beside what the publications and the rows are. *)
  <1>f. ASSUME stored' = stored, superseded' = superseded, before' = before, NEW h \in Handler,
               \A g \in Handler \ {h} : job'[g] = job[g],
               \/ job'[h].pc \notin {"project", "cache"}
               \/ /\ job[h].pc \in {"project", "cache"}
                  /\ job'[h].value = job[h].value /\ job'[h].login = job[h].login,
               \A l \in Login : cache'[l].value \notin superseded'
        PROVE  \A l \in Login : Settled(l)'
    BY <1>c, <1>f DEF Settled
  <1>g. ASSUME cache' = cache, superseded' = superseded
        PROVE  \A l \in Login : cache'[l].value \notin superseded'
    BY <1>c, <1>g DEF Settled
  <1>h. ASSUME NEW now, cache' = Expire(now), superseded' = superseded
        PROVE  \A l \in Login : cache'[l].value \notin superseded'
    BY <1>c, <1>h, ExpirySettled DEF Settled
  <1>i. ASSUME NEW h \in Handler, job'[h].avoid = job[h].avoid, superseded' = superseded,
               job'[h].pc \notin {"insert", "reply"}
        PROVE  Guarded(h)'
    BY <1>b, <1>i DEF Guarded
  <1>1. CASE Tick
    BY <1>1, <1>c, <1>d, <1>e DEF Tick, Settled
  <1>2. ASSUME NEW h \in Handler, NEW l \in Login, BeginPublish(h, l)
        PROVE  VisibleInv'
    <2>1. started' \in Publication
      BY <1>2, TimeAssumption DEF BeginPublish, TypeInv, TypeOK, Publication
    <2>2. /\ job'[h].pc = "store" /\ job'[h].avoid = {}
          /\ \A g \in Handler \ {h} : job'[g] = job[g]
      BY <1>2, <2>1, BeginPublishType DEF BeginPublish
    <2>3. \A g \in Handler : IsPublishing(g) => before'[job[g].value] = before[job[g].value]
      BY <1>2, BeginOwn
    <2>4. stored' = stored /\ cache' = cache /\ superseded' = superseded
      BY <1>2 DEF BeginPublish
    <2>5. \A m \in Login : Settled(m)'
      BY <1>c, <2>2, <2>3, <2>4 DEF Settled, IsPublishing
    <2>6. Guarded(h)'
      BY <2>2 DEF Guarded
    <2> QED
      BY <1>d, <1>e, <2>2, <2>4, <2>5, <2>6
  <1>3. ASSUME NEW h \in Handler, NEW l \in Login, BeginLookup(h, l)
        PROVE  VisibleInv'
    <2>1. /\ job'[h].pc = "restore" /\ job'[h].avoid = superseded
          /\ \A g \in Handler \ {h} : job'[g] = job[g]
      BY <1>3, BeginLookupType DEF BeginLookup
    <2>2. Guarded(h)'
      BY <1>3, <2>1 DEF Guarded, BeginLookup
    <2> QED
      BY <1>3, <1>d, <1>e, <1>f, <1>g, <2>1, <2>2 DEF BeginLookup
  <1>4. ASSUME NEW h \in Handler, StoreRecord(h)
        PROVE  VisibleInv'
    <2> DEFINE v == job[h].value
               m == job[h].login
    <2>1. IsPublishing(h) /\ v \in Publication /\ m \in Login /\ job[h].pc = "store"
      BY <1>4, PublisherType DEF StoreRecord, IsPublishing
    <2>2. /\ job'[h].pc = "project" /\ job'[h].value = v /\ job'[h].login = m
          /\ job'[h].avoid = job[h].avoid
          /\ \A g \in Handler \ {h} : job'[g] = job[g]
      BY <1>4, <2>1, GotoType DEF StoreRecord, Step
    <2>3. /\ stored'[m].value = v
          /\ \A l \in Login \ {m} : stored'[l] = stored[l]
      BY <1>4, <2>1 DEF StoreRecord, TypeInv, TypeOK
    <2>4. cache' = cache /\ before' = before /\ superseded' = superseded
      BY <1>4 DEF StoreRecord
    <2>5. v \notin superseded
      BY <2>1, NotOver
    <2> HIDE DEF v, m
    <2>6. ASSUME NEW g \in Handler, job'[g].pc \in {"project", "cache"}
          PROVE  v \notin before[job'[g].value]
      <3>1. IsPublishing(g) /\ job'[g].value = job[g].value
        BY <2>1, <2>2, <2>6 DEF IsPublishing, v
      <3>2. before[job[g].value] \subseteq done[job[g].login]
        BY <3>1 DEF OwnInv
      <3>3. v \notin done[job[g].login]
        BY <1>b, <2>1 DEF OwnInv, v
      <3> QED
        BY <3>1, <3>2, <3>3
    <2>7. ASSUME NEW l \in Login
          PROVE  Settled(l)'
      <3>1. CASE l = m
        BY <1>c, <2>3, <2>4, <2>5, <2>6, <3>1 DEF Settled
      <3>2. CASE l # m
        BY <1>c, <2>2, <2>3, <2>4, <3>2 DEF Settled
      <3> QED
        BY <3>1, <3>2
    <2> QED
      BY <1>d, <1>e, <1>i, <2>2, <2>4, <2>7
  <1>5. ASSUME NEW h \in Handler, Project(h)
        PROVE  VisibleInv'
    <2>1. /\ job[h].pc = "project" /\ job'[h].pc = "cache" /\ job'[h].value = job[h].value
          /\ job'[h].login = job[h].login /\ job'[h].avoid = job[h].avoid
          /\ \A g \in Handler \ {h} : job'[g] = job[g]
      BY <1>5, GotoType, PublisherType DEF Project, Step, IsPublishing
    <2> QED
      BY <1>5, <1>d, <1>e, <1>f, <1>g, <1>i, <2>1 DEF Project
  <1>6. ASSUME NEW h \in Handler, CacheRecord(h)
        PROVE  VisibleInv'
    BY <1>6, <1>e, CachedSettles, CachedGuards
  <1>7. ASSUME NEW h \in Handler, Restore(h) \/ Lookup(h)
        PROVE  /\ \A l \in Login : Settled(l)'
               /\ \A g \in Handler \ {h} : Guarded(g)'
    <2>1. /\ cache' = Expire(job[h].now) /\ stored' = stored /\ before' = before
          /\ superseded' = superseded
      BY <1>7 DEF Restore, Lookup
    <2>2. /\ job'[h].pc \in {"stamp", "body", "insert", "lookup", "reply"} /\ Busy(h)
          /\ \A g \in Handler \ {h} : job'[g] = job[g]
      BY <1>7, LookupMoves DEF Busy
    <2>3. \A l \in Login : Settled(l)'
      BY <1>f, <1>h, <2>1, <2>2
    <2> QED
      BY <2>1, <2>2, <2>3, GuardKept
  <1>8. ASSUME NEW h \in Handler, Restore(h)
        PROVE  VisibleInv'
    <2>1. job'[h].pc \notin {"insert", "reply"} /\ job'[h].avoid = job[h].avoid
      BY <1>8, GotoType DEF Restore, Step
    <2>2. Guarded(h)'
      BY <1>8, <1>i, <2>1 DEF Restore
    <2> QED
      BY <1>7, <1>8, <1>e, <2>2
  <1>9. ASSUME NEW h \in Handler, Lookup(h)
        PROVE  VisibleInv'
    <2> DEFINE value == Expire(job[h].now)[job[h].login].value
    <2>1. value \in Publication \cup {None} /\ value \notin superseded
      <3>1. job[h].now \in Time
        BY DEF TypeInv, TypeOK, Job
      <3>2. value \notin superseded
        BY <1>b, <1>c, ExpirySettled DEF Settled
      <3> QED
        BY <1>b, <3>1, <3>2, ExpireType DEF Entry, NoEntry
    <2> HIDE DEF value
    <2>2. /\ job'[h].pc = "reply" /\ job'[h].value = value /\ job'[h].avoid = job[h].avoid
      BY <1>9, <2>1, ValueType DEF Lookup, value
    <2>3. Guarded(h)'
      BY <1>9, <1>b, <2>1, <2>2 DEF Lookup, Guarded
    <2> QED
      BY <1>7, <1>9, <1>e, <2>3
  <1>10. ASSUME NEW h \in Handler, ReadStamp(h) \/ ReadBody(h)
         PROVE  /\ \A l \in Login : Settled(l)'
                /\ \A g \in Handler \ {h} : Guarded(g)'
    <2>1. UNCHANGED <<cache, stored, before, superseded>>
      BY <1>10 DEF ReadStamp, ReadBody
    <2>2. /\ job'[h].pc \in {"stamp", "body", "insert", "lookup", "reply"}
          /\ \A g \in Handler \ {h} : job'[g] = job[g]
      BY <1>10, LookupMoves
    <2> QED
      BY <1>d, <1>f, <1>g, <2>1, <2>2
  <1>11. ASSUME NEW h \in Handler, ReadStamp(h)
         PROVE  VisibleInv'
    <2>1. stored[job[h].login] # NoRow => stored[job[h].login].stamp \in Time
      BY <1>b DEF TypeInv, TypeOK, Row
    <2>2. job'[h].pc \notin {"insert", "reply"} /\ job'[h].avoid = job[h].avoid
      BY <1>11, <2>1, GotoType, StampType DEF ReadStamp, Step
    <2>3. Guarded(h)'
      BY <1>11, <1>i, <2>2 DEF ReadStamp
    <2> QED
      BY <1>10, <1>11, <1>e, <2>3
  <1>12. ASSUME NEW h \in Handler, ReadBody(h)
         PROVE  VisibleInv'
    <2> DEFINE row == stored[job[h].login]
    <2>1. ASSUME row # NoRow,
                 job' = [job EXCEPT ![h] = [@ EXCEPT !.pc = "insert", !.value = row.value]]
          PROVE  Guarded(h)'
      <3>1. row.value \in Publication /\ row.value \notin superseded
        BY <1>b, <1>c, <2>1 DEF Settled, TypeInv, TypeOK, Row
      <3>2. job'[h].pc = "insert" /\ job'[h].value = row.value /\ job'[h].avoid = job[h].avoid
        BY <2>1, <3>1, ValueType
      <3> QED
        BY <1>12, <1>b, <3>1, <3>2 DEF ReadBody, Guarded
    <2>2. ASSUME Goto(h, "lookup")
          PROVE  Guarded(h)'
      <3>1. job'[h].pc = "lookup" /\ job'[h].avoid = job[h].avoid
        BY <2>2, GotoType DEF Step
      <3> QED
        BY <1>12, <1>i, <3>1 DEF ReadBody
    <2> QED
      BY <1>10, <1>12, <1>e, <2>1, <2>2 DEF ReadBody
  <1>13. ASSUME NEW h \in Handler, InsertRestored(h)
         PROVE  VisibleInv'
    <2> DEFINE records == Expire(job[h].now)
               m == job[h].login
               entry == [value |-> job[h].value, expires |-> job[h].stamp + TTL]
    <2>1. /\ job[h].pc = "insert" /\ Busy(h)
          /\ stored' = stored /\ before' = before /\ superseded' = superseded
          /\ \/ cache' = records
             \/ records[m] = NoEntry /\ cache' = [records EXCEPT ![m] = entry]
      BY <1>13 DEF InsertRestored, Busy
    <2>2. /\ job'[h].pc = "lookup" /\ job'[h].avoid = job[h].avoid
          /\ \A g \in Handler \ {h} : job'[g] = job[g]
      BY <1>13, GotoType DEF InsertRestored, Step
    <2>3. ASSUME NEW g \in Handler, job[g].pc = "insert", job[g].value \in superseded
          PROVE  records[job[g].login] = cache[job[g].login] /\ cache[job[g].login] # NoEntry
      BY <1>b, <2>1, <2>3, LeaseOutlives DEF Guarded, Busy
    <2>4. \A l \in Login : records[l].value \notin superseded
      BY <1>c, ExpirySettled DEF Settled
    <2>5. \A l \in Login : cache'[l].value \notin superseded'
      <3>1. CASE cache' = records
        BY <2>1, <2>4, <3>1
      <3>2. CASE records[m] = NoEntry /\ cache' = [records EXCEPT ![m] = entry]
        <4>1. job[h].value \notin superseded
          BY <2>1, <2>3, <3>2
        <4>2. /\ \A l \in Login \ {m} : cache'[l] = records[l]
              /\ m \in Login => cache'[m].value = job[h].value
          BY <3>2 DEF Expire
        <4> QED
          BY <1>b, <2>1, <2>4, <4>1, <4>2
      <3> QED
        BY <2>1, <3>1, <3>2
    <2>6. ASSUME NEW g \in Handler \ {h}
          PROVE  Guarded(g)'
      <3>1. ASSUME job[g].pc = "insert", job[g].value \in superseded
            PROVE  cache'[job[g].login] = records[job[g].login]
        BY <1>b, <2>1, <2>3, <3>1 DEF Expire
      <3> QED
        BY <2>1, <2>2, <3>1, GuardKept
    <2>7. \A l \in Login : Settled(l)'
      BY <1>f, <2>1, <2>2, <2>5
    <2> QED
      BY <1>e, <1>i, <2>1, <2>2, <2>6, <2>7
  <1>14. ASSUME NEW h \in Handler, Reply(h) \/ Fail(h)
         PROVE  VisibleInv'
    <2>1. /\ job'[h].pc = "idle" /\ job'[h].avoid = {}
          /\ \A g \in Handler \ {h} : job'[g] = job[g]
      BY <1>14, FinishType DEF Reply, Fail
    <2>2. UNCHANGED <<cache, stored, before, superseded>>
      BY <1>14 DEF Reply, Fail
    <2>3. Guarded(h)'
      BY <2>1 DEF Guarded
    <2> QED
      BY <1>d, <1>e, <1>f, <1>g, <2>1, <2>2, <2>3
  <1>15. ASSUME NEW l \in Login, RemoveAccount(l)
         PROVE  VisibleInv'
    <2>1. \A m \in Login : stored'[m] = stored[m] \/ stored'[m] = NoRow
      BY <1>15 DEF RemoveAccount, TypeInv, TypeOK
    <2>2. UNCHANGED <<cache, job, before, superseded>>
      BY <1>15 DEF RemoveAccount
    <2>3. ASSUME NEW g \in Handler, job[g].pc \in {"project", "cache"}
          PROVE  None \notin superseded /\ None \notin before[job[g].value]
      BY <2>3, PublisherType DEF TypeInv, TypeOK, None, Publication, IsPublishing
    <2>4. None \notin superseded
      BY DEF TypeInv, TypeOK, None, Publication
    <2>5. \A m \in Login : Settled(m)'
      BY <1>c, <2>1, <2>2, <2>3, <2>4 DEF Settled, NoRow
    <2> QED
      BY <1>d, <1>e, <2>2, <2>5
  <1>16. CASE Restart
    <2>1. \A g \in Handler : job'[g].pc = "idle" /\ job'[g].avoid = {}
      BY <1>16, NoJobType DEF Restart
    <2>2. None \notin superseded
      BY DEF TypeInv, TypeOK, None, Publication
    <2>3. \A l \in Login : Settled(l)'
      BY <1>16, <1>c, <2>1, <2>2 DEF Restart, Settled, NoEntry
    <2> QED
      BY <1>e, <2>1, <2>3 DEF Guarded
  <1>17. CASE UNCHANGED vars
    BY <1>17, <1>c, <1>d, <1>e DEF vars, Settled
  <1> QED
    BY <1>1, <1>2, <1>3, <1>4, <1>5, <1>6, <1>8, <1>9, <1>11, <1>12, <1>13, <1>14, <1>15,
       <1>16, <1>17 DEF Next

(***************************************************************************)
(* A lookup never answers with a record that was superseded before the     *)
(* lookup began. This rests on TimeAssumption: a request takes less than   *)
(* half a lease, so a restore that is late finds the newer record cached.  *)
(***************************************************************************)
THEOREM CompletedStaysVisible == Spec => []CompletedIsVisible
  <1> DEFINE Inv == OwnInv /\ KnownInv /\ VisibleInv
  <1>1. Inv => CompletedIsVisible
    BY DEF VisibleInv, Guarded, CompletedIsVisible
  <1>2. Init => Inv
    BY VisibleInit
  <1>3. TypeInv /\ TypeInv' /\ Inv /\ [Next]_vars => Inv'
    BY OwnStep, KnownStep, VisibleStep
  <1> HIDE DEF Inv
  <1> QED
    BY <1>1, <1>2, <1>3, TypeInvariant, PTL DEF Spec

================================================================================
