---------------------------- MODULE CacherProofs ----------------------------
(***************************************************************************)
(* Theorems about Cacher, for any set of keys, callers and versions, any   *)
(* configured durations and any of the I/O failures, unless stated.        *)
(***************************************************************************)
EXTENDS Cacher, FiniteSetTheorems, TLAPS

\* Every position of the lookup order of generate_versioned_entries is a version.
LEMMA LookupOrderType ==
    /\ Len(LookupOrder) \in Nat \ {0}
    /\ \A i \in 1..Len(LookupOrder) : LookupOrder[i] \in Versions
  BY CacherConstants DEF LookupOrder, Versions

\* The record of an idle task is well-typed.
LEMMA IdleType == Idle \in TaskSet
  <1>1. Current \in Versions /\ 1 \in 1..Len(LookupOrder)
    BY LookupOrderType DEF Versions
  <1> QED
    BY <1>1 DEF Idle, TaskSet, TaskRecords, TaskPc, Results, Writing

\* So are the records with which tasks start and in which refreshes release their token.
LEMMA StartType == StartFill \in TaskSet /\ StartCompute \in TaskSet /\ Releasing \in TaskSet
  BY IdleType DEF Idle, TaskSet, TaskRecords, TaskPc, Writing, StartFill, StartCompute, Releasing

\* The initial states are well-typed.
LEMMA InitType == Init => TypeOK
  <1> SUFFICES ASSUME Init PROVE TypeOK
    OBVIOUS
  <1>1. NoItem \in ItemSet /\ NoFile \in FileSet /\ NoMeta \in MetaSet
    BY DEF NoItem, ItemSet, NoFile, FileSet, NoMeta, MetaSet, Results, Status, Stored,
           Versions, Entries
  <1>2. OldFiles \subseteq FileSet /\ OldMeta \subseteq MetaSet
    BY <1>1 DEF OldFiles, OldMeta, FileSet, MetaSet, Entries, Stored
  <1>3. CleanerIdle \in CleanerSet /\ CleanerIdle.pc = "idle"
    BY DEF CleanerIdle, CleanerSet, Versions
  <1>4. file \in [Keys -> [Versions -> FileSet]]
    BY <1>2 DEF Init
  <1>5. meta \in [Keys -> [Versions -> MetaSet]]
    BY <1>2 DEF Init
  <1>6. task \in [Keys -> [Roles -> TaskSet]]
    BY IdleType DEF Init
  <1> QED
    BY <1>1, <1>3, <1>4, <1>5, <1>6 DEF Init, TypeOK

-----------------------------------------------------------------------------
(* What the helpers return. *)

\* Metadata timestamps are never later than the time they stand for.
LEMMA TimestampType == \A t \in Nat : Timestamp(t) \in Nat /\ Timestamp(t) <= t
  <1> SUFFICES ASSUME NEW t \in Nat PROVE Timestamp(t) \in Nat /\ Timestamp(t) <= t
    OBVIOUS
  <1>1. t % MetadataPrecision \in 0..t
    BY ExpiryConstants
  <1> QED
    BY <1>1 DEF Timestamp

Expirations == [kind : {"TouchIn", "RefreshIn", "NotFound"}, in : Nat]

\* compute_expiration_time returns an expiration or reports the entry as gone.
LEMMA ExpirationType ==
    ASSUME NEW s \in Entries, NEW atime \in Nat, NEW ctime \in Nat, NEW p \in BOOLEAN,
           NEW b \in Nat, NEW n \in Nat
    PROVE  ComputeExpirationTime(s, atime, ctime, p, b, n) \in Expirations
  <1>1. RetryAfter(p) \in Nat
    BY ExpiryConstants DEF RetryAfter
  <1> QED
    BY <1>1, ExpiryConstants
    DEF ComputeExpirationTime, ExpirationStrategy, Expirations, SaturatingSub, Elapsed,
        TouchIn, RefreshIn, NotFound

\* for_fresh_status returns an expiration.
LEMMA FreshType == \A s \in Status : ForFreshStatus(s) \in Expirations
  BY ExpiryConstants
  DEF ForFreshStatus, ExpirationStrategy, Expirations, TouchIn, RefreshIn

\* Going on to the next version keeps the type of a task.
LEMMA NextVersionType == \A t \in TaskSet : NextVersion(t) \in TaskSet
  <1> SUFFICES ASSUME NEW t \in TaskSet PROVE NextVersion(t) \in TaskSet
    OBVIOUS
  <1>1. t.i \in 1..Len(LookupOrder)
    BY DEF TaskSet, TaskRecords
  <1>2. t.i < Len(LookupOrder) => t.i + 1 \in 1..Len(LookupOrder)
    BY <1>1, LookupOrderType
  <1>3. t.i < Len(LookupOrder) => [StartFill EXCEPT !.i = t.i + 1] \in TaskSet
    BY <1>2, StartType DEF TaskSet, TaskRecords
  <1> QED
    BY <1>3, StartType DEF NextVersion

\* The task that goes on to write what it computed is well-typed.
LEMMA ProducedType ==
    ASSUME now \in Nat, NEW s \in Status, NEW h \in BOOLEAN
    PROVE  Produced(s, h) \in TaskSet
  BY IdleType DEF Produced, TaskSet, TaskRecords, TaskPc, Writing, Results, Status, Idle

\* So is one that failed to open what the shared cache gave it.
LEMMA FailedHitType ==
    ASSUME now \in Nat, NEW s \in Stored
    PROVE  FailedHit(s) \in TaskSet
  <1>1. s \in Status /\ Produced(s, TRUE) \in TaskSet
    BY ProducedType DEF Status
  <1>2. "internal" \in Results
    BY DEF Results, Status
  <1>3. Produced(s, TRUE).pc = "persist" \/ s = "internal"
    BY DEF Produced, Idle
  <1> QED
    BY <1>1, <1>2, <1>3 DEF FailedHit, TaskSet, TaskRecords

\* What compute goes on with is an entry.
LEMMA OutcomeType ==
    ASSUME NEW t, t.entry \in Status
    PROVE  /\ Outcome(t) \in Status /\ Outcome(t) \in {t.entry, "internal"}
           /\ LoadResults(Outcome(t)) \subseteq Status
  BY DEF Outcome, LoadResults, Status, Stored

\* Tasks whose metadata file lost its name are well-typed.
LEMMA DetachedType ==
    ASSUME NEW f \in [Roles -> TaskSet]
    PROVE  Detached(f) \in [Roles -> TaskSet]
  BY DEF Detached, TaskSet, TaskRecords

\* Dropping expired items keeps the type of the in-memory layer.
LEMMA UnexpiredType ==
    ASSUME NEW x \in ItemSet, NEW t \in Nat PROVE Unexpired(x, t) \in ItemSet
  BY DEF Unexpired, ItemSet, NoItem, Results, Versions

\* What a task inserts into memory is a well-typed item.
LEMMA ItemOfType == \A t \in TaskSet : ItemOf(t) \in ItemSet
  BY DEF ItemOf, ItemSet, TaskSet, TaskRecords

\* Loading an entry yields one of the statuses.
LEMMA LoadType == \A s \in Status : LoadResults(s) \subseteq Status
  BY DEF LoadResults, Status, Stored

\* check_expiry returns an expiration or reports the entry as gone.
LEMMA CheckExpiryType ==
    ASSUME TypeOK, NEW k \in Keys, NEW v \in Versions, NEW b \in Nat
    PROVE  CheckExpiry(k, v, b) \in Expirations
  <1>1. file[k][v] \in FileSet /\ meta[k][v] \in MetaSet /\ now \in Nat
    BY DEF TypeOK
  <1>2. file[k][v].entry \in Entries /\ file[k][v].mtime \in Nat
        /\ meta[k][v].created \in Nat
    BY <1>1 DEF FileSet, MetaSet
  <1> QED
    BY <1>1, <1>2, ExpirationType DEF CheckExpiry

\* Writing one field of a task keeps its type.
LEMMA TaskUpdate ==
    ASSUME TypeOK, NEW k \in Keys, NEW r \in Roles, NEW t \in TaskSet
    PROVE  [task EXCEPT ![k][r] = t] \in [Keys -> [Roles -> TaskSet]]
  BY DEF TypeOK

\* Replacing one file keeps the type of the files.
LEMMA FileUpdate ==
    ASSUME TypeOK, NEW k \in Keys, NEW v \in Versions, NEW f \in FileSet
    PROVE  [file EXCEPT ![k][v] = f] \in [Keys -> [Versions -> FileSet]]
  BY DEF TypeOK

\* Replacing one metadata file keeps the type of the metadata files.
LEMMA MetaUpdate ==
    ASSUME TypeOK, NEW k \in Keys, NEW v \in Versions, NEW m \in MetaSet
    PROVE  [meta EXCEPT ![k][v] = m] \in [Keys -> [Versions -> MetaSet]]
  BY DEF TypeOK

\* The values that stand for nothing are well-typed.
LEMMA NoneType == NoItem \in ItemSet /\ NoFile \in FileSet /\ NoMeta \in MetaSet
  BY DEF NoItem, ItemSet, NoFile, FileSet, NoMeta, MetaSet, Results, Status, Stored,
         Versions, Entries

\* Replacing both tasks of a key keeps the type of the tasks.
LEMMA TasksUpdate ==
    ASSUME TypeOK, NEW k \in Keys, NEW f \in [Roles -> TaskSet]
    PROVE  [task EXCEPT ![k] = f] \in [Keys -> [Roles -> TaskSet]]
  BY DEF TypeOK

\* A found entry makes a well-typed fill task, and spawn_refresh a refresh task.
LEMMA FoundLocalType ==
    ASSUME TypeOK, NEW k \in Keys, NEW f \in [Roles -> TaskSet], NEW v \in Versions,
           NEW s \in Status, NEW b \in Nat, NEW e \in Expirations,
           FoundLocal(k, f, v, s, b, e)
    PROVE  /\ task' \in [Keys -> [Roles -> TaskSet]]
           /\ shared' \in SUBSET SharedKeys
           /\ refreshes' \in SUBSET Keys
           /\ lazy' \in Nat
  <1>1. shared' \in SUBSET SharedKeys
    BY DEF FoundLocal, StoreInSharedCache, TypeOK
  <1>2. PICK st \in LoadResults(s) :
          LET found == [f EXCEPT !["fill"] =
                          [Idle EXCEPT !.pc = "insert", !.entry = s, !.status = st,
                                       !.born = b, !.version = v,
                                       !.deadline = AsInstant(e, now)]]
          IN  IF v = Current
              THEN /\ task' = [task EXCEPT ![k] = found]
                   /\ UNCHANGED <<refreshes, lazy>>
              ELSE SpawnRefresh(k, found)
    BY DEF FoundLocal
  <1> DEFINE item == [Idle EXCEPT !.pc = "insert", !.entry = s, !.status = st,
                                  !.born = b, !.version = v,
                                  !.deadline = AsInstant(e, now)]
             found == [f EXCEPT !["fill"] = item]
  <1>3. st \in Status /\ AsInstant(e, now) \in Nat
    BY LoadType DEF AsInstant, Expirations, TypeOK
  <1>4. item \in TaskSet
    BY <1>3, IdleType DEF TaskSet, TaskRecords, TaskPc, Results, Writing
  <1>5. found \in [Roles -> TaskSet]
    BY <1>4 DEF Roles
  <1>6. [found EXCEPT !["refresh"] = StartCompute] \in [Roles -> TaskSet]
    BY <1>5, StartType DEF Roles
  <1> HIDE DEF item, found
  <1>7. CASE v = Current
    <2>1. task' = [task EXCEPT ![k] = found] /\ UNCHANGED <<refreshes, lazy>>
      BY <1>2, <1>7 DEF item, found
    <2> QED
      BY <2>1, <1>1, <1>5, TasksUpdate DEF TypeOK
  <1>8. CASE v # Current
    <2>1. SpawnRefresh(k, found)
      BY <1>2, <1>8 DEF item, found
    <2>2. task' \in [Keys -> [Roles -> TaskSet]]
      BY <2>1, <1>5, <1>6, TasksUpdate DEF SpawnRefresh
    <2>3. refreshes' \in SUBSET Keys /\ lazy' \in Nat
      BY <2>1 DEF SpawnRefresh, TypeOK
    <2> QED
      BY <2>2, <2>3, <1>1
  <1> QED
    BY <1>7, <1>8

-----------------------------------------------------------------------------
(* Type correctness: one lemma per group of actions. *)

\* Steps of callers keep the types.
LEMMA CallerStepType ==
    ASSUME TypeOK, CallerStep PROVE TypeOK'
  <1>1. ASSUME NEW c \in Callers, NEW k \in Keys, ComputeMemoized(c, k) PROVE TypeOK'
    <2>1. task' \in [Keys -> [Roles -> TaskSet]]
      <3>1. [task EXCEPT ![k]["fill"] = StartFill] \in [Keys -> [Roles -> TaskSet]]
        BY TaskUpdate, StartType DEF Roles
      <3> QED
        BY <1>1, <3>1 DEF ComputeMemoized, TypeOK
    <2>2. owner' \in [Keys -> Callers \union {NoCaller}]
      BY <1>1 DEF ComputeMemoized, TypeOK
    <2>3. waiting' \in [Keys -> SUBSET Callers]
      BY <1>1 DEF ComputeMemoized, TypeOK
    <2> QED
      BY <1>1, <2>1, <2>2, <2>3 DEF ComputeMemoized, TypeOK
  <1>2. ASSUME NEW c \in Callers, NEW k \in Keys, CallerDropped(c, k) PROVE TypeOK'
    <2> DEFINE others == waiting[k] \ {c}
    <2>1. others \subseteq Callers
      BY DEF TypeOK
    <2>2. [task EXCEPT ![k]["fill"] = StartFill] \in [Keys -> [Roles -> TaskSet]]
      BY TaskUpdate, StartType DEF Roles
    <2>3. [task EXCEPT ![k]["fill"] = Idle] \in [Keys -> [Roles -> TaskSet]]
      BY TaskUpdate, IdleType DEF Roles
    <2>4. waiting' \in [Keys -> SUBSET Callers]
      BY <1>2, <2>1 DEF CallerDropped, TypeOK
    <2>5. /\ owner' \in [Keys -> Callers \union {NoCaller}]
          /\ task' \in [Keys -> [Roles -> TaskSet]]
      <3>1. CASE UNCHANGED <<owner, task>>
        BY <3>1 DEF TypeOK
      <3>2. CASE /\ owner' = [owner EXCEPT ![k] = NoCaller]
                 /\ task' = [task EXCEPT ![k]["fill"] = Idle]
        BY <3>2, <2>3 DEF TypeOK
      <3>3. ASSUME NEW o \in others, owner' = [owner EXCEPT ![k] = o],
                   task' = [task EXCEPT ![k]["fill"] = StartFill]
            PROVE  /\ owner' \in [Keys -> Callers \union {NoCaller}]
                   /\ task' \in [Keys -> [Roles -> TaskSet]]
        BY <3>3, <2>1, <2>2 DEF TypeOK
      <3> QED
        BY <1>2, <3>1, <3>2, <3>3 DEF CallerDropped
    <2> QED
      BY <1>2, <2>4, <2>5 DEF CallerDropped, TypeOK
  <1> QED
    BY <1>1, <1>2 DEF CallerStep

\* The expiry check of a lookup keeps the types.
LEMMA LookupCheckType ==
    ASSUME TypeOK, NEW k \in Keys, LookupCheck(k) PROVE TypeOK'
  <1> DEFINE t == task[k]["fill"]
             v == LookupOrder[t.i]
             f == file[k][v]
             torn == f.entry # "none" /\ meta[k][v].state = "partial"
             tasks == IF torn /\ v = Current THEN Detached(task[k]) ELSE task[k]
             e == CheckExpiry(k, v, start)
  <1>1. t \in TaskSet /\ task[k] \in [Roles -> TaskSet]
    BY DEF TypeOK, Roles
  <1>2. v \in Versions
    BY <1>1, LookupOrderType DEF TaskSet, TaskRecords
  <1>3. f \in FileSet /\ f.born \in Nat /\ f.entry \in Entries
    BY <1>2 DEF TypeOK, FileSet
  <1>4. tasks \in [Roles -> TaskSet] /\ tasks["fill"] \in TaskSet
    BY <1>1, DetachedType DEF Roles
  <1>5. e \in Expirations
    BY <1>2, CheckExpiryType DEF TypeOK
  <1>6. meta' \in [Keys -> [Versions -> MetaSet]]
    <2>1. NoMeta \in MetaSet
      BY DEF NoMeta, MetaSet
    <2> QED
      BY <2>1, <1>2 DEF LookupCheck, TypeOK
  <1>7. UNCHANGED <<now, start, crashes, mem, file, waiting, owner, cleaner>>
    BY DEF LookupCheck
  <1>8. /\ task' \in [Keys -> [Roles -> TaskSet]]
        /\ shared' \in SUBSET SharedKeys
        /\ refreshes' \in SUBSET Keys
        /\ lazy' \in Nat
    <2>1. CASE /\ task' = [task EXCEPT ![k] = [tasks EXCEPT !["fill"] = NextVersion(@)]]
               /\ UNCHANGED <<shared, refreshes, lazy>>
      <3>1. [tasks EXCEPT !["fill"] = NextVersion(@)] \in [Roles -> TaskSet]
        BY <1>4, NextVersionType DEF Roles
      <3> QED
        BY <2>1, <3>1, TasksUpdate DEF TypeOK
    <2>2. CASE f.entry # "none" /\ FoundLocal(k, tasks, v, f.entry, f.born, e)
      <3>1. f.entry \in Status
        BY <2>2, <1>3 DEF Entries, Status
      <3> QED
        BY <2>2, <3>1, <1>2, <1>3, <1>4, <1>5, FoundLocalType
    <2>3. CASE /\ task' = [task EXCEPT ![k] = [tasks EXCEPT !["fill"] =
                             [@ EXCEPT !.pc = "touch", !.since = now, !.born = f.born]]]
               /\ UNCHANGED <<shared, refreshes, lazy>>
      <3>1. [tasks["fill"] EXCEPT !.pc = "touch", !.since = now, !.born = f.born] \in TaskSet
        <4>1. now \in Nat
          BY DEF TypeOK
        <4> HIDE DEF tasks, f
        <4> QED
          BY <1>3, <1>4, <4>1 DEF TaskSet, TaskRecords, TaskPc, Writing
      <3>2. [tasks EXCEPT !["fill"] =
                [@ EXCEPT !.pc = "touch", !.since = now, !.born = f.born]] \in [Roles -> TaskSet]
        BY <3>1, <1>4 DEF Roles
      <3> QED
        BY <2>3, <3>2, TasksUpdate DEF TypeOK
    <2>4. CASE /\ task' = [task EXCEPT ![k] = [tasks EXCEPT !["fill"] =
                            [Idle EXCEPT !.pc = "insert", !.entry = "internal",
                                         !.status = "internal", !.born = now, !.version = v,
                                         !.deadline = AsInstant(ForFreshStatus("internal"), now)]]]
               /\ UNCHANGED <<shared, refreshes, lazy>>
      <3>1. AsInstant(ForFreshStatus("internal"), now) \in Nat
        BY FreshType DEF AsInstant, Expirations, Status, TypeOK
      <3>2. [Idle EXCEPT !.pc = "insert", !.entry = "internal",
                         !.status = "internal", !.born = now, !.version = v,
                         !.deadline = AsInstant(ForFreshStatus("internal"), now)] \in TaskSet
        BY <3>1, <1>2, IdleType DEF TaskSet, TaskRecords, TaskPc, Writing, Results, Status, TypeOK
      <3>3. [tasks EXCEPT !["fill"] =
               [Idle EXCEPT !.pc = "insert", !.entry = "internal",
                            !.status = "internal", !.born = now, !.version = v,
                            !.deadline = AsInstant(ForFreshStatus("internal"), now)]]
               \in [Roles -> TaskSet]
        BY <3>2, <1>4 DEF Roles
      <3> QED
        BY <2>4, <3>3, TasksUpdate DEF TypeOK
    <2> QED
      BY <2>1, <2>2, <2>3, <2>4 DEF LookupCheck
  <1> QED
    BY <1>6, <1>7, <1>8 DEF TypeOK

\* Touching a file during a lookup keeps the types.
LEMMA LookupTouchType ==
    ASSUME TypeOK, NEW k \in Keys, LookupTouch(k) PROVE TypeOK'
  <1> DEFINE t == task[k]["fill"]
             v == LookupOrder[t.i]
  <1>1. t \in TaskSet /\ task[k] \in [Roles -> TaskSet] /\ t.born \in Nat
    BY DEF TypeOK, Roles, TaskSet, TaskRecords
  <1>2. v \in Versions
    BY <1>1, LookupOrderType DEF TaskSet, TaskRecords
  <1>3. UNCHANGED <<now, start, crashes, mem, meta, waiting, owner, cleaner>>
    BY DEF LookupTouch
  <1>4. CASE file[k][v].entry = "none"
    <2>1. [task EXCEPT ![k]["fill"] = NextVersion(t)] \in [Keys -> [Roles -> TaskSet]]
      BY <1>1, NextVersionType, TaskUpdate DEF Roles
    <2>2. task' = [task EXCEPT ![k]["fill"] = NextVersion(t)]
      BY <1>4 DEF LookupTouch
    <2>3. UNCHANGED <<file, shared, refreshes, lazy>>
      BY <1>4 DEF LookupTouch
    <2> QED
      BY <1>3, <2>1, <2>2, <2>3 DEF TypeOK
  <1>5. CASE file[k][v].entry # "none"
    <2>1. file' \in [Keys -> [Versions -> FileSet]]
      <3>1. file' = [file EXCEPT ![k][v] = [file[k][v] EXCEPT !.mtime = now]]
        BY <1>5 DEF LookupTouch
      <3>2. [file[k][v] EXCEPT !.mtime = now] \in FileSet
        <4>1. file[k][v] \in FileSet /\ now \in Nat
          BY <1>2 DEF TypeOK
        <4> QED
          BY <4>1 DEF FileSet
      <3> QED
        BY <1>2, <3>1, <3>2, FileUpdate
    <2>2. TouchIn(TouchEvery) \in Expirations /\ "ok" \in Status
      BY ExpiryConstants DEF TouchIn, Expirations, Status, Stored
    <2>3. FoundLocal(k, task[k], v, "ok", t.born, TouchIn(TouchEvery))
      BY <1>5 DEF LookupTouch
    <2> QED
      BY <1>1, <1>2, <1>3, <2>1, <2>2, <2>3, FoundLocalType DEF TypeOK
  <1> QED
    BY <1>4, <1>5

\* The steps of compute and write_cache_file keep the types.
LEMMA ComputeStepType ==
    ASSUME TypeOK, NEW k \in Keys, NEW r \in Roles, ComputeStep(k, r) PROVE TypeOK'
  <1> DEFINE t == task[k][r]
  <1>1. t \in TaskSet /\ now \in Nat /\ Current \in Versions
    BY DEF TypeOK, Versions
  <1>9. /\ file \in [Keys -> [Versions -> FileSet]]
        /\ meta \in [Keys -> [Versions -> MetaSet]]
    BY DEF TypeOK
  <1>2. CASE LoadFromSharedCache(k, r)
    <2>1. Produced("internal", FALSE) \in TaskSet /\ Produced("ok", TRUE) \in TaskSet
      BY <1>1, ProducedType DEF Status, Stored
    <2>2. [t EXCEPT !.pc = "compute"] \in TaskSet
      BY <1>1 DEF TaskSet, TaskRecords, TaskPc, Writing
    <2>5. FailedHit("negative") \in TaskSet /\ FailedHit("ok") \in TaskSet
      BY <1>1, FailedHitType DEF Stored
    <2>3. \E u \in TaskSet : task' = [task EXCEPT ![k][r] = u]
      BY <1>2, <2>1, <2>2, <2>5 DEF LoadFromSharedCache
    <2>4. task' \in [Keys -> [Roles -> TaskSet]]
      BY <2>3, TaskUpdate
    <2> QED
      BY <1>2, <2>4 DEF LoadFromSharedCache, TypeOK
  <1>3. CASE Compute(k, r)
    <2>1. \E s \in Status : task' = [task EXCEPT ![k][r] = Produced(s, FALSE)]
      BY <1>3 DEF Compute
    <2>2. \A s \in Status : Produced(s, FALSE) \in TaskSet
      BY <1>1, ProducedType
    <2>3. task' \in [Keys -> [Roles -> TaskSet]]
      BY <2>1, <2>2, TaskUpdate
    <2> QED
      BY <1>3, <2>3 DEF Compute, TypeOK
  <1>4. CASE PersistTempfile(k, r)
    <2> DEFINE p == IF Outcome(t) = "internal" THEN "purge" ELSE "mdcreate"
    <2>1. [t EXCEPT !.pc = p] \in TaskSet
      <3>1. p \in TaskPc /\ p \in Writing /\ p # "persist"
        BY DEF TaskPc, Writing
      <3>2. t.pc = "persist" /\ t.pc \in Writing
        BY <1>4 DEF PersistTempfile, Writing
      <3> HIDE DEF p
      <3> QED
        BY <1>1, <3>1, <3>2 DEF TaskSet, TaskRecords
    <2>2. task' \in [Keys -> [Roles -> TaskSet]]
      <3>1. task' = [task EXCEPT ![k][r] = [t EXCEPT !.pc = p]]
        BY <1>4 DEF PersistTempfile
      <3> QED
        BY <2>1, <3>1, TaskUpdate
    <2>3. file' \in [Keys -> [Versions -> FileSet]]
      <3>1. [entry |-> t.entry, mtime |-> t.since, born |-> t.born] \in FileSet
        BY <1>1, <1>4 DEF TaskSet, TaskRecords, FileSet, Entries, PersistTempfile
      <3>2. \/ file' = file
            \/ file' = [file EXCEPT ![k][Current] =
                         [entry |-> t.entry, mtime |-> t.since, born |-> t.born]]
        BY <1>4 DEF PersistTempfile
      <3> QED
        <4>1. [file EXCEPT ![k][Current] =
                 [entry |-> t.entry, mtime |-> t.since, born |-> t.born]]
                   \in [Keys -> [Versions -> FileSet]]
          BY <1>1, <3>1, FileUpdate
        <4> QED
          BY <1>9, <3>2, <4>1
    <2> QED
      BY <1>4, <2>2, <2>3 DEF PersistTempfile, TypeOK
  <1>5. CASE CreateMetadata(k, r)
    <2>1. [t EXCEPT !.pc = "mdwrite", !.linked = TRUE] \in TaskSet
      BY <1>1, <1>5 DEF TaskSet, TaskRecords, TaskPc, Writing, CreateMetadata
    <2>2. [t EXCEPT !.pc = "purge"] \in TaskSet
      BY <1>1, <1>5 DEF TaskSet, TaskRecords, TaskPc, Writing, CreateMetadata
    <2>3. \E u \in TaskSet : task' = [task EXCEPT ![k][r] = u]
      BY <1>5, <2>1, <2>2 DEF CreateMetadata
    <2>4. [state |-> "partial", created |-> 0] \in MetaSet
      BY DEF MetaSet
    <2>5. [meta EXCEPT ![k][Current] = [state |-> "partial", created |-> 0]]
            \in [Keys -> [Versions -> MetaSet]]
      BY <1>1, <2>4, MetaUpdate
    <2>6. meta' \in [Keys -> [Versions -> MetaSet]]
      BY <1>5, <1>9, <2>5 DEF CreateMetadata
    <2>7. task' \in [Keys -> [Roles -> TaskSet]]
      BY <2>3, TaskUpdate
    <2> QED
      BY <1>5, <2>6, <2>7 DEF CreateMetadata, TypeOK
  <1>6. CASE WriteMetadata(k, r)
    <2>1. [t EXCEPT !.pc = "purge", !.linked = FALSE] \in TaskSet
      BY <1>1, <1>6 DEF TaskSet, TaskRecords, TaskPc, Writing, WriteMetadata
    <2>2. task' = [task EXCEPT ![k][r] = [t EXCEPT !.pc = "purge", !.linked = FALSE]]
      BY <1>6 DEF WriteMetadata
    <2>3. task' \in [Keys -> [Roles -> TaskSet]]
      BY <2>1, <2>2, TaskUpdate
    <2>4. Timestamp(t.since) \in Nat
      BY <1>1, TimestampType DEF TaskSet, TaskRecords
    <2>5. [state |-> "full", created |-> Timestamp(t.since)] \in MetaSet
      BY <2>4 DEF MetaSet
    <2>6. [meta EXCEPT ![k][Current] = [state |-> "full", created |-> Timestamp(t.since)]]
            \in [Keys -> [Versions -> MetaSet]]
      BY <1>1, <2>5, MetaUpdate
    <2>7. meta' \in [Keys -> [Versions -> MetaSet]]
      BY <1>6, <1>9, <2>6 DEF WriteMetadata
    <2> QED
      BY <1>6, <2>3, <2>7 DEF WriteMetadata, TypeOK
  <1>7. CASE RemovePrevious(k, r)
    <2>1. CASE t.todo = {}
      <3>1. [t EXCEPT !.pc = "finish"] \in TaskSet
        BY <1>1, <1>7 DEF TaskSet, TaskRecords, TaskPc, Writing, RemovePrevious
      <3>2. task' = [task EXCEPT ![k][r] = [t EXCEPT !.pc = "finish"]]
        BY <1>7, <2>1 DEF RemovePrevious
      <3>3. task' \in [Keys -> [Roles -> TaskSet]]
        BY <3>1, <3>2, TaskUpdate
      <3>4. UNCHANGED <<file, meta>>
        BY <1>7, <2>1 DEF RemovePrevious
      <3> QED
        BY <1>7, <3>3, <3>4 DEF RemovePrevious, TypeOK
    <2>2. CASE t.todo # {}
      <3>1. PICK v \in t.todo : /\ file' = [file EXCEPT ![k][v] = NoFile]
                                /\ meta' = [meta EXCEPT ![k][v] = NoMeta]
                                /\ task' = [task EXCEPT ![k][r] = [t EXCEPT !.todo = @ \ {v}]]
        BY <1>7, <2>2 DEF RemovePrevious
      <3>2. [t EXCEPT !.todo = @ \ {v}] \in TaskSet
        BY <1>1 DEF TaskSet, TaskRecords
      <3>3. v \in Versions
        BY <1>1 DEF TaskSet, TaskRecords, Versions
      <3>4. task' \in [Keys -> [Roles -> TaskSet]]
        BY <3>1, <3>2, TaskUpdate
      <3>5. file' \in [Keys -> [Versions -> FileSet]]
        BY <3>1, <3>3, NoneType, FileUpdate
      <3>6. meta' \in [Keys -> [Versions -> MetaSet]]
        BY <3>1, <3>3, NoneType, MetaUpdate
      <3> QED
        BY <1>7, <3>4, <3>5, <3>6 DEF RemovePrevious, TypeOK
    <2> QED
      BY <2>1, <2>2
  <1>8. CASE FinishCompute(k, r)
    <2>1. shared' \in SUBSET SharedKeys
      BY <1>8 DEF FinishCompute, StoreInSharedCache, TypeOK
    <2>2. t.entry \in Status /\ t.born \in Nat
      BY <1>1, <1>8 DEF FinishCompute, TaskSet, TaskRecords, Writing
    <2> DEFINE e == Outcome(t)
    <2>3. PICK s \in LoadResults(e) :
              task' = [task EXCEPT ![k][r] =
                         [Idle EXCEPT !.pc = "insert", !.entry = e, !.status = s,
                                      !.born = t.born,
                                      !.deadline = AsInstant(ForFreshStatus(s), now)]]
      BY <1>8 DEF FinishCompute
    <2>4. s \in Status /\ e \in Status
      BY <2>2, OutcomeType
    <2> HIDE DEF e
    <2>5. AsInstant(ForFreshStatus(s), now) \in Nat
      BY <1>1, <2>4, FreshType DEF AsInstant, Expirations
    <2>6. [Idle EXCEPT !.pc = "insert", !.entry = e, !.status = s, !.born = t.born,
                       !.deadline = AsInstant(ForFreshStatus(s), now)] \in TaskSet
      BY <2>2, <2>4, <2>5, IdleType DEF TaskSet, TaskRecords, TaskPc, Results, Writing
    <2>7. task' \in [Keys -> [Roles -> TaskSet]]
      BY <2>3, <2>6, TaskUpdate
    <2> QED
      BY <1>8, <2>1, <2>7 DEF FinishCompute, TypeOK
  <1> QED
    BY <1>2, <1>3, <1>4, <1>5, <1>6, <1>7, <1>8 DEF ComputeStep


\* Inserting, releasing and unregistering keep the types.
LEMMA RefreshStepType ==
    ASSUME TypeOK, RefreshesBounded, IsFiniteSet({k \in Keys : HoldsToken(k)}),
           NEW k \in Keys,
           RefreshPanics(k) \/ InsertFill(k) \/ InsertRefresh(k) \/ ReleaseToken(k)
             \/ UnregisterRefresh(k) \/ Evict(k)
    PROVE  TypeOK'
  <1>1. /\ task[k]["fill"] \in TaskSet
        /\ task[k]["refresh"] \in TaskSet
        /\ now \in Nat
    BY DEF TypeOK, Roles
  <1>2. ASSUME NEW r \in Roles
        PROVE  /\ [task EXCEPT ![k][r] = Idle] \in [Keys -> [Roles -> TaskSet]]
               /\ [task EXCEPT ![k][r] = Releasing] \in [Keys -> [Roles -> TaskSet]]
    BY IdleType, StartType, TaskUpdate
  <1>3. ASSUME NEW x \in ItemSet PROVE [mem EXCEPT ![k] = x] \in [Keys -> ItemSet]
    BY DEF TypeOK
  <1>4. ASSUME NEW t \in TaskSet PROVE Unexpired(ItemOf(t), now) \in ItemSet
    BY <1>1, ItemOfType, UnexpiredType
  <1>5. "fill" \in Roles /\ "refresh" \in Roles
    BY DEF Roles
  <1>6. CASE RefreshPanics(k)
    <2>1. task' \in [Keys -> [Roles -> TaskSet]]
      BY <1>2, <1>5, <1>6 DEF RefreshPanics
    <2> QED
      BY <1>6, <2>1 DEF RefreshPanics, TypeOK
  <1>7. CASE InsertFill(k)
    <2>1. task' \in [Keys -> [Roles -> TaskSet]]
      BY <1>2, <1>5, <1>7 DEF InsertFill
    <2>2. mem' \in [Keys -> ItemSet]
      BY <1>1, <1>3, <1>4, <1>7 DEF InsertFill
    <2>3. waiting' \in [Keys -> SUBSET Callers]
      BY <1>7 DEF InsertFill, TypeOK
    <2>4. owner' \in [Keys -> Callers \union {NoCaller}]
      BY <1>7 DEF InsertFill, TypeOK
    <2> QED
      BY <1>7, <2>1, <2>2, <2>3, <2>4 DEF InsertFill, TypeOK
  <1>8. CASE InsertRefresh(k)
    <2>1. task' \in [Keys -> [Roles -> TaskSet]]
      BY <1>2, <1>5, <1>8 DEF InsertRefresh
    <2>2. mem' \in [Keys -> ItemSet]
      BY <1>1, <1>3, <1>4, <1>8 DEF InsertRefresh
    <2> QED
      BY <1>8, <2>1, <2>2 DEF InsertRefresh, TypeOK
  <1>9. CASE ReleaseToken(k)
    <2>1. [task[k]["refresh"] EXCEPT !.pc = "unregister"] \in TaskSet
      BY <1>1 DEF TaskSet, TaskRecords, TaskPc, Writing
    <2>2. task' = [task EXCEPT ![k]["refresh"] =
                     [task[k]["refresh"] EXCEPT !.pc = "unregister"]]
      BY <1>9 DEF ReleaseToken
    <2>3. task' \in [Keys -> [Roles -> TaskSet]]
      BY <1>5, <2>1, <2>2, TaskUpdate
    <2>4. lazy \in Nat /\ lazy # 0
      <3>1. k \in {j \in Keys : HoldsToken(j)}
        BY <1>9 DEF ReleaseToken, HoldsToken
      <3>2. Cardinality({j \in Keys : HoldsToken(j)}) # 0
        BY <3>1, FS_EmptySet
      <3> QED
        BY <3>2 DEF RefreshesBounded, TypeOK
    <2>5. lazy' \in Nat
      BY <1>9, <2>4 DEF ReleaseToken
    <2> QED
      BY <1>9, <2>3, <2>5 DEF ReleaseToken, TypeOK
  <1>10. CASE UnregisterRefresh(k)
    <2>1. task' \in [Keys -> [Roles -> TaskSet]]
      BY <1>2, <1>5, <1>10 DEF UnregisterRefresh
    <2>2. refreshes' \in SUBSET Keys
      BY <1>10 DEF UnregisterRefresh, TypeOK
    <2> QED
      BY <1>10, <2>1, <2>2 DEF UnregisterRefresh, TypeOK
  <1>11. CASE Evict(k)
    <2>1. mem' \in [Keys -> ItemSet]
      BY <1>3, <1>11, NoneType DEF Evict
    <2> QED
      BY <1>11, <2>1 DEF Evict, TypeOK
  <1> QED
    BY <1>6, <1>7, <1>8, <1>9, <1>10, <1>11

\* The steps of the cleanup process keep the types.
LEMMA CleanupStepType ==
    ASSUME TypeOK, CleanupStep PROVE TypeOK'
  <1>1. ASSUME NEW k \in Keys, NEW v \in Versions
        PROVE  /\ [file EXCEPT ![k][v] = NoFile] \in [Keys -> [Versions -> FileSet]]
               /\ [meta EXCEPT ![k][v] = NoMeta] \in [Keys -> [Versions -> MetaSet]]
               /\ [task EXCEPT ![k] = Detached(@)] \in [Keys -> [Roles -> TaskSet]]
    <2>1. Detached(task[k]) \in [Roles -> TaskSet]
      BY DetachedType DEF TypeOK
    <2> QED
      BY <2>1, NoneType, FileUpdate, MetaUpdate, TasksUpdate
  <1>2. /\ file \in [Keys -> [Versions -> FileSet]]
        /\ meta \in [Keys -> [Versions -> MetaSet]]
        /\ task \in [Keys -> [Roles -> TaskSet]]
        /\ cleaner \in CleanerSet
        /\ cleaner.pc # "idle" => cleaner.key \in Keys
        /\ cleaner.version \in Versions
    BY DEF TypeOK, CleanerSet
  <1>3. ASSUME NEW k \in Keys, NEW v \in Versions, CleanupCheck(k, v) PROVE TypeOK'
    <2>1. meta' \in [Keys -> [Versions -> MetaSet]]
      BY <1>1, <1>2, <1>3 DEF CleanupCheck
    <2>2. task' \in [Keys -> [Roles -> TaskSet]]
      BY <1>1, <1>2, <1>3 DEF CleanupCheck
    <2>3. cleaner' \in CleanerSet /\ (cleaner'.pc # "idle" => cleaner'.key \in Keys)
      <3>1. \/ cleaner' = [pc |-> "rmdir", key |-> k, version |-> v]
            \/ cleaner' = [pc |-> "rmfile", key |-> k, version |-> v]
            \/ cleaner' = cleaner
        BY <1>3 DEF CleanupCheck
      <3> QED
        BY <1>2, <3>1 DEF CleanerSet
    <2> QED
      BY <1>3, <2>1, <2>2, <2>3 DEF CleanupCheck, TypeOK
  <1>4. CASE CleanupRemoveFile
    <2>1. file' \in [Keys -> [Versions -> FileSet]]
      BY <1>1, <1>2, <1>4 DEF CleanupRemoveFile
    <2>2. cleaner' \in CleanerSet /\ cleaner'.key \in Keys
      BY <1>2, <1>4 DEF CleanupRemoveFile, CleanerSet
    <2> QED
      BY <1>4, <2>1, <2>2 DEF CleanupRemoveFile, TypeOK
  <1>5. CASE CleanupRemoveMetadata
    <2>1. meta' \in [Keys -> [Versions -> MetaSet]]
      BY <1>1, <1>2, <1>5 DEF CleanupRemoveMetadata
    <2>2. task' \in [Keys -> [Roles -> TaskSet]]
      BY <1>1, <1>2, <1>5 DEF CleanupRemoveMetadata
    <2>3. cleaner' \in CleanerSet /\ cleaner'.key \in Keys
      BY <1>2, <1>5 DEF CleanupRemoveMetadata, CleanerSet
    <2> QED
      BY <1>5, <2>1, <2>2, <2>3 DEF CleanupRemoveMetadata, TypeOK
  <1>6. CASE CleanupRemoveDir
    <2>1. file' \in [Keys -> [Versions -> FileSet]]
      BY <1>1, <1>2, <1>6 DEF CleanupRemoveDir
    <2>2. meta' \in [Keys -> [Versions -> MetaSet]]
      BY <1>1, <1>2, <1>6 DEF CleanupRemoveDir
    <2>3. task' \in [Keys -> [Roles -> TaskSet]]
      BY <1>1, <1>2, <1>6 DEF CleanupRemoveDir
    <2>4. cleaner' \in CleanerSet /\ cleaner'.pc = "idle"
      BY <1>6 DEF CleanupRemoveDir, CleanerSet, CleanerIdle, Versions
    <2> QED
      BY <1>6, <2>1, <2>2, <2>3, <2>4 DEF CleanupRemoveDir, TypeOK
  <1> QED
    BY <1>3, <1>4, <1>5, <1>6 DEF CleanupStep

\* Time and restarts keep the types.
LEMMA EnvironmentType ==
    ASSUME TypeOK, Tick \/ Crash \/ UNCHANGED vars PROVE TypeOK'
  <1>1. CASE Tick
    <2>1. now' \in Nat
      BY <1>1 DEF Tick, TypeOK
    <2>2. \A k \in Keys : Unexpired(mem[k], now') \in ItemSet
      BY <2>1, UnexpiredType DEF TypeOK
    <2>3. mem' \in [Keys -> ItemSet]
      BY <1>1, <2>2 DEF Tick
    <2> QED
      BY <1>1, <2>1, <2>3 DEF Tick, TypeOK
  <1>2. CASE Crash
    <2>1. task' \in [Keys -> [Roles -> TaskSet]]
      BY <1>2, IdleType DEF Crash
    <2>2. mem' \in [Keys -> ItemSet]
      BY <1>2, NoneType DEF Crash
    <2> QED
      BY <1>2, <2>1, <2>2 DEF Crash, TypeOK
  <1>3. CASE UNCHANGED vars
    BY <1>3 DEF vars, TypeOK
  <1> QED
    BY <1>1, <1>2, <1>3
-----------------------------------------------------------------------------
(* The tokens and keys of the background refreshes. *)

Holders == {k \in Keys : HoldsToken(k)}

\* RefreshesBounded counts a finite set, whatever the set of keys.
Inv == TypeOK /\ RefreshesBounded /\ IsFiniteSet(Holders)

\* A step after which the same refreshes hold tokens keeps the token invariant.
LEMMA TokensKept ==
    ASSUME Inv, TypeOK', UNCHANGED <<refreshes, lazy>>,
           \A j \in Keys : task'[j]["refresh"].pc = task[j]["refresh"].pc
                         \/ {task'[j]["refresh"].pc, task[j]["refresh"].pc}
                              \cap {"idle", "unregister"} = {}
    PROVE  Inv'
  <1>1. \A j \in Keys : HoldsToken(j)' <=> HoldsToken(j)
    BY DEF HoldsToken
  <1>2. Holders' = Holders
    BY <1>1 DEF Holders
  <1>3. {j \in Keys : task'[j]["refresh"].pc # "idle"}
          = {j \in Keys : task[j]["refresh"].pc # "idle"}
    OBVIOUS
  <1> QED
    BY <1>2, <1>3 DEF Inv, RefreshesBounded, Holders

\* A step that starts one refresh below the limit keeps the token invariant.
LEMMA TokensTaken ==
    ASSUME Inv, TypeOK', NEW k \in Keys,
           k \notin refreshes, lazy < MaxLazy,
           refreshes' = refreshes \union {k}, lazy' = lazy + 1,
           task'[k]["refresh"].pc = "fetch",
           \A j \in Keys \ {k} : task'[j]["refresh"].pc = task[j]["refresh"].pc
    PROVE  Inv'
  <1>1. task[k]["refresh"].pc = "idle"
    BY DEF Inv, RefreshesBounded
  <1>2. Holders' = Holders \union {k} /\ k \notin Holders
    BY <1>1 DEF Holders, HoldsToken
  <1>3. IsFiniteSet(Holders') /\ Cardinality(Holders') = Cardinality(Holders) + 1
    BY <1>2, FS_AddElement DEF Inv
  <1>4. refreshes' = {j \in Keys : task'[j]["refresh"].pc # "idle"}
    BY DEF Inv, RefreshesBounded
  <1>5. lazy = Cardinality(Holders) /\ lazy \in Nat /\ MaxLazy \in Nat
    BY CacherConstants DEF Inv, RefreshesBounded, Holders, TypeOK
  <1>6. lazy' = Cardinality(Holders') /\ lazy' <= MaxLazy
    BY <1>3, <1>5
  <1> QED
    BY <1>3, <1>4, <1>6 DEF Inv, RefreshesBounded, Holders

\* The effect of a task update on the other tasks.
LEMMA TaskAt ==
    ASSUME TypeOK, NEW k \in Keys, NEW r \in Roles, NEW u,
           task' = [task EXCEPT ![k][r] = u]
    PROVE  /\ task'[k][r] = u
           /\ \A j \in Keys, q \in Roles : j # k \/ q # r => task'[j][q] = task[j][q]
  BY DEF TypeOK

\* The tasks of other keys are unaffected by an update of both tasks of a key.
LEMMA TasksAt ==
    ASSUME TypeOK, NEW k \in Keys, NEW f, task' = [task EXCEPT ![k] = f]
    PROVE  task'[k] = f /\ \A j \in Keys \ {k} : task'[j] = task[j]
  BY DEF TypeOK

\* A step of compute advances one task and leaves memory and tokens alone.
LEMMA ComputeEffect ==
    ASSUME TypeOK, NEW k \in Keys, NEW r \in Roles, ComputeStep(k, r)
    PROVE  /\ task[k][r].pc \in {"fetch", "compute"} \union Writing
           /\ task'[k][r].pc \in {"compute", "insert"} \union Writing
           /\ \A j \in Keys, q \in Roles : j # k \/ q # r => task'[j][q] = task[j][q]
           /\ UNCHANGED <<now, mem, refreshes, lazy>>
  <1> DEFINE t == task[k][r]
  <1>1. t \in TaskSet /\ Idle \in TaskSet
    BY IdleType DEF TypeOK
  <1>2. \A u \in TaskSet, p \in TaskPc : [u EXCEPT !.pc = p].pc = p
    BY DEF TaskSet, TaskRecords
  <1>3. /\ \A s \in Status, h \in BOOLEAN : Produced(s, h).pc \in Writing
        /\ \A s : FailedHit(s).pc \in Writing
    BY DEF Produced, FailedHit, Idle, Writing
  <1>4. /\ UNCHANGED <<now, mem, refreshes, lazy>>
        /\ t.pc \in {"fetch", "compute"} \union Writing
    BY DEF ComputeStep, LoadFromSharedCache, Compute, PersistTempfile, CreateMetadata,
           WriteMetadata, RemovePrevious, FinishCompute, Writing
  <1>5. \E u : /\ task' = [task EXCEPT ![k][r] = u]
               /\ u.pc \in {"compute", "insert"} \union Writing
    <2>1. CASE LoadFromSharedCache(k, r)
      <3>1. [t EXCEPT !.pc = "compute"].pc = "compute"
        BY <1>1, <1>2 DEF TaskPc
      <3> QED
        BY <1>3, <2>1, <3>1 DEF LoadFromSharedCache, Status, Stored
    <2>2. CASE Compute(k, r)
      BY <1>3, <2>2 DEF Compute
    <2>3. CASE PersistTempfile(k, r)
      <3>1. /\ [t EXCEPT !.pc = "mdcreate"].pc = "mdcreate"
            /\ [t EXCEPT !.pc = "purge"].pc = "purge"
        BY <1>1, <1>2 DEF TaskPc, Writing
      <3>2. \/ task' = [task EXCEPT ![k][r] = [t EXCEPT !.pc = "mdcreate"]]
            \/ task' = [task EXCEPT ![k][r] = [t EXCEPT !.pc = "purge"]]
        BY <2>3 DEF PersistTempfile
      <3> QED
        BY <3>1, <3>2 DEF Writing
    <2>4. CASE CreateMetadata(k, r)
      <3>1. /\ [t EXCEPT !.pc = "mdwrite", !.linked = TRUE].pc = "mdwrite"
            /\ [t EXCEPT !.pc = "purge"].pc = "purge"
        BY <1>1 DEF TaskSet, TaskRecords
      <3> QED
        BY <2>4, <3>1 DEF CreateMetadata, Writing
    <2>5. CASE WriteMetadata(k, r)
      <3>1. [t EXCEPT !.pc = "purge", !.linked = FALSE].pc = "purge"
        BY <1>1 DEF TaskSet, TaskRecords
      <3> QED
        BY <2>5, <3>1 DEF WriteMetadata, Writing
    <2>6. CASE RemovePrevious(k, r)
      <3>1. /\ [t EXCEPT !.pc = "finish"].pc = "finish"
            /\ \A v : [t EXCEPT !.todo = @ \ {v}].pc = t.pc
        BY <1>1 DEF TaskSet, TaskRecords
      <3>2. \/ task' = [task EXCEPT ![k][r] = [t EXCEPT !.pc = "finish"]]
            \/ \E v : task' = [task EXCEPT ![k][r] = [t EXCEPT !.todo = @ \ {v}]]
        BY <2>6 DEF RemovePrevious
      <3>3. t.pc = "purge"
        BY <2>6 DEF RemovePrevious
      <3> HIDE DEF t
      <3>4. CASE task' = [task EXCEPT ![k][r] = [t EXCEPT !.pc = "finish"]]
        BY <3>1, <3>4 DEF Writing
      <3>5. ASSUME NEW v, task' = [task EXCEPT ![k][r] = [t EXCEPT !.todo = @ \ {v}]]
            PROVE  \E u : /\ task' = [task EXCEPT ![k][r] = u]
                          /\ u.pc \in {"compute", "insert"} \union Writing
        BY <3>1, <3>3, <3>5 DEF Writing
      <3> QED
        BY <3>2, <3>4, <3>5
    <2>7. CASE FinishCompute(k, r)
      <3>1. PICK s \in LoadResults(Outcome(t)) :
              task' = [task EXCEPT ![k][r] =
                         [Idle EXCEPT !.pc = "insert", !.entry = Outcome(t), !.status = s,
                                      !.born = t.born,
                                      !.deadline = AsInstant(ForFreshStatus(s), now)]]
        BY <2>7 DEF FinishCompute
      <3>2. [Idle EXCEPT !.pc = "insert", !.entry = Outcome(t), !.status = s, !.born = t.born,
                         !.deadline = AsInstant(ForFreshStatus(s), now)].pc = "insert"
        BY DEF Idle
      <3> QED
        BY <3>1, <3>2
    <2> QED
      BY <2>1, <2>2, <2>3, <2>4, <2>5, <2>6, <2>7 DEF ComputeStep
  <1>6. PICK u : /\ task' = [task EXCEPT ![k][r] = u]
                 /\ u.pc \in {"compute", "insert"} \union Writing
    BY <1>5
  <1>7. /\ task'[k][r] = u
        /\ \A j \in Keys, q \in Roles : j # k \/ q # r => task'[j][q] = task[j][q]
    BY <1>6 DEF TypeOK
  <1> QED
    BY <1>4, <1>6, <1>7

\* spawn_refresh put the refresh task of k to work.
Spawned(k) ==
    /\ k \notin refreshes /\ lazy < MaxLazy
    /\ refreshes' = refreshes \union {k} /\ lazy' = lazy + 1
    /\ task'[k]["refresh"].pc = "fetch"

\* What found entries do: the fill task inserts, and a refresh may start.
LEMMA FoundEffect ==
    ASSUME TypeOK, NEW k \in Keys, NEW f \in [Roles -> TaskSet], NEW v, NEW s, NEW b, NEW e,
           FoundLocal(k, f, v, s, b, e)
    PROVE  /\ \A j \in Keys \ {k} : task'[j] = task[j]
           /\ task'[k]["fill"].pc = "insert" /\ task'[k]["fill"].entry = s
           /\ task'[k]["fill"].born = b /\ task'[k]["fill"].deadline = AsInstant(e, now)
           /\ task'[k]["fill"].version = v
           /\ \/ UNCHANGED <<refreshes, lazy>> /\ task'[k]["refresh"] = f["refresh"]
              \/ Spawned(k) /\ task'[k]["refresh"] = StartCompute
  <1>1. PICK st \in LoadResults(s) :
          LET found == [f EXCEPT !["fill"] =
                          [Idle EXCEPT !.pc = "insert", !.entry = s, !.status = st,
                                       !.born = b, !.version = v,
                                       !.deadline = AsInstant(e, now)]]
          IN  IF v = Current
              THEN /\ task' = [task EXCEPT ![k] = found]
                   /\ UNCHANGED <<refreshes, lazy>>
              ELSE SpawnRefresh(k, found)
    BY DEF FoundLocal
  <1> DEFINE item == [Idle EXCEPT !.pc = "insert", !.entry = s, !.status = st,
                                  !.born = b, !.version = v,
                                  !.deadline = AsInstant(e, now)]
             found == [f EXCEPT !["fill"] = item]
             spawned == [found EXCEPT !["refresh"] = StartCompute]
  <1>2. /\ found["fill"] = item /\ found["refresh"] = f["refresh"]
        /\ spawned["fill"] = item /\ spawned["refresh"] = StartCompute
    BY DEF Roles
  <1>3. StartCompute.pc = "fetch"
    BY DEF StartCompute, Idle
  <1>4. \/ task' = [task EXCEPT ![k] = found] /\ UNCHANGED <<refreshes, lazy>>
        \/ /\ task' = [task EXCEPT ![k] = spawned]
           /\ k \notin refreshes /\ lazy < MaxLazy
           /\ refreshes' = refreshes \union {k} /\ lazy' = lazy + 1
    BY <1>1 DEF SpawnRefresh
  <1>7. /\ item.pc = "insert" /\ item.entry = s
        /\ item.born = b /\ item.deadline = AsInstant(e, now) /\ item.version = v
    BY DEF Idle
  <1> HIDE DEF item, found, spawned
  <1>5. CASE task' = [task EXCEPT ![k] = found] /\ UNCHANGED <<refreshes, lazy>>
    <2>1. task'[k] = found /\ \A j \in Keys \ {k} : task'[j] = task[j]
      BY <1>5 DEF TypeOK
    <2> QED
      BY <1>2, <1>5, <1>7, <2>1
  <1>6. CASE /\ task' = [task EXCEPT ![k] = spawned]
             /\ k \notin refreshes /\ lazy < MaxLazy
             /\ refreshes' = refreshes \union {k} /\ lazy' = lazy + 1
    <2>1. task'[k] = spawned /\ \A j \in Keys \ {k} : task'[j] = task[j]
      BY <1>6 DEF TypeOK
    <2> QED
      BY <1>2, <1>3, <1>6, <1>7, <2>1 DEF Spawned
  <1> QED
    BY <1>4, <1>5, <1>6

\* A lookup step changes its own fill task, and may spawn a refresh.
LEMMA LookupEffect ==
    ASSUME TypeOK, NEW k \in Keys, LookupCheck(k) \/ LookupTouch(k)
    PROVE  /\ \A j \in Keys \ {k} : task'[j] = task[j]
           /\ \/ /\ UNCHANGED <<refreshes, lazy>>
                 /\ \/ task'[k]["refresh"] = task[k]["refresh"]
                    \/ task'[k]["refresh"] = [task[k]["refresh"] EXCEPT !.linked = FALSE]
              \/ Spawned(k) /\ task'[k]["refresh"] = StartCompute
  <1> DEFINE tasks == IF /\ file[k][LookupOrder[task[k]["fill"].i]].entry # "none"
                         /\ meta[k][LookupOrder[task[k]["fill"].i]].state = "partial"
                         /\ LookupOrder[task[k]["fill"].i] = Current
                      THEN Detached(task[k]) ELSE task[k]
  <1>1. task[k] \in [Roles -> TaskSet] /\ tasks \in [Roles -> TaskSet]
    BY DetachedType DEF TypeOK
  <1>2. \/ tasks["refresh"] = task[k]["refresh"]
        \/ tasks["refresh"] = [task[k]["refresh"] EXCEPT !.linked = FALSE]
    BY DEF Detached, Roles
  <1>3. \/ \E u : /\ task' = [task EXCEPT ![k] = [tasks EXCEPT !["fill"] = u]]
                  /\ UNCHANGED <<refreshes, lazy>>
        \/ \E u : /\ task' = [task EXCEPT ![k]["fill"] = u]
                  /\ UNCHANGED <<refreshes, lazy>>
        \/ \E v, s, b, e : FoundLocal(k, task[k], v, s, b, e) \/ FoundLocal(k, tasks, v, s, b, e)
    <2>1. CASE LookupCheck(k)
      BY <2>1 DEF LookupCheck
    <2>2. CASE LookupTouch(k)
      BY <2>2 DEF LookupTouch
    <2> QED
      BY <2>1, <2>2
  <1> HIDE DEF tasks
  <1>4. ASSUME NEW u, task' = [task EXCEPT ![k] = [tasks EXCEPT !["fill"] = u]]
        PROVE  /\ \A j \in Keys \ {k} : task'[j] = task[j]
               /\ task'[k]["refresh"] = tasks["refresh"]
    BY <1>1, <1>4 DEF TypeOK, Roles
  <1>5. ASSUME NEW u, task' = [task EXCEPT ![k]["fill"] = u]
        PROVE  /\ \A j \in Keys \ {k} : task'[j] = task[j]
               /\ task'[k]["refresh"] = task[k]["refresh"]
    BY <1>1, <1>5 DEF TypeOK, Roles
  <1>6. ASSUME NEW f \in {task[k], tasks}, NEW v, NEW s, NEW b, NEW e,
               FoundLocal(k, f, v, s, b, e)
        PROVE  /\ \A j \in Keys \ {k} : task'[j] = task[j]
               /\ \/ UNCHANGED <<refreshes, lazy>> /\ task'[k]["refresh"] = f["refresh"]
                  \/ Spawned(k) /\ task'[k]["refresh"] = StartCompute
    BY <1>1, <1>6, FoundEffect
  <1> QED
    BY <1>2, <1>3, <1>4, <1>5, <1>6

\* Only the linked flag of the refresh tasks changes.
LEMMA RefreshPcKept ==
    ASSUME Inv, TypeOK', UNCHANGED <<refreshes, lazy>>,
           \A j \in Keys : \/ task'[j]["refresh"] = task[j]["refresh"]
                          \/ task'[j]["refresh"] = [task[j]["refresh"] EXCEPT !.linked = FALSE]
    PROVE  Inv'
  <1>1. \A j \in Keys : task[j]["refresh"] \in TaskSet
    BY DEF Inv, TypeOK, Roles
  <1>2. \A t \in TaskSet : [t EXCEPT !.linked = FALSE].pc = t.pc
    BY DEF TaskSet, TaskRecords
  <1>3. \A j \in Keys : task'[j]["refresh"].pc = task[j]["refresh"].pc
    BY <1>1, <1>2
  <1> QED
    BY <1>3, TokensKept

\* Lookups keep the token invariant.
LEMMA LookupInv ==
    ASSUME Inv, NEW k \in Keys, LookupCheck(k) \/ LookupTouch(k) PROVE Inv'
  <1>1. TypeOK /\ TypeOK'
    BY LookupCheckType, LookupTouchType DEF Inv
  <1>2. \A j \in Keys \ {k} : task'[j] = task[j]
    BY <1>1, LookupEffect
  <1>3. CASE /\ UNCHANGED <<refreshes, lazy>>
             /\ \/ task'[k]["refresh"] = task[k]["refresh"]
                \/ task'[k]["refresh"] = [task[k]["refresh"] EXCEPT !.linked = FALSE]
    BY <1>1, <1>2, <1>3, RefreshPcKept
  <1>4. CASE Spawned(k)
    BY <1>1, <1>2, <1>4, TokensTaken DEF Spawned
  <1> QED
    BY <1>1, <1>3, <1>4, LookupEffect

\* The steps of compute keep the token invariant.
LEMMA ComputeInv ==
    ASSUME Inv, NEW k \in Keys, NEW r \in Roles, ComputeStep(k, r) PROVE Inv'
  <1>1. TypeOK /\ TypeOK'
    BY ComputeStepType DEF Inv
  <1>2. /\ task[k][r].pc \notin {"idle", "unregister"}
        /\ task'[k][r].pc \notin {"idle", "unregister"}
        /\ \A j \in Keys, q \in Roles : j # k \/ q # r => task'[j][q] = task[j][q]
        /\ UNCHANGED <<refreshes, lazy>>
    BY <1>1, ComputeEffect DEF Writing
  <1>3. ASSUME NEW j \in Keys
        PROVE  \/ task'[j]["refresh"].pc = task[j]["refresh"].pc
               \/ {task'[j]["refresh"].pc, task[j]["refresh"].pc}
                     \cap {"idle", "unregister"} = {}
    <2>1. CASE j = k /\ r = "refresh"
      BY <1>2, <2>1
    <2>2. CASE ~ (j = k /\ r = "refresh")
      BY <1>2, <2>2 DEF Roles
    <2> QED
      BY <2>1, <2>2
  <1> QED
    BY <1>1, <1>2, <1>3, TokensKept

\* The end of a refresh, or its panic, returns its token once.
LEMMA RefreshInv ==
    ASSUME Inv, NEW k \in Keys,
           RefreshPanics(k) \/ InsertFill(k) \/ InsertRefresh(k) \/ ReleaseToken(k)
             \/ UnregisterRefresh(k) \/ Evict(k)
    PROVE  Inv'
  <1>1. TypeOK /\ TypeOK'
    BY RefreshStepType DEF Inv, Holders
  <1>2. Releasing.pc = "release" /\ Idle.pc = "idle"
    BY DEF Releasing, Idle
  <1>3. ASSUME NEW u, task' = [task EXCEPT ![k]["refresh"] = u]
        PROVE  /\ task'[k]["refresh"] = u
               /\ \A j \in Keys \ {k} : task'[j]["refresh"] = task[j]["refresh"]
    BY <1>1, <1>3 DEF TypeOK, Roles
  <1>4. CASE RefreshPanics(k) \/ InsertRefresh(k)
    <2>1. /\ task' = [task EXCEPT ![k]["refresh"] = Releasing]
          /\ UNCHANGED <<refreshes, lazy>>
          /\ task[k]["refresh"].pc \notin {"idle", "unregister"}
      BY <1>4 DEF RefreshPanics, InsertRefresh
    <2>2. /\ task'[k]["refresh"].pc = "release"
          /\ \A j \in Keys \ {k} : task'[j]["refresh"] = task[j]["refresh"]
      BY <1>2, <1>3, <2>1
    <2> QED
      BY <1>1, <2>1, <2>2, TokensKept
  <1>5. CASE InsertFill(k) \/ Evict(k)
    <2>1. /\ UNCHANGED <<refreshes, lazy>>
          /\ \A j \in Keys : task'[j]["refresh"] = task[j]["refresh"]
      <3>1. CASE InsertFill(k)
        BY <1>1, <3>1 DEF InsertFill, TypeOK, Roles
      <3>2. CASE Evict(k)
        BY <3>2 DEF Evict
      <3> QED
        BY <1>5, <3>1, <3>2
    <2> QED
      BY <1>1, <2>1, RefreshPcKept
  <1>6. CASE ReleaseToken(k)
    <2>1. /\ task' = [task EXCEPT ![k]["refresh"] =
                        [task[k]["refresh"] EXCEPT !.pc = "unregister"]]
          /\ lazy' = lazy - 1 /\ refreshes' = refreshes
          /\ task[k]["refresh"].pc = "release"
      BY <1>6 DEF ReleaseToken
    <2>2. [task[k]["refresh"] EXCEPT !.pc = "unregister"].pc = "unregister"
      <3>1. task[k]["refresh"] \in TaskSet
        BY <1>1 DEF TypeOK, Roles
      <3> QED
        BY <3>1 DEF TaskSet, TaskRecords
    <2>3. /\ task'[k]["refresh"].pc = "unregister"
          /\ \A j \in Keys \ {k} : task'[j]["refresh"] = task[j]["refresh"]
      BY <1>3, <2>1, <2>2
    <2>4. Holders' = Holders \ {k} /\ k \in Holders
      BY <2>1, <2>3 DEF Holders, HoldsToken
    <2>5. IsFiniteSet(Holders') /\ Cardinality(Holders') = Cardinality(Holders) - 1
      BY <2>4, FS_RemoveElement DEF Inv
    <2>6. lazy' = Cardinality(Holders') /\ lazy' <= MaxLazy
      <3>1. lazy = Cardinality(Holders) /\ lazy <= MaxLazy /\ lazy \in Nat /\ MaxLazy \in Nat
        BY CacherConstants DEF Inv, RefreshesBounded, Holders, TypeOK
      <3> QED
        BY <2>1, <2>5, <3>1
    <2>7. refreshes' = {j \in Keys : task'[j]["refresh"].pc # "idle"}
      <3>1. refreshes = {j \in Keys : task[j]["refresh"].pc # "idle"}
        BY DEF Inv, RefreshesBounded
      <3> QED
        BY <2>1, <2>3, <3>1
    <2> QED
      BY <1>1, <2>5, <2>6, <2>7 DEF Inv, RefreshesBounded, Holders
  <1>7. CASE UnregisterRefresh(k)
    <2>1. /\ task' = [task EXCEPT ![k]["refresh"] = Idle]
          /\ lazy' = lazy /\ refreshes' = refreshes \ {k}
          /\ task[k]["refresh"].pc = "unregister"
      BY <1>7 DEF UnregisterRefresh
    <2>2. /\ task'[k]["refresh"].pc = "idle"
          /\ \A j \in Keys \ {k} : task'[j]["refresh"] = task[j]["refresh"]
      BY <1>2, <1>3, <2>1
    <2>3. Holders' = Holders
      BY <2>1, <2>2 DEF Holders, HoldsToken
    <2>4. refreshes' = {j \in Keys : task'[j]["refresh"].pc # "idle"}
      <3>1. refreshes = {j \in Keys : task[j]["refresh"].pc # "idle"}
        BY DEF Inv, RefreshesBounded
      <3> QED
        BY <2>1, <2>2, <3>1
    <2> QED
      BY <1>1, <2>1, <2>3, <2>4 DEF Inv, RefreshesBounded, Holders
  <1> QED
    BY <1>4, <1>5, <1>6, <1>7

\* Callers, the cleanup process and time keep the token invariant.
LEMMA OtherInv ==
    ASSUME Inv, CallerStep \/ CleanupStep \/ Tick \/ UNCHANGED vars PROVE Inv'
  <1>1. TypeOK /\ TypeOK'
    BY CallerStepType, CleanupStepType, EnvironmentType DEF Inv
  <1>2. ASSUME NEW j \in Keys
        PROVE  \/ task'[j]["refresh"] = task[j]["refresh"]
               \/ task'[j]["refresh"] = [task[j]["refresh"] EXCEPT !.linked = FALSE]
    <2>1. CASE CallerStep
      <3>1. \/ task' = task
            \/ \E k \in Keys : \E u : task' = [task EXCEPT ![k]["fill"] = u]
        BY <2>1 DEF CallerStep, ComputeMemoized, CallerDropped
      <3>2. ASSUME NEW k \in Keys, NEW u, task' = [task EXCEPT ![k]["fill"] = u]
            PROVE  task'[j]["refresh"] = task[j]["refresh"]
        BY <1>1, <3>2 DEF TypeOK, Roles
      <3> QED
        BY <3>1, <3>2
    <2>2. CASE CleanupStep
      <3>1. \/ task' = task
            \/ \E k \in Keys : task' = [task EXCEPT ![k] = Detached(task[k])]
        BY <1>1, <2>2
        DEF CleanupStep, CleanupCheck, CleanupRemoveFile, CleanupRemoveMetadata,
            CleanupRemoveDir, TypeOK
      <3>2. ASSUME NEW k \in Keys, task' = [task EXCEPT ![k] = Detached(task[k])]
            PROVE  \/ task'[j]["refresh"] = task[j]["refresh"]
                   \/ task'[j]["refresh"] = [task[j]["refresh"] EXCEPT !.linked = FALSE]
        BY <1>1, <3>2 DEF Detached, TypeOK, Roles
      <3> QED
        BY <3>1, <3>2
    <2>3. CASE Tick \/ UNCHANGED vars
      BY <2>3 DEF Tick, vars
    <2> QED
      BY <2>1, <2>2, <2>3
  <1>3. UNCHANGED <<refreshes, lazy>>
    BY DEF CallerStep, ComputeMemoized, CallerDropped, CleanupStep, CleanupCheck,
           CleanupRemoveFile, CleanupRemoveMetadata, CleanupRemoveDir, Tick, vars
  <1> QED
    BY <1>1, <1>2, <1>3, RefreshPcKept

\* Without tasks, refreshes and tokens the token invariant holds.
LEMMA EmptyInv ==
    ASSUME TypeOK, refreshes = {}, lazy = 0, \A j \in Keys : task[j]["refresh"].pc = "idle"
    PROVE  Inv
  <1>1. Holders = {}
    BY DEF Holders, HoldsToken
  <1>2. IsFiniteSet(Holders) /\ Cardinality(Holders) = 0
    BY <1>1, FS_EmptySet
  <1>3. 0 <= MaxLazy
    BY CacherConstants
  <1> QED
    BY <1>2, <1>3 DEF Inv, RefreshesBounded, Holders

\* The token invariant holds initially.
LEMMA InitInv == Init => Inv
  <1> SUFFICES ASSUME Init PROVE Inv
    OBVIOUS
  <1>1. TypeOK
    BY InitType
  <1>2. refreshes = {} /\ lazy = 0 /\ \A j \in Keys : task[j]["refresh"].pc = "idle"
    BY DEF Init, Idle, Roles
  <1> QED
    BY <1>1, <1>2, EmptyInv

\* A restart of the process keeps the token invariant.
LEMMA CrashInv ==
    ASSUME Inv, Crash PROVE Inv'
  <1>1. TypeOK'
    BY EnvironmentType DEF Inv
  <1>2. refreshes' = {} /\ lazy' = 0 /\ \A j \in Keys : task'[j]["refresh"].pc = "idle"
    BY DEF Crash, Idle, Roles
  <1>3. Holders' = {}
    BY <1>2 DEF Holders, HoldsToken
  <1>4. IsFiniteSet(Holders') /\ Cardinality(Holders') = 0
    BY <1>3, FS_EmptySet
  <1>5. 0 <= MaxLazy
    BY CacherConstants
  <1> QED
    BY <1>1, <1>2, <1>4, <1>5 DEF Inv, RefreshesBounded, Holders

\* The token invariant is inductive.
LEMMA NextInv == Inv /\ [Next]_vars => Inv'
  <1> SUFFICES ASSUME Inv, [Next]_vars PROVE Inv'
    OBVIOUS
  <1>1. ASSUME NEW k \in Keys, FillStep(k) PROVE Inv'
    BY <1>1, LookupInv, ComputeInv, RefreshInv DEF FillStep, Roles
  <1>2. ASSUME NEW k \in Keys, RefreshStep(k) PROVE Inv'
    BY <1>2, ComputeInv, RefreshInv DEF RefreshStep, Roles
  <1>3. ASSUME NEW k \in Keys, Evict(k) PROVE Inv'
    BY <1>3, RefreshInv
  <1> QED
    BY <1>1, <1>2, <1>3, OtherInv, CrashInv DEF Next

(***************************************************************************)
(* In every state every variable has its type; a task that is writing has  *)
(* an entry to write and never an InternalError (write_cache_file), and    *)
(* the lazy-refresh counter never falls below zero.                        *)
(***************************************************************************)
THEOREM TypeCorrect == Spec => []TypeOK
  <1>1. Inv => TypeOK
    BY DEF Inv
  <1> QED
    BY <1>1, InitInv, NextInv, PTL DEF Spec

(***************************************************************************)
(* For any number of keys, callers and crashes, and whichever refreshes    *)
(* panic: the counter equals the number of refreshes holding a token and   *)
(* stays within the category's limit, and a key is registered exactly      *)
(* while its refresh task runs (spawn_refresh and its done_token).         *)
(***************************************************************************)
THEOREM RefreshesAreBounded == Spec => []RefreshesBounded
  <1>1. Inv => RefreshesBounded
    BY DEF Inv
  <1> QED
    BY <1>1, InitInv, NextInv, PTL DEF Spec

-----------------------------------------------------------------------------
(* The age of a cached error: the inductive invariant for ErrorsExpire. *)

IsError(entry) == entry \notin {"ok", "none"}

\* The deadline d of an item with entry e computed at b.
ByDeadline(e, b, d) == IsError(e) => d <= b + MaxRetry(e) + 2 * WriteTime

\* The timestamps of a stored error are not much later than its computation.
FileAged(f, m, n) ==
    /\ m.created <= n
    /\ IsError(f.entry) => /\ f.mtime <= f.born + 2 * WriteTime
                           /\ m.state = "full" => m.created <= f.born + WriteTime

\* A synchronous section has lasted no longer than WriteTime.
InTime(t, n) == t.since <= n /\ n <= t.since + WriteTime

(***************************************************************************)
(* A task on the files of its key: a section that writes, or touches, is   *)
(* in time, and an error in the file it touches, or writes the metadata    *)
(* of, is not much older than the section.                                 *)
(***************************************************************************)
Younger(t, f) == IsError(f.entry) => t.since <= f.born + WriteTime

TaskAged(t, files, n) ==
    /\ t.pc \in Writing => InTime(t, n) /\ t.born = t.since
    /\ t.pc = "touch" => InTime(t, n) /\ Younger(t, files[LookupOrder[t.i]])
    /\ t.pc \in {"mdcreate", "mdwrite"} => Younger(t, files[Current])
    /\ t.pc = "insert" => ByDeadline(t.entry, t.born, t.deadline)

ItemAged(x, n) ==
    ByDeadline(x.entry, x.born, x.deadline) /\ (IsError(x.entry) => n < x.deadline)

AgeInv ==
    /\ \A k \in Keys, v \in Versions : FileAged(file[k][v], meta[k][v], now)
    /\ \A k \in Keys, r \in Roles : TaskAged(task[k][r], file[k], now)
    /\ \A k \in Keys : ItemAged(mem[k], now)

-----------------------------------------------------------------------------
\* Retry intervals are durations.
LEMMA RetryType ==
    ASSUME NEW s PROVE MaxRetry(s) \in Nat
  BY ExpiryConstants DEF MaxRetry

\* The types of the fields the age argument reads.
LEMMA Fields ==
    ASSUME TypeOK
    PROVE  /\ now \in Nat
           /\ \A k \in Keys, v \in Versions :
                /\ file[k][v] \in FileSet /\ meta[k][v] \in MetaSet
                /\ file[k][v].mtime \in Nat /\ file[k][v].born \in Nat
                /\ meta[k][v].created \in Nat
           /\ \A k \in Keys, r \in Roles : task[k][r] \in TaskSet
           /\ \A k \in Keys : /\ task[k] \in [Roles -> TaskSet]
                               /\ file[k] \in [Versions -> FileSet]
                               /\ mem[k] \in ItemSet
  BY DEF TypeOK, FileSet, MetaSet

\* The types of the fields of a task.
LEMMA TaskFields ==
    ASSUME NEW t \in TaskSet
    PROVE  /\ t.since \in Nat /\ t.born \in Nat /\ t.deadline \in Nat
           /\ LookupOrder[t.i] \in Versions
  BY LookupOrderType DEF TaskSet, TaskRecords

\* Tasks with nothing at stake.
LEMMA PassiveAged ==
    ASSUME NEW t, NEW files, NEW n, t.pc \notin Writing \union {"touch", "insert"}
    PROVE  TaskAged(t, files, n)
  BY DEF TaskAged, Writing

\* Tasks that start have nothing at stake.
LEMMA StartAged ==
    ASSUME NEW files, NEW n
    PROVE  /\ TaskAged(Idle, files, n)
           /\ TaskAged(StartFill, files, n)
           /\ TaskAged(StartCompute, files, n)
           /\ TaskAged(Releasing, files, n)
           /\ \A t : TaskAged(NextVersion(t), files, n)
  <1>1. /\ Idle.pc = "idle" /\ StartFill.pc = "check" /\ StartCompute.pc = "fetch"
        /\ Releasing.pc = "release" /\ \A t : NextVersion(t).pc \in {"check", "fetch"}
    BY DEF Idle, StartFill, StartCompute, Releasing, NextVersion
  <1> QED
    BY <1>1, PassiveAged DEF Writing

\* That its metadata file lost its name makes no task late.
LEMMA UnlinkedAged ==
    ASSUME NEW t \in TaskSet, NEW files, NEW n, TaskAged(t, files, n)
    PROVE  TaskAged([t EXCEPT !.linked = FALSE], files, n)
  <1> DEFINE u == [t EXCEPT !.linked = FALSE]
  <1>1. /\ u.pc = t.pc /\ u.since = t.since /\ u.born = t.born /\ u.i = t.i
        /\ u.entry = t.entry /\ u.deadline = t.deadline
    BY DEF TaskSet, TaskRecords
  <1> HIDE DEF u
  <1>2. TaskAged(u, files, n)
    BY <1>1 DEF TaskAged, InTime, Younger
  <1> QED
    BY <1>2 DEF u

\* A file that is removed, or touched, makes no task late.
LEMMA RemovedAged ==
    ASSUME NEW t \in TaskSet, NEW files \in [Versions -> FileSet], NEW v \in Versions, NEW n,
           TaskAged(t, files, n)
    PROVE  TaskAged(t, [files EXCEPT ![v] = NoFile], n)
  <1>1. ~ IsError(NoFile.entry)
    BY DEF IsError, NoFile
  <1>2. \A w \in Versions : \/ [files EXCEPT ![v] = NoFile][w] = NoFile
                            \/ [files EXCEPT ![v] = NoFile][w] = files[w]
    OBVIOUS
  <1>3. Current \in Versions /\ LookupOrder[t.i] \in Versions
    BY TaskFields DEF Versions
  <1> QED
    BY <1>1, <1>2, <1>3 DEF TaskAged, Younger

\* A new modification time makes no task late.
LEMMA TouchedAged ==
    ASSUME NEW t \in TaskSet, NEW files \in [Versions -> FileSet], NEW v \in Versions, NEW n, NEW m,
           TaskAged(t, files, n)
    PROVE  TaskAged(t, [files EXCEPT ![v] = [@ EXCEPT !.mtime = m]], n)
  <1> DEFINE g == [files EXCEPT ![v] = [@ EXCEPT !.mtime = m]]
  <1>1. \A w \in Versions : g[w].entry = files[w].entry /\ g[w].born = files[w].born
    BY DEF FileSet
  <1>2. Current \in Versions /\ LookupOrder[t.i] \in Versions
    BY TaskFields DEF Versions
  <1> HIDE DEF g
  <1>3. TaskAged(t, g, n)
    BY <1>1, <1>2 DEF TaskAged, Younger
  <1> QED
    BY <1>3 DEF g

\* A new file makes no task late: it was computed at most WriteTime ago.
LEMMA ReplacedAged ==
    ASSUME NEW t \in TaskSet, NEW files \in [Versions -> FileSet], NEW f, NEW n \in Nat,
           f.born \in Nat, n <= f.born + WriteTime,
           TaskAged(t, files, n)
    PROVE  TaskAged(t, [files EXCEPT ![Current] = f], n)
  <1>1. \A w \in Versions : \/ [files EXCEPT ![Current] = f][w] = f
                            \/ [files EXCEPT ![Current] = f][w] = files[w]
    OBVIOUS
  <1>2. Current \in Versions /\ LookupOrder[t.i] \in Versions /\ t.since \in Nat
    BY TaskFields DEF Versions
  <1>3. InTime(t, n) => Younger(t, f)
    BY <1>2, CacherConstants DEF InTime, Younger
  <1> QED
    BY <1>1, <1>2, <1>3 DEF TaskAged, Younger, Writing

\* A task that starts to write is in time.
LEMMA ProducedAged ==
    ASSUME now \in Nat, NEW s \in Status, NEW h \in BOOLEAN, NEW files
    PROVE  TaskAged(Produced(s, h), files, now) /\ TaskAged(FailedHit(s), files, now)
  <1>1. /\ Produced(s, h).pc \in {"persist", "finish"}
        /\ Produced(s, h).since = now /\ Produced(s, h).born = now
    BY DEF Produced, Idle
  <1>2. /\ FailedHit(s).pc \in {"persist", "finish"}
        /\ FailedHit(s).since = now /\ FailedHit(s).born = now
    BY DEF FailedHit, Produced, Idle
  <1> QED
    BY <1>1, <1>2, CacherConstants DEF TaskAged, InTime

\* A loaded item keeps the deadline its file's timestamps give it.
LEMMA LoadedAged ==
    ASSUME TypeOK, AgeInv, NEW k \in Keys, NEW v \in Versions, file[k][v].entry # "none",
           CheckExpiry(k, v, start).kind # "NotFound"
    PROVE  ByDeadline(file[k][v].entry, file[k][v].born,
                      AsInstant(CheckExpiry(k, v, start), now))
  <1> DEFINE f == file[k][v]
             m == meta[k][v]
             known == m.state = "full"
             ctime == IF known THEN m.created ELSE f.mtime
             public == known /\ k \in PublicKeys
  <1>1. /\ now \in Nat /\ f.mtime \in Nat /\ f.born \in Nat /\ m.created \in Nat
        /\ f.entry \in Stored
    BY Fields DEF FileSet, Entries
  <1>2. FileAged(f, m, now)
    BY DEF AgeInv
  <1>3. SUFFICES ASSUME IsError(f.entry)
                 PROVE  AsInstant(CheckExpiry(k, v, start), now)
                          <= f.born + MaxRetry(f.entry) + 2 * WriteTime
    BY DEF ByDeadline
  <1>4. ctime \in Nat /\ ctime <= f.born + 2 * WriteTime
    BY <1>1, <1>2, <1>3, CacherConstants DEF FileAged
  <1>5. PICK retry \in Nat :
          /\ retry <= MaxRetry(f.entry)
          /\ CheckExpiry(k, v, start).in = SaturatingSub(retry, Elapsed(ctime, now))
          /\ SaturatingSub(retry, Elapsed(ctime, now)) # 0
    <2>1. CheckExpiry(k, v, start)
            = ComputeExpirationTime(f.entry, f.mtime, ctime, public, start, now)
      BY DEF CheckExpiry
    <2>2. f.entry \in {"negative", "malformed"}
      BY <1>1, <1>3 DEF IsError, Stored
    <2>3. /\ RetryAfter(public) \in Nat /\ RetryMalformedAfter \in Nat
          /\ f.entry = "negative" => RetryAfter(public) <= MaxRetry(f.entry)
          /\ f.entry = "malformed" => RetryMalformedAfter <= MaxRetry(f.entry)
      BY ExpiryConstants DEF RetryAfter, MaxRetry
    <2> DEFINE expiry == CheckExpiry(k, v, start)
    <2> HIDE DEF f, ctime, public, m
    <2>4. CASE f.entry = "negative"
      <3>1. expiry = RefreshIn(SaturatingSub(RetryAfter(public), Elapsed(ctime, now)))
            /\ SaturatingSub(RetryAfter(public), Elapsed(ctime, now)) # 0
        BY <2>1, <2>4
        DEF ComputeExpirationTime, ExpirationStrategy, NotFound
      <3> QED
        BY <2>3, <2>4, <3>1 DEF RefreshIn
    <2>5. CASE f.entry = "malformed"
      <3>1. expiry = RefreshIn(SaturatingSub(RetryMalformedAfter, Elapsed(ctime, now)))
            /\ SaturatingSub(RetryMalformedAfter, Elapsed(ctime, now)) # 0
        BY <2>1, <2>5
        DEF ComputeExpirationTime, ExpirationStrategy, NotFound
      <3> QED
        BY <2>3, <2>5, <3>1 DEF RefreshIn
    <2> QED
      BY <2>2, <2>4, <2>5
  <1>6. now + SaturatingSub(retry, Elapsed(ctime, now)) <= ctime + retry
    BY <1>1, <1>4, <1>5 DEF SaturatingSub, Elapsed
  <1>7. SaturatingSub(retry, Elapsed(ctime, now)) \in Nat /\ MaxRetry(f.entry) \in Nat
    BY <1>1, <1>4, <1>5, RetryType DEF SaturatingSub, Elapsed
  <1> HIDE DEF f, ctime
  <1> QED
    BY <1>1, <1>4, <1>5, <1>6, <1>7, CacherConstants DEF AsInstant

\* An entry finished at most WriteTime after it was computed has a deadline.
LEMMA FreshAged ==
    ASSUME NEW s \in Status, NEW b \in Nat, NEW n \in Nat, b <= n, n <= b + WriteTime
    PROVE  ByDeadline(s, b, AsInstant(ForFreshStatus(s), n))
  <1>1. s # "ok" => ForFreshStatus(s).in <= MaxRetry(s) /\ ForFreshStatus(s).in \in Nat
    BY ExpiryConstants DEF ForFreshStatus, ExpirationStrategy, RefreshIn, MaxRetry
  <1> QED
    BY <1>1, RetryType, CacherConstants DEF ByDeadline, IsError, AsInstant

\* Steps that change neither files nor the clock, and only the tasks of k.
LEMMA TasksOnlyAged ==
    ASSUME AgeInv, NEW k \in Keys, UNCHANGED <<now, file, mem>>,
           \A j \in Keys \ {k} : task'[j] = task[j],
           \A r \in Roles : TaskAged(task'[k][r], file[k], now),
           \A j \in Keys, v \in Versions : FileAged(file[j][v], meta'[j][v], now)
    PROVE  AgeInv'
  BY DEF AgeInv

\* Removing a metadata file ages no file.
LEMMA NoMetaAged ==
    ASSUME TypeOK, AgeInv, NEW j \in Keys, NEW v \in Versions,
           meta'[j][v] \in {meta[j][v], NoMeta}
    PROVE  FileAged(file[j][v], meta'[j][v], now)
  <1>1. NoMeta.created = 0 /\ NoMeta.state = "none"
    BY DEF NoMeta
  <1>2. FileAged(file[j][v], meta[j][v], now) /\ now \in Nat
    BY Fields DEF AgeInv
  <1> QED
    BY <1>1, <1>2 DEF FileAged

\* Steps of callers keep the age invariant.
LEMMA CallerAged ==
    ASSUME TypeOK, AgeInv, CallerStep PROVE AgeInv'
  <1>1. /\ UNCHANGED <<now, file, meta, mem>>
        /\ \/ task' = task
           \/ \E k \in Keys : \E u \in {Idle, StartFill} : task' = [task EXCEPT ![k]["fill"] = u]
    BY DEF CallerStep, ComputeMemoized, CallerDropped
  <1>2. CASE task' = task
    BY <1>1, <1>2 DEF AgeInv
  <1>3. ASSUME NEW k \in Keys, NEW u \in {Idle, StartFill},
               task' = [task EXCEPT ![k]["fill"] = u]
        PROVE  AgeInv'
    <2>1. /\ task'[k]["fill"] = u /\ task'[k]["refresh"] = task[k]["refresh"]
          /\ \A j \in Keys \ {k} : task'[j] = task[j]
      BY <1>3 DEF TypeOK, Roles
    <2>2. \A r \in Roles : TaskAged(task'[k][r], file[k], now)
      BY <2>1, StartAged DEF AgeInv, Roles
    <2> QED
      BY <1>1, <2>1, <2>2 DEF AgeInv
  <1> QED
    BY <1>1, <1>2, <1>3

\* What a lookup puts into the tasks of k.
LEMMA FoundAged ==
    ASSUME TypeOK, NEW k \in Keys, NEW f \in [Roles -> TaskSet], NEW v, NEW s, NEW b, NEW e,
           FoundLocal(k, f, v, s, b, e), NEW files,
           TaskAged(f["refresh"], files, now),
           ByDeadline(s, b, AsInstant(e, now))
    PROVE  \A r \in Roles : TaskAged(task'[k][r], files, now)
  <1>2. /\ task'[k]["fill"].pc = "insert" /\ task'[k]["fill"].entry = s
        /\ task'[k]["fill"].born = b /\ task'[k]["fill"].deadline = AsInstant(e, now)
    BY FoundEffect
  <1>3. TaskAged(task'[k]["fill"], files, now)
    BY <1>2 DEF TaskAged, Writing
  <1>4. task'[k]["refresh"] = f["refresh"] \/ task'[k]["refresh"] = StartCompute
    BY FoundEffect
  <1>5. TaskAged(task'[k]["refresh"], files, now)
    BY <1>4, StartAged
  <1> QED
    BY <1>3, <1>5 DEF Roles

\* The expiry check of a lookup keeps the age invariant.
LEMMA LookupCheckAged ==
    ASSUME TypeOK, AgeInv, NEW k \in Keys, LookupCheck(k) PROVE AgeInv'
  <1> DEFINE t == task[k]["fill"]
             v == LookupOrder[t.i]
             f == file[k][v]
             torn == f.entry # "none" /\ meta[k][v].state = "partial"
             tasks == IF torn /\ v = Current THEN Detached(task[k]) ELSE task[k]
             e == CheckExpiry(k, v, start)
  <1>1. /\ task[k] \in [Roles -> TaskSet] /\ t \in TaskSet /\ now \in Nat
        /\ v \in Versions
    BY Fields, TaskFields DEF Roles
  <1>2. tasks \in [Roles -> TaskSet]
    BY <1>1, DetachedType
  <1>3. TaskAged(tasks["refresh"], file[k], now)
    <2>1. task[k]["refresh"] \in TaskSet /\ TaskAged(task[k]["refresh"], file[k], now)
      BY Fields DEF AgeInv, Roles
    <2>2. \/ tasks["refresh"] = task[k]["refresh"]
          \/ tasks["refresh"] = [task[k]["refresh"] EXCEPT !.linked = FALSE]
      BY DEF Detached, Roles
    <2> QED
      BY <2>1, <2>2, UnlinkedAged
  <1>4. UNCHANGED <<now, file, mem>> /\ \A j \in Keys \ {k} : task'[j] = task[j]
    BY LookupEffect DEF LookupCheck
  <1>5. ASSUME NEW j \in Keys, NEW w \in Versions PROVE FileAged(file[j][w], meta'[j][w], now)
    <2>1. meta'[j][w] \in {meta[j][w], NoMeta}
      BY <1>1 DEF LookupCheck, TypeOK
    <2> QED
      BY <2>1, NoMetaAged
  <1>6. ASSUME NEW u, TaskAged(u, file[k], now),
               task' = [task EXCEPT ![k] = [tasks EXCEPT !["fill"] = u]]
        PROVE  \A r \in Roles : TaskAged(task'[k][r], file[k], now)
    <2>1. task'[k]["fill"] = u /\ task'[k]["refresh"] = tasks["refresh"]
      <3> HIDE DEF tasks
      <3> QED
        BY <1>2, <1>6 DEF TypeOK, Roles
    <2> QED
      BY <1>3, <1>6, <2>1 DEF Roles
  <1>7. \A r \in Roles : TaskAged(task'[k][r], file[k], now)
    <2>1. CASE task' = [task EXCEPT ![k] = [tasks EXCEPT !["fill"] = NextVersion(@)]]
      BY <1>6, <2>1, StartAged
    <2>2. CASE /\ f.entry # "none" /\ e.kind # "NotFound"
               /\ FoundLocal(k, tasks, v, f.entry, f.born, e)
      <3>1. ByDeadline(f.entry, f.born, AsInstant(e, now))
        BY <1>1, <2>2, LoadedAged
      <3> HIDE DEF tasks, f, e
      <3> QED
        BY <1>2, <1>3, <2>2, <3>1, FoundAged
    <2>3. CASE /\ e = TouchIn(0) /\ f.entry # "none"
               /\ task' = [task EXCEPT ![k] = [tasks EXCEPT !["fill"] =
                             [@ EXCEPT !.pc = "touch", !.since = now, !.born = f.born]]]
      <3> DEFINE u == [tasks["fill"] EXCEPT !.pc = "touch", !.since = now, !.born = f.born]
      <3>1. tasks["fill"] \in TaskSet /\ tasks["fill"].i = t.i
        BY <1>1, <1>2 DEF Detached, Roles, TaskSet, TaskRecords
      <3>2. u.pc = "touch" /\ u.since = now /\ u.i = t.i
        BY <3>1 DEF TaskSet, TaskRecords
      <3>3. f.entry = "ok"
        <4>1. f.entry \in Stored
          BY <1>1, <2>3, Fields DEF FileSet, Entries
        <4>2. f.entry \in {"negative", "malformed"} => e.kind # "TouchIn"
          BY DEF CheckExpiry, ComputeExpirationTime, ExpirationStrategy, RefreshIn, NotFound
        <4> HIDE DEF e, f
        <4>3. e = TouchIn(0)
          BY <2>3
        <4>4. e.kind = "TouchIn"
          BY <4>3 DEF TouchIn
        <4> QED
          BY <4>1, <4>2, <4>4 DEF Stored
      <3>4. TaskAged(u, file[k], now)
        <4> HIDE DEF u
        <4> QED
          BY <1>1, <3>2, <3>3, CacherConstants
          DEF TaskAged, InTime, Younger, IsError, Writing
      <3> QED
        BY <1>6, <2>3, <3>4
    <2>4. CASE task' = [task EXCEPT ![k] = [tasks EXCEPT !["fill"] =
                            [Idle EXCEPT !.pc = "insert", !.entry = "internal",
                                         !.status = "internal", !.born = now, !.version = v,
                                         !.deadline = AsInstant(ForFreshStatus("internal"), now)]]]
      <3> DEFINE u == [Idle EXCEPT !.pc = "insert", !.entry = "internal",
                                   !.status = "internal", !.born = now, !.version = v,
                                   !.deadline = AsInstant(ForFreshStatus("internal"), now)]
      <3>1. /\ u.pc = "insert" /\ u.entry = "internal" /\ u.born = now
            /\ u.deadline = AsInstant(ForFreshStatus("internal"), now)
        BY DEF Idle
      <3>2. ByDeadline("internal", now, AsInstant(ForFreshStatus("internal"), now))
        BY <1>1, FreshAged, CacherConstants DEF Status
      <3>3. TaskAged(u, file[k], now)
        <4> HIDE DEF u
        <4> QED
          BY <3>1, <3>2 DEF TaskAged, Writing
      <3> QED
        BY <1>6, <2>4, <3>3
    <2> QED
      BY <2>1, <2>2, <2>3, <2>4 DEF LookupCheck
  <1> QED
    BY <1>4, <1>5, <1>7, TasksOnlyAged

\* Touching a file keeps the age invariant.
LEMMA LookupTouchAged ==
    ASSUME TypeOK, AgeInv, NEW k \in Keys, LookupTouch(k) PROVE AgeInv'
  <1> DEFINE t == task[k]["fill"]
             v == LookupOrder[t.i]
             files == [file[k] EXCEPT ![v] = [@ EXCEPT !.mtime = now]]
  <1>1. /\ task[k] \in [Roles -> TaskSet] /\ t \in TaskSet /\ now \in Nat
        /\ v \in Versions /\ file[k] \in [Versions -> FileSet]
    BY Fields, TaskFields DEF Roles
  <1>2. UNCHANGED <<now, meta, mem>> /\ \A j \in Keys \ {k} : task'[j] = task[j]
    BY LookupEffect DEF LookupTouch
  <1>3. CASE file[k][v].entry = "none"
    <2>1. /\ task' = [task EXCEPT ![k]["fill"] = NextVersion(t)]
          /\ file' = file
      BY <1>3 DEF LookupTouch
    <2>2. task'[k]["fill"] = NextVersion(t) /\ task'[k]["refresh"] = task[k]["refresh"]
      BY <2>1 DEF TypeOK, Roles
    <2>3. \A r \in Roles : TaskAged(task'[k][r], file[k], now)
      BY <2>2, StartAged DEF AgeInv, Roles
    <2>4. \A j \in Keys, w \in Versions : FileAged(file[j][w], meta'[j][w], now)
      BY <1>2 DEF AgeInv
    <2> QED
      BY <1>2, <2>1, <2>3, <2>4, TasksOnlyAged
  <1>4. CASE file[k][v].entry # "none"
    <2>1. /\ file' = [file EXCEPT ![k][v] = [@ EXCEPT !.mtime = now]]
          /\ FoundLocal(k, task[k], v, "ok", t.born, TouchIn(TouchEvery))
          /\ t.pc = "touch"
      BY <1>4 DEF LookupTouch
    <2>2. file'[k] = files /\ \A j \in Keys \ {k} : file'[j] = file[j]
      BY <1>1, <2>1 DEF TypeOK
    <2>3. TaskAged(task[k]["refresh"], files, now)
      BY <1>1, Fields, TouchedAged DEF AgeInv, Roles
    <2>4. \A r \in Roles : TaskAged(task'[k][r], files, now)
      <3>1. ByDeadline("ok", t.born, AsInstant(TouchIn(TouchEvery), now))
        BY DEF ByDeadline, IsError
      <3> HIDE DEF files, v, t
      <3> QED
        BY <1>1, <2>1, <2>3, <3>1, FoundAged
    <2>5. FileAged(files[v], meta[k][v], now)
      <3>1. /\ files[v].mtime = now /\ files[v].entry = file[k][v].entry
            /\ files[v].born = file[k][v].born
        BY <1>1 DEF FileSet
      <3>2. FileAged(file[k][v], meta[k][v], now)
        BY <1>1 DEF AgeInv
      <3>3. InTime(t, now) /\ Younger(t, file[k][v])
        BY <2>1 DEF AgeInv, TaskAged, Roles
      <3>4. t.since \in Nat /\ file[k][v].born \in Nat
        BY <1>1, TaskFields, Fields
      <3> HIDE DEF files, t, v
      <3> QED
        BY <1>1, <3>1, <3>2, <3>3, <3>4, CacherConstants DEF FileAged, InTime, Younger
    <2>6. \A w \in Versions : FileAged(files[w], meta[k][w], now)
      BY <1>1, <2>5 DEF AgeInv
    <2>7. \A j \in Keys, w \in Versions : FileAged(file'[j][w], meta'[j][w], now')
      BY <1>2, <2>2, <2>6 DEF AgeInv
    <2>8. \A j \in Keys, r \in Roles : TaskAged(task'[j][r], file'[j], now')
      BY <1>2, <2>2, <2>4 DEF AgeInv
    <2> QED
      BY <1>2, <2>7, <2>8 DEF AgeInv
  <1> QED
    BY <1>3, <1>4

\* Removing a file, or its metadata, or both, of k: the entry is gone or keeps
\* its modification time; tasks stay as they are or are replaced by aged ones.
LEMMA RemovalAged ==
    ASSUME TypeOK, AgeInv, NEW k \in Keys, NEW v \in Versions, UNCHANGED <<now, mem>>,
           file' \in {file, [file EXCEPT ![k][v] = NoFile]},
           meta' \in {meta, [meta EXCEPT ![k][v] = NoMeta]},
           \A j \in Keys, q \in Roles :
               \/ task'[j][q] = task[j][q]
               \/ task'[j][q] = [task[j][q] EXCEPT !.linked = FALSE]
               \/ j = k /\ TaskAged(task'[j][q], file'[j], now)
    PROVE  AgeInv'
  <1>1. NoMeta.created = 0 /\ NoMeta.state = "none" /\ ~ IsError(NoFile.entry)
    BY DEF NoMeta, NoFile, IsError
  <1>2. now \in Nat
    BY Fields
  <1>3. ASSUME NEW j \in Keys, NEW w \in Versions PROVE FileAged(file'[j][w], meta'[j][w], now')
    <2>1. FileAged(file[j][w], meta[j][w], now)
      BY DEF AgeInv
    <2>2. file'[j][w] \in {file[j][w], NoFile}
      <3>1. CASE file' = file
        BY <3>1
      <3>2. CASE file' = [file EXCEPT ![k][v] = NoFile]
        BY <3>2 DEF TypeOK
      <3> QED
        BY <3>1, <3>2
    <2>3. meta'[j][w] \in {meta[j][w], NoMeta}
      <3>1. CASE meta' = meta
        BY <3>1
      <3>2. CASE meta' = [meta EXCEPT ![k][v] = NoMeta]
        BY <3>2 DEF TypeOK
      <3> QED
        BY <3>1, <3>2
    <2> QED
      BY <1>1, <1>2, <2>1, <2>2, <2>3 DEF FileAged
  <1>4. ASSUME NEW j \in Keys, NEW q \in Roles PROVE TaskAged(task[j][q], file'[j], now)
    <2>1. TaskAged(task[j][q], file[j], now) /\ task[j][q] \in TaskSet
          /\ file[j] \in [Versions -> FileSet]
      BY Fields DEF AgeInv
    <2>2. file'[j] = file[j] \/ file'[j] = [file[j] EXCEPT ![v] = NoFile]
      BY DEF TypeOK
    <2> QED
      BY <2>1, <2>2, RemovedAged
  <1>5. ASSUME NEW j \in Keys, NEW q \in Roles PROVE TaskAged(task'[j][q], file'[j], now')
    <2>1. TaskAged(task[j][q], file'[j], now) /\ task[j][q] \in TaskSet
      BY <1>4, Fields
    <2>2. TaskAged([task[j][q] EXCEPT !.linked = FALSE], file'[j], now)
      BY <2>1, UnlinkedAged
    <2> QED
      BY <2>1, <2>2
  <1> QED
    BY <1>3, <1>5 DEF AgeInv

\* Replacing the task of k by an aged one, files and clock unchanged.
LEMMA OneTaskAged ==
    ASSUME TypeOK, AgeInv, NEW k \in Keys, NEW r \in Roles, NEW u,
           TaskAged(u, file[k], now), task' = [task EXCEPT ![k][r] = u],
           UNCHANGED <<now, file>>
    PROVE  \A j \in Keys, q \in Roles : TaskAged(task'[j][q], file'[j], now')
  <1>1. /\ task'[k][r] = u
        /\ \A j \in Keys, q \in Roles : j # k \/ q # r => task'[j][q] = task[j][q]
    BY DEF TypeOK
  <1> QED
    BY <1>1 DEF AgeInv

\* The steps of compute keep the age invariant, unless a rename fails.
LEMMA ComputeAged ==
    ASSUME TypeOK, AgeInv, "persist" \notin Faults, NEW k \in Keys, NEW r \in Roles,
           ComputeStep(k, r)
    PROVE  AgeInv'
  <1> DEFINE t == task[k][r]
  <1>1. /\ t \in TaskSet /\ now \in Nat /\ Current \in Versions
        /\ file[k] \in [Versions -> FileSet] /\ t.since \in Nat /\ t.born \in Nat
    BY Fields, TaskFields DEF Versions
  <1>2. /\ TaskAged(t, file[k], now)
        /\ \A v \in Versions : FileAged(file[k][v], meta[k][v], now)
    BY DEF AgeInv
  <1>3. now' = now /\ mem' = mem
    BY ComputeEffect
  <1>4. ASSUME file' = file, meta' = meta,
               NEW u, TaskAged(u, file[k], now), task' = [task EXCEPT ![k][r] = u]
        PROVE  AgeInv'
    BY <1>3, <1>4, OneTaskAged DEF AgeInv
  <1>5. CASE LoadFromSharedCache(k, r)
    <2>1. file' = file /\ meta' = meta
      BY <1>5 DEF LoadFromSharedCache
    <2>2. /\ TaskAged(Produced("internal", FALSE), file[k], now)
          /\ TaskAged(Produced("ok", TRUE), file[k], now)
          /\ TaskAged(FailedHit("ok"), file[k], now)
          /\ TaskAged(FailedHit("negative"), file[k], now)
      BY <1>1, ProducedAged DEF Status, Stored
    <2>3. TaskAged([t EXCEPT !.pc = "compute"], file[k], now)
      <3>1. [t EXCEPT !.pc = "compute"].pc = "compute"
        BY <1>1 DEF TaskSet, TaskRecords
      <3> QED
        BY <3>1, PassiveAged DEF Writing
    <2> QED
      BY <1>4, <1>5, <2>1, <2>2, <2>3 DEF LoadFromSharedCache
  <1>6. CASE Compute(k, r)
    <2>1. \A s \in Status : TaskAged(Produced(s, FALSE), file[k], now)
      BY <1>1, ProducedAged
    <2> QED
      BY <1>4, <1>6, <2>1 DEF Compute
  <1>7. CASE PersistTempfile(k, r)
    <2> DEFINE f == [entry |-> t.entry, mtime |-> t.since, born |-> t.born]
               p == IF Outcome(t) = "internal" THEN "purge" ELSE "mdcreate"
               u == [t EXCEPT !.pc = p]
    <2>1. /\ file' = [file EXCEPT ![k][Current] = f] /\ meta' = meta
          /\ task' = [task EXCEPT ![k][r] = u] /\ t.pc = "persist"
      BY <1>7 DEF PersistTempfile
    <2>2. /\ file'[k] = [file[k] EXCEPT ![Current] = f]
          /\ \A j \in Keys \ {k} : file'[j] = file[j]
      BY <2>1 DEF TypeOK
    <2>3. InTime(t, now) /\ t.born = t.since
      BY <1>2, <2>1 DEF TaskAged, Writing
    <2>4. /\ f.born = t.since /\ f.mtime = t.since /\ f.born \in Nat
          /\ now <= f.born + WriteTime
      BY <1>1, <2>3 DEF InTime
    <2>5. FileAged(f, meta[k][Current], now)
      <3>1. meta[k][Current].created <= now /\ meta[k][Current].created \in Nat
        BY <1>1, <1>2, Fields DEF FileAged
      <3> HIDE DEF f
      <3> QED
        BY <1>1, <2>4, <3>1, CacherConstants DEF FileAged
    <2>6. /\ u.pc \in {"mdcreate", "purge"} /\ u.since = t.since /\ u.born = t.born
      BY <1>1 DEF TaskSet, TaskRecords
    <2> HIDE DEF f
    <2>7. TaskAged(u, file'[k], now)
      <3>1. file'[k][Current] = f
        BY <1>1, <2>2
      <3>2. Younger(u, f)
        BY <1>1, <2>4, <2>6, CacherConstants DEF Younger
      <3>3. InTime(u, now) /\ u.born = u.since
        BY <2>3, <2>6 DEF InTime
      <3> HIDE DEF u
      <3> QED
        BY <2>6, <3>1, <3>2, <3>3 DEF TaskAged, Writing
    <2>8. \A q \in Roles : TaskAged(task[k][q], file'[k], now)
      <3>1. \A q \in Roles : task[k][q] \in TaskSet /\ TaskAged(task[k][q], file[k], now)
        BY Fields DEF AgeInv
      <3> QED
        BY <1>1, <2>2, <2>4, <3>1, ReplacedAged
    <2>9. \A j \in Keys, q \in Roles : TaskAged(task'[j][q], file'[j], now')
      <3>1. /\ task'[k][r] = u
            /\ \A j \in Keys, q \in Roles : j # k \/ q # r => task'[j][q] = task[j][q]
        BY <2>1 DEF TypeOK
      <3> HIDE DEF u
      <3> QED
        BY <1>3, <2>2, <2>7, <2>8, <3>1 DEF AgeInv
    <2>10. \A j \in Keys, v \in Versions : FileAged(file'[j][v], meta'[j][v], now')
      <3>1. \A v \in Versions : FileAged(file'[k][v], meta[k][v], now)
        BY <1>1, <1>2, <2>2, <2>5
      <3> QED
        BY <1>3, <2>1, <2>2, <3>1 DEF AgeInv
    <2> QED
      BY <1>3, <2>9, <2>10 DEF AgeInv
  <1>8. CASE CreateMetadata(k, r)
    <2> DEFINE u == [t EXCEPT !.pc = "mdwrite", !.linked = TRUE]
               w == [t EXCEPT !.pc = "purge"]
               m == [state |-> "partial", created |-> 0]
    <2>1. t.pc = "mdcreate" /\ file' = file
      BY <1>8 DEF CreateMetadata
    <2>2. InTime(t, now) /\ t.born = t.since /\ Younger(t, file[k][Current])
      BY <1>2, <2>1 DEF TaskAged, Writing
    <2>3. /\ u.pc = "mdwrite" /\ u.since = t.since /\ u.born = t.born
          /\ w.pc = "purge" /\ w.since = t.since /\ w.born = t.born
      BY <1>1 DEF TaskSet, TaskRecords
    <2>4. TaskAged(u, file[k], now) /\ TaskAged(w, file[k], now)
      <3> HIDE DEF u, w
      <3> QED
        BY <2>2, <2>3 DEF TaskAged, InTime, Younger, Writing
    <2>5. CASE task' = [task EXCEPT ![k][r] = w] /\ meta' = meta
      BY <1>4, <2>1, <2>4, <2>5
    <2>6. CASE /\ task' = [task EXCEPT ![k][r] = u]
               /\ meta' = [meta EXCEPT ![k][Current] = m]
      <3>1. \A j \in Keys, q \in Roles : TaskAged(task'[j][q], file'[j], now')
        BY <1>3, <2>1, <2>4, <2>6, OneTaskAged
      <3>2. FileAged(file[k][Current], m, now)
        BY <1>1, <1>2 DEF FileAged
      <3>3. \A j \in Keys, v \in Versions : FileAged(file[j][v], meta'[j][v], now)
        <4> HIDE DEF m
        <4>1. \A j \in Keys, v \in Versions :
                \/ meta'[j][v] = meta[j][v]
                \/ j = k /\ v = Current /\ meta'[j][v] = m
          BY <2>6 DEF TypeOK
        <4> QED
          BY <3>2, <4>1 DEF AgeInv
      <3> QED
        BY <1>3, <2>1, <3>1, <3>3 DEF AgeInv
    <2> QED
      BY <1>8, <2>5, <2>6 DEF CreateMetadata
  <1>9. CASE WriteMetadata(k, r)
    <2> DEFINE u == [t EXCEPT !.pc = "purge", !.linked = FALSE]
               m == [state |-> "full", created |-> Timestamp(t.since)]
    <2>1. t.pc = "mdwrite" /\ file' = file /\ task' = [task EXCEPT ![k][r] = u]
      BY <1>9 DEF WriteMetadata
    <2>2. InTime(t, now) /\ t.born = t.since /\ Younger(t, file[k][Current])
      BY <1>2, <2>1 DEF TaskAged, Writing
    <2>3. u.pc = "purge" /\ u.since = t.since /\ u.born = t.born
      BY <1>1 DEF TaskSet, TaskRecords
    <2>4. TaskAged(u, file[k], now)
      <3> HIDE DEF u
      <3> QED
        BY <2>2, <2>3 DEF TaskAged, InTime, Writing
    <2>5. \A j \in Keys, q \in Roles : TaskAged(task'[j][q], file'[j], now')
      BY <1>3, <2>1, <2>4, OneTaskAged
    <2>6. FileAged(file[k][Current], m, now)
      <3>1. Timestamp(t.since) \in Nat /\ Timestamp(t.since) <= t.since
        BY <1>1, TimestampType
      <3>2. FileAged(file[k][Current], meta[k][Current], now) /\ file[k][Current].born \in Nat
        BY <1>1, <1>2, Fields
      <3>3. m.created = Timestamp(t.since)
        OBVIOUS
      <3> HIDE DEF m
      <3> QED
        BY <1>1, <2>2, <3>1, <3>2, <3>3, CacherConstants DEF FileAged, InTime, Younger
    <2>7. \A j \in Keys, v \in Versions : FileAged(file[j][v], meta'[j][v], now)
      <3>1. meta' = meta \/ meta' = [meta EXCEPT ![k][Current] = m]
        BY <1>9 DEF WriteMetadata
      <3> HIDE DEF m
      <3>2. \A j \in Keys, v \in Versions :
              \/ meta'[j][v] = meta[j][v]
              \/ j = k /\ v = Current /\ meta'[j][v] = m
        BY <3>1 DEF TypeOK
      <3> QED
        BY <2>6, <3>2 DEF AgeInv
    <2> QED
      BY <1>3, <2>1, <2>5, <2>7 DEF AgeInv
  <1>10. CASE RemovePrevious(k, r)
    <2>1. t.pc = "purge"
      BY <1>10 DEF RemovePrevious
    <2>2. InTime(t, now) /\ t.born = t.since
      BY <1>2, <2>1 DEF TaskAged, Writing
    <2>3. CASE t.todo = {}
      <3> DEFINE u == [t EXCEPT !.pc = "finish"]
      <3>1. task' = [task EXCEPT ![k][r] = u] /\ file' = file /\ meta' = meta
        BY <1>10, <2>3 DEF RemovePrevious
      <3>2. u.pc = "finish" /\ u.since = t.since /\ u.born = t.born
        BY <1>1 DEF TaskSet, TaskRecords
      <3>3. TaskAged(u, file[k], now)
        <4> HIDE DEF u
        <4> QED
          BY <2>2, <3>2 DEF TaskAged, InTime
      <3> QED
        BY <1>4, <3>1, <3>3
    <2>4. CASE t.todo # {}
      <3>1. PICK v \in t.todo : /\ file' = [file EXCEPT ![k][v] = NoFile]
                                /\ meta' = [meta EXCEPT ![k][v] = NoMeta]
                                /\ task' = [task EXCEPT ![k][r] = [t EXCEPT !.todo = @ \ {v}]]
        BY <1>10, <2>4 DEF RemovePrevious
      <3> DEFINE u == [t EXCEPT !.todo = @ \ {v}]
      <3>2. v \in Versions /\ u.pc = "purge" /\ u.since = t.since /\ u.born = t.born
        BY <1>1, <2>1 DEF TaskSet, TaskRecords, Versions
      <3>3. TaskAged(u, file'[k], now)
        <4> HIDE DEF u
        <4> QED
          BY <2>2, <3>2 DEF TaskAged, InTime
      <3>4. \A j \in Keys, q \in Roles :
              task'[j][q] = task[j][q] \/ (j = k /\ task'[j][q] = u)
        <4>1. task' = [task EXCEPT ![k][r] = u]
          BY <3>1
        <4> HIDE DEF u
        <4> QED
          BY <4>1 DEF TypeOK
      <3> HIDE DEF u
      <3> QED
        BY <1>3, <3>1, <3>2, <3>3, <3>4, RemovalAged
    <2> QED
      BY <2>3, <2>4
  <1>11. CASE FinishCompute(k, r)
    <2>1. t.pc = "finish" /\ t.entry \in Status /\ file' = file /\ meta' = meta
      BY <1>1, <1>11 DEF FinishCompute, TaskSet, TaskRecords, Writing
    <2>2. InTime(t, now) /\ t.born = t.since
      BY <1>2, <2>1 DEF TaskAged, Writing
    <2> DEFINE e == Outcome(t)
    <2>7. e \in Status
      BY <2>1, OutcomeType
    <2>3. PICK s \in LoadResults(e) :
            task' = [task EXCEPT ![k][r] =
                       [Idle EXCEPT !.pc = "insert", !.entry = e, !.status = s,
                                    !.born = t.born,
                                    !.deadline = AsInstant(ForFreshStatus(s), now)]]
      BY <1>11 DEF FinishCompute
    <2> HIDE DEF e
    <2> DEFINE u == [Idle EXCEPT !.pc = "insert", !.entry = e, !.status = s,
                                 !.born = t.born,
                                 !.deadline = AsInstant(ForFreshStatus(s), now)]
    <2>4. /\ u.pc = "insert" /\ u.entry = e /\ u.born = t.born
          /\ u.deadline = AsInstant(ForFreshStatus(s), now)
      BY DEF Idle
    <2>5. ByDeadline(e, t.born, AsInstant(ForFreshStatus(s), now))
      <3>1. e # "ok" => s = e
        BY DEF LoadResults
      <3>2. CASE e = "ok"
        BY <3>2 DEF ByDeadline, IsError
      <3>3. CASE e # "ok"
        <4>1. t.born <= now /\ now <= t.born + WriteTime
          BY <2>2 DEF InTime
        <4> QED
          BY <1>1, <2>7, <3>1, <3>3, <4>1, FreshAged
      <3> QED
        BY <3>2, <3>3
    <2>6. TaskAged(u, file[k], now)
      <3> HIDE DEF u
      <3> QED
        BY <2>4, <2>5 DEF TaskAged, Writing
    <2> QED
      BY <1>4, <2>1, <2>3, <2>6
  <1> QED
    BY <1>5, <1>6, <1>7, <1>8, <1>9, <1>10, <1>11 DEF ComputeStep

\* Inserting an aged item keeps the age invariant.
LEMMA InsertedAged ==
    ASSUME NEW t, t.pc = "insert", NEW files, NEW n, TaskAged(t, files, n)
    PROVE  ItemAged(Unexpired(ItemOf(t), n), n) /\ ItemAged(NoItem, n)
  <1>1. ~ IsError(NoItem.entry)
    BY DEF NoItem, IsError
  <1>2. ItemAged(NoItem, n)
    BY <1>1 DEF ItemAged, ByDeadline
  <1>3. /\ ItemOf(t).entry = t.entry /\ ItemOf(t).born = t.born
        /\ ItemOf(t).deadline = t.deadline
    BY DEF ItemOf
  <1>4. ASSUME n < t.deadline PROVE ItemAged(ItemOf(t), n)
    BY <1>3, <1>4 DEF TaskAged, ItemAged
  <1> QED
    BY <1>2, <1>3, <1>4 DEF Unexpired

\* The last steps of a task keep the age invariant.
LEMMA RefreshAged ==
    ASSUME TypeOK, AgeInv, NEW k \in Keys,
           RefreshPanics(k) \/ InsertFill(k) \/ InsertRefresh(k) \/ ReleaseToken(k)
             \/ UnregisterRefresh(k) \/ Evict(k)
    PROVE  AgeInv'
  <1>1. UNCHANGED <<now, file, meta>>
    BY DEF RefreshPanics, InsertFill, InsertRefresh, ReleaseToken, UnregisterRefresh, Evict
  <1>2. \A j \in Keys : ItemAged(mem'[j], now')
    <2>1. CASE UNCHANGED mem
      BY <1>1, <2>1 DEF AgeInv
    <2>2. ASSUME NEW r \in Roles, task[k][r].pc = "insert",
                 mem' = [mem EXCEPT ![k] = Unexpired(ItemOf(task[k][r]), now)]
          PROVE  \A j \in Keys : ItemAged(mem'[j], now')
      <3>1. ItemAged(Unexpired(ItemOf(task[k][r]), now), now)
        BY <2>2, InsertedAged DEF AgeInv
      <3>2. /\ mem'[k] = Unexpired(ItemOf(task[k][r]), now)
            /\ \A j \in Keys \ {k} : mem'[j] = mem[j]
        BY <2>2 DEF TypeOK
      <3> QED
        BY <1>1, <3>1, <3>2 DEF AgeInv
    <2>3. CASE mem' = [mem EXCEPT ![k] = NoItem]
      <3>1. ItemAged(NoItem, now)
        BY DEF ItemAged, ByDeadline, NoItem, IsError
      <3>2. mem'[k] = NoItem /\ \A j \in Keys \ {k} : mem'[j] = mem[j]
        BY <2>3 DEF TypeOK
      <3> QED
        BY <1>1, <3>1, <3>2 DEF AgeInv
    <2> QED
      BY <2>1, <2>2, <2>3
      DEF RefreshPanics, InsertFill, InsertRefresh, ReleaseToken, UnregisterRefresh, Evict, Roles
  <1>3. \A j \in Keys, q \in Roles : TaskAged(task'[j][q], file'[j], now')
    <2>1. CASE Evict(k)
      BY <1>1, <2>1 DEF Evict, AgeInv
    <2>2. CASE ReleaseToken(k)
      <3> DEFINE u == [task[k]["refresh"] EXCEPT !.pc = "unregister"]
      <3>1. task' = [task EXCEPT ![k]["refresh"] = u]
        BY <2>2 DEF ReleaseToken
      <3>2. task[k]["refresh"] \in TaskSet
        BY Fields DEF Roles
      <3>3. u.pc = "unregister"
        BY <3>2 DEF TaskSet, TaskRecords
      <3> HIDE DEF u
      <3>4. TaskAged(u, file[k], now)
        BY <3>3, PassiveAged DEF Writing
      <3> QED
        BY <1>1, <3>1, <3>4, OneTaskAged DEF Roles
    <2>3. ASSUME NEW q \in Roles, NEW u \in {Idle, Releasing},
                 task' = [task EXCEPT ![k][q] = u]
          PROVE  \A j \in Keys, r \in Roles : TaskAged(task'[j][r], file'[j], now')
      <3>1. TaskAged(u, file[k], now)
        BY <2>3, StartAged
      <3> QED
        BY <1>1, <2>3, <3>1, OneTaskAged
    <2> QED
      BY <2>1, <2>2, <2>3
      DEF RefreshPanics, InsertFill, InsertRefresh, UnregisterRefresh, Roles
  <1> QED
    BY <1>1, <1>2, <1>3 DEF AgeInv

\* What the cleanup process does to one key.
LEMMA CleanupEffect ==
    ASSUME TypeOK, CleanupStep
    PROVE  \E k \in Keys, v \in Versions :
             /\ file' \in {file, [file EXCEPT ![k][v] = NoFile]}
             /\ meta' \in {meta, [meta EXCEPT ![k][v] = NoMeta]}
             /\ task' \in {task, [task EXCEPT ![k] = Detached(@)]}
  <1>1. ASSUME NEW k \in Keys, NEW v \in Versions, CleanupCheck(k, v)
        PROVE  /\ file' \in {file, [file EXCEPT ![k][v] = NoFile]}
               /\ meta' \in {meta, [meta EXCEPT ![k][v] = NoMeta]}
               /\ task' \in {task, [task EXCEPT ![k] = Detached(@)]}
    BY <1>1 DEF CleanupCheck
  <1>2. cleaner.pc # "idle" => cleaner.key \in Keys /\ cleaner.version \in Versions
    BY DEF TypeOK, CleanerSet
  <1>3. CASE CleanupRemoveFile \/ CleanupRemoveMetadata \/ CleanupRemoveDir
    BY <1>2, <1>3 DEF CleanupRemoveFile, CleanupRemoveMetadata, CleanupRemoveDir
  <1> QED
    BY <1>1, <1>3 DEF CleanupStep

\* The cleanup process keeps the age invariant.
LEMMA CleanupAged ==
    ASSUME TypeOK, AgeInv, CleanupStep PROVE AgeInv'
  <1>1. UNCHANGED <<now, mem>>
    BY DEF CleanupStep, CleanupCheck, CleanupRemoveFile, CleanupRemoveMetadata, CleanupRemoveDir
  <1>3. PICK k \in Keys, v \in Versions :
          /\ file' \in {file, [file EXCEPT ![k][v] = NoFile]}
          /\ meta' \in {meta, [meta EXCEPT ![k][v] = NoMeta]}
          /\ task' \in {task, [task EXCEPT ![k] = Detached(@)]}
    BY CleanupEffect
  <1>4. \A j \in Keys, q \in Roles :
            \/ task'[j][q] = task[j][q]
            \/ task'[j][q] = [task[j][q] EXCEPT !.linked = FALSE]
    <2>1. CASE task' = task
      BY <2>1
    <2>2. CASE task' = [task EXCEPT ![k] = Detached(@)]
      BY <2>2 DEF Detached, TypeOK
    <2> QED
      BY <1>3, <2>1, <2>2
  <1> QED
    <2>1. /\ file' \in {file, [file EXCEPT ![k][v] = NoFile]}
          /\ meta' \in {meta, [meta EXCEPT ![k][v] = NoMeta]}
      BY <1>3
    <2>2. \A j \in Keys, q \in Roles :
              \/ task'[j][q] = task[j][q]
              \/ task'[j][q] = [task[j][q] EXCEPT !.linked = FALSE]
              \/ j = k /\ TaskAged(task'[j][q], file'[j], now)
      BY <1>4
    <2> QED
      BY <1>1, <2>1, <2>2, RemovalAged

\* Time keeps the age invariant: items at their deadline are dropped.
LEMMA TickAged ==
    ASSUME TypeOK, AgeInv, Tick PROVE AgeInv'
  <1>1. /\ now \in Nat /\ now' = now + 1 /\ UNCHANGED <<file, meta, task>>
        /\ mem' = [k \in Keys |-> Unexpired(mem[k], now')]
    BY Fields DEF Tick
  <1>2. \A k \in Keys, v \in Versions : FileAged(file'[k][v], meta'[k][v], now')
    <2>1. \A k \in Keys, v \in Versions :
            FileAged(file[k][v], meta[k][v], now) /\ meta[k][v].created \in Nat
      BY Fields DEF AgeInv
    <2> QED
      BY <1>1, <2>1 DEF FileAged
  <1>3. ASSUME NEW k \in Keys, NEW r \in Roles PROVE TaskAged(task'[k][r], file'[k], now')
    <2>1. TaskAged(task[k][r], file[k], now) /\ task[k][r].since \in Nat
      BY Fields, TaskFields DEF AgeInv
    <2>2. task[k][r].pc \in Writing \union {"touch"} => now < task[k][r].since + WriteTime
      BY DEF Tick
    <2>3. task[k][r].pc \in Writing \union {"touch"} => InTime(task[k][r], now')
      BY <1>1, <2>1, <2>2, CacherConstants DEF TaskAged, InTime
    <2> QED
      BY <1>1, <2>1, <2>3 DEF TaskAged
  <1>4. ASSUME NEW k \in Keys PROVE ItemAged(mem'[k], now')
    <2>1. ItemAged(mem[k], now) /\ mem'[k] = Unexpired(mem[k], now')
      BY <1>1 DEF AgeInv
    <2>2. ItemAged(NoItem, now')
      BY DEF ItemAged, ByDeadline, NoItem, IsError
    <2> QED
      BY <2>1, <2>2 DEF ItemAged, Unexpired
  <1> QED
    BY <1>2, <1>3, <1>4 DEF AgeInv

\* A restart keeps the age invariant.
LEMMA CrashAged ==
    ASSUME TypeOK, AgeInv, Crash PROVE AgeInv'
  <1>1. /\ now \in Nat /\ now' = now + 1 /\ UNCHANGED <<file, meta>>
        /\ \A k \in Keys : mem'[k] = NoItem /\ \A r \in Roles : task'[k][r] = Idle
    BY Fields DEF Crash
  <1>2. \A k \in Keys, v \in Versions : FileAged(file'[k][v], meta'[k][v], now')
    <2>1. \A k \in Keys, v \in Versions :
            FileAged(file[k][v], meta[k][v], now) /\ meta[k][v].created \in Nat
      BY Fields DEF AgeInv
    <2> QED
      BY <1>1, <2>1 DEF FileAged
  <1>3. ItemAged(NoItem, now')
    BY DEF ItemAged, ByDeadline, NoItem, IsError
  <1> QED
    BY <1>1, <1>2, <1>3, StartAged DEF AgeInv

\* The age invariant holds initially.
LEMMA InitAged == Init => AgeInv
  <1> SUFFICES ASSUME Init PROVE AgeInv
    OBVIOUS
  <1>1. TypeOK /\ now = 0
    BY InitType DEF Init
  <1>2. \A k \in Keys, v \in Versions : file[k][v].mtime = 0 /\ meta[k][v].created = 0
    <2>1. \A f \in OldFiles : f.mtime = 0
      BY DEF OldFiles, NoFile
    <2>2. \A m \in OldMeta : m.created = 0
      BY DEF OldMeta, NoMeta
    <2>3. file \in [Keys -> [Versions -> OldFiles]] /\ meta \in [Keys -> [Versions -> OldMeta]]
      BY DEF Init
    <2> QED
      BY <2>1, <2>2, <2>3
  <1>3. \A k \in Keys, v \in Versions : FileAged(file[k][v], meta[k][v], now)
    <2>1. \A k \in Keys, v \in Versions : file[k][v].born \in Nat
      BY <1>1, Fields
    <2> QED
      BY <1>1, <1>2, <2>1, CacherConstants DEF FileAged
  <1>4. ItemAged(NoItem, now)
    BY DEF ItemAged, ByDeadline, NoItem, IsError
  <1>5. \A k \in Keys : mem[k] = NoItem /\ \A r \in Roles : task[k][r] = Idle
    BY DEF Init
  <1> QED
    BY <1>3, <1>4, <1>5, StartAged DEF AgeInv

\* The age invariant is inductive, unless a rename fails.
LEMMA NextAged ==
    ASSUME "persist" \notin Faults, TypeOK, AgeInv, [Next]_vars PROVE AgeInv'
  <1>1. ASSUME NEW k \in Keys, FillStep(k) PROVE AgeInv'
    BY <1>1, LookupCheckAged, LookupTouchAged, ComputeAged, RefreshAged DEF FillStep, Roles
  <1>2. ASSUME NEW k \in Keys, RefreshStep(k) PROVE AgeInv'
    BY <1>2, ComputeAged, RefreshAged DEF RefreshStep, Roles
  <1>3. ASSUME NEW k \in Keys, Evict(k) PROVE AgeInv'
    BY <1>3, RefreshAged
  <1>4. CASE UNCHANGED vars
    BY <1>4 DEF vars, AgeInv
  <1> QED
    BY <1>1, <1>2, <1>3, <1>4, CallerAged, CleanupAged, TickAged, CrashAged DEF Next

\* The age invariant implies ErrorsExpire.
LEMMA AgedExpire == TypeOK /\ AgeInv => ErrorsExpire
  <1> SUFFICES ASSUME TypeOK, AgeInv, NEW k \in Keys, mem[k].entry \notin {"ok", "none"}
               PROVE  now < mem[k].born + MaxRetry(mem[k].entry) + 2 * WriteTime
    BY DEF ErrorsExpire
  <1>1. /\ now \in Nat /\ mem[k].born \in Nat /\ mem[k].deadline \in Nat
        /\ MaxRetry(mem[k].entry) \in Nat
    BY Fields, RetryType DEF ItemSet
  <1>2. ItemAged(mem[k], now)
    BY DEF AgeInv
  <1> QED
    BY <1>1, <1>2, CacherConstants DEF ItemAged, ByDeadline, IsError

(***************************************************************************)
(* If no rename of a finished cache file fails, then for any configured    *)
(* durations, any number of keys, callers and versions, any interleaving   *)
(* with the cleanup process and any number of crashes, a cached error is   *)
(* served no longer than its retry interval after it was computed, plus    *)
(* the time two synchronous sections can take (compute_expiration_time,    *)
(* for_fresh_status, write_cache_file).                                    *)
(***************************************************************************)
THEOREM ErrorsExpireInTime ==
    ASSUME "persist" \notin Faults PROVE Spec => []ErrorsExpire
  <1>1. Init => Inv /\ AgeInv
    BY InitInv, InitAged
  <1>2. Inv /\ AgeInv /\ [Next]_vars => (Inv /\ AgeInv)'
    BY NextInv, NextAged DEF Inv
  <1>3. Inv /\ AgeInv => ErrorsExpire
    BY AgedExpire DEF Inv
  <1> QED
    BY <1>1, <1>2, <1>3, PTL DEF Spec

-----------------------------------------------------------------------------
(* Entries of an earlier process, and entries in use: the inductive          *)
(* invariant for MalformedDiesWithProcess and InUseNeverExpires.             *)

\* A malformed file computed before the process started at s.
Stale(f, s) == f.entry = "malformed" /\ f.born < s

\* Nothing is dated later than now, and a stale file is dated as stale.
FileKept(f, m, n, s) ==
    /\ f.mtime <= n
    /\ Stale(f, s) => f.mtime < s /\ (m.state = "full" => m.created < s)

\* A deadline d of an item of version v, found in one of the files.
Alive(d, files, v, n) ==
    /\ d <= n + TouchEvery
    /\ files[v].entry = "ok" => d <= files[v].mtime + TouchEvery + 2 * WriteTime

(***************************************************************************)
(* A task: what it writes is of this process; the file whose metadata it   *)
(* writes, or that it touches, is not stale, and a usable one is as young  *)
(* as the task, even if another task replaced it; what it found, or made,  *)
(* has a deadline that the file outlives.                                  *)
(***************************************************************************)
TaskKept(t, files, n, s) ==
    /\ t.pc \in Writing => t.born >= s
    /\ t.pc = "touch" => ~ Stale(files[LookupOrder[t.i]], s)
    /\ t.pc \in {"mdcreate", "mdwrite"} => ~ Stale(files[Current], s)
    /\ t.pc \in Writing \ {"persist"} /\ t.entry = "ok" /\ files[Current].entry = "ok"
          => t.since <= files[Current].mtime + WriteTime
    /\ t.pc = "insert" => /\ t.entry = "malformed" => t.born >= s
                          /\ t.entry = "ok" /\ t.status = "ok" => Alive(t.deadline, files, t.version, n)

\* An item is of this process, not past its deadline, and its file outlives it.
ItemKept(x, files, n, s) ==
    /\ x.entry = "malformed" => x.born >= s
    /\ x.entry = "ok" => n < x.deadline
    /\ x.entry = "ok" /\ x.status = "ok" => Alive(x.deadline, files, x.version, n)

KeptInv ==
    /\ start <= now
    /\ \A k \in Keys, v \in Versions : FileKept(file[k][v], meta[k][v], now, start)
    /\ \A k \in Keys, r \in Roles : TaskKept(task[k][r], file[k], now, start)
    /\ \A k \in Keys : ItemKept(mem[k], file[k], now, start)

-----------------------------------------------------------------------------
(* What a step does to the files, the tasks and the item of one key          *)

\* A lookup touched the file; a task renamed its result over the file.
IsTouched(k, v) ==
    /\ task[k]["fill"].pc = "touch" /\ v = LookupOrder[task[k]["fill"].i]
    /\ file'[k][v] = [file[k][v] EXCEPT !.mtime = now]

Written(t) == [entry |-> t.entry, mtime |-> t.since, born |-> t.born]

IsReplaced(k, v) ==
    /\ v = Current
    /\ \E r \in Roles : task[k][r].pc = "persist" /\ file'[k][v] = Written(task[k][r])

\* A file stays, is removed or touched, or is replaced by what a task wrote.
FileMove(k, v) == file'[k][v] \in {file[k][v], NoFile} \/ IsTouched(k, v) \/ IsReplaced(k, v)

\* Metadata that is complete was so before, or a task wrote it.
MetaMove(k, v) ==
    \/ meta'[k][v].state # "full"
    \/ meta'[k][v] = meta[k][v]
    \/ /\ v = Current /\ \E r \in Roles : task[k][r].pc = "mdwrite"

(***************************************************************************)
(* The moves of a task from t to u: it waits for something; stays where it *)
(* is; made a result; renamed it into place; went on writing; is about to  *)
(* touch a usable file; found an entry; failed to open one; touched one;   *)
(* or finished what it computed.                                           *)
(***************************************************************************)
Kept(t, u) ==
    u.entry = t.entry /\ u.status = t.status /\ u.born = t.born /\ u.since = t.since
    /\ u.deadline = t.deadline /\ u.version = t.version /\ u.i = t.i

Waits(u)         == u.pc \notin Writing \union {"touch", "insert"}
Stays(t, u)      == u.pc = t.pc /\ Kept(t, u)
Makes(u)         == /\ u.pc = "persist" \/ (u.pc = "finish" /\ u.entry # "ok")
                    /\ u.born = now
Persists(k, t, u) == /\ t.pc = "persist" /\ u.pc \in {"mdcreate", "purge"} /\ Kept(t, u)
                     /\ file'[k][Current] = Written(t)
Writes(t, u)     == /\ t.pc \in {"mdcreate", "mdwrite", "purge"} /\ u.pc \in {"mdwrite", "purge", "finish"}
                    /\ u.pc = "mdwrite" => t.pc = "mdcreate"
                    /\ Kept(t, u)
Touches(k, u)    == u.pc = "touch" /\ LookupOrder[u.i] \in Versions /\ file[k][LookupOrder[u.i]].entry = "ok"
Fails(u)         == u.pc = "insert" /\ u.entry = "internal"
Touched(k, u)    == /\ u.pc = "insert" /\ u.entry = "ok" /\ u.deadline = now + TouchEvery
                    /\ u.version \in Versions /\ file'[k][u.version].mtime = now
Finishes(k, t, u) ==
    /\ t.pc = "finish" /\ u.pc = "insert" /\ u.entry = t.entry /\ u.born = t.born /\ u.version = Current
    /\ u.status \in Status /\ u.deadline = AsInstant(ForFreshStatus(u.status), now) /\ file'[k] = file[k]

Finds(k, u) ==
    LET v == u.version
        e == CheckExpiry(k, v, start)
    IN  /\ u.pc = "insert" /\ v \in Versions /\ file'[k][v] = file[k][v]
        /\ u.entry = file[k][v].entry /\ u.born = file[k][v].born
        /\ e.kind # "NotFound" /\ e # TouchIn(0) /\ u.deadline = AsInstant(e, now)

TaskMove(k, t, u) ==
    \/ Waits(u) \/ Stays(t, u) \/ Makes(u) \/ Persists(k, t, u) \/ Writes(t, u)
    \/ Touches(k, u) \/ Finds(k, u) \/ Fails(u) \/ Touched(k, u) \/ Finishes(k, t, u)

\* An item stays or goes, or a task inserts one.
ItemMove(k) ==
    \/ mem'[k] \in {mem[k], NoItem}
    \/ \E r \in Roles : /\ task[k][r].pc = "insert" /\ file'[k] = file[k]
                        /\ mem'[k] = Unexpired(ItemOf(task[k][r]), now)

Moves(k) ==
    /\ \A v \in Versions : FileMove(k, v) /\ MetaMove(k, v)
    /\ \A r \in Roles : TaskMove(k, task[k][r], task'[k][r])
    /\ ItemMove(k)

\* A key that a step does not touch.
LEMMA StillMoves ==
    ASSUME NEW k, file'[k] = file[k], meta'[k] = meta[k], task'[k] = task[k], mem'[k] = mem[k]
    PROVE  Moves(k)
  BY DEF Moves, FileMove, MetaMove, TaskMove, Stays, Kept, ItemMove

\* A task whose metadata file lost its name stays where it is.
LEMMA UnlinkedStays ==
    ASSUME NEW t \in TaskSet PROVE Stays(t, [t EXCEPT !.linked = FALSE])
  BY DEF Stays, Kept, TaskSet, TaskRecords

\* Tasks that start, go on to the next version or release their token hold nothing.
LEMMA WaitingPc ==
    /\ Waits(Idle) /\ Waits(StartFill) /\ Waits(StartCompute) /\ Waits(Releasing)
    /\ \A t : Waits(NextVersion(t))
  <1>1. /\ Idle.pc = "idle" /\ StartFill.pc = "check" /\ StartCompute.pc = "fetch"
        /\ Releasing.pc = "release" /\ \A t : NextVersion(t).pc \in {"check", "fetch"}
    BY DEF Idle, StartFill, StartCompute, Releasing, NextVersion
  <1> QED
    BY <1>1 DEF Waits, Writing

\* Callers start and stop tasks.
LEMMA CallerMoves ==
    ASSUME TypeOK, CallerStep, NEW k \in Keys PROVE Moves(k)
  <1>1. /\ UNCHANGED <<file, meta, mem>>
        /\ \/ task' = task
           \/ \E j \in Keys : \E u \in {Idle, StartFill} : task' = [task EXCEPT ![j]["fill"] = u]
    BY DEF CallerStep, ComputeMemoized, CallerDropped
  <1>2. \A r \in Roles : TaskMove(k, task[k][r], task'[k][r])
    <2>1. CASE task' = task
      BY <2>1 DEF TaskMove, Stays, Kept
    <2>2. ASSUME NEW j \in Keys, NEW u \in {Idle, StartFill}, NEW r \in Roles,
                 task' = [task EXCEPT ![j]["fill"] = u]
          PROVE  TaskMove(k, task[k][r], task'[k][r])
      <3>1. task'[k][r] = u \/ task'[k][r] = task[k][r]
        BY <2>2 DEF TypeOK, Roles
      <3>2. Waits(u)
        BY WaitingPc
      <3> QED
        BY <3>1, <3>2 DEF TaskMove, Stays, Kept
    <2> QED
      BY <1>1, <2>1, <2>2
  <1> QED
    BY <1>1, <1>2 DEF Moves, FileMove, MetaMove, ItemMove

\* The cleanup process removes files and metadata.
LEMMA CleanupMoves ==
    ASSUME TypeOK, CleanupStep, NEW k \in Keys PROVE Moves(k)
  <1>1. mem' = mem
    BY DEF CleanupStep, CleanupCheck, CleanupRemoveFile, CleanupRemoveMetadata, CleanupRemoveDir
  <1>2. PICK j \in Keys, v \in Versions :
          /\ file' \in {file, [file EXCEPT ![j][v] = NoFile]}
          /\ meta' \in {meta, [meta EXCEPT ![j][v] = NoMeta]}
          /\ task' \in {task, [task EXCEPT ![j] = Detached(@)]}
    BY CleanupEffect
  <1>3. ASSUME NEW w \in Versions PROVE FileMove(k, w) /\ MetaMove(k, w)
    <2>1. file'[k][w] \in {file[k][w], NoFile}
      BY <1>2 DEF TypeOK
    <2>2. meta'[k][w] \in {meta[k][w], NoMeta}
      <3>1. CASE meta' = meta
        BY <3>1
      <3>2. CASE meta' = [meta EXCEPT ![j][v] = NoMeta]
        BY <3>2 DEF TypeOK
      <3> QED
        BY <1>2, <3>1, <3>2
    <2> QED
      BY <2>1, <2>2 DEF FileMove, MetaMove, NoMeta
  <1>4. ASSUME NEW r \in Roles PROVE TaskMove(k, task[k][r], task'[k][r])
    <2>1. task'[k][r] = task[k][r] \/ task'[k][r] = [task[k][r] EXCEPT !.linked = FALSE]
      <3>1. CASE task' = task
        BY <3>1
      <3>2. CASE task' = [task EXCEPT ![j] = Detached(@)]
        BY <3>2 DEF Detached, TypeOK
      <3> QED
        BY <1>2, <3>1, <3>2
    <2>2. task[k][r] \in TaskSet
      BY DEF TypeOK
    <2> QED
      BY <2>1, <2>2, UnlinkedStays DEF TaskMove, Stays, Kept
  <1> QED
    BY <1>1, <1>3, <1>4 DEF Moves, ItemMove

\* Only usable entries are touched.
LEMMA TouchedIsOk ==
    ASSUME TypeOK, NEW k \in Keys, NEW v \in Versions, file[k][v].entry # "none",
           CheckExpiry(k, v, start) = TouchIn(0)
    PROVE  file[k][v].entry = "ok"
  <1> DEFINE f == file[k][v]
             e == CheckExpiry(k, v, start)
  <1>1. f.entry \in Stored
    BY Fields DEF FileSet, Entries
  <1>2. f.entry \in {"negative", "malformed"} => e.kind # "TouchIn"
    BY DEF CheckExpiry, ComputeExpirationTime, ExpirationStrategy, RefreshIn, NotFound
  <1> HIDE DEF e, f
  <1>3. e = TouchIn(0)
    BY DEF e
  <1>4. e.kind = "TouchIn"
    BY <1>3 DEF TouchIn
  <1>5. f.entry = "ok"
    BY <1>1, <1>2, <1>4 DEF Stored
  <1> QED
    BY <1>5 DEF f

\* Metadata that is removed.
LEMMA NoMetaMoves ==
    ASSUME NEW k, NEW v, meta'[k][v] \in {meta[k][v], NoMeta} PROVE MetaMove(k, v)
  BY DEF MetaMove, NoMeta

\* The moves of a task.
LEMMA Move ==
    ASSUME NEW k, NEW t, NEW u,
           \/ Waits(u) \/ Stays(t, u) \/ Makes(u) \/ Persists(k, t, u) \/ Writes(t, u)
           \/ Touches(k, u) \/ Finds(k, u) \/ Fails(u) \/ Touched(k, u) \/ Finishes(k, t, u)
    PROVE  TaskMove(k, t, u)
  BY DEF TaskMove

\* The expiry check of a lookup.
LEMMA LookupCheckMoves ==
    ASSUME TypeOK, NEW k \in Keys, LookupCheck(k) PROVE \A j \in Keys : Moves(j)
  <1> DEFINE t == task[k]["fill"]
             v == LookupOrder[t.i]
             f == file[k][v]
             torn == f.entry # "none" /\ meta[k][v].state = "partial"
             tasks == IF torn /\ v = Current THEN Detached(task[k]) ELSE task[k]
             e == CheckExpiry(k, v, start)
  <1>1. /\ task[k] \in [Roles -> TaskSet] /\ t \in TaskSet /\ now \in Nat
        /\ v \in Versions
    BY Fields, TaskFields DEF Roles
  <1>2. tasks \in [Roles -> TaskSet]
    BY <1>1, DetachedType
  <1>3. \/ tasks["refresh"] = task[k]["refresh"]
        \/ tasks["refresh"] = [task[k]["refresh"] EXCEPT !.linked = FALSE]
    BY DEF Detached, Roles
  <1>4. UNCHANGED <<now, file, mem>> /\ \A j \in Keys \ {k} : task'[j] = task[j]
    BY LookupEffect DEF LookupCheck
  <1>5. TaskMove(k, task[k]["refresh"], tasks["refresh"])
    <2>1. task[k]["refresh"] \in TaskSet
      BY <1>1 DEF Roles
    <2>2. Stays(task[k]["refresh"], tasks["refresh"])
      <3> HIDE DEF tasks
      <3>1. CASE tasks["refresh"] = task[k]["refresh"]
        BY <3>1 DEF Stays, Kept
      <3>2. CASE tasks["refresh"] = [task[k]["refresh"] EXCEPT !.linked = FALSE]
        BY <2>1, <3>2, UnlinkedStays
      <3> QED
        BY <1>3, <3>1, <3>2
    <2> HIDE DEF tasks
    <2> QED
      BY <2>2, Move
  <1>6. ASSUME NEW u, TaskMove(k, t, u),
               task' = [task EXCEPT ![k] = [tasks EXCEPT !["fill"] = u]]
        PROVE  \A r \in Roles : TaskMove(k, task[k][r], task'[k][r])
    <2>1. task'[k]["fill"] = u /\ task'[k]["refresh"] = tasks["refresh"]
      <3> HIDE DEF tasks
      <3> QED
        BY <1>2, <1>6 DEF TypeOK, Roles
    <2> HIDE DEF t, tasks
    <2>2. /\ TaskMove(k, task[k]["fill"], task'[k]["fill"])
          /\ TaskMove(k, task[k]["refresh"], task'[k]["refresh"])
      BY <1>5, <1>6, <2>1 DEF t
    <2> QED
      BY <2>2 DEF Roles
  <1>7. \A r \in Roles : TaskMove(k, task[k][r], task'[k][r])
    <2>1. CASE task' = [task EXCEPT ![k] = [tasks EXCEPT !["fill"] = NextVersion(@)]]
      BY <1>6, <2>1, WaitingPc, Move
    <2>2. CASE /\ f.entry # "none" /\ e.kind # "NotFound" /\ e # TouchIn(0)
               /\ FoundLocal(k, tasks, v, f.entry, f.born, e)
      <3> DEFINE u == task'[k]["fill"]
      <3>1. /\ u.pc = "insert" /\ u.entry = f.entry /\ u.born = f.born /\ u.version = v
            /\ u.deadline = AsInstant(e, now)
            /\ task'[k]["refresh"] = tasks["refresh"] \/ task'[k]["refresh"] = StartCompute
        <4> HIDE DEF tasks, f, e, v
        <4> QED
          BY <1>2, <2>2, FoundEffect
      <3>2. Finds(k, u)
        <4>1. file'[k][v] = file[k][v]
          BY <1>4
        <4> HIDE DEF u, v
        <4> QED
          BY <1>1, <2>2, <3>1, <4>1 DEF Finds
      <3>3. TaskMove(k, t, u)
        BY <3>2, Move
      <3>4. TaskMove(k, task[k]["refresh"], StartCompute)
        BY WaitingPc, Move
      <3> HIDE DEF t, tasks
      <3> QED
        BY <1>5, <3>1, <3>3, <3>4 DEF Roles, t
    <2>3. CASE /\ e = TouchIn(0) /\ f.entry # "none"
               /\ task' = [task EXCEPT ![k] = [tasks EXCEPT !["fill"] =
                             [@ EXCEPT !.pc = "touch", !.since = now, !.born = f.born]]]
      <3> DEFINE u == [tasks["fill"] EXCEPT !.pc = "touch", !.since = now, !.born = f.born]
      <3>1. tasks["fill"] \in TaskSet /\ tasks["fill"].i = t.i
        BY <1>1, <1>2 DEF Detached, Roles, TaskSet, TaskRecords
      <3>2. u.pc = "touch" /\ u.i = t.i
        BY <3>1 DEF TaskSet, TaskRecords
      <3>3. f.entry = "ok"
        BY <1>1, <2>3, TouchedIsOk
      <3>4. TaskMove(k, t, u)
        <4> HIDE DEF u
        <4>1. Touches(k, u)
          BY <1>1, <3>2, <3>3 DEF Touches
        <4> QED
          BY <4>1, Move
      <3> QED
        BY <1>6, <2>3, <3>4
    <2>4. CASE task' = [task EXCEPT ![k] = [tasks EXCEPT !["fill"] =
                            [Idle EXCEPT !.pc = "insert", !.entry = "internal",
                                         !.status = "internal", !.born = now, !.version = v,
                                         !.deadline = AsInstant(ForFreshStatus("internal"), now)]]]
      <3> DEFINE u == [Idle EXCEPT !.pc = "insert", !.entry = "internal",
                                   !.status = "internal", !.born = now, !.version = v,
                                   !.deadline = AsInstant(ForFreshStatus("internal"), now)]
      <3>1. u.pc = "insert" /\ u.entry = "internal"
        BY DEF Idle
      <3>2. TaskMove(k, t, u)
        <4> HIDE DEF u
        <4>1. Fails(u)
          BY <3>1 DEF Fails
        <4> QED
          BY <4>1, Move
      <3> QED
        BY <1>6, <2>4, <3>2
    <2> QED
      BY <2>1, <2>2, <2>3, <2>4 DEF LookupCheck
  <1>8. ASSUME NEW w \in Versions PROVE MetaMove(k, w)
    <2>1. meta'[k][w] \in {meta[k][w], NoMeta}
      BY <1>1 DEF LookupCheck, TypeOK
    <2> QED
      BY <2>1, NoMetaMoves
  <1>9. Moves(k)
    BY <1>4, <1>7, <1>8 DEF Moves, FileMove, ItemMove
  <1>10. ASSUME NEW j \in Keys \ {k} PROVE Moves(j)
    <2>1. meta'[j] = meta[j]
      BY <1>10 DEF LookupCheck, TypeOK
    <2> QED
      BY <1>4, <2>1, StillMoves
  <1> QED
    BY <1>9, <1>10

\* The touch of a lookup.
LEMMA LookupTouchMoves ==
    ASSUME TypeOK, NEW k \in Keys, LookupTouch(k) PROVE \A j \in Keys : Moves(j)
  <1> DEFINE t == task[k]["fill"]
             v == LookupOrder[t.i]
  <1>1. /\ task[k] \in [Roles -> TaskSet] /\ t \in TaskSet /\ now \in Nat
        /\ v \in Versions /\ file[k] \in [Versions -> FileSet]
    BY Fields, TaskFields DEF Roles
  <1>2. UNCHANGED <<now, meta, mem>> /\ \A j \in Keys \ {k} : task'[j] = task[j]
    <2>1. UNCHANGED <<now, meta, mem>>
      BY DEF LookupTouch
    <2>2. \A j \in Keys \ {k} : task'[j] = task[j]
      BY LookupEffect
    <2> QED
      BY <2>1, <2>2
  <1>3. ASSUME NEW w \in Versions PROVE MetaMove(k, w)
    BY <1>2 DEF MetaMove
  <1>4. TaskMove(k, task[k]["refresh"], task[k]["refresh"])
    BY DEF TaskMove, Stays, Kept
  <1>5. CASE file[k][v].entry = "none"
    <2>1. task' = [task EXCEPT ![k]["fill"] = NextVersion(t)] /\ file' = file
      BY <1>5 DEF LookupTouch
    <2>2. task'[k]["fill"] = NextVersion(t) /\ task'[k]["refresh"] = task[k]["refresh"]
      BY <2>1 DEF TypeOK, Roles
    <2>3. TaskMove(k, task[k]["fill"], task'[k]["fill"])
      BY <2>2, WaitingPc, Move
    <2>4. Moves(k)
      <3>1. \A r \in Roles : TaskMove(k, task[k][r], task'[k][r])
        BY <1>4, <2>2, <2>3 DEF Roles
      <3> QED
        BY <1>2, <1>3, <2>1, <3>1 DEF Moves, FileMove, ItemMove
    <2>5. ASSUME NEW j \in Keys \ {k} PROVE Moves(j)
      BY <1>2, <2>1, StillMoves
    <2> QED
      BY <2>4, <2>5
  <1>6. CASE file[k][v].entry # "none"
    <2>1. /\ file' = [file EXCEPT ![k][v] = [@ EXCEPT !.mtime = now]]
          /\ FoundLocal(k, task[k], v, "ok", t.born, TouchIn(TouchEvery))
          /\ t.pc = "touch"
      BY <1>6 DEF LookupTouch
    <2>2. /\ file'[k][v] = [file[k][v] EXCEPT !.mtime = now]
          /\ \A w \in Versions \ {v} : file'[k][w] = file[k][w]
          /\ \A j \in Keys \ {k} : file'[j] = file[j]
      BY <1>1, <2>1 DEF TypeOK
    <2>3. file'[k][v].mtime = now
      BY <1>1, <2>2 DEF FileSet
    <2>4. ASSUME NEW w \in Versions PROVE FileMove(k, w)
      <3>1. CASE w = v
        <4>1. task[k]["fill"].pc = "touch" /\ v = LookupOrder[task[k]["fill"].i]
          BY <2>1
        <4> HIDE DEF v, t
        <4>2. file'[k][w] = [file[k][w] EXCEPT !.mtime = now]
          BY <2>2, <3>1
        <4>3. IsTouched(k, w)
          BY <3>1, <4>1, <4>2 DEF IsTouched
        <4> QED
          BY <4>3 DEF FileMove
      <3>2. CASE w # v
        BY <2>2, <3>2 DEF FileMove
      <3> QED
        BY <3>1, <3>2
    <2> DEFINE u == task'[k]["fill"]
    <2>5. /\ u.pc = "insert" /\ u.entry = "ok" /\ u.version = v
          /\ u.deadline = AsInstant(TouchIn(TouchEvery), now)
          /\ task'[k]["refresh"] = task[k]["refresh"] \/ task'[k]["refresh"] = StartCompute
      <3> HIDE DEF v, t
      <3> QED
        BY <1>1, <2>1, FoundEffect
    <2>6. u.deadline = now + TouchEvery
      BY <2>5 DEF AsInstant, TouchIn
    <2>7. TaskMove(k, t, u)
      <3> HIDE DEF u, v
      <3>1. Touched(k, u)
        BY <1>1, <2>3, <2>5, <2>6 DEF Touched
      <3> QED
        BY <3>1, Move
    <2>8. TaskMove(k, task[k]["refresh"], StartCompute)
      BY WaitingPc, Move
    <2>9. \A r \in Roles : TaskMove(k, task[k][r], task'[k][r])
      <3> HIDE DEF v
      <3> QED
        BY <1>4, <2>5, <2>7, <2>8 DEF Roles
    <2>10. Moves(k)
      BY <1>2, <1>3, <2>4, <2>9 DEF Moves, ItemMove
    <2>11. ASSUME NEW j \in Keys \ {k} PROVE Moves(j)
      BY <1>2, <2>2, StillMoves
    <2> QED
      BY <2>10, <2>11
  <1> QED
    BY <1>5, <1>6

\* A step of one task that touches no file and no item.
LEMMA OneTaskMoves ==
    ASSUME TypeOK, NEW k \in Keys, NEW r \in Roles, NEW u, TaskMove(k, task[k][r], u),
           task' = [task EXCEPT ![k][r] = u], UNCHANGED <<file, mem>>,
           \A j \in Keys, w \in Versions : MetaMove(j, w)
    PROVE  \A j \in Keys : Moves(j)
  <1>1. /\ task'[k][r] = u
        /\ \A j \in Keys, q \in Roles : j # k \/ q # r => task'[j][q] = task[j][q]
    BY DEF TypeOK
  <1>2. \A j \in Keys, q \in Roles : TaskMove(j, task[j][q], task'[j][q])
    <2>1. \A j \in Keys, q \in Roles : TaskMove(j, task[j][q], task[j][q])
      BY DEF TaskMove, Stays, Kept
    <2> QED
      BY <1>1, <2>1
  <1> QED
    BY <1>2 DEF Moves, FileMove, ItemMove

\* Metadata that is not written.
LEMMA SameMetaMoves ==
    ASSUME meta' = meta PROVE \A j \in Keys, w \in Versions : MetaMove(j, w)
  BY DEF MetaMove

\* A result that is about to be written.
LEMMA ProducedMoves ==
    ASSUME TypeOK, NEW s \in Status, NEW h \in BOOLEAN
    PROVE  Makes(Produced(s, h)) /\ Makes(FailedHit(s))
  BY DEF Makes, Produced, FailedHit, Idle

\* Persisting replaces the file of the current version.
LEMMA PersistMoves ==
    ASSUME "persist" \notin Faults, TypeOK, NEW k \in Keys, NEW r \in Roles, PersistTempfile(k, r)
    PROVE  \A j \in Keys : Moves(j)
  <1> DEFINE t == task[k][r]
             p == IF Outcome(t) = "internal" THEN "purge" ELSE "mdcreate"
             u == [t EXCEPT !.pc = p]
  <1>1. t \in TaskSet /\ Current \in Versions
    BY Fields DEF Versions
  <1>2. /\ t.pc = "persist" /\ task' = [task EXCEPT ![k][r] = u]
        /\ UNCHANGED <<now, mem, meta>>
    BY DEF PersistTempfile
  <1>3. file' = [file EXCEPT ![k][Current] = Written(t)]
    BY DEF PersistTempfile, Written
  <1>4. u.pc \in {"mdcreate", "purge"} /\ Kept(t, u)
    BY <1>1 DEF Kept, TaskSet, TaskRecords
  <1> HIDE DEF u
  <1>5. /\ task'[k][r] = u
        /\ \A j \in Keys, q \in Roles : j # k \/ q # r => task'[j][q] = task[j][q]
    BY <1>2 DEF TypeOK
  <1>6. /\ file'[k][Current] = Written(t)
        /\ \A w \in Versions \ {Current} : file'[k][w] = file[k][w]
        /\ \A j \in Keys \ {k} : file'[j] = file[j]
    <2> HIDE DEF t
    <2> QED
      BY <1>1, <1>3 DEF TypeOK
  <1>7. IsReplaced(k, Current)
    BY <1>2, <1>6 DEF IsReplaced
  <1>8. ASSUME NEW j \in Keys, NEW w \in Versions PROVE FileMove(j, w) /\ MetaMove(j, w)
    BY <1>2, <1>6, <1>7 DEF FileMove, MetaMove
  <1>9. TaskMove(k, t, u)
    <2>1. Persists(k, t, u)
      BY <1>2, <1>4, <1>6 DEF Persists
    <2> HIDE DEF t
    <2> QED
      BY <2>1, Move
  <1>10. ASSUME NEW j \in Keys, NEW q \in Roles PROVE TaskMove(j, task[j][q], task'[j][q])
    <2>1. TaskMove(j, task[j][q], task[j][q])
      BY DEF TaskMove, Stays, Kept
    <2> QED
      BY <1>5, <1>9, <2>1
  <1> QED
    BY <1>2, <1>8, <1>10 DEF Moves, ItemMove

\* Removing a previous version.
LEMMA RemovePreviousMoves ==
    ASSUME TypeOK, NEW k \in Keys, NEW r \in Roles, RemovePrevious(k, r)
    PROVE  \A j \in Keys : Moves(j)
  <1> DEFINE t == task[k][r]
  <1>1. t \in TaskSet
    BY Fields
  <1>2. t.pc = "purge" /\ mem' = mem
    BY DEF RemovePrevious
  <1>3. CASE t.todo = {}
    <2> DEFINE u == [t EXCEPT !.pc = "finish"]
    <2>1. task' = [task EXCEPT ![k][r] = u] /\ file' = file /\ meta' = meta
      BY <1>3 DEF RemovePrevious
    <2>2. u.pc = "finish" /\ Kept(t, u)
      BY <1>1 DEF Kept, TaskSet, TaskRecords
    <2> HIDE DEF u
    <2>3. Writes(t, u)
      BY <1>2, <2>2 DEF Writes
    <2>4. TaskMove(k, task[k][r], u)
      BY <2>3, Move
    <2> QED
      BY <1>2, <2>1, <2>4, OneTaskMoves, SameMetaMoves
  <1>4. CASE t.todo # {}
    <2>1. PICK v \in t.todo : /\ file' = [file EXCEPT ![k][v] = NoFile]
                              /\ meta' = [meta EXCEPT ![k][v] = NoMeta]
                              /\ task' = [task EXCEPT ![k][r] = [t EXCEPT !.todo = @ \ {v}]]
      BY <1>4 DEF RemovePrevious
    <2> DEFINE u == [t EXCEPT !.todo = @ \ {v}]
    <2>2. v \in Versions /\ u.pc = "purge" /\ Kept(t, u)
      BY <1>1, <1>2 DEF Kept, TaskSet, TaskRecords, Versions
    <2>3. task' = [task EXCEPT ![k][r] = u]
      BY <2>1
    <2> HIDE DEF u
    <2>4. Writes(t, u)
      BY <1>2, <2>2 DEF Writes
    <2>5. TaskMove(k, t, u)
      BY <2>4, Move
    <2>6. /\ task'[k][r] = u
          /\ \A j \in Keys, q \in Roles : j # k \/ q # r => task'[j][q] = task[j][q]
      BY <2>3 DEF TypeOK
    <2>7. ASSUME NEW j \in Keys, NEW q \in Roles PROVE TaskMove(j, task[j][q], task'[j][q])
      <3>1. TaskMove(j, task[j][q], task[j][q])
        BY DEF TaskMove, Stays, Kept
      <3> QED
        BY <2>5, <2>6, <3>1
    <2>8. ASSUME NEW j \in Keys, NEW w \in Versions PROVE FileMove(j, w) /\ MetaMove(j, w)
      <3>1. file'[j][w] \in {file[j][w], NoFile} /\ meta'[j][w] \in {meta[j][w], NoMeta}
        BY <2>1, <2>2 DEF TypeOK
      <3> QED
        BY <3>1, NoMetaMoves DEF FileMove
    <2> QED
      BY <1>2, <2>7, <2>8 DEF Moves, ItemMove
  <1> QED
    BY <1>3, <1>4

\* Creating the metadata file, and writing it.
LEMMA MetadataMoves ==
    ASSUME TypeOK, NEW k \in Keys, NEW r \in Roles, CreateMetadata(k, r) \/ WriteMetadata(k, r)
    PROVE  \A j \in Keys : Moves(j)
  <1> DEFINE t == task[k][r]
  <1>1. t \in TaskSet /\ Current \in Versions
    BY Fields DEF Versions
  <1>2. UNCHANGED <<file, mem>> /\ t.pc \in {"mdcreate", "mdwrite"}
    BY DEF CreateMetadata, WriteMetadata
  <1>3. PICK u : /\ task' = [task EXCEPT ![k][r] = u] /\ Kept(t, u)
                 /\ u.pc \in {"mdwrite", "purge"} /\ (u.pc = "mdwrite" => t.pc = "mdcreate")
    <2>1. /\ Kept(t, [t EXCEPT !.pc = "mdwrite", !.linked = TRUE])
          /\ Kept(t, [t EXCEPT !.pc = "purge"])
          /\ Kept(t, [t EXCEPT !.pc = "purge", !.linked = FALSE])
          /\ [t EXCEPT !.pc = "mdwrite", !.linked = TRUE].pc = "mdwrite"
          /\ [t EXCEPT !.pc = "purge"].pc = "purge"
          /\ [t EXCEPT !.pc = "purge", !.linked = FALSE].pc = "purge"
      BY <1>1 DEF Kept, TaskSet, TaskRecords
    <2>2. CASE CreateMetadata(k, r)
      BY <2>1, <2>2 DEF CreateMetadata
    <2>3. CASE WriteMetadata(k, r)
      BY <2>1, <2>3 DEF WriteMetadata
    <2> QED
      BY <2>2, <2>3
  <1>4. Writes(t, u)
    BY <1>2, <1>3 DEF Writes
  <1>5. TaskMove(k, t, u)
    BY <1>4, Move
  <1>6. ASSUME NEW j \in Keys, NEW w \in Versions PROVE MetaMove(j, w)
    <2>1. CASE meta' = meta
      BY <2>1 DEF MetaMove
    <2>2. ASSUME NEW m \in MetaSet, meta' = [meta EXCEPT ![k][Current] = m],
                 m.state # "full" \/ t.pc = "mdwrite"
          PROVE  MetaMove(j, w)
      <3>1. meta'[j][w] = meta[j][w] \/ (j = k /\ w = Current /\ meta'[j][w] = m)
        BY <1>1, <2>2 DEF TypeOK
      <3> QED
        BY <2>2, <3>1 DEF MetaMove
    <2>3. /\ [state |-> "partial", created |-> 0] \in MetaSet
          /\ [state |-> "full", created |-> Timestamp(t.since)] \in MetaSet
      BY <1>1, TaskFields, TimestampType DEF MetaSet
    <2>4. CASE CreateMetadata(k, r)
      <3>1. \/ meta' = meta
            \/ meta' = [meta EXCEPT ![k][Current] = [state |-> "partial", created |-> 0]]
        BY <2>4 DEF CreateMetadata
      <3> QED
        BY <2>1, <2>2, <2>3, <3>1
    <2>5. CASE WriteMetadata(k, r)
      <3>1. \/ meta' = meta
            \/ meta' = [meta EXCEPT ![k][Current] = [state |-> "full", created |-> Timestamp(t.since)]]
        BY <2>5 DEF WriteMetadata
      <3>2. t.pc = "mdwrite"
        BY <2>5 DEF WriteMetadata
      <3> QED
        BY <2>1, <2>2, <2>3, <3>1, <3>2
    <2> QED
      BY <2>4, <2>5
  <1> QED
    BY <1>2, <1>3, <1>5, <1>6, OneTaskMoves

\* The steps of compute.
LEMMA ComputeMoves ==
    ASSUME "persist" \notin Faults, TypeOK, NEW k \in Keys, NEW r \in Roles, ComputeStep(k, r)
    PROVE  \A j \in Keys : Moves(j)
  <1> DEFINE t == task[k][r]
  <1>1. t \in TaskSet
    BY Fields
  <1>2. CASE LoadFromSharedCache(k, r)
    <2>1. UNCHANGED <<file, mem, meta>>
      BY <1>2 DEF LoadFromSharedCache
    <2>2. ASSUME NEW u, TaskMove(k, t, u), task' = [task EXCEPT ![k][r] = u]
          PROVE  \A j \in Keys : Moves(j)
      BY <2>1, <2>2, OneTaskMoves, SameMetaMoves
    <2>3. /\ \A s \in {"internal", "ok"}, h \in BOOLEAN : TaskMove(k, t, Produced(s, h))
          /\ \A s \in {"negative", "ok"} : TaskMove(k, t, FailedHit(s))
      BY ProducedMoves, Move DEF Status, Stored
    <2>4. TaskMove(k, t, [t EXCEPT !.pc = "compute"])
      <3>1. [t EXCEPT !.pc = "compute"].pc = "compute"
        BY <1>1 DEF TaskSet, TaskRecords
      <3>2. Waits([t EXCEPT !.pc = "compute"])
        BY <3>1 DEF Waits, Writing
      <3> QED
        BY <3>2, Move
    <2> QED
      BY <1>2, <2>2, <2>3, <2>4 DEF LoadFromSharedCache
  <1>3. CASE Compute(k, r)
    <2>1. PICK s \in Status : task' = [task EXCEPT ![k][r] = Produced(s, FALSE)]
      BY <1>3 DEF Compute
    <2>2. UNCHANGED <<file, mem, meta>>
      BY <1>3 DEF Compute
    <2>3. TaskMove(k, t, Produced(s, FALSE))
      BY ProducedMoves, Move
    <2> QED
      BY <2>1, <2>2, <2>3, OneTaskMoves, SameMetaMoves
  <1>4. CASE FinishCompute(k, r)
    <2>1. t.pc = "finish" /\ UNCHANGED <<file, mem, meta>>
      BY <1>4 DEF FinishCompute
    <2> DEFINE e == Outcome(t)
    <2>2. PICK s \in LoadResults(e) :
            task' = [task EXCEPT ![k][r] =
                       [Idle EXCEPT !.pc = "insert", !.entry = e, !.status = s,
                                    !.born = t.born,
                                    !.deadline = AsInstant(ForFreshStatus(s), now)]]
      BY <1>4 DEF FinishCompute
    <2> DEFINE u == [Idle EXCEPT !.pc = "insert", !.entry = e, !.status = s,
                                 !.born = t.born,
                                 !.deadline = AsInstant(ForFreshStatus(s), now)]
    <2>3. /\ u.pc = "insert" /\ u.entry = e /\ u.born = t.born /\ u.status = s
          /\ u.deadline = AsInstant(ForFreshStatus(s), now) /\ u.version = Current
      BY DEF Idle
    <2>4. s \in Status /\ e \in {t.entry, "internal"}
      BY <1>1, <2>1, OutcomeType DEF TaskSet, Writing
    <2>5. task' = [task EXCEPT ![k][r] = u]
      BY <2>2
    <2> HIDE DEF e, u
    <2>6. Finishes(k, t, u) \/ Fails(u)
      BY <2>1, <2>3, <2>4 DEF Finishes, Fails
    <2>7. TaskMove(k, t, u)
      BY <2>6, Move
    <2> QED
      BY <2>1, <2>5, <2>7, OneTaskMoves, SameMetaMoves
  <1> QED
    BY <1>2, <1>3, <1>4, PersistMoves, MetadataMoves, RemovePreviousMoves DEF ComputeStep

\* A result is inserted into memory, or an item is evicted.
LEMMA LateMoves ==
    ASSUME TypeOK, NEW k \in Keys,
           RefreshPanics(k) \/ InsertFill(k) \/ InsertRefresh(k) \/ ReleaseToken(k)
             \/ UnregisterRefresh(k) \/ Evict(k)
    PROVE  \A j \in Keys : Moves(j)
  <1>1. UNCHANGED <<now, file, meta>>
    BY DEF RefreshPanics, InsertFill, InsertRefresh, ReleaseToken, UnregisterRefresh, Evict
  <1>2. ASSUME NEW j \in Keys PROVE ItemMove(j)
    <2>1. CASE mem' = mem
      BY <2>1 DEF ItemMove
    <2>2. ASSUME NEW r \in Roles, task[k][r].pc = "insert",
                 mem' = [mem EXCEPT ![k] = Unexpired(ItemOf(task[k][r]), now)]
          PROVE  ItemMove(j)
      <3>1. /\ mem'[k] = Unexpired(ItemOf(task[k][r]), now)
            /\ \A i \in Keys \ {k} : mem'[i] = mem[i]
        BY <2>2 DEF TypeOK
      <3> QED
        BY <1>1, <2>2, <3>1 DEF ItemMove
    <2>3. CASE mem' = [mem EXCEPT ![k] = NoItem]
      <3>1. mem'[j] = NoItem \/ mem'[j] = mem[j]
        BY <2>3 DEF TypeOK
      <3> QED
        BY <3>1 DEF ItemMove
    <2> QED
      BY <2>1, <2>2, <2>3
      DEF RefreshPanics, InsertFill, InsertRefresh, ReleaseToken, UnregisterRefresh, Evict, Roles
  <1>3. ASSUME NEW j \in Keys, NEW q \in Roles PROVE TaskMove(j, task[j][q], task'[j][q])
    <2>1. TaskMove(j, task[j][q], task[j][q])
      BY DEF TaskMove, Stays, Kept
    <2>2. CASE task' = task
      BY <2>1, <2>2
    <2>3. ASSUME NEW p \in Roles, NEW u, Waits(u), task' = [task EXCEPT ![k][p] = u]
          PROVE  TaskMove(j, task[j][q], task'[j][q])
      <3>1. task'[j][q] = u \/ task'[j][q] = task[j][q]
        BY <2>3 DEF TypeOK
      <3>2. TaskMove(j, task[j][q], u)
        BY <2>3, Move
      <3> QED
        BY <2>1, <3>1, <3>2
    <2>4. CASE ReleaseToken(k)
      <3> DEFINE u == [task[k]["refresh"] EXCEPT !.pc = "unregister"]
      <3>1. task' = [task EXCEPT ![k]["refresh"] = u]
        BY <2>4 DEF ReleaseToken
      <3>2. task[k]["refresh"] \in TaskSet
        BY Fields DEF Roles
      <3>3. u.pc = "unregister"
        BY <3>2 DEF TaskSet, TaskRecords
      <3> HIDE DEF u
      <3>4. Waits(u)
        BY <3>3 DEF Waits, Writing
      <3> QED
        BY <2>3, <3>1, <3>4 DEF Roles
    <2>5. CASE Evict(k)
      BY <2>2, <2>5 DEF Evict
    <2> QED
      BY <2>3, <2>4, <2>5, WaitingPc
      DEF RefreshPanics, InsertFill, InsertRefresh, UnregisterRefresh, Roles
  <1> QED
    BY <1>1, <1>2, <1>3 DEF Moves, FileMove, MetaMove

\* Every step other than the clock's and a restart moves each key.
LEMMA StepMoves ==
    ASSUME "persist" \notin Faults, TypeOK, [Next]_vars
    PROVE  Tick \/ Crash \/ (UNCHANGED <<now, start>> /\ \A k \in Keys : Moves(k))
  <1>1. CASE UNCHANGED vars
    BY <1>1, StillMoves DEF vars
  <1>2. CASE CallerStep
    <2>1. UNCHANGED <<now, start>>
      BY <1>2 DEF CallerStep, ComputeMemoized, CallerDropped
    <2> QED
      BY <1>2, <2>1, CallerMoves
  <1>3. CASE CleanupStep
    <2>1. UNCHANGED <<now, start>>
      BY <1>3 DEF CleanupStep, CleanupCheck, CleanupRemoveFile, CleanupRemoveMetadata, CleanupRemoveDir
    <2> QED
      BY <1>3, <2>1, CleanupMoves
  <1>4. ASSUME NEW k \in Keys, NEW r \in Roles, ComputeStep(k, r)
        PROVE  UNCHANGED <<now, start>> /\ \A j \in Keys : Moves(j)
    <2>1. UNCHANGED <<now, start>>
      <3>1. CASE LoadFromSharedCache(k, r) \/ Compute(k, r)
        BY <3>1 DEF LoadFromSharedCache, Compute
      <3>2. CASE PersistTempfile(k, r) \/ CreateMetadata(k, r)
        BY <3>2 DEF PersistTempfile, CreateMetadata
      <3>3. CASE WriteMetadata(k, r)
        BY <3>3 DEF WriteMetadata
      <3>4. CASE RemovePrevious(k, r)
        BY <3>4 DEF RemovePrevious
      <3>5. CASE FinishCompute(k, r)
        BY <3>5 DEF FinishCompute
      <3> QED
        BY <1>4, <3>1, <3>2, <3>3, <3>4, <3>5 DEF ComputeStep
    <2> QED
      BY <1>4, <2>1, ComputeMoves
  <1>5. ASSUME NEW k \in Keys,
               RefreshPanics(k) \/ InsertFill(k) \/ InsertRefresh(k) \/ ReleaseToken(k)
                 \/ UnregisterRefresh(k) \/ Evict(k)
        PROVE  UNCHANGED <<now, start>> /\ \A j \in Keys : Moves(j)
    <2>1. UNCHANGED <<now, start>>
      BY <1>5 DEF RefreshPanics, InsertFill, InsertRefresh, ReleaseToken, UnregisterRefresh, Evict
    <2> QED
      BY <1>5, <2>1, LateMoves
  <1>6. ASSUME NEW k \in Keys, LookupCheck(k) \/ LookupTouch(k)
        PROVE  UNCHANGED <<now, start>> /\ \A j \in Keys : Moves(j)
    <2>1. UNCHANGED <<now, start>>
      <3>1. CASE LookupCheck(k)
        BY <3>1 DEF LookupCheck
      <3>2. CASE LookupTouch(k)
        BY <3>2 DEF LookupTouch
      <3> QED
        BY <1>6, <3>1, <3>2
    <2> QED
      BY <1>6, <2>1, LookupCheckMoves, LookupTouchMoves
  <1> QED
    BY <1>1, <1>2, <1>3, <1>4, <1>5, <1>6 DEF Next, FillStep, RefreshStep, Roles

-----------------------------------------------------------------------------
(* Moves keep the invariant. *)

\* What replaces the file of the current version: an entry of this process, dated in time.
LEMMA ReplacedKept ==
    ASSUME TypeOK, AgeInv, KeptInv, NEW k \in Keys, NEW v \in Versions, IsReplaced(k, v)
    PROVE  /\ file'[k][v].born >= start /\ file'[k][v].mtime <= now
           /\ now <= file'[k][v].mtime + WriteTime
  <1>1. PICK r \in Roles : task[k][r].pc = "persist" /\ file'[k][v] = Written(task[k][r])
    BY DEF IsReplaced
  <1>2. InTime(task[k][r], now) /\ task[k][r].born >= start
    BY <1>1 DEF AgeInv, KeptInv, TaskAged, TaskKept, Writing
  <1>3. file'[k][v].mtime = task[k][r].since /\ file'[k][v].born = task[k][r].born
    BY <1>1 DEF Written
  <1> QED
    BY <1>2, <1>3 DEF InTime

\* What touching does to a file.
LEMMA TouchKept ==
    ASSUME TypeOK, NEW k \in Keys, NEW v \in Versions, IsTouched(k, v)
    PROVE  /\ task[k]["fill"].pc = "touch" /\ v = LookupOrder[task[k]["fill"].i]
           /\ file'[k][v].mtime = now /\ file'[k][v].entry = file[k][v].entry
           /\ file'[k][v].born = file[k][v].born
  <1>1. file[k][v] \in FileSet
    BY Fields
  <1>2. file'[k][v] = [file[k][v] EXCEPT !.mtime = now]
    BY DEF IsTouched
  <1>3. task[k]["fill"].pc = "touch" /\ v = LookupOrder[task[k]["fill"].i]
    BY DEF IsTouched
  <1> QED
    BY <1>1, <1>2, <1>3 DEF FileSet

\* Nothing turns a file that is not stale into a stale one.
LEMMA StaleKept ==
    ASSUME TypeOK, TypeOK', AgeInv, KeptInv, NEW k \in Keys, NEW v \in Versions, FileMove(k, v)
    PROVE  /\ Stale(file'[k][v], start) => Stale(file[k][v], start) /\ file'[k][v] = file[k][v]
           /\ file'[k][v].mtime <= now
  <1>1. start \in Nat /\ now \in Nat /\ file'[k][v].born \in Nat
    BY Fields DEF TypeOK, FileSet
  <1>2. NoFile.entry = "none" /\ NoFile.mtime = 0
    BY DEF NoFile
  <1>3. file[k][v].mtime <= now
    BY DEF KeptInv, FileKept
  <1>4. CASE file'[k][v] \in {file[k][v], NoFile}
    BY <1>1, <1>2, <1>3, <1>4 DEF Stale
  <1>5. CASE IsTouched(k, v)
    <2>1. ~ Stale(file[k][v], start)
      BY <1>5, TouchKept DEF KeptInv, TaskKept, Roles
    <2> QED
      BY <1>1, <1>5, <2>1, TouchKept DEF Stale
  <1>6. CASE IsReplaced(k, v)
    BY <1>1, <1>6, ReplacedKept DEF Stale
  <1> QED
    BY <1>4, <1>5, <1>6 DEF FileMove

\* A usable file keeps its date, or is dated in this section.
LEMMA DateKept ==
    ASSUME TypeOK, TypeOK', AgeInv, KeptInv, NEW k \in Keys, NEW v \in Versions, FileMove(k, v),
           file'[k][v].entry = "ok"
    PROVE  \/ now <= file'[k][v].mtime + WriteTime
           \/ file[k][v].entry = "ok" /\ file'[k][v].mtime = file[k][v].mtime
  <1>1. now \in Nat /\ NoFile.entry # "ok"
    BY Fields DEF NoFile
  <1> QED
    BY <1>1, ReplacedKept, TouchKept, CacherConstants DEF FileMove

\* A deadline that the file outlives stays one.
LEMMA AliveKept ==
    ASSUME TypeOK, TypeOK', AgeInv, KeptInv, NEW k \in Keys, NEW v \in Versions, FileMove(k, v),
           NEW d \in Nat, Alive(d, file[k], v, now)
    PROVE  Alive(d, file'[k], v, now)
  <1>1. now \in Nat /\ file'[k][v].mtime \in Nat /\ file[k][v].mtime \in Nat
    BY Fields DEF TypeOK, FileSet
  <1>2. /\ d <= now + TouchEvery
        /\ file[k][v].entry = "ok" => d <= file[k][v].mtime + TouchEvery + 2 * WriteTime
    BY DEF Alive
  <1>3. ASSUME file'[k][v].entry = "ok"
        PROVE  d <= file'[k][v].mtime + TouchEvery + 2 * WriteTime
    <2>1. \/ now <= file'[k][v].mtime + WriteTime
          \/ file[k][v].entry = "ok" /\ file'[k][v].mtime = file[k][v].mtime
      BY <1>3, DateKept
    <2>2. WriteTime \in Nat /\ TouchEvery \in Nat
      BY CacherConstants, ExpiryConstants
    <2>3. CASE now <= file'[k][v].mtime + WriteTime
      BY <1>1, <1>2, <2>2, <2>3
    <2>4. CASE file[k][v].entry = "ok" /\ file'[k][v].mtime = file[k][v].mtime
      BY <1>2, <2>4
    <2> QED
      BY <2>1, <2>3, <2>4
  <1> QED
    BY <1>2, <1>3 DEF Alive

\* Files stay as the invariant has them.
LEMMA FileStaysKept ==
    ASSUME TypeOK, TypeOK', AgeInv, KeptInv, NEW k \in Keys, NEW v \in Versions,
           FileMove(k, v), MetaMove(k, v)
    PROVE  FileKept(file'[k][v], meta'[k][v], now, start)
  <1>1. FileKept(file[k][v], meta[k][v], now, start)
    BY DEF KeptInv
  <1>2. /\ file'[k][v].mtime <= now
        /\ Stale(file'[k][v], start) => Stale(file[k][v], start) /\ file'[k][v] = file[k][v]
    BY StaleKept
  <1>3. ASSUME Stale(file'[k][v], start), meta'[k][v].state = "full" PROVE meta'[k][v] = meta[k][v]
    <2>1. ASSUME NEW r \in Roles, v = Current, task[k][r].pc = "mdwrite" PROVE FALSE
      BY <1>2, <1>3, <2>1 DEF KeptInv, TaskKept
    <2> QED
      BY <1>3, <2>1 DEF MetaMove
  <1> QED
    BY <1>1, <1>2, <1>3 DEF FileKept

\* Versions that lookups find are dated so that they are not stale, and outlive the deadline.
LEMMA FindsKept ==
    ASSUME TypeOK, TypeOK', KeptInv, NEW k \in Keys, NEW u, u.entry # "none", Finds(k, u)
    PROVE  /\ u.entry = "malformed" => u.born >= start
           /\ u.entry = "ok" => Alive(u.deadline, file'[k], u.version, now)
  <1> DEFINE v == u.version
             f == file[k][v]
             m == meta[k][v]
             known == m.state = "full"
             ctime == IF known THEN m.created ELSE f.mtime
             public == known /\ k \in PublicKeys
             e == CheckExpiry(k, v, start)
  <1>1. /\ v \in Versions /\ file'[k][v] = f /\ u.entry = f.entry /\ u.born = f.born
        /\ e.kind # "NotFound" /\ e # TouchIn(0) /\ u.deadline = AsInstant(e, now)
    BY DEF Finds
  <1>2. /\ now \in Nat /\ start \in Nat /\ f.mtime \in Nat /\ f.born \in Nat /\ m.created \in Nat
    BY <1>1, Fields DEF TypeOK
  <1>3. FileKept(f, m, now, start)
    BY <1>1 DEF KeptInv
  <1>4. e = ComputeExpirationTime(f.entry, f.mtime, ctime, public, start, now)
    BY DEF CheckExpiry
  <1> HIDE DEF e, f, public, v
  <1>5. ASSUME f.entry = "malformed" PROVE u.born >= start
    <2>1. ~ (ctime < start)
      <3> HIDE DEF ctime
      <3> QED
        BY <1>1, <1>4, <1>5 DEF ComputeExpirationTime, ExpirationStrategy, NotFound
    <2> HIDE DEF m
    <2> QED
      BY <1>1, <1>2, <1>3, <1>5, <2>1 DEF FileKept, Stale
  <1>6. ASSUME f.entry = "ok" PROVE Alive(u.deadline, file'[k], u.version, now)
    <2>1. e = TouchIn(SaturatingSub(TouchEvery, Elapsed(f.mtime, now)))
      <3> HIDE DEF ctime
      <3> QED
        BY <1>1, <1>4, <1>6 DEF ComputeExpirationTime, ExpirationStrategy, NotFound
    <2>2. f.mtime <= now
      BY <1>3 DEF FileKept
    <2> DEFINE age == Elapsed(f.mtime, now)
    <2>3. age = now - f.mtime
      BY <1>2, <2>2 DEF Elapsed
    <2>4. e.in = SaturatingSub(TouchEvery, age) /\ SaturatingSub(TouchEvery, age) # 0
      BY <1>1, <2>1 DEF TouchIn
    <2> HIDE DEF age
    <2>5. e.in = TouchEvery - (now - f.mtime)
      BY <1>2, <2>2, <2>3, <2>4, ExpiryConstants DEF SaturatingSub
    <2>6. u.deadline = f.mtime + TouchEvery
      BY <1>1, <1>2, <2>5, ExpiryConstants DEF AsInstant
    <2>7. file'[k][u.version] = f
      BY <1>1 DEF v
    <2> QED
      BY <1>2, <2>2, <2>6, <2>7, ExpiryConstants, CacherConstants DEF Alive
  <1> QED
    BY <1>1, <1>5, <1>6

\* The clauses of TaskKept that a task between two steps of its section owes.
LEMMA SectionKept ==
    ASSUME TypeOK, TypeOK', AgeInv, KeptInv, NEW k \in Keys, NEW r \in Roles,
           Current \in Versions, FileMove(k, Current), task[k][r].pc \in Writing \ {"persist"},
           NEW u, Kept(task[k][r], u), u.entry = "ok", file'[k][Current].entry = "ok"
    PROVE  u.since <= file'[k][Current].mtime + WriteTime
  <1> DEFINE t == task[k][r]
             f == file[k][Current]
             g == file'[k][Current]
  <1>1. /\ t.since \in Nat /\ now \in Nat /\ g.mtime \in Nat /\ WriteTime \in Nat
    BY Fields, TaskFields, CacherConstants DEF TypeOK, FileSet
  <1>2. InTime(t, now)
    BY DEF AgeInv, TaskAged
  <1>3. u.since = t.since /\ t.entry = "ok"
    BY DEF Kept
  <1>4. f.entry = "ok" => t.since <= f.mtime + WriteTime
    BY <1>3 DEF KeptInv, TaskKept
  <1>5. now <= g.mtime + WriteTime \/ (f.entry = "ok" /\ g.mtime = f.mtime)
    BY DateKept
  <1> HIDE DEF t, f, g
  <1>6. t.since <= now
    BY <1>2 DEF InTime
  <1>7. t.since <= g.mtime + WriteTime
    BY <1>1, <1>4, <1>5, <1>6
  <1> QED
    BY <1>3, <1>7 DEF g

\* Tasks stay as the invariant has them.
LEMMA TaskStaysKept ==
    ASSUME TypeOK, TypeOK', AgeInv, KeptInv, NEW k \in Keys, NEW r \in Roles,
           \A v \in Versions : FileMove(k, v), NEW u \in TaskSet, TaskMove(k, task[k][r], u)
    PROVE  TaskKept(u, file'[k], now, start)
  <1> DEFINE t == task[k][r]
  <1>1. /\ t \in TaskSet /\ u \in TaskSet /\ now \in Nat /\ start \in Nat /\ start <= now
        /\ TaskKept(t, file[k], now, start) /\ Current \in Versions
        /\ LookupOrder[t.i] \in Versions
    BY Fields, TaskFields DEF TypeOK, KeptInv, Versions
  <1>2. /\ t.deadline \in Nat /\ t.version \in Versions /\ t.since \in Nat /\ u.born \in Nat /\ t.born \in Nat
        /\ WriteTime \in Nat /\ TouchEvery \in Nat
    BY <1>1, TaskFields, CacherConstants, ExpiryConstants DEF TaskSet, TaskRecords
  <1>3. \A v \in Versions : ~ Stale(file[k][v], start) => ~ Stale(file'[k][v], start)
    BY StaleKept
  <1>4. t.pc \in Writing => t.born >= start
    BY <1>1 DEF TaskKept
  <1>5. CASE Waits(u)
    BY <1>5 DEF Waits, TaskKept, Writing
  <1>6. CASE Stays(t, u)
    <2>1. u.pc = t.pc /\ Kept(t, u)
      BY <1>6 DEF Stays
    <2>2. u.pc \in Writing => u.born >= start
      BY <1>4, <2>1 DEF Kept
    <2>3. u.pc = "touch" => ~ Stale(file'[k][LookupOrder[u.i]], start)
      BY <1>1, <1>3, <2>1 DEF Kept, TaskKept
    <2>4. u.pc \in {"mdcreate", "mdwrite"} => ~ Stale(file'[k][Current], start)
      BY <1>1, <1>3, <2>1 DEF TaskKept
    <2>5. u.pc \in Writing \ {"persist"} /\ u.entry = "ok" /\ file'[k][Current].entry = "ok"
             => u.since <= file'[k][Current].mtime + WriteTime
      BY <1>1, <2>1, SectionKept
    <2>6. u.pc = "insert" /\ u.entry = "malformed" => u.born >= start
      BY <1>1, <2>1 DEF Kept, TaskKept
    <2>7. u.pc = "insert" /\ u.entry = "ok" /\ u.status = "ok" => Alive(u.deadline, file'[k], u.version, now)
      <3>1. ASSUME t.pc = "insert", t.entry = "ok", t.status = "ok"
            PROVE  Alive(t.deadline, file'[k], t.version, now)
        <4>1. Alive(t.deadline, file[k], t.version, now)
          BY <1>1, <3>1 DEF TaskKept
        <4> HIDE DEF t
        <4> QED
          BY <1>2, <4>1, AliveKept
      <3> QED
        BY <2>1, <3>1 DEF Kept
    <2> QED
      BY <2>2, <2>3, <2>4, <2>5, <2>6, <2>7 DEF TaskKept
  <1>7. CASE Makes(u)
    BY <1>1, <1>7 DEF Makes, TaskKept, Writing
  <1>8. CASE Persists(k, t, u)
    <2>1. /\ t.pc = "persist" /\ u.pc \in {"mdcreate", "purge"} /\ u.born = t.born /\ u.since = t.since
          /\ file'[k][Current].mtime = t.since /\ file'[k][Current].born = t.born
      BY <1>8 DEF Persists, Kept, Written
    <2>2. t.born >= start
      BY <1>4, <2>1 DEF Writing
    <2> HIDE DEF t
    <2> QED
      BY <1>1, <1>2, <2>1, <2>2 DEF TaskKept, Stale, Writing
  <1>9. CASE Writes(t, u)
    <2>1. /\ t.pc \in {"mdcreate", "mdwrite", "purge"} /\ u.pc \in {"mdwrite", "purge", "finish"}
          /\ u.pc = "mdwrite" => t.pc = "mdcreate"
          /\ Kept(t, u) /\ u.born = t.born
      BY <1>9 DEF Writes, Kept
    <2>2. u.born >= start
      BY <1>4, <2>1 DEF Writing
    <2>3. u.pc = "mdwrite" => ~ Stale(file'[k][Current], start)
      BY <1>1, <1>3, <2>1 DEF TaskKept
    <2>4. u.entry = "ok" /\ file'[k][Current].entry = "ok"
             => u.since <= file'[k][Current].mtime + WriteTime
      BY <1>1, <2>1, SectionKept DEF Writing
    <2> HIDE DEF t
    <2> QED
      BY <2>1, <2>2, <2>3, <2>4 DEF TaskKept
  <1>10. CASE Touches(k, u)
    <2>1. u.pc = "touch" /\ ~ Stale(file'[k][LookupOrder[u.i]], start)
      BY <1>3, <1>10 DEF Touches, Stale
    <2> QED
      BY <2>1 DEF TaskKept, Writing
  <1>11. CASE Finds(k, u)
    <2>1. u.pc = "insert"
      BY <1>11 DEF Finds
    <2>2. u.entry # "none" => /\ u.entry = "malformed" => u.born >= start
                              /\ u.entry = "ok" => Alive(u.deadline, file'[k], u.version, now)
      BY <1>11, FindsKept
    <2> QED
      BY <2>1, <2>2 DEF TaskKept, Writing
  <1>12. CASE Fails(u)
    BY <1>12 DEF Fails, TaskKept, Writing
  <1>13. CASE Touched(k, u)
    <2>1. /\ u.pc = "insert" /\ u.entry = "ok" /\ u.deadline = now + TouchEvery
          /\ u.version \in Versions /\ file'[k][u.version].mtime = now
      BY <1>13 DEF Touched
    <2>2. Alive(u.deadline, file'[k], u.version, now)
      BY <1>1, <1>2, <2>1 DEF Alive
    <2> QED
      BY <2>1, <2>2 DEF TaskKept, Writing
  <1>14. CASE Finishes(k, t, u)
    <2>1. /\ t.pc = "finish" /\ u.pc = "insert" /\ u.entry = t.entry /\ u.born = t.born
          /\ u.version = Current /\ file'[k] = file[k] /\ u.status \in Status
          /\ u.deadline = AsInstant(ForFreshStatus(u.status), now)
      BY <1>14 DEF Finishes
    <2>2. t.born >= start /\ InTime(t, now)
      BY <1>4, <2>1 DEF Writing, AgeInv, TaskAged
    <2>3. ASSUME u.entry = "ok", u.status = "ok" PROVE Alive(u.deadline, file'[k], u.version, now)
      <3>1. u.deadline = now + TouchEvery
        BY <2>1, <2>3 DEF AsInstant, ForFreshStatus, ExpirationStrategy, TouchIn
      <3>2. file'[k][Current].entry = "ok" => t.since <= file'[k][Current].mtime + WriteTime
        BY <1>1, <2>1, <2>3 DEF TaskKept, Writing
      <3>3. now <= t.since + WriteTime
        BY <2>2 DEF InTime
      <3>4. file'[k][Current].mtime \in Nat
        BY <1>1, <2>1, Fields
      <3> HIDE DEF t
      <3> QED
        BY <1>1, <1>2, <2>1, <3>1, <3>2, <3>3, <3>4 DEF Alive
    <2> HIDE DEF t
    <2> QED
      BY <2>1, <2>2, <2>3 DEF TaskKept, Writing
  <1> QED
    BY <1>5, <1>6, <1>7, <1>8, <1>9, <1>10, <1>11, <1>12, <1>13, <1>14 DEF TaskMove

\* Items stay as the invariant has them.
LEMMA ItemStaysKept ==
    ASSUME TypeOK, TypeOK', AgeInv, KeptInv, NEW k \in Keys,
           \A v \in Versions : FileMove(k, v), ItemMove(k)
    PROVE  ItemKept(mem'[k], file'[k], now, start)
  <1>1. /\ mem[k] \in ItemSet /\ mem[k].deadline \in Nat /\ mem[k].version \in Versions
        /\ ItemKept(mem[k], file[k], now, start)
    BY Fields DEF KeptInv, ItemSet
  <1>2. ItemKept(NoItem, file'[k], now, start)
    BY DEF ItemKept, NoItem
  <1>3. CASE mem'[k] = mem[k]
    <2>1. mem[k].entry = "ok" /\ mem[k].status = "ok" => Alive(mem[k].deadline, file'[k], mem[k].version, now)
      BY <1>1, AliveKept DEF ItemKept
    <2> QED
      BY <1>1, <1>3, <2>1 DEF ItemKept
  <1>4. ASSUME NEW r \in Roles, task[k][r].pc = "insert", file'[k] = file[k],
               mem'[k] = Unexpired(ItemOf(task[k][r]), now)
        PROVE  ItemKept(mem'[k], file'[k], now, start)
    <2> DEFINE x == ItemOf(task[k][r])
               t == task[k][r]
    <2>1. /\ x.entry = t.entry /\ x.status = t.status /\ x.born = t.born
          /\ x.deadline = t.deadline /\ x.version = t.version
      BY DEF ItemOf
    <2>2. TaskKept(t, file'[k], now, start)
      BY <1>4 DEF KeptInv
    <2>3. now < x.deadline => ItemKept(x, file'[k], now, start)
      <3> HIDE DEF x
      <3> QED
        BY <1>4, <2>1, <2>2 DEF TaskKept, ItemKept
    <2> HIDE DEF x
    <2>4. (mem'[k] = x /\ now < x.deadline) \/ mem'[k] = NoItem
      BY <1>4 DEF Unexpired, x
    <2> QED
      BY <1>2, <2>3, <2>4
  <1> QED
    BY <1>2, <1>3, <1>4 DEF ItemMove

-----------------------------------------------------------------------------
\* Time keeps the invariant: files and deadlines age with it.
LEMMA TickKept ==
    ASSUME TypeOK, KeptInv, Tick PROVE KeptInv'
  <1>1. /\ now \in Nat /\ start \in Nat /\ now' = now + 1 /\ start' = start
        /\ UNCHANGED <<file, meta, task>>
        /\ mem' = [k \in Keys |-> Unexpired(mem[k], now')]
    BY Fields DEF Tick, TypeOK
  <1>2. \A d \in Nat : \A files, v : Alive(d, files, v, now) => Alive(d, files, v, now')
    BY <1>1, ExpiryConstants DEF Alive
  <1>3. ASSUME NEW k \in Keys, NEW v \in Versions
        PROVE  FileKept(file'[k][v], meta'[k][v], now', start')
    <2>1. FileKept(file[k][v], meta[k][v], now, start) /\ file[k][v].mtime \in Nat
      BY Fields DEF KeptInv
    <2> QED
      BY <1>1, <2>1 DEF FileKept
  <1>4. ASSUME NEW k \in Keys, NEW r \in Roles PROVE TaskKept(task'[k][r], file'[k], now', start')
    <2>1. TaskKept(task[k][r], file[k], now, start) /\ task[k][r].deadline \in Nat
      BY Fields, TaskFields DEF KeptInv
    <2> QED
      BY <1>1, <1>2, <2>1 DEF TaskKept
  <1>5. ASSUME NEW k \in Keys PROVE ItemKept(mem'[k], file'[k], now', start')
    <2>1. ItemKept(mem[k], file[k], now, start) /\ mem[k].deadline \in Nat
      BY Fields DEF KeptInv, ItemSet
    <2>2. ItemKept(NoItem, file'[k], now', start')
      BY DEF ItemKept, NoItem
    <2>3. mem'[k] = NoItem \/ (mem'[k] = mem[k] /\ now' < mem[k].deadline)
      BY <1>1 DEF Unexpired
    <2> QED
      BY <1>1, <1>2, <2>1, <2>2, <2>3 DEF ItemKept
  <1>6. start' <= now'
    BY <1>1 DEF KeptInv
  <1> QED
    BY <1>3, <1>4, <1>5, <1>6 DEF KeptInv

\* A restart keeps the invariant: every file is dated before it.
LEMMA CrashKept ==
    ASSUME TypeOK, AgeInv, KeptInv, Crash PROVE KeptInv'
  <1>1. /\ now \in Nat /\ now' = now + 1 /\ start' = now' /\ UNCHANGED <<file, meta>>
        /\ \A k \in Keys : mem'[k] = NoItem /\ \A r \in Roles : task'[k][r] = Idle
    BY Fields DEF Crash
  <1>2. ASSUME NEW k \in Keys, NEW v \in Versions
        PROVE  FileKept(file'[k][v], meta'[k][v], now', start')
    <2>1. /\ FileKept(file[k][v], meta[k][v], now, start) /\ file[k][v].mtime \in Nat
          /\ FileAged(file[k][v], meta[k][v], now) /\ meta[k][v].created \in Nat
      BY Fields DEF KeptInv, AgeInv
    <2> QED
      BY <1>1, <2>1 DEF FileKept, FileAged
  <1>3. ASSUME NEW k \in Keys
        PROVE  /\ TaskKept(Idle, file'[k], now', start')
               /\ ItemKept(NoItem, file'[k], now', start')
    BY DEF TaskKept, Idle, Writing, ItemKept, NoItem
  <1> QED
    BY <1>1, <1>2, <1>3 DEF KeptInv

\* The invariant holds initially.
LEMMA InitKept == Init => KeptInv
  <1> SUFFICES ASSUME Init PROVE KeptInv
    OBVIOUS
  <1>1. now = 0 /\ start = 0 /\ TypeOK
    BY InitType DEF Init
  <1>2. \A k \in Keys, v \in Versions : file[k][v].mtime = 0 /\ file[k][v].born = 0
    <2>1. \A f \in OldFiles : f.mtime = 0 /\ f.born = 0
      BY DEF OldFiles, NoFile
    <2>2. file \in [Keys -> [Versions -> OldFiles]]
      BY DEF Init
    <2> QED
      BY <2>1, <2>2
  <1>3. \A k \in Keys, v \in Versions : FileKept(file[k][v], meta[k][v], now, start)
    BY <1>1, <1>2 DEF FileKept, Stale
  <1>4. \A k \in Keys : mem[k] = NoItem /\ \A r \in Roles : task[k][r] = Idle
    BY DEF Init
  <1>5. ASSUME NEW k \in Keys
        PROVE  TaskKept(Idle, file[k], now, start) /\ ItemKept(NoItem, file[k], now, start)
    BY DEF TaskKept, Idle, Writing, ItemKept, NoItem
  <1> QED
    BY <1>1, <1>3, <1>4, <1>5 DEF KeptInv

\* The invariant is inductive, with the age invariant and unless a rename fails.
LEMMA NextKept ==
    ASSUME "persist" \notin Faults, TypeOK, TypeOK', AgeInv, KeptInv, [Next]_vars
    PROVE  KeptInv'
  <1>1. CASE Tick
    BY <1>1, TickKept
  <1>2. CASE Crash
    BY <1>2, CrashKept
  <1>3. CASE UNCHANGED <<now, start>> /\ \A k \in Keys : Moves(k)
    <2>1. \A k \in Keys, v \in Versions : FileMove(k, v) /\ MetaMove(k, v)
      BY <1>3 DEF Moves
    <2>2. \A k \in Keys, v \in Versions : FileKept(file'[k][v], meta'[k][v], now, start)
      BY <2>1, FileStaysKept
    <2>3. ASSUME NEW k \in Keys, NEW r \in Roles PROVE TaskKept(task'[k][r], file'[k], now, start)
      <3>1. TaskMove(k, task[k][r], task'[k][r])
        BY <1>3 DEF Moves
      <3>2. task'[k][r] \in TaskSet
        BY DEF TypeOK
      <3> QED
        BY <2>1, <3>1, <3>2, TaskStaysKept
    <2>4. ASSUME NEW k \in Keys PROVE ItemKept(mem'[k], file'[k], now, start)
      <3>1. ItemMove(k)
        BY <1>3 DEF Moves
      <3> QED
        BY <2>1, <3>1, ItemStaysKept
    <2> QED
      BY <1>3, <2>2, <2>3, <2>4 DEF KeptInv
  <1> QED
    BY <1>1, <1>2, <1>3, StepMoves

\* All three invariants of the cache together.
LEMMA KeptIsInvariant ==
    ASSUME "persist" \notin Faults PROVE Spec => [](Inv /\ AgeInv /\ KeptInv)
  <1>1. Init => Inv /\ AgeInv /\ KeptInv
    BY InitInv, InitAged, InitKept
  <1>2. Inv /\ AgeInv /\ KeptInv /\ [Next]_vars => (Inv /\ AgeInv /\ KeptInv)'
    BY NextInv, NextAged, NextKept DEF Inv
  <1> QED
    BY <1>1, <1>2, PTL DEF Spec

(***************************************************************************)
(* If no rename of a finished cache file fails, an entry that an earlier   *)
(* process found malformed is never served: neither from a file left       *)
(* behind, with its metadata or after the cleanup process or a torn write  *)
(* took it, nor by a task that raced with another (the start_time check    *)
(* of compute_expiration_time).                                            *)
(***************************************************************************)
THEOREM MalformedNeverSurvives ==
    ASSUME "persist" \notin Faults PROVE Spec => []MalformedDiesWithProcess
  <1>1. KeptInv => MalformedDiesWithProcess
    BY DEF KeptInv, ItemKept, MalformedDiesWithProcess
  <1> QED
    BY <1>1, KeptIsInvariant, PTL

(***************************************************************************)
(* If no rename of a finished cache file fails, and if entries may go      *)
(* unused for at least the interval between two touches plus the time two  *)
(* synchronous sections can take, the file of a positive item that is      *)
(* served from memory is not expired: the item leaves memory, and the      *)
(* next lookup touches the file, in time (compute_expiration_time,         *)
(* for_fresh_status, the touch of open_cachefile).                         *)
(***************************************************************************)
THEOREM InUseStays ==
    ASSUME "persist" \notin Faults, TouchEvery + 2 * WriteTime <= MaxUnusedFor
    PROVE  Spec => []InUseNeverExpires
  <1>1. ASSUME Inv, KeptInv, NEW k \in Keys,
               mem[k].entry = "ok", mem[k].status = "ok", file[k][mem[k].version].entry = "ok"
        PROVE  CheckExpiry(k, mem[k].version, start).kind # "NotFound"
    <2> DEFINE v == mem[k].version
               f == file[k][v]
               d == mem[k].deadline
    <2>1. TypeOK /\ v \in Versions /\ d \in Nat
      BY <1>1, Fields DEF Inv, ItemSet
    <2>2. now \in Nat /\ f.mtime \in Nat
      BY <2>1, Fields
    <2>3. now < d /\ d <= f.mtime + TouchEvery + 2 * WriteTime
      BY <1>1 DEF KeptInv, ItemKept, Alive
    <2>4. ~ (Elapsed(f.mtime, now) > MaxUnusedFor)
      <3>1. now - f.mtime <= MaxUnusedFor
        <4>1. WriteTime \in Nat /\ TouchEvery \in Nat /\ MaxUnusedFor \in Nat
          BY CacherConstants, ExpiryConstants
        <4> HIDE DEF d, f
        <4> QED
          BY <2>1, <2>2, <2>3, <4>1
      <3> HIDE DEF f
      <3> QED
        BY <2>2, <3>1, ExpiryConstants DEF Elapsed
    <2>5. CheckExpiry(k, v, start) = TouchIn(SaturatingSub(TouchEvery, Elapsed(f.mtime, now)))
      BY <1>1, <2>4 DEF CheckExpiry, ComputeExpirationTime, ExpirationStrategy
    <2> QED
      BY <2>5 DEF TouchIn
  <1>2. Inv /\ KeptInv => InUseNeverExpires
    BY <1>1 DEF InUseNeverExpires
  <1> QED
    BY <1>2, KeptIsInvariant, PTL
=============================================================================
