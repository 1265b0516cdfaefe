------------------------------- MODULE Cacher -------------------------------
(***************************************************************************)
(* The layered cache of symbolicator-service                               *)
(* (src/caching/memory.rs, fs.rs, cleanup.rs): callers of compute_memoized *)
(* coalesced by the in-memory layer, the file-system layer with its        *)
(* current and fallback versions, background refreshes of outdated         *)
(* entries, the separate cleanup process that works on the same            *)
(* directories, and crashes of the server between any two file-system      *)
(* operations.                                                             *)
(*                                                                         *)
(* A task is one run of lookup_or_compute.  Task "fill" of a key is the    *)
(* initialiser future the in-memory cache runs for the callers of that     *)
(* key; task "refresh" is the background task of spawn_refresh.  Both go   *)
(* through compute, and may do so at the same time.                        *)
(***************************************************************************)
EXTENDS CacheExpiry, FiniteSets, Sequences

CONSTANTS
    Keys,          \* cache keys
    NoKey,         \* no key
    PublicKeys,    \* keys whose scope is Scope::Global
    SharedKeys,    \* keys whose requests use the shared cache
    Callers,       \* concurrent callers of compute_memoized
    NoCaller,      \* no caller
    Current,       \* CacheVersions::current
    Fallbacks,     \* CacheVersions::fallbacks, in lookup order
    Previous,      \* CacheVersions::previous
    MaxLazy,       \* limit of the category's MaxDeferCounter, at least 1
    WriteTime,     \* longest duration of the synchronous file operations of a task
    Faults,        \* the I/O failures that may happen
    MaxTime,       \* bound: the clock stops here
    MaxCrashes     \* bound: restarts of the server process

FaultKinds == {"temp", "fetch", "open", "persist", "metadata", "load"}

ASSUME CacherConstants ==
    /\ PublicKeys \subseteq Keys
    /\ SharedKeys \subseteq Keys
    /\ NoKey \notin Keys
    /\ NoCaller \notin Callers
    /\ Fallbacks \in Seq(Previous)
    /\ Current \notin Previous
    /\ MaxLazy \in Nat \ {0}
    /\ WriteTime \in Nat
    /\ Faults \subseteq FaultKinds
    /\ MaxTime \in Nat
    /\ MaxCrashes \in Nat

VARIABLES
    now,        \* the clock
    start,      \* Cache::start_time of the server process
    crashes,    \* restarts so far
    mem,        \* Cacher::cache, the in-memory layer
    file,       \* the cache files on disk, by key and version
    meta,       \* their metadata files
    shared,     \* keys the shared cache holds for the current version
    waiting,    \* callers awaiting the in-memory entry, by key
    owner,      \* the caller whose future is the initialiser
    task,       \* the fill and refresh task of each key
    refreshes,  \* Cacher::refreshes
    lazy,       \* the lazy_refreshes counter of the cache category
    cleaner     \* the cleanup process

vars == <<now, start, crashes, mem, file, meta, shared, waiting, owner, task,
          refreshes, lazy, cleaner>>

-----------------------------------------------------------------------------
Versions == {Current} \union Previous
Roles    == {"fill", "refresh"}

LookupOrder == <<Current>> \o Fallbacks

\* The steps a task takes without awaiting: their total duration is bounded.
Writing == {"persist", "mdcreate", "mdwrite", "purge", "finish"}
TaskPc  == {"idle", "check", "touch", "fetch", "compute", "insert",
            "release", "unregister"} \union Writing

NoFile == [entry |-> "none", mtime |-> 0, born |-> 0]
NoMeta == [state |-> "none", created |-> 0]
NoItem == [entry |-> "none", status |-> "none", born |-> 0, deadline |-> 0,
           version |-> Current]

(***************************************************************************)
(* The fields of a task: the lookup position i; the entry it found, or     *)
(* will write; the status after load, or InternalError already before it;  *)
(* the time born at which the entry was computed (a history field on files *)
(* and items), the time since it entered its current synchronous section,  *)
(* the item's deadline and version; hit, that the shared cache had it;     *)
(* linked, that the metadata file it is writing still has a name; todo,    *)
(* versions left to remove.                                                *)
(***************************************************************************)
Idle == [pc |-> "idle", i |-> 1, entry |-> "none", status |-> "none", born |-> 0,
         since |-> 0, deadline |-> 0, version |-> Current, hit |-> FALSE,
         linked |-> FALSE, todo |-> {}]

CleanerIdle == [pc |-> "idle", key |-> NoKey, version |-> Current]

Entries == Stored \union {"none"}
Results == Status \union {"none"}

ItemSet == [entry : Results, status : Results, born : Nat, deadline : Nat,
            version : Versions]
FileSet == [entry : Entries, mtime : Nat, born : Nat]
MetaSet == [state : {"none", "partial", "full"}, created : Nat]
TaskRecords == [pc : TaskPc, i : 1..Len(LookupOrder), entry : Results, status : Results,
                born : Nat, since : Nat, deadline : Nat, version : Versions,
                hit : BOOLEAN, linked : BOOLEAN, todo : SUBSET Previous]

\* A task that writes a file has something to write, and that is no InternalError.
TaskSet == {t \in TaskRecords : /\ t.pc \in Writing => t.entry \in Status
                                /\ t.pc = "persist" => t.entry \in Stored}
CleanerSet == [pc : {"idle", "rmfile", "rmmeta", "rmdir"}, key : Keys \union {NoKey},
               version : Versions]

\* The type of every variable; the cleaner works on a key unless it is idle.
TypeOK ==
    /\ now \in Nat
    /\ start \in Nat
    /\ crashes \in Nat
    /\ mem \in [Keys -> ItemSet]
    /\ file \in [Keys -> [Versions -> FileSet]]
    /\ meta \in [Keys -> [Versions -> MetaSet]]
    /\ shared \in SUBSET SharedKeys
    /\ waiting \in [Keys -> SUBSET Callers]
    /\ owner \in [Keys -> Callers \union {NoCaller}]
    /\ task \in [Keys -> [Roles -> TaskSet]]
    /\ refreshes \in SUBSET Keys
    /\ lazy \in Nat
    /\ cleaner \in CleanerSet
    /\ cleaner.pc # "idle" => cleaner.key \in Keys

(***************************************************************************)
(* The server starts on a cache directory an earlier release left behind:  *)
(* files of previous versions of any kind, with their metadata or, if they *)
(* are older than metadata files, without; none of the current version.    *)
(***************************************************************************)
OldFiles == {NoFile} \union {[entry |-> s, mtime |-> 0, born |-> 0] : s \in Stored}
OldMeta  == {NoMeta, [state |-> "full", created |-> 0]}

Init ==
    /\ now = 0 /\ start = 0 /\ crashes = 0
    /\ mem = [k \in Keys |-> NoItem]
    /\ file \in {f \in [Keys -> [Versions -> OldFiles]] :
                    \A k \in Keys : f[k][Current] = NoFile}
    /\ meta \in {m \in [Keys -> [Versions -> OldMeta]] :
                    \A k \in Keys, v \in Versions :
                        file[k][v] = NoFile => m[k][v] = NoMeta}
    /\ shared \in SUBSET SharedKeys
    /\ waiting = [k \in Keys |-> {}]
    /\ owner = [k \in Keys |-> NoCaller]
    /\ task = [k \in Keys |-> [r \in Roles |-> Idle]]
    /\ refreshes = {}
    /\ lazy = 0
    /\ cleaner = CleanerIdle
-----------------------------------------------------------------------------
(* The in-memory layer. *)

\* CacheExpiration: an item is in the cache until its deadline.
Unexpired(item, t) == IF t < item.deadline THEN item ELSE NoItem

StartFill    == [Idle EXCEPT !.pc = "check"]
StartCompute == [Idle EXCEPT !.pc = "fetch"]

(***************************************************************************)
(* compute_memoized on a memory miss: the first caller's future becomes    *)
(* the initialiser, later ones wait for it.  (A memory hit changes         *)
(* nothing.)                                                               *)
(***************************************************************************)
ComputeMemoized(c, k) ==
    /\ \A j \in Keys : c \notin waiting[j]
    /\ mem[k] = NoItem
    /\ waiting' = [waiting EXCEPT ![k] = @ \union {c}]
    /\ IF owner[k] = NoCaller
       THEN /\ owner' = [owner EXCEPT ![k] = c]
            /\ task' = [task EXCEPT ![k]["fill"] = StartFill]
       ELSE UNCHANGED <<owner, task>>
    /\ UNCHANGED <<now, start, crashes, mem, file, meta, shared, refreshes, lazy, cleaner>>

(***************************************************************************)
(* A caller goes away (its request timed out or was disconnected), which   *)
(* drops its future at an await point.  If it was running the initialiser  *)
(* another waiting caller starts its own from the beginning.               *)
(***************************************************************************)
CallerDropped_NoHandover(c, k) ==
    /\ c \in waiting[k]
    /\ waiting' = [waiting EXCEPT ![k] = @ \ {c}]
    /\ IF owner[k] = c
       THEN /\ owner' = [owner EXCEPT ![k] = NoCaller]
            /\ task' = [task EXCEPT ![k]["fill"] = Idle]
       ELSE UNCHANGED <<owner, task>>
    /\ UNCHANGED <<now, start, crashes, mem, file, meta, shared, refreshes, lazy, cleaner>>

CallerDropped(c, k) ==
    LET others == waiting[k] \ {c}
    IN  /\ c \in waiting[k]
        /\ waiting' = [waiting EXCEPT ![k] = others]
        /\ \/ /\ owner[k] # c
              /\ UNCHANGED <<owner, task>>
           \/ /\ owner[k] = c
              /\ task[k]["fill"].pc \in {"fetch", "compute"}
              /\ \/ /\ others = {}
                    /\ owner' = [owner EXCEPT ![k] = NoCaller]
                    /\ task' = [task EXCEPT ![k]["fill"] = Idle]
                 \/ \E o \in others :
                       /\ owner' = [owner EXCEPT ![k] = o]
                       /\ task' = [task EXCEPT ![k]["fill"] = StartFill]
        /\ UNCHANGED <<now, start, crashes, mem, file, meta, shared, refreshes, lazy, cleaner>>

\* The in-memory layer evicts items when over capacity.
Evict(k) ==
    /\ mem[k] # NoItem
    /\ mem' = [mem EXCEPT ![k] = NoItem]
    /\ UNCHANGED <<now, start, crashes, file, meta, shared, waiting, owner, task,
                   refreshes, lazy, cleaner>>
-----------------------------------------------------------------------------
(* The file-system layer: lookup_local_cache. *)

\* check_expiry of the file of version v of k in a process started at procStart.
CheckExpiry(k, v, procStart) ==
    LET f      == file[k][v]
        m      == meta[k][v]
        known  == m.state = "full"
    IN  ComputeExpirationTime(f.entry, f.mtime,
                              IF known THEN m.created ELSE f.mtime,
                              known /\ k \in PublicKeys, procStart, now)

\* Unlinking the current version's metadata detaches it from the tasks writing it.
Detached(tasks) == [r \in Roles |-> [tasks[r] EXCEPT !.linked = FALSE]]

\* store_in_shared_cache: the upload may be throttled, dropped or fail.
StoreInSharedCache(k, entry) ==
    shared' \in {shared} \union
                (IF entry = "ok" /\ k \in SharedKeys THEN {shared \union {k}} ELSE {})

\* CacheItemRequest::load on a positive entry can fail, errors pass through.
LoadResults(entry) ==
    {entry} \union (IF entry = "ok" /\ "load" \in Faults THEN {"internal", "malformed"} ELSE {})

(***************************************************************************)
(* spawn_refresh: deduplicated by key, limited by the category's counter,  *)
(* never awaited.  The other tasks of k become `tasks`.                    *)
(***************************************************************************)
SpawnRefresh(k, tasks) ==
    IF k \notin refreshes /\ lazy < MaxLazy
    THEN /\ refreshes' = refreshes \union {k}
         /\ lazy' = lazy + 1
         /\ task' = [task EXCEPT ![k] = [tasks EXCEPT !["refresh"] = StartCompute]]
    ELSE /\ task' = [task EXCEPT ![k] = tasks]
         /\ UNCHANGED <<refreshes, lazy>>

\* A usable entry of version v was opened, with expiration e.
FoundLocal(k, tasks, v, entry, born, e) ==
    /\ StoreInSharedCache(k, IF v = Current /\ WasTouched(e) THEN entry ELSE "none")
    /\ \E s \in LoadResults(entry) :
          LET found == [tasks EXCEPT !["fill"] =
                          [Idle EXCEPT !.pc = "insert", !.entry = entry, !.status = s,
                                       !.born = born, !.version = v,
                                       !.deadline = AsInstant(e, now)]]
          IN  IF v = Current
              THEN /\ task' = [task EXCEPT ![k] = found]
                   /\ UNCHANGED <<refreshes, lazy>>
              ELSE SpawnRefresh(k, found)

\* No usable file at the current position: try the next version, or compute.
NextVersion(t) ==
    IF t.i < Len(LookupOrder) THEN [StartFill EXCEPT !.i = t.i + 1] ELSE StartCompute

(***************************************************************************)
(* One iteration of lookup_local_cache: check_expiry of the file of the    *)
(* version at position i.  An unreadable metadata file is deleted.  An I/O *)
(* error other than NotFound becomes an InternalError item.                *)
(***************************************************************************)
LookupCheck(k) ==
    LET t     == task[k]["fill"]
        v     == LookupOrder[t.i]
        f     == file[k][v]
        torn  == f.entry # "none" /\ meta[k][v].state = "partial"
        tasks == IF torn /\ v = Current THEN Detached(task[k]) ELSE task[k]
        e     == CheckExpiry(k, v, start)
    IN  /\ t.pc = "check"
        /\ meta' = IF torn THEN [meta EXCEPT ![k][v] = NoMeta] ELSE meta
        /\ \/ /\ f.entry = "none" \/ e.kind = "NotFound"
              /\ task' = [task EXCEPT ![k] = [tasks EXCEPT !["fill"] = NextVersion(@)]]
              /\ UNCHANGED <<shared, refreshes, lazy>>
           \/ /\ f.entry # "none" /\ e.kind # "NotFound"
              /\ e # TouchIn(0)
              /\ FoundLocal(k, tasks, v, f.entry, f.born, e)
           \/ /\ f.entry # "none" /\ e = TouchIn(0)
              /\ task' = [task EXCEPT ![k] = [tasks EXCEPT !["fill"] =
                            [@ EXCEPT !.pc = "touch", !.since = now, !.born = f.born]]]
              /\ UNCHANGED <<shared, refreshes, lazy>>
           \/ /\ f.entry # "none" /\ "open" \in Faults
              /\ task' = [task EXCEPT ![k] = [tasks EXCEPT !["fill"] =
                            [Idle EXCEPT !.pc = "insert", !.entry = "internal",
                                         !.status = "internal", !.born = now, !.version = v,
                                         !.deadline = AsInstant(ForFreshStatus("internal"), now)]]]
              /\ UNCHANGED <<shared, refreshes, lazy>>
        /\ UNCHANGED <<now, start, crashes, mem, file, waiting, owner, cleaner>>

(***************************************************************************)
(* The touch of open_cachefile.  The file may have been removed since the  *)
(* check (a miss), or replaced: the entry returned is the one opened then. *)
(***************************************************************************)
LookupTouch(k) ==
    LET t == task[k]["fill"]
        v == LookupOrder[t.i]
    IN  /\ t.pc = "touch"
        /\ IF file[k][v].entry = "none"
           THEN /\ task' = [task EXCEPT ![k]["fill"] = NextVersion(@)]
                /\ UNCHANGED <<file, shared, refreshes, lazy>>
           ELSE /\ file' = [file EXCEPT ![k][v] = [@ EXCEPT !.mtime = now]]
                /\ FoundLocal(k, task[k], v, "ok", t.born, TouchIn(TouchEvery))
        /\ UNCHANGED <<now, start, crashes, mem, meta, waiting, owner, cleaner>>
-----------------------------------------------------------------------------
(* compute: shared cache, then the computation, then write_cache_file. *)

\* An entry was produced now; write it out next.
Produced(entry, hit) ==
    [Idle EXCEPT !.pc = IF entry = "internal" THEN "finish" ELSE "persist",
                 !.entry = entry, !.born = now, !.since = now, !.hit = hit,
                 !.todo = Previous]

(***************************************************************************)
(* A hit on which reopening or mapping the temporary file fails: what is   *)
(* in the file, nothing (which reads as a miss) or the entry, is persisted *)
(* without metadata although the caller gets an InternalError.             *)
(***************************************************************************)
FailedHit(contents) == [Produced(contents, TRUE) EXCEPT !.status = "internal"]

\* The entry that compute goes on with: what it wrote, or the InternalError.
Outcome(t) == IF t.status = "internal" THEN "internal" ELSE t.entry

(***************************************************************************)
(* Create the temporary file and ask the shared cache.  An I/O error is an *)
(* InternalError; a failed fetch is a miss.                                *)
(***************************************************************************)
LoadFromSharedCache(k, r) ==
    LET t == task[k][r]
    IN  /\ t.pc = "fetch"
        /\ \/ /\ "temp" \in Faults
              /\ task' = [task EXCEPT ![k][r] = Produced("internal", FALSE)]
           \/ /\ "temp" \in Faults /\ k \in SharedKeys
              /\ \E contents \in {"negative"} \union (IF k \in shared THEN {"ok"} ELSE {}) :
                    task' = [task EXCEPT ![k][r] = FailedHit(contents)]
           \/ /\ k \in shared
              /\ task' = [task EXCEPT ![k][r] = Produced("ok", TRUE)]
           \/ /\ k \notin shared \/ "fetch" \in Faults
              /\ task' = [task EXCEPT ![k][r] = [@ EXCEPT !.pc = "compute"]]
        /\ UNCHANGED <<now, start, crashes, mem, file, meta, shared, waiting, owner,
                       refreshes, lazy, cleaner>>

\* CacheItemRequest::compute returns, with any result, after any time.
Compute(k, r) ==
    LET t == task[k][r]
    IN  /\ t.pc = "compute"
        /\ \E s \in Status : task' = [task EXCEPT ![k][r] = Produced(s, FALSE)]
        /\ UNCHANGED <<now, start, crashes, mem, file, meta, shared, waiting, owner,
                       refreshes, lazy, cleaner>>

\* done_token is being dropped.
Releasing == [Idle EXCEPT !.pc = "release"]

RefreshPanics_NoGuard(k) ==
    /\ task[k]["refresh"].pc \in {"fetch", "compute"}
    /\ task' = [task EXCEPT ![k]["refresh"] = Idle]
    /\ UNCHANGED <<now, start, crashes, mem, file, meta, shared, waiting, owner,
                   refreshes, lazy, cleaner>>

\* A panic in the refresh task: its guard still releases the token and the key.
RefreshPanics(k) ==
    /\ task[k]["refresh"].pc \in {"fetch", "compute"}
    /\ task' = [task EXCEPT ![k]["refresh"] = Releasing]
    /\ UNCHANGED <<now, start, crashes, mem, file, meta, shared, waiting, owner,
                   refreshes, lazy, cleaner>>

(***************************************************************************)
(* write_cache_file: persist (an atomic rename), the metadata file         *)
(* (created empty, then written), removal of the previous versions.        *)
(* Failures are only logged, the next operation runs all the same.         *)
(***************************************************************************)
PersistTempfile(k, r) ==
    LET t == task[k][r]
    IN  /\ t.pc = "persist"
        /\ \/ file' = [file EXCEPT ![k][Current] =
                         [entry |-> t.entry, mtime |-> t.since, born |-> t.born]]
           \/ "persist" \in Faults /\ file' = file
        /\ task' = [task EXCEPT ![k][r] =
                       [@ EXCEPT !.pc = IF Outcome(t) = "internal" THEN "purge" ELSE "mdcreate"]]
        /\ UNCHANGED <<now, start, crashes, mem, meta, shared, waiting, owner,
                       refreshes, lazy, cleaner>>

CreateMetadata(k, r) ==
    /\ task[k][r].pc = "mdcreate"
    /\ \/ /\ meta' = [meta EXCEPT ![k][Current] = [state |-> "partial", created |-> 0]]
          /\ task' = [task EXCEPT ![k][r] = [@ EXCEPT !.pc = "mdwrite", !.linked = TRUE]]
       \/ /\ "metadata" \in Faults
          /\ task' = [task EXCEPT ![k][r] = [@ EXCEPT !.pc = "purge"]]
          /\ UNCHANGED meta
    /\ UNCHANGED <<now, start, crashes, mem, file, shared, waiting, owner,
                   refreshes, lazy, cleaner>>

WriteMetadata(k, r) ==
    LET t == task[k][r]
    IN  /\ t.pc = "mdwrite"
        /\ meta' = IF t.linked
                   THEN [meta EXCEPT ![k][Current] =
                           [state |-> "full", created |-> Timestamp(t.since)]]
                   ELSE meta
        /\ task' = [task EXCEPT ![k][r] = [@ EXCEPT !.pc = "purge", !.linked = FALSE]]
        /\ UNCHANGED <<now, start, crashes, mem, file, shared, waiting, owner,
                       refreshes, lazy, cleaner>>

\* Remove one previous version, its file and then its metadata.
RemovePrevious(k, r) ==
    LET t == task[k][r]
    IN  /\ t.pc = "purge"
        /\ IF t.todo = {}
           THEN /\ task' = [task EXCEPT ![k][r] = [@ EXCEPT !.pc = "finish"]]
                /\ UNCHANGED <<file, meta>>
           ELSE \E v \in t.todo :
                /\ file' = [file EXCEPT ![k][v] = NoFile]
                /\ meta' = [meta EXCEPT ![k][v] = NoMeta]
                /\ task' = [task EXCEPT ![k][r] = [t EXCEPT !.todo = @ \ {v}]]
        /\ UNCHANGED <<now, start, crashes, mem, shared, waiting, owner,
                       refreshes, lazy, cleaner>>

\* The end of compute: store New in the shared cache, load, fresh deadline.
FinishCompute(k, r) ==
    LET t     == task[k][r]
        entry == Outcome(t)
    IN  /\ t.pc = "finish"
        /\ StoreInSharedCache(k, IF t.hit THEN "none" ELSE entry)
        /\ \E s \in LoadResults(entry) :
              task' = [task EXCEPT ![k][r] =
                         [Idle EXCEPT !.pc = "insert", !.entry = entry, !.status = s,
                                      !.born = t.born,
                                      !.deadline = AsInstant(ForFreshStatus(s), now)]]
        /\ UNCHANGED <<now, start, crashes, mem, file, meta, waiting, owner,
                       refreshes, lazy, cleaner>>
-----------------------------------------------------------------------------
(* Publishing the result in memory. *)

ItemOf(t) == [entry |-> t.entry, status |-> t.status, born |-> t.born,
              deadline |-> t.deadline, version |-> t.version]

\* or_insert_with resolves: the item is inserted and all waiting callers get it.
InsertFill(k) ==
    /\ task[k]["fill"].pc = "insert"
    /\ mem' = [mem EXCEPT ![k] = Unexpired(ItemOf(task[k]["fill"]), now)]
    /\ task' = [task EXCEPT ![k]["fill"] = Idle]
    /\ waiting' = [waiting EXCEPT ![k] = {}]
    /\ owner' = [owner EXCEPT ![k] = NoCaller]
    /\ UNCHANGED <<now, start, crashes, file, meta, shared, refreshes, lazy, cleaner>>

\* The refresh task overwrites the item in memory; its guard is dropped after.
InsertRefresh(k) ==
    /\ task[k]["refresh"].pc = "insert"
    /\ mem' = [mem EXCEPT ![k] = Unexpired(ItemOf(task[k]["refresh"]), now)]
    /\ task' = [task EXCEPT ![k]["refresh"] = Releasing]
    /\ UNCHANGED <<now, start, crashes, file, meta, shared, waiting, owner,
                   refreshes, lazy, cleaner>>

ReleaseToken_Twice(k) ==
    /\ task[k]["refresh"].pc = "release"
    /\ lazy' = lazy - 2
    /\ task' = [task EXCEPT ![k]["refresh"] = [@ EXCEPT !.pc = "unregister"]]
    /\ UNCHANGED <<now, start, crashes, mem, file, meta, shared, waiting, owner,
                   refreshes, cleaner>>

\* done_token: first the lazy_refresh token ...
ReleaseToken(k) ==
    /\ task[k]["refresh"].pc = "release"
    /\ lazy' = lazy - 1
    /\ task' = [task EXCEPT ![k]["refresh"] = [@ EXCEPT !.pc = "unregister"]]
    /\ UNCHANGED <<now, start, crashes, mem, file, meta, shared, waiting, owner,
                   refreshes, cleaner>>

\* ... then the key.
UnregisterRefresh(k) ==
    /\ task[k]["refresh"].pc = "unregister"
    /\ refreshes' = refreshes \ {k}
    /\ task' = [task EXCEPT ![k]["refresh"] = Idle]
    /\ UNCHANGED <<now, start, crashes, mem, file, meta, shared, waiting, owner,
                   lazy, cleaner>>
-----------------------------------------------------------------------------
(* The cleanup process. *)

(***************************************************************************)
(* try_cleanup_path on one file, by a process that may have been started   *)
(* at any time.  An expired file is removed, then its metadata; a          *)
(* directory whose files are all gone is removed; so is one whose only     *)
(* file could not be examined, since the error leaves is_empty as it was.  *)
(***************************************************************************)
CleanupCheck(k, v) ==
    \E procStart \in 0..now :
      LET f     == file[k][v]
          torn  == f.entry # "none" /\ meta[k][v].state = "partial"
          gone  == f.entry # "none" /\ CheckExpiry(k, v, procStart).kind = "NotFound"
          Goto(pc) == cleaner' = [pc |-> pc, key |-> k, version |-> v]
      IN  /\ cleaner.pc = "idle"
          /\ f.entry # "none" \/ meta[k][v].state # "none"
          /\ meta' = IF torn THEN [meta EXCEPT ![k][v] = NoMeta] ELSE meta
          /\ task' = IF torn /\ v = Current
                     THEN [task EXCEPT ![k] = Detached(@)] ELSE task
          /\ \/ f.entry = "none" /\ Goto("rmdir")
             \/ gone /\ Goto("rmfile")
             \/ f.entry # "none" /\ ~gone /\ UNCHANGED cleaner
             \/ f.entry # "none" /\ "open" \in Faults /\ Goto("rmdir")
          /\ UNCHANGED <<now, start, crashes, mem, file, shared, waiting, owner,
                         refreshes, lazy>>

CleanupRemoveFile ==
    /\ cleaner.pc = "rmfile"
    /\ file' = [file EXCEPT ![cleaner.key][cleaner.version] = NoFile]
    /\ cleaner' = [cleaner EXCEPT !.pc = "rmmeta"]
    /\ UNCHANGED <<now, start, crashes, mem, meta, shared, waiting, owner, task,
                   refreshes, lazy>>

CleanupRemoveMetadata ==
    /\ cleaner.pc = "rmmeta"
    /\ meta' = [meta EXCEPT ![cleaner.key][cleaner.version] = NoMeta]
    /\ task' = IF cleaner.version = Current
               THEN [task EXCEPT ![cleaner.key] = Detached(@)] ELSE task
    /\ cleaner' = [cleaner EXCEPT !.pc = "rmdir"]
    /\ UNCHANGED <<now, start, crashes, mem, file, shared, waiting, owner,
                   refreshes, lazy>>

\* remove_dir_all of the directory that was found empty.
CleanupRemoveDir ==
    /\ cleaner.pc = "rmdir"
    /\ file' = [file EXCEPT ![cleaner.key][cleaner.version] = NoFile]
    /\ meta' = [meta EXCEPT ![cleaner.key][cleaner.version] = NoMeta]
    /\ task' = IF cleaner.version = Current
               THEN [task EXCEPT ![cleaner.key] = Detached(@)] ELSE task
    /\ cleaner' = CleanerIdle
    /\ UNCHANGED <<now, start, crashes, mem, shared, waiting, owner, refreshes, lazy>>
-----------------------------------------------------------------------------
(* The environment. *)

\* Time passes, items in memory expire; synchronous sections end within WriteTime.
Tick ==
    /\ now < MaxTime
    /\ \A k \in Keys, r \in Roles :
          task[k][r].pc \in Writing \union {"touch"} => now < task[k][r].since + WriteTime
    /\ now' = now + 1
    /\ mem' = [k \in Keys |-> Unexpired(mem[k], now')]
    /\ UNCHANGED <<start, crashes, file, meta, shared, waiting, owner, task,
                   refreshes, lazy, cleaner>>

\* The server process dies and is restarted, later, on the same cache directory.
Crash ==
    /\ crashes < MaxCrashes /\ now < MaxTime
    /\ crashes' = crashes + 1
    /\ now' = now + 1
    /\ start' = now'
    /\ mem' = [k \in Keys |-> NoItem]
    /\ waiting' = [k \in Keys |-> {}]
    /\ owner' = [k \in Keys |-> NoCaller]
    /\ task' = [k \in Keys |-> [r \in Roles |-> Idle]]
    /\ refreshes' = {}
    /\ lazy' = 0
    /\ UNCHANGED <<file, meta, shared, cleaner>>

ComputeStep(k, r) ==
    \/ LoadFromSharedCache(k, r) \/ Compute(k, r)
    \/ PersistTempfile(k, r) \/ CreateMetadata(k, r) \/ WriteMetadata(k, r)
    \/ RemovePrevious(k, r) \/ FinishCompute(k, r)

FillStep(k) ==
    LookupCheck(k) \/ LookupTouch(k) \/ ComputeStep(k, "fill") \/ InsertFill(k)

RefreshStep(k) ==
    \/ ComputeStep(k, "refresh") \/ RefreshPanics(k) \/ InsertRefresh(k)
    \/ ReleaseToken(k) \/ UnregisterRefresh(k)

CleanupStep ==
    \/ \E k \in Keys, v \in Versions : CleanupCheck(k, v)
    \/ CleanupRemoveFile \/ CleanupRemoveMetadata \/ CleanupRemoveDir

CallerStep ==
    \E c \in Callers, k \in Keys : ComputeMemoized(c, k) \/ CallerDropped(c, k)

Next ==
    \/ CallerStep
    \/ \E k \in Keys : FillStep(k) \/ RefreshStep(k) \/ Evict(k)
    \/ CleanupStep
    \/ Tick
    \/ Crash

Spec == Init /\ [][Next]_vars

(***************************************************************************)
(* The runtime polls every task that can make progress, and a computation  *)
(* ends (downloads and conversions have timeouts).                         *)
(***************************************************************************)
Fairness == \A k \in Keys : WF_vars(FillStep(k)) /\ WF_vars(RefreshStep(k))

FairSpec == Spec /\ Fairness
-----------------------------------------------------------------------------
(* Properties.  (Definitions named X_Y above are variants of X with a bug, *)
(* which the properties are checked to catch; they are not part of Next.)  *)

(***************************************************************************)
(* A cached error is not served for longer than its retry interval after   *)
(* it was computed, however often it goes through the file and memory      *)
(* layers, whichever task wrote it and whatever the cleanup process does   *)
(* to its metadata: loading it again never restarts its clock              *)
(* (compute_expiration_time, for_fresh_status).                            *)
(***************************************************************************)
ErrorsExpire ==
    \A k \in Keys :
        mem[k].entry \notin {"ok", "none"} =>
            now < mem[k].born + MaxRetry(mem[k].entry) + 2 * WriteTime

(***************************************************************************)
(* An entry found malformed by an earlier process is never served: a       *)
(* restart retries the conversion (compute_expiration_time, Malformed).    *)
(***************************************************************************)
MalformedDiesWithProcess ==
    \A k \in Keys : mem[k].entry = "malformed" => mem[k].born >= start

(***************************************************************************)
(* While a positive item is served from memory, the file behind it, if it  *)
(* is still there, is not expired: hits in memory never touch the file,    *)
(* and the deadline makes sure the file is touched again in time.          *)
(***************************************************************************)
InUseNeverExpires ==
    \A k \in Keys :
        LET v == mem[k].version
        IN  mem[k].entry = "ok" /\ mem[k].status = "ok" /\ file[k][v].entry = "ok"
            => CheckExpiry(k, v, start).kind # "NotFound"

(***************************************************************************)
(* The number of refresh tasks holding a token is the counter's value and  *)
(* at most MaxLazy, and a key is registered exactly while its task runs:   *)
(* the guard of spawn_refresh gives both back once, on every path.         *)
(***************************************************************************)
HoldsToken(k) == task[k]["refresh"].pc \notin {"idle", "unregister"}

RefreshesBounded ==
    /\ lazy = Cardinality({k \in Keys : HoldsToken(k)})
    /\ lazy <= MaxLazy
    /\ refreshes = {k \in Keys : task[k]["refresh"].pc # "idle"}

\* Every caller of compute_memoized gets an answer or goes away.
CallersAnswered ==
    \A c \in Callers, k \in Keys : c \in waiting[k] ~> c \notin waiting[k]

\* Every refresh ends and gives the key and the token back.
RefreshesEnd == \A k \in Keys : k \in refreshes ~> k \notin refreshes
=============================================================================
