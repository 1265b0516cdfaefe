# TLA+ verification of Symbolicator

Symbolicator is a service that resolves stack traces: it downloads debug files
from symbol sources, converts them to fast lookup formats, caches every
intermediate result, and answers symbolication requests from these caches.
This directory holds TLA+ models of its concurrent core, the TLC
configurations that check them, and proofs checked by TLAPS.

Paths below are relative to `src/crates/`; `service` stands for
`symbolicator-service/src`.

## 1. Inventory

| component | state | operations | what is hard | correct when |
|---|---|---|---|---|
| Cache layers (`service/caching/memory.rs`, `fs.rs`, `metadata.rs`) | in-memory items with deadlines, cache files with mtime, metadata files, running refreshes, counter of lazy refreshes | `compute_memoized`, `lookup_or_compute`, `compute`, `write_cache_file`, `spawn_refresh` | coalesced callers that may vanish; a fill and a refresh writing the same files; several non-atomic file operations; restarts | errors are retried in time, entries in use stay, callers are answered, refreshes are bounded |
| Cleanup process (`service/caching/cleanup.rs`) | none of its own | walk, expiry check, removal | another process on the same directory | removes only what is expired or harmless to lose |
| Shared cache (`service/caching/shared_cache`) | bounded upload queue, slot counter, done channel, remote objects | `store`, `upload_worker`, `single_uploader`, `fetch` | races of instances, lost answers, stalled bodies, full queue | slots are conserved, objects written once, receivers resolve |
| Request service (`symbolicator/src/service.rs`, `endpoints`) | map of requests to shared response channels, counter of requests in flight | create, poll, time limit, completion, removal | polls racing completion and removal; panics; hanging symbolication | slots come back, polls are answered, a pending request can be polled again |
| Download service (`service/download/mod.rs`) | one task per download | `download`, `dispatch_download`, `retry` | retries under one timeout; cancellation | every download ends |
| Host deny list (`service/download/deny_list.rs`) | queue of failure counts per host, blocked hosts | `register_failure`, `is_blocked` | concurrent failures across bucket boundaries; eviction | blocks exactly the hosts that fail too often |
| Range download (`service/download/partial.rs`, `destination.rs`, `mod.rs`) | streams with offsets on one file, bytes transferred | `split`, `download`, `write_all` | concurrent writers, servers that answer something else | what succeeds is complete |
| Source downloaders (`service/download/{sentry,s3,gcs,azure,http,filesystem}.rs`) and streams (`stream.rs`, `compression.rs`, `fetch_file.rs`) | cached tokens, a temporary file | `get_token`, `download_source`, `materialize_into`, `maybe_decompress_file` | tokens that age while shared; two transfer modes, of which one decodes on the way and one afterwards | the file is the published one, tokens are accepted, errors are told apart |
| Source index (`service/download/index.rs`) | memoised last id, cached segments and indexes | `fetch_symstore_last_id_memoized`, `download_full_index` | a source that grows meanwhile, segments that fail | an index is complete or not used |
| Object lookup (`service/objects`, `symbolicator-native/src/caches`) | metadata and data caches, derived caches, candidates | `find`, `select_meta`, `derive_from_object_handle`, the symcache, CFI, PortablePDB, bitcode and il2cpp actors | sources that answer or fail in any order, evictions between two caches | the best file wins, candidates tell what happened, derived files match their key |
| JavaScript (`symbolicator-js/src`) | per request modules, files and budget; shared bundle indexes, files and source map caches | artifact lookup in bundles, through Sentry, artifacts, the web; frames | requests that fill each other's caches, long chains of fallbacks | a frame is resolved with its own source map, within the budget |
| Native symbolication (`symbolicator-native/src/symbolication`) | module list with statuses | module lookup, frames, second pass for sources | statuses set twice, frames dropped by several rules | statuses and frames are accounted for |
| Minidumps, Apple crash reports | table of unwind information shared by the threads | `load_cfi_module`, merge of client-side traces | locks released between check and insert, notification | every thread ends, each file is fetched once |
| ProGuard (`symbolicator-proguard/src`) | mappers, state carried between frames | remapping | outlines and rewrite rules over several mappers | no frame is lost or doubled |
| Paths and proxy (`symbolicator-sources/src`, `endpoints/proxy.rs`) | none | file types, filters, layouts, parsing of Symstore paths | overlapping rules; two directions that must agree | what is stored is found |
| symsorter (`symsorter/src`) | output directory | sorting in parallel, source bundles | duplicates, disk faults | what it lists can be looked up |
| wasm-split, configuration, metrics, command-line tools | - | conversions, I/O | - | see section 8 |

Interactions: an endpoint creates a request; its task asks the caches, which
coalesce callers and run a computation; a computation asks the download
service, which consults the deny list and performs range downloads; a computed
entry is written to disk and offered to the shared cache; the cleanup process
works on the same directory as the server.  A native request asks the derived
caches, these the object lookup, and that the source index, the metadata and
the data caches; a JavaScript request asks its own caches in the same way.

PROJECT.json lists every component with its files and status, and every hazard
at the line where it bites with the properties that watch it.

## 2. Modules and the code

**CacheExpiry** - pure: `expiration_strategy`, `compute_expiration_time`,
`ExpirationTime::for_fresh_status` and the rounding of metadata timestamps,
with the configured intervals as constants.

**Cacher** (extends CacheExpiry) - the memory and file layers, the refreshes,
the cleanup process and restarts. A key has two tasks: `fill`, the initialiser
future the in-memory cache runs for the callers of the key (`owner` is the
caller that drives it), and `refresh`, the background task of `spawn_refresh`.
Both run the same steps of `compute`; the program counter `pc` is where the
code can be interrupted by the other task, by the cleanup process or by a
crash: expiry check and touch; shared cache; computation; rename; creation of
the metadata file; writing it; removal of previous versions; load; insertion;
release of the token and of the registration. The cleanup process checks a file,
then removes it, then its metadata, then perhaps the directory. Contents are
abstracted to `ok`, `negative`, `malformed` (the classes expiry tells apart)
and `internal`, which is never stored. A hit of the shared cache on which
reopening or mapping the temporary file fails (`FailedHit`) keeps the two apart:
the caller gets an `InternalError`, and what is in the temporary file is renamed
into place, without metadata. `born` is a history field: the time an
entry was computed. `Faults` selects which I/O operations may fail. Three
things are worth knowing: `lookup_or_compute` runs in one go between awaits, so
its total duration is bounded by `WriteTime`; a metadata file that is created
but not yet written does not parse and is removed by a reader; a rename
replaces the file another task may have just written.

**MCCacher** - the fallback versions for TLC.

**RequestService** - requests, their slots and channels; a task is spawned,
runs, sends its response, releases its slot, and forgets the request after it
slept `MAX_POLL_DELAY`; its guards are dropped in order if it panics.
`get_response` is two steps (lookup, wait), so that the map may change between.

**Downloader** - downloads with up to three attempts under one timeout, and the
deny list: `register_failure` is two steps, the check without the lock and the
update under it, with the time taken before both. Counts saturate at the
threshold. `failed` and `ordered` are history: when failures were registered,
and whether the buckets of a queue were added in the order of their times. An attempt returns any result; what an attempt does is in SourceFetch
and RangeDownload.

**PartialRanges** - pure: the arithmetic of `split`, in how many ranges what is left
of a resource is fetched and which.

**RangeDownload** (extends PartialRanges) - one attempt: every answer to the initial range request, the
split of the remainder, and concurrent streams that write chunks of any size. A
byte of the resource is its offset. `ServerFaults` selects how a server may
deviate from a range request: `ignore` sends the whole resource, `short` sends
fewer bytes. A content range starts at 0 and ends within what was requested;
bodies are not compressed.

**SharedCache** - calls of `store`, the queue, the worker with its slot
counter, uploaders for both backends, other instances, and one `fetch` with the
number of pieces it has written to its destination.

**SourceErrors** - pure: how the downloader of each source reads an error answer.

**SourceFetch** (extends SourceErrors and PartialRanges) - one call of `fetch_file`:
credentials (`GetToken`, `TokenAnswered`, with one asker per key and waiters
that take over), the request, the response as a whole or in ranges,
`Materialize`, `Unpack`. Bytes are the layers of compression around the contents
and a size for each; damage is a layer that does not decode. Of a response in
ranges only the bytes counted against the limit are of interest here:
`RangeResponses` counts the byte that two ranges share for both, and the whole
file for each part of which the server ignored the range; if that is too much
the file is refused (`CountedTooMany`).

**MCDownloader** - Downloader, SourceFetch and RangeDownload for TLC. Their
states are disjoint, so one behaviour exercises one of them.

**SourceIndex** - the last id, memoised with two lifetimes; segments and full
indexes as entries of caches; a source that publishes while it is read.

**BestObject** - the abstract specification of a lookup: files get outcomes in
any order, and the answer is the best, the first one among equals.

**ObjectLookup** (extends SourceIndex) - a request from its list of sources to
a derived cache: listing (with the index of an indexed source), metadata of all
files concurrently, `SelectMeta`, auxiliary files, derivation, candidates. A
cache maps a key to absent, busy or a result; entries are evicted, files
vanish or are refused from some time on, downloads fail. A request's `purpose` says which actor asked. The
refinement mapping to BestObject is at the end of the module: a file's outcome
is its suitability, and the answer the selected file.

**MCObjects** - three sources, four worlds (what the sources hold and what the
two requests want).

**JsNames** - pure: URLs, paths and function names of `symbolicator-js/src/utils.rs`.

**JsLookup** (extends JsNames) - requests that go through frames; an action
ends where the code awaits. Contents are versions; what a source map was made
from (`min`, `map`) is recorded to be compared with what the request found.

**MCJs** - two versions of a script in two bundles, a page that changes on the
web, individual artifacts, of which one is found by one request and may be
missing for another.

**NativeSymbolication** - pure: module lookup by address and addressing mode,
adjustment of caller addresses, symbolication of a frame and of a stack trace
with the frames that are dropped, statuses of modules.

**Minidump** (extends NativeSymbolication) - threads that share `cficaches`,
where an entry is absent, fetching with waiters, or fetched; client-side stack
traces; then the steps of symbolication (caches, frames, sources, answer),
which Apple crash reports and plain events enter directly. A thread runs
undisturbed between two awaits, since the unwinder polls them from one task.

**Proguard** - mapping files and source bundles fetched concurrently, then one
step per frame with the carried outline and the rewrite flag. `jvm.mappers` is the
list of mapping files that arrived, made when all downloads have ended. `JvmSpec`
is the service with one event. `Meaning` says, apart from the steps, what a frame
stands for: which mapping file answers, whether an outline's position was carried
to it, whether a rule removes it.

**SymbolPaths** - pure but for what is asked: file types,
filters, the paths of eight layouts, casing, and `parse_symstore_path` with the
proxy's lookup. Names are records of parts and a spelling, with capitals or
without; a path is a sequence of parts, compared with its casing, as a
case-sensitive source does. `LoadObject` is the handler, with its switch
`symstore_proxy` and `ObjectPurpose::Debug`, which wants an object with debug
information or symbols.

**Symsorter** (extends SymbolPaths) - the processing of input files in
parallel, creation of files with `create_new`, the second round for source
bundles. Every write may fail: of the directory, the reference and the `.meta`
file (`MetaFails`), of the new file, which is then not there or cut off
(`StoreFails`), of a bundle or its description (`EndFails`). A failed write ends
the program, and only in a zip archive with `ignore_errors` just that archive,
without the ids of the entry it was at (`Abandoned`). `faulty` is history: the
inputs of which a write failed. A member of an archive that cannot be read ends
the archive like a shorter one, and is left out.

**MCSymbolication** - inputs for Minidump, Proguard, Symsorter and SymbolPaths.

**CacherProofs**, **SharedCacheProofs**, **RequestServiceProofs**,
**ObjectLookupProofs**, **JsLookupProofs** - the theorems of section 6, each
about the module it is named for. **DownloadProofs** - those about Downloader,
RangeDownload and SourceFetch. **SymbolicationProofs** - those about
NativeSymbolication, Minidump, Proguard and Symsorter. **Recursion** - lemmas about the recursive
functions with which the models write loops, about sums of functions over finite
sets and over parts of their domain (`Total`), and about folds over sequences.

The modules that interact are kept apart: Cacher sees the shared cache as a set
of keys to which an upload may or may not be added, and a computation as any
outcome; Downloader sees an attempt as any result; ObjectLookup and JsLookup see
a cacher as a map with evictions, and a download as any result. Each of these
abstractions allows everything the detailed module does.

## 3. Runs

| run | question | result |
|---|---|---|
| `cacher_faults` | Do errors expire in time, and do files behind served entries stay valid, through touches, retries, refreshes and cleanup, with I/O faults, coarse metadata timestamps, the shared cache and a restart at any point? Are malformed entries of a dead process forgotten, and tokens exact? | holds |
| `cacher_live` | Are callers answered and do refreshes end, when any caller may vanish and temporary files and loads may fail? | holds |
| `cacher_persist` | Are malformed entries of an earlier process expired (`fs.rs:230`) if a rename fails? | violated: fresh metadata is written for the old file |
| `request` | Slots, polls and the map of requests, with symbolication that may hang or panic | holds |
| `range_short` | Does a part that is too short fail the download (`download/mod.rs:580`)? | violated: it leaves a hole |
| `downloader` | Is a host blocked only when it failed often enough, and always then if its failures are registered in order; does every download end; is a fetched file the published one, for every source and transfer mode, and is a token accepted when it is used; is a successful download in ranges complete and within the limit, also if servers ignore ranges? | holds |
| `deny_list_order` | Is a host that reached the threshold within the window blocked (`deny_list.rs:22`)? | violated: out of order at a bucket boundary, failures open more buckets than the queue holds |
| `shared_cache` | Are upload slots conserved, objects written once, receivers resolved? | holds |
| `shared_partial` | Does a miss leave the destination untouched (`shared_cache/mod.rs:692`)? | violated: bytes copied before a timeout stay |
| `objects` | Does a lookup give the best object whatever the order of answers (the refinement `FindsBestObject`), tell the truth in its candidates, use the auxiliary files it found, work with complete indexes, and end? | holds |
| `js` | Is a frame resolved with the source map of its own file, are frames and names in order, is the budget kept? | holds |
| `symbolication` | Do the threads of a minidump end and share unwind information; are statuses and frames accounted for on the native and JVM platforms; is what was sorted found, and what a debugger asks the proxy for? | holds |

The exact statements are the commented definitions at the end of each module.
`InUseNeverExpires` is about the file behind an item if it still exists: the
cleanup may legitimately race with a touch and remove it. In `cacher_faults` a
section between awaits takes no time (`WriteTime` 0); sections of any duration are
covered by the theorems.
`ReceiversResolve` has as its premise that no metadata body stalls for ever: the
code does not guarantee that, and an uploader that waits for one keeps its slot.
`RefusedNearLimit` records a subtlety rather than an error: consecutive ranges
share a byte, it is transferred twice and counted twice against
`max_download_size`, so the limit of a split download is lower by up to one
byte per range.
`FailingHostBlocked` has two conditions, that the window is a multiple of the
buckets and that the failures counted were registered in the order of their
times; `DocumentedBlocking` is the same without them, and fails without either:
without the first for one download at a time with a window of 5 ticks, buckets
of 3 and failures at 5, 5 and 9, of which the first two share a bucket that
starts before the cutoff; without the second in `deny_list_order`.
`BlockedForCause` allows for twice the duration of `register_failure`: with one,
TLC finds a host blocked for a failure that is too old, because it was registered
after a newer one and skipping old buckets stops at the first recent one.
`SourceMapFaithful` excepts modules with a file that was taken for empty
(`TakenForEmpty`); without the exception TLC finds the case of section 7.
`StatusTruthful` is stated for modules that do not overlap (`WellFormed`), for
the reason given in section 7. `FileAsPublished` names every reason for which a file
is called malformed, among them two that are no fault of the file: it came in
ranges and is within `MaxPartialRanges - 1` bytes of the limit, or the server
ignored a request for a range.
`JvmFramesAccounted` is an equality: each frame is replaced by exactly what it
stands for (`Meaning`), once.
`SortedFilesFound` and `ProxyFindsTheFile` name the exceptions (`Unfindable`,
`LostIds`, `LostInPath`), the first and the last as equivalences, so that a
repaired case would show as well. `LostIds` is a failed write of the input or a
duplicate; `LostInPath` is what a path does not tell, among it the capitals of a
name that was asked for in the casing of SSQP.

Every property is also checked against a mutant: a variant `X_Y` of the
definition `X` with a plausible bug (PROJECT.json, "mutants").

## 4. Bounds

* Cacher: one key, one current and one fallback version (several keys interact
  only through the token counter, which is proved for any number), intervals of
  1 and 2 ticks with `TouchEvery` = 1 and `MaxUnusedFor` = 2, and a clock that
  runs to 3 or 4, past every interval: entries are created, touched, expired
  and retried. One or two callers: the second is needed to wait on the first.
  One restart: a second one sees what the first one sees. `MaxTime` and
  `MaxCrashes` are the only artificial bounds. `cacher_live` stops the clock at
  1; liveness there concerns hand-over and panics, not expiry.  The kinds of
  faults are divided between the runs: failing loads after a write are in
  `cacher_live`, where the type invariant is checked as well, failing renames in
  `cacher_persist`, all others in `cacher_faults`.
* RequestService: two requests for one slot, a client that creates and polls
  either, a poll timeout of 1 and `MaxPollDelay` of 2, so that polls hit every
  phase. Timers count down and need no bound.
* Downloader: two downloads of one host with a threshold of 3, a window and
  buckets of 2 ticks and a clock from 2 to 5: failures lie on either
  side of a bucket boundary and of the end of the window, and two are registered
  in either order. Within these bounds `DocumentedBlocking` would fail, so the
  condition `ordered` matters. There are two attempts instead of three, a first and
  a last one. The code's ratios (window 60 s, buckets 5 s)
  differ, but not its cases. Both properties of the deny list were also checked
  with a window of 3 ticks, buckets of 1, a threshold of 4 and a clock from 3 to 9,
  and with three downloads. `deny_list_order` has three downloads.
* SourceFetch: two fetches that share tokens, `TokenLife` 3, `Margin` 1,
  `TokenDelay` 1 (the time an answer is under way) and a clock to 4, so that a
  cached token is used, refused by the margin and replaced; fetches without
  tokens run alone, for they share nothing. Files of up to two layers, damaged
  in each, on either side of `MaxSize` 6 and close enough to it for shared bytes
  to matter.
* SourceIndex and ObjectLookup: two requests in two scopes, three sources, of
  which one publishes up to `MaxPublished` 2 uploads (`LastIdMax`, the configured
  maximum, is as large, so that a last id above it occurs only in the proof of
  `IndexWhole`), `MaxFaults` 1 failed download. The four worlds make the
  best file the private one, the indexed one, a torn one that fails after it
  was selected, or none, and give the two requests equal or different purposes.
* JsLookup: two requests with up to three frames, two bundles with different
  versions of a script under one name, a page with two versions, two individual
  artifacts (a script and its source map) that both requests of one pair ask
  for, `Budget` 4, which some but not all files exceed, `MaxFaults` 1.
* MCSymbolication: two modules, apart, overlapping or empty,
  addresses in, between and outside them, two threads of up to four candidate
  frames that meet in a module, stack traces of up to three frames for the JVM
  over nine kinds of frames, and pairs of seven inputs for symsorter, with
  `MaxDiskFaults` 1. `MaxAddr` and `NullPage` replace 2^64 and 4096.
* RangeDownload: sizes 0 to 10 (`MaxResource`), a split size of 2, three ranges and a limit of
  9: fewer ranges than the maximum, exactly the maximum, remainders that do and
  do not divide, and sizes on either side of the limit.
* SharedCache: three uploads for two slots and a queue of one, so that the
  queue is full, and one object of another instance.

## 5. Fairness

* Cacher: weak fairness of each task. The runtime polls what is ready, and a
  computation ends because downloads and conversions have timeouts. Callers,
  cleanup and crashes are not fair.
* RequestService: the runtime and time. Symbolication itself may never end.
* Downloader: the runtime and time. Hosts may never answer.
* SharedCache: the worker, and the uploader steps whose duration the code
  bounds with a timeout. Reading the body of a metadata answer
  (`GcsState::exists`) has no timeout and no fairness: `ReceiversResolve`
  therefore has it as a premise.
* ObjectLookup: some request that can take a step does. A lookup is a task of
  the runtime, and what it waits for is bounded by the download timeout.
* Minidump: the task that polls the threads goes on; an individual thread is
  only promised progress when nothing else is left to do.

Deadlock is checked except in `objects` and `symbolication`, where the model
stops when all requests are answered, and `RequestsAnswered` and `WalkEnds` say
that it stops nowhere else. RangeDownload stutters explicitly when it is done.

## 6. Proofs

Every theorem holds for every value of the constants: any number of keys,
callers, requests, uploads, sources and files, any intervals, sizes and limits.
The assumptions are the named `ASSUME`s of the modules (intervals and sizes are
naturals, limits that the code takes from a non-zero configuration are positive,
no request lists a source twice) and what is said below. All proofs follow one
pattern: an inductive invariant, one lemma per action or group of actions, and a
theorem that combines them.

**Cacher** (`CacherProofs`)

* `TypeCorrect`: `Spec => []TypeOK`. `TypeOK` is inductive by itself, because
  it says which entries a writing task may hold: also after a failed hit of the
  shared cache, which makes the status an `InternalError` but not the contents.
* `RefreshesAreBounded`: `Spec => []RefreshesBounded`. The inductive invariant
  is `Inv`: `TypeOK`, `RefreshesBounded`, and that the set of keys with a token
  is finite, which makes its cardinality count steps. Lemmas say that most
  steps leave the set of holders alone, and that `SpawnRefresh` and the release
  change it by one.
* `ErrorsExpireInTime`: unless a rename can fail (`"persist" \notin Faults`),
  `Spec => []ErrorsExpire`. `ErrorsExpire` speaks of memory only; the inductive
  invariant `AgeInv` bounds what can get there: the creation time and mtime of
  a stored error are at most `WriteTime`, or twice that, after its computation
  (`FileAged`); a task in a synchronous section is in time, and an error in the
  file it touches or describes is not much older than the section (`TaskAged`);
  an item in memory has a deadline derived from these (`ItemAged`). The bound
  `2 * WriteTime` is what two tasks writing the same files cost: one renames at
  the end of its section, the other creates metadata at the end of its own.
  The excluded case is the finding of `cacher_persist`.
* `MalformedNeverSurvives` and `InUseStays`, under the same condition:
  `MalformedDiesWithProcess` and `InUseNeverExpires`. Their common invariant is
  `KeptInv` (together with `AgeInv`). A malformed file computed before this
  process started is dated before the start, by its mtime and, if it has whole
  metadata, by that too (`FileKept`); no task touches such a file or writes
  metadata for it, since what a task renames is of this process
  (`TaskKept`). The deadline of a positive item, or of a result about to become
  one, is at most a touch interval and two writes after the mtime of whatever
  usable file has its place *now* (`Alive`): another task may replace the file
  meanwhile, but only by one dated in a section that is still in time. The
  steps are described once by what they do to the files, the metadata, the
  tasks and the item of one key (`Moves`), and `StepMoves` shows that every
  action but the clock and a restart is such a move; the invariant is then
  preserved move by move.
  `InUseStays` needs `TouchEvery + 2 * WriteTime <= MaxUnusedFor`: the
  configured `max_unused_for` must exceed the fixed touch interval, or a file
  expires while its item is still in memory. The check run has `TouchEvery` 1,
  `WriteTime` 0 and `MaxUnusedFor` 2.

**SharedCache** (`SharedCacheProofs`)

* `TypeCorrect`, `SlotsConserved` (`Spec => []UploadsBounded`) and
  `NeverReplaced` (`Spec => StoredOnce`, an action property). The
  inductive invariant says that the running uploads are a finite set, of which
  each step adds or removes one element, that what is in the channel was queued
  by exactly one call (`QueueInv`), and that an uploader to GCS takes none of the
  steps of the file-system backend (`GcsInv`).

**RequestService** (`RequestServiceProofs`)

* `TypeCorrect`, `SlotsCounted` (`Spec => []SlotsBounded`), `PendingStaysKnown`
  (`Spec => []PendingFollowedUp`). The invariant for the latter ties the
  place a task has reached to the guards it holds, the entry of the map and the
  channel (`TaskInv`): no reply is `Pending` once the channel is filled, so that
  a task that then sleeps outlasts the poll of the last `Pending` reply. A client
  that waits found its request in the map (`ClientInv`).

**Downloader** (`DownloadProofs`)

* `DenyListTypeCorrect` (`Spec => []TypeOK`), `BlockedOnlyForCause`
  (`Spec => []BlockedForCause`) and `FailingIsBlocked`
  (`Spec => []FailingHostBlocked`). The deny list compares a sum over the counts
  of a queue of buckets with a threshold; the properties speak of the number of
  failures in a window of time. The inductive invariant `DenyInv` relates the two
  in both directions. `CauseInv`: what the queue counts from any bucket on is at
  most what was registered for times from `Stall` before that bucket on. It holds
  because a failure is registered soon after its time, and so no failure counted
  behind a bucket is much older than the bucket. `OrderInv`, while a host's failures were
  registered in order: the buckets are at distinct multiples of the bucket size,
  and for every time within the window the buckets that reach it count at least
  what failed from then on. Dropping a bucket because the queue is full is
  harmless for the first reason: `MaxQueueLen` distinct buckets span more than a
  window, so the oldest one ended before it. Evicting a host that was not used for
  a window is harmless because nothing failed after its last use (`TimesInv`).
  This is where both conditions of `FailingHostBlocked` are used. Counts are
  compared up to the threshold (`UpTo`), where the model saturates them. Sums over
  a part of the queue, and how they change when a bucket is counted up, appended or
  dropped at the front, are the `Total` lemmas of Recursion. Assumed is in addition
  that there is a host.

**RangeDownload** (`DownloadProofs`)

* `RangeTypeCorrect`, `NeverTooLarge` (`RangeSpec => []LimitEnforced`), `NothingMissing`
  (`RangeSpec => []CompleteOnSuccess` if `"short" \notin ServerFaults`, the finding
  of `range_short`). The invariant says that every byte of the resource is in
  its place or going to be written by some stream (`Expected`), and that a body
  which is not what was asked for will end the attempt because it is too long for
  its range (`BytesInv`): the arithmetic of `split` is part of the proof, for
  every size, split size and number of ranges.

* `RefusedForSize` (`RangeSpec => []RefusedNearLimit`). The bytes transferred are a
  counter, to be compared with a sum over the streams. `CountInv` needs no sum: it
  says that an account exists, a function that runs through the
  streams (`Accounts(acc)`): it starts at the bytes transferred, each stream adds
  what is ahead of it, and it ends at the size and one byte for each boundary
  between ranges. A chunk that is written moves bytes from ahead of its stream to
  the transferred ones, and shifts the account up to that stream by as many.

**SourceFetch** (`DownloadProofs`)

* `FilesAreWhole` (`FetchSpec => []FileAsPublished`) and `TokensAccepted`
  (`FetchSpec => TokenFresh`, an action property). The first rests on what is on
  disk at each stage of a call (`StageInv`): before `Materialize` the file as
  published, with its coding removed on the way, or the file as it was sent with
  the coding that is still to be removed; before `Unpack` the file as published.
  That a file refused for what its ranges share is within `MaxPartialRanges - 1`
  bytes of the limit is the arithmetic of `split`: it makes no more ranges than
  the maximum.
  The second rests on two facts: a cached token expires in the cache at most
  `TokenLife` after it was issued (`TokenInv`), and who waits for a token has
  asked at most `TokenDelay` ago (`AskInv`), which the margin of the cache
  exceeds. `JobsWellFormed` says that a job has a size for each form it can take,
  and that a body with a coding is not empty (a coding has a header).

**ObjectLookup** (`ObjectLookupProofs`)

* `IndexWhole` (`Spec => []IndexComplete`): the invariant says that a cached
  segment is the one that was published, and that an index under construction
  has all segments before its position.
* `LastIdStays` (`Spec => LastIdKept`, an action property).
* `CandidatesAccount` (`Spec => []CandidatesConsistent`), `SourcesUsed`
  (`Spec => []SymcacheUsesItsSources`).
* `BestIsFound` (`Spec => FindsBestObject`): ObjectLookup implements BestObject,
  under the mapping at the end of the module. Initial states map to initial
  states; listing sources and working on caches stutter; `MetaHit` and
  `MetaFinish` map to `Arrives` for the requests whose file got its outcome; the
  choice of a file maps to `Answered`, which needs that `SelectMeta`, a loop,
  returns the first of the best files. That is induction over the files of a
  request. The prover cannot instantiate induction theorems that take an
  operator, so the module Recursion states induction for sets
  (`SetInduction`: a set that has 0 and is closed under successor has every
  number), and from it that the equation of a loop has a solution (`RoundsExist`)
  and which set its values stay in (`RoundsStay`).
  The inductive invariant `Inv` has four parts: the index (`IndexInv`), the caches
  (`CacheInv`: who waits for a busy entry, and which results an entry can have),
  the derived caches (`DerivedInv`: what an entry was derived from), and the
  requests (`ReqsInv`).

**JsLookup** (`JsLookupProofs`)

* `SourceMapsFit` (`JsSpec => []SourceMapFaithful`). A source map cache is shared,
  and its key names a minified file and a source map by bundle, artifact or
  digest. The invariant `Inv` says that each part of a key stands for one version
  of one file (`Named`, the property of `write_cache_key` everything depends on),
  that a shared cache holds what its key stands for (`SharedInv`), and that the key
  a request is about to use stands for the two files it found (`ReqInv`). That the
  contents of a bundled source map are read a second time, possibly from another
  bundle, is the step that needs most of it (`ConvertedFits`).
* `BudgetIsKept` (`JsSpec => []BudgetKept`). `BudgetInv` keeps the balance in the
  middle of a frame too: what is retained, what is left, and what was paid for a
  minified file that its module does not have yet (`Pending`). Retained files are
  summed over the tables of a request. The lemmas on sums are in Recursion: a sum
  exists whatever order its elements are taken in, which is induction over the
  cardinality of a set with `SetInduction`, and so a changed entry changes the sum
  by the difference (`SumChanges`).
* `FramesKeepOrder` (`JsSpec => []FramesInOrder`). `FramesInv` says of the frames
  that are done (`InWork`) that each is the frame that was sent, is named by its
  own scope or by the token of the frame before it, and was resolved with a module
  that had been fetched; a module is filled in once, so no later step changes the
  token a name came from (`FramesModuleDone`). The answer turns the frames around
  if they were sent with the callee first, and the frame before becomes the caller
  (`FramesRespond`). That a folded name unfolds to itself (`FoldedUnfolds`) is
  induction over its parts: both directions are folds over sequences, of which
  Recursion proves that they exist (`FoldsExist`) and take the last element after
  all others (`LastOfFirst`), which the prover cannot take from the library.

The assumptions `JsConstants` and `JsSizes` say that the bundles and the frames of
a job are sequences, and that every version of a file has a natural size, the
empty file none. `JsTexts` says that lines are numbers and that a name is a
sequence of at least one part (`split('.')` of a text, even of an empty one, has a
part); `NoName` stands for a name that is missing.

**Minidump and NativeSymbolication** (`SymbolicationProofs`)

* `UnwindingTold` (`Spec => []UnwindTruthful`), `ModuleStatusTold`
  (`Spec => []StatusTruthful`) and `FramesKept` (`Spec => []FramesAccounted`),
  for any modules, threads of any length and any interleaving. The inductive
  invariant is `WalkInv /\ StageInv`.
* `WalkInv` is about the threads: the candidates a thread has passed have the
  unwind information of their modules (`ThreadInv`), and what was fetched was
  needed by some candidate and fetched once (`CfiInv`). When all threads are done,
  exactly the modules that a candidate was in have been fetched
  (`FetchedWhenMet`), and the request for symbolication carries the outcome of each
  (`MinidumpRequestIs`), which no later stage changes.
* `StageInv` is what is known at each stage after that. The lookup holds every
  module once, by address, with its fields (`Holds`): a stable sort, given by the
  number of modules that come before (`ByAddressOrders`), which fetching and the
  second pass leave alone and `into_inner` undoes (`OriginalOrderRestores`). The
  frames of a stack trace are the result of a loop (`Made`, by induction with
  `SetInduction` over the frames done), of which the order, the places of inlined
  functions and the reasons to drop a frame are kept at every turn.
* That statuses are right rests on two facts about addresses, for modules that do
  not overlap: the lookup finds exactly the module an address lies in by the
  definition of a debug image, whether its size was given or filled up
  (`LookupFinds`); and the address a symbolicated frame gets, which was made
  relative to its module, taken back to the call, and made absolute again, still
  lies in that module (`StaysInModule`), so that the second pass refers to the
  modules of the first. The proof found a condition of the second that the model
  had not stated: a module must end within the address space, for otherwise
  `rel_to_abs_addr` overflows and `expose_preferred_addr` answers 0. It is now part
  of `WellFormed`.
* `RequestsAssumption` says that addresses, sizes and depths of inlining are
  numbers in their range, that the outcomes of unwind information are those of
  `CacheError`, and that the modules of a minidump start at different addresses: the
  minidump library leaves a module out that overlaps an earlier one. Without the
  last, `UnwindTruthful` could not tell modules apart by their start.
  `AddressAssumption`: there is a largest address.

**Proguard** (`SymbolicationProofs`)

* `JvmFramesKept` (`JvmSpec => []JvmFramesAccounted`), for any mapping files, stack
  traces and order of arrival. The inductive invariant `JvmInv` says that the
  mapping files in use are those that arrived, in the order of the event; that every
  finished stack trace is accounted for (`Finished`) and the current one up to the
  frame that is next (`Through`); and that rewrite rules are still in force only if
  there is an exception and every frame so far was an outline (`RulesApply`). The
  step lemma is `AccountsForNext`: the frames that replace a frame come after the
  others, next to each other, and are exactly what it stands for. What the mapping
  files answer one after the other, with their carried positions and the rewrite
  flag, is what the property computes from the whole stack trace (`RemappedIs`, from
  `AnswersAre` and `MeaningIs`); that the positions and the flag tell what came
  before is `PositionsCarriedToNext` and `RulesApplyToNext`. The answer is turned around like the native one
  (`ReverseIs`), and source context leaves alone what a frame stands for
  (`AccountsAlike`).
* That the first file with an answer is the first that knows the class holds
  because a mapping file lists methods, outlines and lines below their class
  (`KnowsItsClasses`, part of `JvmRequestsAssumption`): a file that answers without
  knowing the class would shadow a later one. The assumption also says that stack
  traces, frames and answers are sequences.

**Symsorter** (`SymbolicationProofs`)

* `SortedFilesKept` (`SorterSpec => []SortedFilesFound`), for any inputs, any
  number of files processed in any order, and any failures of writes. The inductive
  invariant `SorterInv` says that what a task has so far is stored and complete, and
  comes from the entry it is at (`TaskFits`); that a stored file comes from a place
  of its input that its task has passed, and that its id is listed, is still with
  its task, or is lost (`FileFits`); that the `.meta` file of a path is from an input
  with an object for it, or torn (`Described`); and that a source bundle is stored unless its
  task has only begun (`BundleFits`). That a task has passed the places it stored
  files from is what shows that a duplicate within one input has another place than
  the file that was there (`DuplicateInv`). The proof found both cases the model had
  not covered: a duplicate from the same input was not an exception of the
  property, and no input of the run had one. All steps of a task share `StepKeeps`,
  which says what they leave alone, and all failed writes `AbandonedInv`: whatever
  they leave behind, the input is faulty from then on.
* Source bundles go by the id of the debug file they are made from only because no
  PE file lies in the same file as a debug file (`BundleMade`).
* That a file is found exactly if it is not `Unfindable` is about one object
  (`FoundWhen`): a path of two parts is among the locations just if it is the
  Unified path of one of the file types (`LocationsAre`, with `FlattenIs` for the
  list of all locations), and the two ids of an object are told apart (`IdsDiffer`).
* `SortJobsAssumption` says that files are sequences of objects, that the only
  object of a PE file is that file, that ids of different kinds differ, and that
  `Unset` is none of these values.

Only model-checked:

* liveness under fairness, which is out of the prover's reach;
* `ProxyFindsTheFile` of SymbolPaths: it is about one path at a time, of which the
  run enumerates the kinds, and no step changes anything.

`RangeTypeOK` of RangeDownload and the `TypeOK` of RequestService and Downloader
are checked by no run on their own; they are proved, and the basis of the other
proofs.

## 7. Observations

Beyond the findings in PROJECT.json:

* `cleanup.rs:148` promises to report whether a directory is empty; an error on
  an entry leaves it marked empty, and `remove_dir_all` removes it (line 186).
* `docs/api/response.md:14` says a completed response is "only reported once";
  the task keeps it for `MAX_POLL_DELAY`, and every poll in that time gets it.
* `endpoints/symbolicate.rs:89` reports "did not start" also for a request that
  started and panicked before its creator looked it up.
* `destination.rs:75` asks callers not to write overlapping data; `split` makes
  consecutive ranges overlap in one byte (of equal value, if servers agree).
* `upload_worker` holds a sender of its own done channel, so its `else` branch
  is never taken and it never terminates; `store` sends a value also for
  discarded and failed uploads, so a value does not mean that a file is stored.
* A background refresh that fails overwrites a usable older version with the
  error and deletes the older file (`memory.rs:390`), although
  `caching/mod.rs:75` has successful entries reused while they are in use.
* If the shared cache is used, and reopening or mapping the temporary file fails,
  `load_from_shared_cache` returns the error as a hit (`memory.rs:205-219`), and
  `compute` persists the temporary file all the same: an empty file, which is read
  as a negative entry later. Other I/O errors return early so that nothing is
  persisted, and the comment at `memory.rs:288` says why.
* `partial.rs:42` adds 1 to the end of a content range, which overflows for
  2^64 - 1; `deny_list.rs:118` subtracts the window from the time, which
  underflows for a clock near the epoch.

Downloads and the index:

* The comment on `max_queue_len` (`deny_list.rs:70`) has its additional place
  protect against windows that are not a multiple of the bucket size; the cutoff
  (`deny_list.rs:118`) then still skips a bucket that is partly within the window.
* S3 maps other client errors to a download error, the generic downloader
  (429 included) to not found.
* A ranged download counts compressed bytes against the limit if the server
  applied a content coding; `MeasureSourceDownloadGuard` is documented for the
  decompressed size. A damaged content coding is a download error, a damaged
  archive a malformed file; a disk error while unpacking is cached as malformed.
* An Azure token expires by the time its answer was read, a GCS token by the
  time it was asked for; a failed token answer is shared by all who waited.
  Keys of S3 sources compare equal whatever `aws_credentials_provider` says
  (`sources/s3.rs:187`).
* `index.rs:436` unwraps `elapsed` and panics if the clock went back. The
  comment on `fetch_symstore_last_id_memoized` says an hour, the constant a day.

Objects and native symbolication:

* The key of a symcache does not contain `extract_variables`. Auxiliary files
  are cached under the scope of the object.
* `fetch_sources` looks modules up by the addresses of the response; if modules
  overlap, it may mark one unused that the first pass used. A module without an
  identifier is left out. `variables.rs` adds a frame base and an offset without
  an overflow check.

JavaScript:

* An individual artifact that is not found, but for which Sentry has headers, is
  taken for an empty file (`lookup.rs:1092`), while `write_cache_key` names it by
  its uri. A request that does find the file may be given the source map cache
  made from the empty one.
* A bundled source map is remembered without its contents. A request whose own
  copy of the bundle failed to load converts an empty source map, and the
  malformed result is stored under the key of the good pair.
* An entry found by path earlier answers a lookup with a debug id without
  asking Sentry, contrary to the comment on `try_get_file_with_debug_id`.
* `cache_busting_key` subtracts an offset from a timestamp and underflows for
  small ones.

ProGuard: a later mapper's carried outline position stays if an earlier mapper
maps the next frame, and applies to a later frame.

Paths and symsorter:

* A duplicate ends the processing of its input with an empty list
  (`app.rs:160`), so ids of objects sorted before it from the same input are not
  listed, even if the first one came from that input too; its `.meta` replaces that of the first. With `ignore_errors`, a failed
  write in a zip archive leaves a truncated file that later duplicates take for a
  complete one, and loses the ids of what was stored completely from the same
  entry (`app.rs:135`, `app.rs:149`, `app.rs:174`).
* Executables and source bundles without a code id are stored under their debug
  id and looked up by code id; a source bundle of a PE file the other way round.
* Through the proxy, a PE file cannot be served from the Unified layout, and
  the age of a Portable PDB is lost. A name in the casing of SSQP is lowercase, and
  the proxy asks for it as it is: a case-sensitive source of another layout does
  not find a name with capitals. An object with neither debug information nor
  symbols is not found (`proxy.rs:34`), although a debugger may ask for the executable.
* `get_breakpad_path` strips `.exe`, `.dll` and `.pdb` in this order, so that
  `x.pdb.dll` loses both suffixes, and `x.dll` none; SlashSymbols ignores the file
  type.

## 8. Not modelled, and plan

Not modelled for good: parsing and conversion of debug files, minidumps,
source maps and mapping files (libraries on large inputs, here any outcome);
variables, demangling and the text of source context; wasm-split; metrics,
logging, configuration (values are constants); form parsing; command-line
tools, load generators, test support. Not modelled yet: merging the candidates
of several lookups of one module.

What is left to do: an abstract specification of a cache (an entry is absent,
being computed or served until a deadline) that Cacher implements; a proof
of the invariant of SymbolPaths listed above.
