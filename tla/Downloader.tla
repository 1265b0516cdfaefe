----------------------------- MODULE Downloader -----------------------------
(***************************************************************************)
(* The download service (symbolicator-service/src/download/mod.rs,         *)
(* deny_list.rs): concurrent downloads, each of up to three attempts under *)
(* one timeout, and the deny list on which hosts land that fail too often. *)
(*                                                                         *)
(* An attempt is what SourceFetch and RangeDownload model, here one step   *)
(* with any of its results.  Only sources with the metric key "http" are   *)
(* subject to the deny list; others may share their hosts.                 *)
(* Timers of downloads count down; the deny list works on a clock.         *)
(***************************************************************************)
EXTENDS SourceErrors, Integers, Sequences, FiniteSetsExt

CONSTANTS
    Downloads,    \* concurrent calls of download
    Hosts,        \* the hosts of the remote files
    NeverBlock,   \* deny_list_never_block_hosts
    TimeWindow,   \* deny_list_time_window
    BucketSize,   \* deny_list_bucket_size
    Threshold,    \* deny_list_threshold
    BlockTime,    \* deny_list_block_time
    MaxDownload,  \* timeouts.max_download
    MaxTries,     \* the number of attempts of retry, 3
    Stall,        \* longest duration of register_failure
    MaxTime       \* bound: the clock stops here

ASSUME DownloaderConstants ==
    /\ Hosts # {} /\ NeverBlock \subseteq Hosts
    /\ TimeWindow \in Nat /\ BlockTime \in Nat /\ MaxDownload \in Nat
    /\ BucketSize \in Nat \ {0} /\ Threshold \in Nat \ {0} /\ MaxTries \in Nat \ {0}
    /\ Stall \in Nat
    /\ MaxTime \in Nat /\ MaxTime > TimeWindow

VARIABLES
    now,       \* the clock of the deny list
    download,  \* the state of each download
    queue,     \* HostDenyList::failures, a queue of counts per host
    lastUsed,  \* when the queue of the host was last used
    blocked,   \* HostDenyList::blocked_hosts: until when a host is blocked
    failed,    \* registered failures per host and time, up to Threshold (history)
    ordered    \* whether the buckets of a host's queue were added in order (history)

vars == <<now, download, queue, lastUsed, blocked, failed, ordered>>

-----------------------------------------------------------------------------
Times == 0 .. MaxTime

\* The results of an attempt for a source with key "http", and for any other.
Attempts(http) ==
    {"ok"} \union UNION {AttemptErrors(t) : t \in IF http THEN {"http"} ELSE Types}

\* deny-listed failures, and results that are final at once
Failures == {"download_error", "timeout"}
Final    == {"ok", "not_found", "denied"}

Idle == [pc |-> "idle", host |-> CHOOSE h \in Hosts : TRUE, http |-> TRUE, tries |-> 0,
         left |-> 0, ts |-> 0]

DownloadSet == [pc : {"idle", "attempt", "sleep", "register", "count"}, host : Hosts,
                http : BOOLEAN, tries : 0 .. MaxTries, left : 0 .. MaxDownload, ts : Times]

MaxQueueLen_NoExtra == TimeWindow \div BucketSize

\* max_queue_len
MaxQueueLen == TimeWindow \div BucketSize + 1

\* The type of every variable; queues never outgrow max_queue_len.
TypeOK ==
    /\ now \in Times
    /\ download \in [Downloads -> DownloadSet]
    /\ \A h \in Hosts :
          /\ queue[h] \in Seq([timestamp : Times, failures : 1 .. Threshold])
          /\ Len(queue[h]) <= MaxQueueLen
    /\ lastUsed \in [Hosts -> Times]
    /\ blocked \in [Hosts -> Nat]
    /\ failed \in [Hosts -> [Times -> 0 .. Threshold]]
    /\ ordered \in [Hosts -> BOOLEAN]

Init ==
    /\ now = TimeWindow
    /\ download = [d \in Downloads |-> Idle]
    /\ queue = [h \in Hosts |-> <<>>]
    /\ lastUsed = [h \in Hosts |-> 0]
    /\ blocked = [h \in Hosts |-> 0]
    /\ failed = [h \in Hosts |-> [t \in Times |-> 0]]
    /\ ordered = [h \in Hosts |-> TRUE]
-----------------------------------------------------------------------------
(* download, dispatch_download and retry. *)

\* is_blocked
IsBlocked(h) == now < blocked[h]

Becomes(d, s) ==
    /\ download' = [download EXCEPT ![d] = s]
    /\ UNCHANGED <<now, queue, lastUsed, blocked, failed, ordered>>

\* source_can_be_blocked
StartDownload(d, h, http) ==
    /\ download[d].pc = "idle"
    /\ Becomes(d, IF http /\ IsBlocked(h) THEN Idle
                  ELSE [Idle EXCEPT !.pc = "attempt", !.host = h, !.http = http, !.tries = 1,
                                    !.left = MaxDownload])

\* The job is over: failures go to the deny list, with the time of the call.
Done(d, r) ==
    Becomes(d, IF r \in Failures /\ download[d].http
               THEN [Idle EXCEPT !.pc = "register", !.host = download[d].host, !.ts = now]
               ELSE Idle)

\* One attempt returns r; all but the final results are tried again.
AttemptEnds(d, r) ==
    /\ download[d].pc = "attempt"
    /\ IF r \in Final \/ download[d].tries >= MaxTries
       THEN Done(d, r)
       ELSE Becomes(d, [download[d] EXCEPT !.pc = "sleep"])

NextAttempt(d) ==
    /\ download[d].pc = "sleep"
    /\ Becomes(d, [download[d] EXCEPT !.pc = "attempt", !.tries = @ + 1])

JobTimesOut_Never(d) ==
    /\ download[d].pc \in {"attempt", "sleep"} /\ download[d].left < 0
    /\ Done(d, "timeout")

\* The timeout over all attempts.
JobTimesOut(d) ==
    /\ download[d].pc \in {"attempt", "sleep"} /\ download[d].left = 0
    /\ Done(d, "timeout")

\* The spawned job panics.
JobPanics(d) ==
    /\ download[d].pc \in {"attempt", "sleep"}
    /\ Done(d, "internal")

\* The caller goes away: CancelOnDrop aborts the job, nothing is registered.
CallerDropped(d) ==
    /\ download[d].pc \in {"attempt", "sleep"}
    /\ Becomes(d, Idle)
-----------------------------------------------------------------------------
(* register_failure: the check, and then the update under the queue's lock. *)

RegisterFailure(d) ==
    /\ download[d].pc = "register"
    /\ Becomes(d, IF IsBlocked(download[d].host) THEN Idle
                  ELSE [download[d] EXCEPT !.pc = "count"])

\* round_duration
RoundDuration(t) == t - (t % BucketSize)

UpTo(n) == IF n <= Threshold THEN n ELSE Threshold

\* The failures of q that are not before the first one within the window.
RecentFailures(q, cutoff) ==
    LET first == CHOOSE i \in 1 .. Len(q) + 1 :
                    /\ i <= Len(q) => q[i].timestamp >= cutoff
                    /\ \A j \in 1 .. i - 1 : q[j].timestamp < cutoff
    IN  MapThenSumSet(LAMBDA i : q[i].failures, first .. Len(q))

\* The queue with a failure at ts added, and the oldest bucket dropped at the limit.
Counted(q, ts) ==
    LET n == Len(q)
        r == IF n > 0 /\ q[n].timestamp = ts
             THEN [q EXCEPT ![n].failures = UpTo(@ + 1)]
             ELSE Append(q, [timestamp |-> ts, failures |-> 1])
    IN  IF Len(r) > MaxQueueLen THEN Tail(r) ELSE r

\* A failure at ts comes after the buckets in q, and those were in order.
InOrder(h, q, ts) == q = <<>> \/ (ordered[h] /\ q[Len(q)].timestamp <= ts)

CountFailure_OffByOne(d) ==
    LET h    == download[d].host
        ts   == RoundDuration(download[d].ts)
        old  == IF now >= lastUsed[h] + TimeWindow THEN <<>> ELSE queue[h]
        q    == Counted(old, ts)
        over == RecentFailures(q, ts - TimeWindow) + 1 >= Threshold
    IN  /\ download[d].pc = "count"
        /\ queue' = [queue EXCEPT ![h] = q]
        /\ lastUsed' = [lastUsed EXCEPT ![h] = now]
        /\ blocked' = IF over /\ h \notin NeverBlock
                      THEN [blocked EXCEPT ![h] = now + BlockTime] ELSE blocked
        /\ failed' = [failed EXCEPT ![h][download[d].ts] = UpTo(@ + 1)]
        /\ ordered' = [ordered EXCEPT ![h] = InOrder(h, old, ts)]
        /\ download' = [download EXCEPT ![d] = Idle]
        /\ UNCHANGED now

\* A queue that was not used for TimeWindow has been evicted (time_to_idle).
CountFailure(d) ==
    LET h    == download[d].host
        ts   == RoundDuration(download[d].ts)
        old  == IF now >= lastUsed[h] + TimeWindow THEN <<>> ELSE queue[h]
        q    == Counted(old, ts)
        over == RecentFailures(q, ts - TimeWindow) >= Threshold
    IN  /\ download[d].pc = "count"
        /\ queue' = [queue EXCEPT ![h] = q]
        /\ lastUsed' = [lastUsed EXCEPT ![h] = now]
        /\ blocked' = IF over /\ h \notin NeverBlock
                      THEN [blocked EXCEPT ![h] = now + BlockTime] ELSE blocked
        /\ failed' = [failed EXCEPT ![h][download[d].ts] = UpTo(@ + 1)]
        /\ ordered' = [ordered EXCEPT ![h] = InOrder(h, old, ts)]
        /\ download' = [download EXCEPT ![d] = Idle]
        /\ UNCHANGED now
-----------------------------------------------------------------------------
\* Timers advance, and so does the clock up to its bound; register_failure is short.
Tick ==
    /\ \A d \in Downloads :
          download[d].pc \in {"register", "count"} /\ now < MaxTime => now < download[d].ts + Stall
    /\ now' = IF now < MaxTime THEN now + 1 ELSE now
    /\ download' = [d \in Downloads |->
                      [download[d] EXCEPT !.left = IF @ > 0 THEN @ - 1 ELSE 0]]
    /\ UNCHANGED <<queue, lastUsed, blocked, failed, ordered>>

\* The steps of a download that need no answer from a host.
DownloadStep(d) ==
    NextAttempt(d) \/ JobTimesOut(d) \/ RegisterFailure(d) \/ CountFailure(d)

Next ==
    \/ \E d \in Downloads :
          \/ \E h \in Hosts, http \in BOOLEAN : StartDownload(d, h, http)
          \/ \E r \in Attempts(download[d].http) : AttemptEnds(d, r)
          \/ DownloadStep(d) \/ JobPanics(d) \/ CallerDropped(d)
    \/ Tick

Spec == Init /\ [][Next]_vars

\* The runtime runs ready tasks and time advances; hosts may never answer.
Fairness == WF_vars(Tick) /\ \A d \in Downloads : WF_vars(DownloadStep(d))

FairSpec == Spec /\ Fairness
-----------------------------------------------------------------------------
(* Properties.  (Definitions named X_Y are variants of X with a bug, which *)
(* the properties are checked to catch; they are not part of Next.)        *)

\* The failures of h registered for times from t on, after this step.
FailedSince(h, t) == MapThenSumSet(LAMBDA u : failed'[h][u], {u \in Times : u >= t})

(***************************************************************************)
(* A host is put on the deny list only after Threshold failures within the *)
(* time window, whatever the order in which concurrent downloads register  *)
(* theirs.  Rounding extends the window by a bucket, and the duration of   *)
(* register_failure does it twice: once for the failure that blocks the    *)
(* host, and once for late failures that follow the first one within the   *)
(* window and are older than that.                                         *)
(***************************************************************************)
BlockedForCause ==
    [][\A h \in Hosts :
          blocked'[h] # blocked[h] =>
              /\ h \notin NeverBlock
              /\ FailedSince(h, now - TimeWindow - BucketSize - 2 * Stall + 1) >= Threshold]_vars

\* This step registers a failure of h that completes Threshold failures within
\* less than the window.
ThresholdReached(h) ==
    failed'[h] # failed[h] /\ FailedSince(h, now - TimeWindow + 1) >= Threshold

(***************************************************************************)
(* A failure that completes Threshold failures within the window blocks    *)
(* the host for BlockTime, if the window is a multiple of the buckets and  *)
(* the host's failures were registered in the order of their times.  Only  *)
(* then does the length limit drop nothing that is still in the window.    *)
(***************************************************************************)
FailingHostBlocked ==
    [][\A h \in Hosts \ NeverBlock :
          TimeWindow % BucketSize = 0 /\ ordered'[h] /\ ThresholdReached(h)
              => blocked'[h] = now + BlockTime]_vars

(***************************************************************************)
(* What deny_list.rs says of the deny list, without these conditions: "if  *)
(* a host has at least failure_threshold download failures in a window of  *)
(* time_window_millis ms, it will be blocked for a duration of             *)
(* block_time".                                                            *)
(***************************************************************************)
DocumentedBlocking ==
    [][\A h \in Hosts \ NeverBlock :
          ThresholdReached(h) => blocked'[h] = now + BlockTime]_vars

\* Every download ends and has registered its failure, even if its host never
\* answers: retries and attempts share one timeout.
DownloadsEnd == \A d \in Downloads : download[d].pc # "idle" ~> download[d].pc = "idle"
=============================================================================
