---------------------------- MODULE SharedCache ----------------------------
(***************************************************************************)
(* The cache shared between Symbolicator instances                         *)
(* (symbolicator-service/src/caching/shared_cache/mod.rs): calls of store  *)
(* queue uploads, a worker starts a bounded number of concurrent uploaders *)
(* and learns from a channel when one is done, and fetch copies an object  *)
(* into the caller's temporary file.                                       *)
(*                                                                         *)
(* An object is named by the call of store that wrote it.                  *)
(***************************************************************************)
EXTENDS Naturals, Sequences, FiniteSets

CONSTANTS
    Uploads,        \* calls of SharedCacheService::store
    Others,         \* uploads of other Symbolicator instances
    Keys,           \* keys in the shared cache
    NoObject,       \* there is no object for a key
    MaxQueue,       \* max_upload_queue_size
    MaxConcurrent,  \* max_concurrent_uploads
    Chunks          \* pieces in which an object is copied

ASSUME SharedCacheConstants ==
    /\ Uploads \intersect Others = {}
    /\ NoObject \notin Uploads \union Others
    /\ Keys # {}
    /\ MaxQueue \in Nat \ {0}
    /\ MaxConcurrent \in Nat \ {0}
    /\ Chunks \in Nat \ {0}

VARIABLES
    backend,   \* SharedCacheBackend
    object,    \* the objects in the shared cache
    upload,    \* the state of each call of store
    queue,     \* the channel of upload_queue_tx
    counter,   \* uploads_counter of upload_worker
    done,      \* messages in the channel of done_tx
    receiver,  \* the oneshot::Receiver of each call of store
    fetcher    \* one call of fetch and its destination

uploadVars == <<upload, queue, counter, done, receiver>>
vars == <<backend, object, upload, queue, counter, done, receiver, fetcher>>

-----------------------------------------------------------------------------
Objects == Uploads \union Others
Reasons == {"New", "Refresh"}

\* An uploader that has not yet sent its done message.
Running == {"exists", "metadata", "send", "check", "copy", "finish"}

SomeKey == CHOOSE k \in Keys : TRUE
NotCalled == [pc |-> "new", key |-> SomeKey, reason |-> "New", found |-> FALSE]
UploadSet == [pc : {"new", "queued", "notify", "over"} \union Running, key : Keys,
              reason : Reasons, found : BOOLEAN]

NoFetch == [pc |-> "idle", key |-> SomeKey, written |-> 0]
FetcherSet == [pc : {"idle", "copy", "hit", "miss"}, key : Keys, written : 0 .. Chunks]

\* The type of every variable.
TypeOK ==
    /\ backend \in {"gcs", "fs"}
    /\ object \in [Keys -> Objects \union {NoObject}]
    /\ upload \in [Uploads -> UploadSet]
    /\ queue \in Seq(Uploads) /\ Len(queue) <= MaxQueue
    /\ counter \in 0 .. MaxConcurrent
    /\ done \in 0 .. MaxConcurrent
    /\ receiver \in [Uploads -> {"none", "waiting", "value", "dropped"}]
    /\ fetcher \in FetcherSet

Init ==
    /\ backend \in {"gcs", "fs"}
    /\ object = [k \in Keys |-> NoObject]
    /\ upload = [u \in Uploads |-> NotCalled]
    /\ queue = <<>>
    /\ counter = MaxConcurrent
    /\ done = 0
    /\ receiver = [u \in Uploads |-> "none"]
    /\ fetcher = NoFetch
-----------------------------------------------------------------------------
(* store and upload_worker. *)

(***************************************************************************)
(* store: most refreshes are discarded at random, a full queue drops the   *)
(* message and with it the sender the receiver waits for.                  *)
(***************************************************************************)
Store(u, k, reason) ==
    LET Becomes(pc, r) ==
            /\ upload' = [upload EXCEPT ![u] = [pc |-> pc, key |-> k, reason |-> reason,
                                                found |-> FALSE]]
            /\ receiver' = [receiver EXCEPT ![u] = r]
    IN  /\ upload[u].pc = "new"
        /\ \/ reason = "Refresh" /\ Becomes("over", "value") /\ UNCHANGED queue
           \/ /\ Len(queue) < MaxQueue
              /\ queue' = Append(queue, u)
              /\ Becomes("queued", "waiting")
           \/ /\ Len(queue) = MaxQueue
              /\ Becomes("over", "dropped") /\ UNCHANGED queue
        /\ UNCHANGED <<backend, object, counter, done, fetcher>>

\* Where an uploader begins: only GCS refreshes ask for the object first.
FirstStep(u) ==
    IF backend = "fs" THEN "check"
    ELSE IF upload[u].reason = "Refresh" THEN "exists" ELSE "send"

WorkerSpawns_NoLimit ==
    /\ queue # <<>>
    /\ counter' = counter - 1
    /\ queue' = Tail(queue)
    /\ upload' = [upload EXCEPT ![Head(queue)] = [@ EXCEPT !.pc = FirstStep(Head(queue))]]
    /\ UNCHANGED <<backend, object, done, receiver, fetcher>>

\* The branch of upload_worker that spawns an uploader.
WorkerSpawns ==
    /\ counter > 0 /\ queue # <<>>
    /\ counter' = counter - 1
    /\ queue' = Tail(queue)
    /\ upload' = [upload EXCEPT ![Head(queue)] = [@ EXCEPT !.pc = FirstStep(Head(queue))]]
    /\ UNCHANGED <<backend, object, done, receiver, fetcher>>

\* The branch of upload_worker for an uploader that is done.
WorkerCounts ==
    /\ done > 0
    /\ done' = done - 1
    /\ counter' = counter + 1
    /\ UNCHANGED <<backend, object, upload, queue, receiver, fetcher>>
-----------------------------------------------------------------------------
(* single_uploader. *)

At(u, pc) == upload[u].pc = pc

Goes(u, pc) ==
    /\ upload' = [upload EXCEPT ![u] = [@ EXCEPT !.pc = pc]]
    /\ UNCHANGED <<backend, queue, counter, done, receiver, fetcher>>

\* GcsState::exists: the head of the answer tells whether there is an object.
ExistsAnswered(u) ==
    /\ At(u, "exists")
    /\ upload' = [upload EXCEPT ![u] = [@ EXCEPT !.pc = "metadata",
                                        !.found = object[upload[u].key] # NoObject]]
    /\ UNCHANGED <<backend, object, queue, counter, done, receiver, fetcher>>

\* No token, no answer within CONNECT_TIMEOUT or another status: upload anyway.
ExistsFails(u) ==
    At(u, "exists") /\ Goes(u, "send") /\ UNCHANGED object

\* The body of the answer has been consumed, for which there is no timeout.
MetadataRead(u) ==
    /\ At(u, "metadata")
    /\ Goes(u, IF upload[u].found THEN "finish" ELSE "send")
    /\ UNCHANGED object

UploadAnswered_Overwrites(u) ==
    /\ At(u, "send")
    /\ object' = [object EXCEPT ![upload[u].key] = u]
    /\ Goes(u, "finish")

\* GcsState::store: written if there is no object (ifGenerationMatch=0), else skipped.
UploadAnswered(u) ==
    /\ At(u, "send")
    /\ object' = [object EXCEPT ![upload[u].key] = IF @ = NoObject THEN u ELSE @]
    /\ Goes(u, "finish")

\* No token, an error status, a broken connection or STORE_TIMEOUT.  (That the
\* object was written and the answer lost is UploadAnswered: errors end alike.)
UploadFails(u) ==
    At(u, "send") /\ Goes(u, "finish") /\ UNCHANGED object

\* FilesystemSharedCacheConfig::store: skip what exists, or fail.
FsStoreChecks(u) ==
    /\ At(u, "check")
    /\ \/ object[upload[u].key] = NoObject /\ Goes(u, "copy")
       \/ Goes(u, "finish")
    /\ UNCHANGED object

\* The temporary file is complete and renamed, replacing what is there by now.
FsStorePersists(u) ==
    /\ At(u, "copy")
    /\ object' \in {object, [object EXCEPT ![upload[u].key] = u]}
    /\ Goes(u, "finish")

SendDone_OnlyIfStored(u) ==
    /\ At(u, "finish") /\ done < MaxConcurrent
    /\ done' = IF object[upload[u].key] # NoObject THEN done + 1 ELSE done
    /\ upload' = [upload EXCEPT ![u] = [@ EXCEPT !.pc = "notify"]]
    /\ UNCHANGED <<backend, object, queue, counter, receiver, fetcher>>

\* done_tx.send, which waits while the channel is full.
SendDone(u) ==
    /\ At(u, "finish") /\ done < MaxConcurrent
    /\ done' = done + 1
    /\ upload' = [upload EXCEPT ![u] = [@ EXCEPT !.pc = "notify"]]
    /\ UNCHANGED <<backend, object, queue, counter, receiver, fetcher>>

\* complete_tx.send
SendComplete(u) ==
    /\ At(u, "notify")
    /\ upload' = [upload EXCEPT ![u] = [@ EXCEPT !.pc = "over"]]
    /\ receiver' = [receiver EXCEPT ![u] = "value"]
    /\ UNCHANGED <<backend, object, queue, counter, done, fetcher>>

\* Another instance stores an object, under the same precondition.
OtherInstance(o, k) ==
    /\ object[k] = NoObject /\ \A j \in Keys : object[j] # o
    /\ object' = [object EXCEPT ![k] = o]
    /\ UNCHANGED <<backend, uploadVars, fetcher>>
-----------------------------------------------------------------------------
(* fetch. *)

Fetching(f) == fetcher' = f /\ UNCHANGED <<backend, object, uploadVars>>

FetchStarts(k) ==
    /\ fetcher.pc = "idle"
    /\ Fetching([pc |-> IF object[k] = NoObject THEN "miss" ELSE "copy", key |-> k,
                 written |-> 0])

\* io::copy; the last piece makes it a hit.
FetchCopies(n) ==
    /\ fetcher.pc = "copy" /\ fetcher.written + n <= Chunks
    /\ Fetching([fetcher EXCEPT !.written = @ + n,
                                !.pc = IF fetcher.written + n = Chunks THEN "hit" ELSE "copy"])

\* An error or a timeout before or while copying is reported as a miss.
FetchFails ==
    /\ fetcher.pc \in {"idle", "copy"}
    /\ Fetching([fetcher EXCEPT !.pc = "miss"])

\* fetch returns, or its caller goes away.
FetchReturns == fetcher.pc # "idle" /\ Fetching(NoFetch)
-----------------------------------------------------------------------------
WorkerStep == WorkerSpawns \/ WorkerCounts

\* The steps of an uploader whose duration the code bounds.
UploaderStep(u) ==
    \/ ExistsAnswered(u) \/ ExistsFails(u)
    \/ UploadAnswered(u) \/ UploadFails(u)
    \/ FsStoreChecks(u) \/ FsStorePersists(u)
    \/ SendDone(u) \/ SendComplete(u)

Next ==
    \/ \E u \in Uploads :
          \/ \E k \in Keys, reason \in Reasons : Store(u, k, reason)
          \/ UploaderStep(u) \/ MetadataRead(u)
    \/ WorkerStep
    \/ \E o \in Others, k \in Keys : OtherInstance(o, k)
    \/ \E k \in Keys : FetchStarts(k)
    \/ \E n \in 1 .. Chunks : FetchCopies(n)
    \/ FetchFails \/ FetchReturns

Spec == Init /\ [][Next]_vars

\* The runtime runs the worker and the uploaders, whose requests have timeouts.
Fairness == WF_vars(WorkerStep) /\ \A u \in Uploads : WF_vars(UploaderStep(u))

FairSpec == Spec /\ Fairness
-----------------------------------------------------------------------------
(* Properties.  (Definitions named X_Y are variants of X with a bug, which *)
(* the properties are checked to catch; they are not part of Next.)        *)

(***************************************************************************)
(* Slots for uploads are conserved: each is free, held by a running        *)
(* uploader, or on its way back to upload_worker, however uploads end.  So *)
(* no more than max_concurrent_uploads run, and the done channel has room  *)
(* for every uploader that wants to send.                                  *)
(***************************************************************************)
UploadsBounded ==
    counter + done + Cardinality({u \in Uploads : upload[u].pc \in Running}) = MaxConcurrent

\* In GCS "a file [is placed] if it does not yet exist there": an object is never
\* replaced, although the check of a refresh is racy (GcsState::store).
StoredOnce ==
    [][\A k \in Keys : backend = "gcs" /\ object[k] # NoObject => object'[k] = object[k]]_vars

(***************************************************************************)
(* The receiver store returns resolves, with a value or because the sender *)
(* was dropped, unless an uploader stays for ever on the body of a         *)
(* metadata answer, the one wait of single_uploader without a timeout.     *)
(***************************************************************************)
ReceiversResolve ==
    (\A v \in Uploads : []<>(~ At(v, "metadata")))
        => \A u \in Uploads : receiver[u] = "waiting" ~> receiver[u] # "waiting"

\* "If the shared cache was not found nothing will have been written to `writer`"
\* (fetch), where errors count as not found.
MissWritesNothing == fetcher.pc = "miss" => fetcher.written = 0
=============================================================================
