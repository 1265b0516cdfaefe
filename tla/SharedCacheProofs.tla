------------------------- MODULE SharedCacheProofs -------------------------
(***************************************************************************)
(* Theorems about SharedCache, for any uploads, keys and instances and any *)
(* limits of the queue and of the concurrent uploads.                      *)
(***************************************************************************)
EXTENDS SharedCache, FiniteSetTheorems, SequenceTheorems, TLAPS

Uploaders == {u \in Uploads : upload[u].pc \in Running}

\* What is in the channel was queued by exactly one call of store.
QueueInv ==
    /\ \A i \in 1 .. Len(queue) : upload[queue[i]].pc = "queued"
    /\ \A i, j \in 1 .. Len(queue) : queue[i] = queue[j] => i = j

\* TypeOK, with counters that are only known to be bounded together.
Shape ==
    /\ backend \in {"gcs", "fs"}
    /\ object \in [Keys -> Objects \union {NoObject}]
    /\ upload \in [Uploads -> UploadSet]
    /\ queue \in Seq(Uploads) /\ Len(queue) <= MaxQueue
    /\ counter \in Nat
    /\ done \in Nat
    /\ receiver \in [Uploads -> {"none", "waiting", "value", "dropped"}]
    /\ fetcher \in FetcherSet

\* The slots: UploadsBounded, and that there is a number of uploaders to count.
SlotInv ==
    /\ IsFiniteSet(Uploaders)
    /\ counter + done + Cardinality(Uploaders) = MaxConcurrent

Inv == Shape /\ QueueInv /\ SlotInv

\* An uploader to GCS takes none of the steps of the file-system backend.
GcsInv == backend = "gcs" => \A u \in Uploads : upload[u].pc \notin {"check", "copy"}

-----------------------------------------------------------------------------
(* Lemmas *)

\* SomeKey stands for the key of a call of store that has not happened.
LEMMA SomeKeyType == SomeKey \in Keys
  BY SharedCacheConstants DEF SomeKey

\* single_uploader begins in one of the running places, on either backend.
LEMMA FirstStepType == \A u : FirstStep(u) \in Running
  BY DEF FirstStep, Running

\* A slot is free, on its way back or held, and there are no others.
LEMMA InvBounds == Inv => TypeOK /\ UploadsBounded
  <1> SUFFICES ASSUME Inv PROVE TypeOK /\ UploadsBounded
    OBVIOUS
  <1>1. Cardinality(Uploaders) \in Nat
    BY FS_CardinalityType DEF Inv, SlotInv
  <1>2. counter \in 0 .. MaxConcurrent /\ done \in 0 .. MaxConcurrent
    BY <1>1, SharedCacheConstants DEF Inv, Shape, SlotInv
  <1> QED
    BY <1>1, <1>2 DEF Inv, Shape, SlotInv, TypeOK, UploadsBounded, Uploaders

\* upload_worker begins with all of its slots and an empty channel.
LEMMA InitInv == Init => Inv
  <1> SUFFICES ASSUME Init PROVE Inv
    OBVIOUS
  <1>1. Uploaders = {}
    BY DEF Init, NotCalled, Uploaders, Running
  <1>2. IsFiniteSet(Uploaders) /\ Cardinality(Uploaders) = 0
    BY <1>1, FS_EmptySet
  <1>3. NotCalled \in UploadSet /\ NoFetch \in FetcherSet
    BY SomeKeyType, SharedCacheConstants DEF NotCalled, NoFetch, UploadSet, FetcherSet, Reasons
  <1>4. Shape
    BY <1>3, SharedCacheConstants DEF Init, Shape
  <1> QED
    BY <1>2, <1>4, SharedCacheConstants DEF Init, Inv, QueueInv, SlotInv

\* Steps that leave the channel and the counters alone, and every upload that
\* is queued or running as it is, keep the queue and the slots.
LEMMA SlotsUntouched ==
    ASSUME Inv, Shape', UNCHANGED <<queue, counter, done>>,
           \A v \in Uploads : upload[v].pc = "queued" => upload'[v].pc = "queued",
           \A v \in Uploads : upload'[v].pc \in Running <=> upload[v].pc \in Running
    PROVE  Inv'
  <1>1. Uploaders' = Uploaders
    BY DEF Uploaders
  <1>2. SlotInv'
    BY <1>1 DEF Inv, SlotInv
  <1>3. QueueInv'
    BY DEF Inv, Shape, QueueInv
  <1> QED
    BY <1>2, <1>3 DEF Inv

\* store appends to the channel an upload that is not in it, or drops the message.
LEMMA StoreInv ==
    ASSUME Inv, NEW u \in Uploads, NEW k \in Keys, NEW reason \in Reasons, Store(u, k, reason)
    PROVE  Inv'
  <1> DEFINE entry(pc) == [pc |-> pc, key |-> k, reason |-> reason, found |-> FALSE]
  <1>1. upload[u].pc = "new" /\ UNCHANGED <<backend, object, counter, done, fetcher>>
    BY DEF Store
  <1>2. Shape /\ QueueInv /\ SlotInv
    BY DEF Inv
  <1>3. ASSUME NEW pc \in {"queued", "over"}, upload' = [upload EXCEPT ![u] = entry(pc)]
        PROVE  /\ upload' \in [Uploads -> UploadSet]
               /\ upload'[u].pc = pc
               /\ \A v \in Uploads \ {u} : upload'[v] = upload[v]
               /\ Uploaders' = Uploaders
    <2>1. entry(pc) \in UploadSet /\ entry(pc).pc = pc /\ pc \notin Running
      BY <1>3 DEF UploadSet, Running
    <2> QED
      BY <1>1, <1>2, <1>3, <2>1 DEF Shape, Uploaders, Running
  <1>4. CASE Len(queue) < MaxQueue /\ queue' = Append(queue, u)
             /\ upload' = [upload EXCEPT ![u] = entry("queued")]
             /\ receiver' = [receiver EXCEPT ![u] = "waiting"]
    <2>1. Shape'
      BY <1>1, <1>2, <1>3, <1>4, SharedCacheConstants DEF Shape
    <2>2. SlotInv'
      BY <1>1, <1>2, <1>3, <1>4 DEF SlotInv
    <2>3. /\ Len(queue') = Len(queue) + 1 /\ queue'[Len(queue) + 1] = u
          /\ \A i \in 1 .. Len(queue) : queue'[i] = queue[i] /\ queue[i] \in Uploads \ {u}
      BY <1>1, <1>2, <1>4 DEF Shape, QueueInv
    <2>4. \A i \in 1 .. Len(queue') : upload'[queue'[i]].pc = "queued"
      <3> SUFFICES ASSUME NEW i \in 1 .. Len(queue') PROVE upload'[queue'[i]].pc = "queued"
        OBVIOUS
      <3>1. CASE i = Len(queue) + 1
        BY <1>3, <1>4, <2>3, <3>1
      <3>2. CASE i \in 1 .. Len(queue)
        BY <1>2, <1>3, <1>4, <2>3, <3>2 DEF QueueInv
      <3> QED
        BY <1>2, <2>3, <3>1, <3>2 DEF Shape
    <2>5. \A i, j \in 1 .. Len(queue') : queue'[i] = queue'[j] => i = j
      <3>1. \A i \in 1 .. Len(queue') : i \in 1 .. Len(queue) \/ i = Len(queue) + 1
        BY <1>2, <2>3 DEF Shape
      <3> QED
        BY <1>2, <2>3, <3>1 DEF QueueInv
    <2> QED
      BY <2>1, <2>2, <2>4, <2>5 DEF Inv, QueueInv
  <1>5. CASE UNCHANGED queue /\ upload' = [upload EXCEPT ![u] = entry("over")]
             /\ \E r \in {"value", "dropped"} : receiver' = [receiver EXCEPT ![u] = r]
    <2>1. Shape'
      BY <1>1, <1>2, <1>3, <1>5 DEF Shape
    <2>2. SlotInv'
      BY <1>1, <1>2, <1>3, <1>5 DEF SlotInv
    <2>3. \A i \in 1 .. Len(queue) : queue[i] \in Uploads \ {u}
      BY <1>1, <1>2 DEF Shape, QueueInv
    <2>4. QueueInv'
      BY <1>2, <1>3, <1>5, <2>3 DEF QueueInv
    <2> QED
      BY <2>1, <2>2, <2>4 DEF Inv
  <1> QED
    BY <1>4, <1>5 DEF Store

\* A free slot goes to the upload at the head of the queue.
LEMMA SpawnInv == ASSUME Inv, WorkerSpawns PROVE Inv'
  <1> DEFINE u == Head(queue)
             next == [upload[u] EXCEPT !.pc = FirstStep(u)]
  <1>1. Shape /\ QueueInv /\ SlotInv
    BY DEF Inv
  <1>2. /\ queue # <<>> /\ queue' = Tail(queue) /\ u = queue[1] /\ u \in Uploads
        /\ Len(queue) \in Nat \ {0} /\ Len(queue') = Len(queue) - 1
        /\ queue' \in Seq(Uploads)
        /\ \A i \in 1 .. Len(queue') : queue'[i] = queue[i + 1]
    BY <1>1 DEF WorkerSpawns, Shape
  <1>3. counter > 0 /\ counter' = counter - 1 /\ upload' = [upload EXCEPT ![u] = next]
        /\ UNCHANGED <<backend, object, done, receiver, fetcher>>
    BY DEF WorkerSpawns
  <1>4. next \in UploadSet /\ next.pc \in Running
    BY <1>1, <1>2, FirstStepType DEF Shape, UploadSet
  <1>5. upload[u].pc = "queued"
    BY <1>1, <1>2 DEF QueueInv
  <1> HIDE DEF next, u
  <1>6. Shape'
    <2>1. upload' \in [Uploads -> UploadSet]
      BY <1>1, <1>2, <1>3, <1>4 DEF Shape
    <2>2. counter' \in Nat /\ Len(queue') <= MaxQueue
      BY <1>1, <1>2, <1>3, SharedCacheConstants DEF Shape
    <2> QED
      BY <1>1, <1>2, <1>3, <2>1, <2>2 DEF Shape
  <1>7. QueueInv'
    <2>1. \A i \in 1 .. Len(queue') : queue'[i] # u /\ queue'[i] \in Uploads
      BY <1>1, <1>2 DEF Shape, QueueInv
    <2>2. \A i \in 1 .. Len(queue') : upload'[queue'[i]].pc = "queued"
      BY <1>1, <1>2, <1>3, <2>1 DEF Shape, QueueInv
    <2>3. \A i, j \in 1 .. Len(queue') : queue'[i] = queue'[j] => i = j
      BY <1>1, <1>2 DEF QueueInv
    <2> QED
      BY <2>2, <2>3 DEF QueueInv
  <1>8. SlotInv'
    <2>1. u \notin Uploaders /\ Uploaders' = Uploaders \union {u}
      BY <1>1, <1>2, <1>3, <1>4, <1>5 DEF Shape, Uploaders, Running
    <2>2. /\ IsFiniteSet(Uploaders') /\ Cardinality(Uploaders') = Cardinality(Uploaders) + 1
          /\ Cardinality(Uploaders) \in Nat
      BY <1>1, <2>1, FS_AddElement, FS_CardinalityType DEF SlotInv
    <2> QED
      BY <1>1, <1>3, <2>2, SharedCacheConstants DEF SlotInv, Shape
  <1> QED
    BY <1>6, <1>7, <1>8 DEF Inv

\* An uploader that has sent its done message holds its slot no longer.
LEMMA SendDoneInv ==
    ASSUME Inv, NEW u \in Uploads, SendDone(u) PROVE Inv'
  <1>1. Shape /\ QueueInv /\ SlotInv
    BY DEF Inv
  <1>2. /\ upload[u].pc = "finish" /\ done' = done + 1
        /\ upload' = [upload EXCEPT ![u] = [@ EXCEPT !.pc = "notify"]]
        /\ UNCHANGED <<backend, object, queue, counter, receiver, fetcher>>
    BY DEF SendDone, At
  <1>3. /\ upload' \in [Uploads -> UploadSet] /\ upload'[u].pc = "notify"
        /\ \A v \in Uploads \ {u} : upload'[v] = upload[v]
    BY <1>1, <1>2 DEF Shape, UploadSet
  <1>4. Shape'
    BY <1>1, <1>2, <1>3 DEF Shape
  <1>5. QueueInv'
    BY <1>1, <1>2, <1>3 DEF Shape, QueueInv
  <1>6. SlotInv'
    <2>1. u \in Uploaders /\ Uploaders' = Uploaders \ {u}
      BY <1>2, <1>3 DEF Uploaders, Running
    <2>2. /\ IsFiniteSet(Uploaders') /\ Cardinality(Uploaders') = Cardinality(Uploaders) - 1
          /\ Cardinality(Uploaders) \in Nat
      BY <1>1, <2>1, FS_RemoveElement, FS_CardinalityType DEF SlotInv
    <2> QED
      BY <1>1, <1>2, <2>2, SharedCacheConstants DEF SlotInv, Shape
  <1> QED
    BY <1>4, <1>5, <1>6 DEF Inv

\* The upload worker takes a done message for a slot.
LEMMA WorkerCountsInv == ASSUME Inv, WorkerCounts PROVE Inv'
  <1>1. Shape'
    BY DEF Inv, Shape, WorkerCounts
  <1>2. QueueInv' /\ Uploaders' = Uploaders
    BY DEF Inv, QueueInv, WorkerCounts, Uploaders
  <1>3. Cardinality(Uploaders) \in Nat
    BY FS_CardinalityType DEF Inv, SlotInv
  <1>4. SlotInv'
    BY <1>2, <1>3 DEF Inv, Shape, SlotInv, WorkerCounts
  <1> QED
    BY <1>1, <1>2, <1>4 DEF Inv

\* A step from one running place of single_uploader to another holds the slot.
LEMMA UploaderGoesInv ==
    ASSUME Inv, NEW u \in Uploads, upload[u].pc \in Running,
           NEW pc \in Running, NEW f \in BOOLEAN,
           upload' = [upload EXCEPT ![u] = [@ EXCEPT !.pc = pc, !.found = f]]
                \/ upload' = [upload EXCEPT ![u] = [@ EXCEPT !.pc = pc]],
           object' \in [Keys -> Objects \union {NoObject}],
           UNCHANGED <<backend, queue, counter, done, receiver, fetcher>>
    PROVE  Inv'
  <1>1. upload \in [Uploads -> UploadSet]
    BY DEF Inv, Shape
  <1>2. upload' \in [Uploads -> UploadSet] /\ upload'[u].pc = pc
        /\ \A v \in Uploads \ {u} : upload'[v] = upload[v]
    <2>1. ASSUME NEW r \in UploadSet, upload' = [upload EXCEPT ![u] = r], r.pc = pc
          PROVE  upload' \in [Uploads -> UploadSet] /\ upload'[u].pc = pc
                 /\ \A v \in Uploads \ {u} : upload'[v] = upload[v]
      BY <1>1, <2>1
    <2>2. upload[u] \in UploadSet
      BY <1>1
    <2>3. /\ [upload[u] EXCEPT !.pc = pc, !.found = f] \in UploadSet
          /\ [upload[u] EXCEPT !.pc = pc, !.found = f].pc = pc
          /\ [upload[u] EXCEPT !.pc = pc] \in UploadSet
          /\ [upload[u] EXCEPT !.pc = pc].pc = pc
      BY <2>2 DEF UploadSet
    <2> QED
      BY <2>1, <2>3
  <1>3. Shape'
    BY <1>2 DEF Inv, Shape
  <1>4. upload[u].pc # "queued"
    BY DEF Running
  <1> QED
    BY <1>2, <1>3, <1>4, SlotsUntouched

\* Every step of an uploader: one of them gives its slot back, the others hold it.
LEMMA UploaderStepInv ==
    ASSUME Inv, NEW u \in Uploads, UploaderStep(u) \/ MetadataRead(u)
    PROVE  Inv'
  <1>1. /\ upload[u] \in UploadSet /\ upload[u].key \in Keys
        /\ object \in [Keys -> Objects \union {NoObject}] /\ u \in Objects
    BY DEF Inv, Shape, UploadSet, Objects
  <1>2. CASE ExistsAnswered(u)
    BY <1>1, <1>2, UploaderGoesInv DEF ExistsAnswered, At, Running
  <1>3. CASE ExistsFails(u)
    BY <1>1, <1>3, UploaderGoesInv DEF ExistsFails, At, Goes, Running
  <1>4. CASE MetadataRead(u)
    <2> DEFINE pc == IF upload[u].found THEN "finish" ELSE "send"
    <2>1. pc \in Running
      BY DEF Running
    <2>2. /\ upload[u].pc \in Running
          /\ upload' = [upload EXCEPT ![u] = [@ EXCEPT !.pc = pc]]
          /\ UNCHANGED <<object, backend, queue, counter, done, receiver, fetcher>>
      BY <1>4 DEF MetadataRead, At, Goes, Running
    <2> HIDE DEF pc
    <2> QED
      BY <1>1, <2>1, <2>2, UploaderGoesInv
  <1>5. CASE UploadAnswered(u)
    <2>1. object' \in [Keys -> Objects \union {NoObject}]
      BY <1>1, <1>5 DEF UploadAnswered
    <2> QED
      BY <1>1, <1>5, <2>1, UploaderGoesInv DEF UploadAnswered, At, Goes, Running
  <1>6. CASE UploadFails(u)
    BY <1>1, <1>6, UploaderGoesInv DEF UploadFails, At, Goes, Running
  <1>7. CASE FsStoreChecks(u)
    BY <1>1, <1>7, UploaderGoesInv DEF FsStoreChecks, At, Goes, Running
  <1>8. CASE FsStorePersists(u)
    <2>1. object' \in [Keys -> Objects \union {NoObject}]
      BY <1>1, <1>8 DEF FsStorePersists
    <2> QED
      BY <1>1, <1>8, <2>1, UploaderGoesInv DEF FsStorePersists, At, Goes, Running
  <1>9. CASE SendDone(u)
    BY <1>9, SendDoneInv
  <1>10. CASE SendComplete(u)
    <2>1. /\ upload[u].pc = "notify" /\ upload' = [upload EXCEPT ![u] = [@ EXCEPT !.pc = "over"]]
          /\ receiver' = [receiver EXCEPT ![u] = "value"]
          /\ UNCHANGED <<backend, object, queue, counter, done, fetcher>>
      BY <1>10 DEF SendComplete, At
    <2>2. /\ upload' \in [Uploads -> UploadSet] /\ upload'[u].pc = "over"
          /\ \A v \in Uploads \ {u} : upload'[v] = upload[v]
      BY <2>1 DEF Inv, Shape, UploadSet
    <2>3. Shape'
      BY <2>1, <2>2 DEF Inv, Shape
    <2> QED
      BY <2>1, <2>2, <2>3, SlotsUntouched DEF Running
  <1> QED
    BY <1>2, <1>3, <1>4, <1>5, <1>6, <1>7, <1>8, <1>9, <1>10 DEF UploaderStep

\* Other instances and callers of fetch do not touch the uploads of this one.
LEMMA OthersInv ==
    ASSUME Inv, \/ \E o \in Others, k \in Keys : OtherInstance(o, k)
                \/ \E k \in Keys : FetchStarts(k)
                \/ \E n \in 1 .. Chunks : FetchCopies(n)
                \/ FetchFails \/ FetchReturns
    PROVE  Inv'
  <1>1. fetcher \in FetcherSet /\ NoFetch \in FetcherSet
    BY SomeKeyType, SharedCacheConstants DEF Inv, Shape, NoFetch, FetcherSet
  <1>2. ASSUME NEW o \in Others, NEW k \in Keys, OtherInstance(o, k)
        PROVE  Shape' /\ UNCHANGED uploadVars
    BY <1>2 DEF Inv, Shape, OtherInstance, uploadVars, Objects
  <1>3. ASSUME NEW f \in FetcherSet, Fetching(f) PROVE Shape' /\ UNCHANGED uploadVars
    BY <1>3 DEF Inv, Shape, Fetching, uploadVars
  <1>4. ASSUME NEW k \in Keys, FetchStarts(k) PROVE Shape' /\ UNCHANGED uploadVars
    <2> DEFINE f == [pc |-> IF object[k] = NoObject THEN "miss" ELSE "copy", key |-> k,
                     written |-> 0]
    <2>1. f \in FetcherSet /\ Fetching(f)
      BY <1>4, SharedCacheConstants DEF FetchStarts, FetcherSet
    <2> QED
      BY <1>3, <2>1
  <1>5. ASSUME NEW n \in 1 .. Chunks, FetchCopies(n) PROVE Shape' /\ UNCHANGED uploadVars
    <2> DEFINE f == [fetcher EXCEPT !.written = @ + n,
                        !.pc = IF fetcher.written + n = Chunks THEN "hit" ELSE "copy"]
    <2>1. fetcher.written + n <= Chunks /\ Fetching(f)
      BY <1>5 DEF FetchCopies
    <2>2. fetcher.written + n \in 0 .. Chunks
      BY <1>1, <2>1, SharedCacheConstants DEF FetcherSet
    <2>3. f \in FetcherSet
      BY <1>1, <2>2 DEF FetcherSet
    <2> HIDE DEF f
    <2> QED
      BY <1>3, <2>1, <2>3
  <1>6. ASSUME FetchFails PROVE Shape' /\ UNCHANGED uploadVars
    <2>1. [fetcher EXCEPT !.pc = "miss"] \in FetcherSet
      BY <1>1 DEF FetcherSet
    <2> QED
      BY <1>3, <1>6, <2>1 DEF FetchFails
  <1>7. ASSUME FetchReturns PROVE Shape' /\ UNCHANGED uploadVars
    BY <1>1, <1>3, <1>7 DEF FetchReturns
  <1>8. Shape' /\ UNCHANGED uploadVars
    BY <1>2, <1>4, <1>5, <1>6, <1>7
  <1> QED
    BY <1>8, SlotsUntouched DEF uploadVars

\* Inv is inductive.
LEMMA NextInv == Inv /\ [Next]_vars => Inv'
  <1> SUFFICES ASSUME Inv, [Next]_vars PROVE Inv'
    OBVIOUS
  <1>1. ASSUME NEW u \in Uploads, NEW k \in Keys, NEW reason \in Reasons, Store(u, k, reason)
        PROVE  Inv'
    BY <1>1, StoreInv
  <1>2. ASSUME NEW u \in Uploads, UploaderStep(u) \/ MetadataRead(u) PROVE Inv'
    BY <1>2, UploaderStepInv
  <1>3. CASE WorkerStep
    BY <1>3, SpawnInv, WorkerCountsInv DEF WorkerStep
  <1>4. CASE \/ \E o \in Others, k \in Keys : OtherInstance(o, k)
             \/ \E k \in Keys : FetchStarts(k)
             \/ \E n \in 1 .. Chunks : FetchCopies(n)
             \/ FetchFails \/ FetchReturns
    BY <1>4, OthersInv
  <1>5. CASE UNCHANGED vars
    <2>1. Shape'
      BY <1>5 DEF Inv, Shape, vars
    <2> QED
      BY <1>5, <2>1, SlotsUntouched DEF vars
  <1> QED
    BY <1>1, <1>2, <1>3, <1>4, <1>5 DEF Next

\* Every step preserves that no uploader to GCS is where those to files are.
LEMMA NextGcsInv == Inv /\ GcsInv /\ [Next]_vars => GcsInv'
  <1> SUFFICES ASSUME Inv, GcsInv, [Next]_vars, backend' = "gcs", NEW v \in Uploads
               PROVE  upload'[v].pc \notin {"check", "copy"}
    BY DEF GcsInv
  <1>1. upload \in [Uploads -> UploadSet] /\ queue \in Seq(Uploads)
    BY DEF Inv, Shape
  <1>2. ASSUME NEW u \in Uploads, NEW k \in Keys, NEW reason \in Reasons, Store(u, k, reason)
        PROVE  upload'[v].pc \notin {"check", "copy"}
    BY <1>1, <1>2 DEF Store, GcsInv
  <1>3. ASSUME NEW u \in Uploads, UploaderStep(u) \/ MetadataRead(u)
        PROVE  upload'[v].pc \notin {"check", "copy"}
    <2>1. backend = "gcs" /\ upload[u].pc \notin {"check", "copy"}
      BY <1>3 DEF GcsInv, UploaderStep, ExistsAnswered, ExistsFails, MetadataRead,
         UploadAnswered, UploadFails, FsStoreChecks, FsStorePersists, SendDone, SendComplete,
         Goes
    <2>2. ASSUME NEW pc \in {"metadata", "send", "finish", "notify", "over"}, NEW f,
                 \/ upload' = [upload EXCEPT ![u] = [@ EXCEPT !.pc = pc]]
                 \/ upload' = [upload EXCEPT ![u] = [@ EXCEPT !.pc = pc, !.found = f]]
          PROVE  upload'[v].pc \notin {"check", "copy"}
      <3>1. upload[u] \in UploadSet
        BY <1>1
      <3>2. /\ [upload[u] EXCEPT !.pc = pc].pc = pc
            /\ [upload[u] EXCEPT !.pc = pc, !.found = f].pc = pc
        BY <3>1 DEF UploadSet
      <3>3. upload'[u].pc = pc /\ (v # u => upload'[v] = upload[v])
        BY <1>1, <2>2, <3>2
      <3> QED
        BY <2>1, <3>3 DEF GcsInv
    <2>3. CASE MetadataRead(u)
      <3>1. \E pc \in {"send", "finish"} : upload' = [upload EXCEPT ![u] = [@ EXCEPT !.pc = pc]]
        BY <2>3 DEF MetadataRead, Goes
      <3> QED
        BY <2>2, <3>1
    <2>4. CASE ExistsAnswered(u)
      BY <2>2, <2>4 DEF ExistsAnswered
    <2>5. CASE ExistsFails(u) \/ UploadAnswered(u) \/ UploadFails(u)
      BY <2>2, <2>5 DEF ExistsFails, UploadAnswered, UploadFails, Goes
    <2>6. CASE FsStoreChecks(u) \/ FsStorePersists(u)
      BY <2>1, <2>6 DEF FsStoreChecks, FsStorePersists, At
    <2>7. CASE SendDone(u) \/ SendComplete(u)
      BY <2>2, <2>7 DEF SendDone, SendComplete
    <2> QED
      BY <1>3, <2>3, <2>4, <2>5, <2>6, <2>7 DEF UploaderStep
  <1>4. CASE WorkerSpawns
    <2>1. Head(queue) \in Uploads /\ backend = "gcs"
      BY <1>1, <1>4 DEF WorkerSpawns
    <2>2. FirstStep(Head(queue)) \notin {"check", "copy"}
      BY <2>1 DEF FirstStep
    <2> QED
      BY <1>1, <1>4, <2>1, <2>2 DEF WorkerSpawns, GcsInv
  <1>5. CASE \/ WorkerCounts \/ UNCHANGED vars
             \/ \E o \in Others, k \in Keys : OtherInstance(o, k)
             \/ \E k \in Keys : FetchStarts(k)
             \/ \E n \in 1 .. Chunks : FetchCopies(n)
             \/ FetchFails \/ FetchReturns
    BY <1>5 DEF GcsInv, WorkerCounts, vars, OtherInstance, uploadVars, FetchStarts, FetchCopies,
       FetchFails, FetchReturns, Fetching
  <1> QED
    BY <1>2, <1>3, <1>4, <1>5 DEF Next, WorkerStep

\* What each step may do to the object of a key in GCS that has one: nothing.
LEMMA StepStoresOnce ==
    Inv /\ GcsInv /\ [Next]_vars
        => \A k \in Keys : backend = "gcs" /\ object[k] # NoObject => object'[k] = object[k]
  <1> SUFFICES ASSUME Inv, GcsInv, [Next]_vars,
                      NEW k \in Keys, backend = "gcs", object[k] # NoObject
               PROVE  object'[k] = object[k]
    OBVIOUS
  <1>1. object \in [Keys -> Objects \union {NoObject}]
    BY DEF Inv, Shape
  <1>2. ASSUME NEW u \in Uploads, UploadAnswered(u) PROVE object'[k] = object[k]
    <2>1. upload[u].key \in Keys
      BY DEF Inv, Shape, UploadSet
    <2> QED
      BY <1>1, <1>2, <2>1 DEF UploadAnswered
  <1>3. ASSUME NEW u \in Uploads, FsStorePersists(u) PROVE FALSE
    BY <1>3 DEF FsStorePersists, At, GcsInv
  <1>4. ASSUME NEW o \in Others, NEW j \in Keys, OtherInstance(o, j)
        PROVE  object'[k] = object[k]
    BY <1>1, <1>4 DEF OtherInstance
  <1>5. ASSUME NEW u \in Uploads, UploaderStep(u) \/ MetadataRead(u)
        PROVE  object'[k] = object[k]
    BY <1>2, <1>3, <1>5 DEF UploaderStep, ExistsAnswered, ExistsFails, MetadataRead, UploadFails,
       FsStoreChecks, SendDone, SendComplete
  <1>6. CASE \/ \E u \in Uploads, j \in Keys, reason \in Reasons : Store(u, j, reason)
             \/ WorkerStep \/ UNCHANGED vars
             \/ \E j \in Keys : FetchStarts(j)
             \/ \E n \in 1 .. Chunks : FetchCopies(n)
             \/ FetchFails \/ FetchReturns
    BY <1>6 DEF Store, WorkerStep, WorkerSpawns, WorkerCounts, vars, FetchStarts, FetchCopies,
       FetchFails, FetchReturns, Fetching
  <1> QED
    BY <1>4, <1>5, <1>6 DEF Next

\* The invariant holds of every behaviour of the service.
LEMMA AlwaysInv == Spec => [](Inv /\ GcsInv)
  <1>1. Init => Inv /\ GcsInv
    BY InitInv DEF Init, GcsInv, NotCalled
  <1> QED
    BY <1>1, NextInv, NextGcsInv, PTL DEF Spec

-----------------------------------------------------------------------------
(* Theorems *)

\* Every variable keeps its type: in particular the channels of store and of the
\* uploaders never hold more than their capacity.
THEOREM TypeCorrect == Spec => []TypeOK
  BY AlwaysInv, InvBounds, PTL

\* The slots of upload_worker are conserved, whichever way single_uploader ends.
THEOREM SlotsConserved == Spec => []UploadsBounded
  BY AlwaysInv, InvBounds, PTL

\* An object in GCS is never replaced, although GcsState::exists and
\* GcsState::store are two requests and other instances write in between.
THEOREM NeverReplaced == Spec => StoredOnce
  BY AlwaysInv, StepStoresOnce, PTL DEF Spec, StoredOnce
=============================================================================
