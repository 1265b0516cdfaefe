----------------------------- MODULE SourceIndex -----------------------------
(***************************************************************************)
(* The index service of a Symstore source.  The source numbers its         *)
(* uploads; lastid.txt holds the newest number and each upload has an      *)
(* index segment.  A request first needs the last id, memoised in memory,  *)
(* then the index of that id, which is put together from the segments one  *)
(* after the other.  Index and segments go through cachers, where an entry *)
(* is computed once and its errors are retried after they expired.         *)
(***************************************************************************)
EXTENDS Integers, Sequences

CONSTANTS Requests,
          LastIdMax,         \* largest last id an index is built for (10_000)
          MaxPublished,      \* bound: uploads to the source
          MaxFaults   \* bound: failed downloads, evicted entries and removed files

\* The numbers of uploads begin with 1.
ASSUME SourceIndexConstants == MaxPublished \in Nat \ {0} /\ LastIdMax \in Nat /\ MaxFaults \in Nat

VARIABLES published,   \* the number in lastid.txt
          lastId,      \* memoised last id: state, id, expired, and the request computing it
          segments,    \* cached segments
          index,       \* cached index per last id
          lookup,      \* per request: pc, the last id it was given, the index it got
          faults

indexState == <<published, lastId, segments, index, lookup>>
indexVars  == <<indexState, faults>>

Nobody == "nobody"

\* An index is the set of the segments it was read from: parsing, writing and
\* loading it keep the paths of every segment.
EmptyIndex == {}

Appended(idx, segment) == idx \union {segment}

IndexContains(idx, segment) == segment \in idx

IndexInit ==
    /\ published = 1
    /\ lastId = [state |-> "absent", id |-> 0, expired |-> FALSE, by |-> Nobody]
    /\ segments = [i \in 1 .. MaxPublished |-> "absent"]
    /\ index = [n \in 1 .. MaxPublished |-> [state |-> "absent", got |-> {}, by |-> Nobody]]
    /\ lookup = [r \in Requests |-> [pc |-> "lastid", id |-> 0, got |-> EmptyIndex]]
    /\ faults = 0

-----------------------------------------------------------------------------
(* The last id *)

\* What a request does with the memoised outcome: an error leaves it with
\* an empty index.
WithLastId(r, entry) ==
    lookup' = [lookup EXCEPT ![r] = IF entry.state = "ok" THEN [@ EXCEPT !.pc = "index", !.id = entry.id]
                                    ELSE [@ EXCEPT !.pc = "done", !.got = EmptyIndex]]

LastIdReused(r) ==
    /\ lookup[r].pc = "lastid"
    /\ lastId.by = Nobody /\ lastId.state # "absent" /\ ~lastId.expired
    /\ WithLastId(r, lastId)
    /\ UNCHANGED <<published, lastId, segments, index, faults>>

\* The entry is locked while its closure runs.
LastIdRequested(r) ==
    /\ lookup[r].pc = "lastid"
    /\ lastId.by = Nobody /\ (lastId.state = "absent" \/ lastId.expired)
    /\ lastId' = [lastId EXCEPT !.by = r]
    /\ UNCHANGED <<published, segments, index, lookup, faults>>

\* Mutant of Refreshed: a failure replaces whatever was memoised.
RefreshedForgetting(ok) ==
    [state |-> IF ok THEN "ok" ELSE "error", id |-> IF ok THEN published ELSE 0, expired |-> FALSE, by |-> Nobody]

\* A failure does not replace an expired success but makes it last again.
Refreshed(ok) ==
    IF ok THEN [state |-> "ok", id |-> published, expired |-> FALSE, by |-> Nobody]
    ELSE IF lastId.state = "ok" THEN [lastId EXCEPT !.expired = FALSE, !.by = Nobody]
    ELSE [state |-> "error", id |-> 0, expired |-> FALSE, by |-> Nobody]

LastIdFetched(r, ok) ==
    /\ lookup[r].pc = "lastid" /\ lastId.by = r
    /\ ok \/ faults < MaxFaults
    /\ faults' = IF ok THEN faults ELSE faults + 1
    /\ lastId' = Refreshed(ok)
    /\ WithLastId(r, lastId')
    /\ UNCHANGED <<published, segments, index>>

LastIdExpires ==
    /\ lastId.state # "absent" /\ ~lastId.expired
    /\ published > lastId.id   \* otherwise nothing would change
    /\ lastId' = [lastId EXCEPT !.expired = TRUE]
    /\ UNCHANGED <<published, segments, index, lookup, faults>>

-----------------------------------------------------------------------------
(* The index of a last id *)

IndexFound(r) ==
    LET e == index[lookup[r].id]
    IN  /\ lookup[r].pc = "index"
        /\ e.state \in {"ok", "error"}
        /\ lookup' = [lookup EXCEPT ![r].pc = "done", ![r].got = IF e.state = "ok" THEN e.got ELSE EmptyIndex]
        /\ UNCHANGED <<published, lastId, segments, index, faults>>

IndexStarted(r) ==
    /\ lookup[r].pc = "index" /\ index[lookup[r].id].state = "absent"
    /\ index' = [index EXCEPT ![lookup[r].id] =
                    IF lookup[r].id > LastIdMax THEN [@ EXCEPT !.state = "error"]
                    ELSE [state |-> "computing", got |-> {}, by |-> r]]
    /\ UNCHANGED <<published, lastId, segments, lookup, faults>>

Computing(r, n) == lookup[r].pc = "index" /\ lookup[r].id = n /\ index[n].state = "computing" /\ index[n].by = r

NextSegment(n) == CHOOSE i \in 1 .. n + 1 : i \notin index[n].got /\ 1 .. i - 1 \subseteq index[n].got

SegmentDownloaded(r, ok) ==
    LET n == lookup[r].id
    IN  /\ Computing(r, n) /\ NextSegment(n) <= n
        /\ segments[NextSegment(n)] = "absent"
        /\ ok \/ faults < MaxFaults
        /\ faults' = IF ok THEN faults ELSE faults + 1
        /\ segments' = [segments EXCEPT ![NextSegment(n)] = IF ok THEN "ok" ELSE "error"]
        /\ UNCHANGED <<published, lastId, index, lookup>>

\* Mutant of SegmentAppended: a failed segment is skipped.
SegmentAppendedSkipping(r) ==
    LET n == lookup[r].id
    IN  /\ Computing(r, n) /\ NextSegment(n) <= n
        /\ segments[NextSegment(n)] # "absent"
        /\ index' = [index EXCEPT ![n] =
                        IF segments[NextSegment(n)] = "ok" THEN [index[n] EXCEPT !.got = Appended(index[n].got, NextSegment(n))]
                        ELSE [state |-> "ok", got |-> index[n].got, by |-> Nobody]]
        /\ UNCHANGED <<published, lastId, segments, lookup, faults>>

\* One failed segment fails the whole index.
SegmentAppended(r) ==
    LET n == lookup[r].id
    IN  /\ Computing(r, n) /\ NextSegment(n) <= n
        /\ segments[NextSegment(n)] # "absent"
        /\ index' = [index EXCEPT ![n] =
                        IF segments[NextSegment(n)] = "ok" THEN [index[n] EXCEPT !.got = Appended(index[n].got, NextSegment(n))]
                        ELSE [state |-> "error", got |-> {}, by |-> Nobody]]
        /\ UNCHANGED <<published, lastId, segments, lookup, faults>>

IndexWritten(r) ==
    LET n == lookup[r].id
    IN  /\ Computing(r, n) /\ NextSegment(n) > n
        /\ index' = [index EXCEPT ![n].state = "ok", ![n].by = Nobody]
        /\ UNCHANGED <<published, lastId, segments, lookup, faults>>

ErrorsExpire ==
    /\ \E i \in DOMAIN segments : segments[i] = "error"
    /\ segments' = [i \in DOMAIN segments |-> IF segments[i] = "error" THEN "absent" ELSE segments[i]]
    /\ index' = [n \in DOMAIN index |-> IF index[n].state = "error" THEN [index[n] EXCEPT !.state = "absent"] ELSE index[n]]
    /\ UNCHANGED <<published, lastId, lookup, faults>>

Publish ==
    /\ published < MaxPublished
    /\ published' = published + 1
    /\ UNCHANGED <<lastId, segments, index, lookup, faults>>

IndexStep(r) ==
    \/ LastIdReused(r) \/ LastIdRequested(r) \/ \E ok \in BOOLEAN : LastIdFetched(r, ok)
    \/ IndexFound(r) \/ IndexStarted(r) \/ \E ok \in BOOLEAN : SegmentDownloaded(r, ok)
    \/ SegmentAppended(r) \/ IndexWritten(r)

IndexEnvironment == LastIdExpires \/ ErrorsExpire \/ Publish

-----------------------------------------------------------------------------
(* Properties *)

\* download_full_index: an index that is cached as a success holds every
\* segment up to its last id, and so does the index any request works with,
\* unless it was disabled as a whole.
IndexComplete ==
    /\ \A n \in DOMAIN index : index[n].state = "ok" => index[n].got = 1 .. n
    /\ \A r \in Requests : lookup[r].pc = "done" => lookup[r].got \in {EmptyIndex, 1 .. lookup[r].id}

\* fetch_symstore_last_id_memoized: a last id that was fetched once is never
\* lost to a later failure, and never goes back.
LastIdKept ==
    [][lastId.state = "ok" => lastId'.state = "ok" /\ lastId'.id >= lastId.id]_indexVars
=============================================================================
