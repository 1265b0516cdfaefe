-------------------------- MODULE ObjectLookupProofs --------------------------
(***************************************************************************)
(* Theorems about ObjectLookup and SourceIndex, for any catalog, requests, *)
(* uploads and faults.                                                     *)
(***************************************************************************)
EXTENDS ObjectLookup, Recursion, SequenceTheorems

-----------------------------------------------------------------------------
(* The index of a Symstore source *)

LastIdSet == [state : {"absent", "ok", "error"}, id : Nat, expired : BOOLEAN, by : Requests \union {Nobody}]
IndexSet  == [state : {"absent", "computing", "ok", "error"}, got : SUBSET Nat, by : Requests \union {Nobody}]
LookupSet == [pc : {"lastid", "index", "done"}, id : Nat, got : SUBSET Nat]

IndexTypes ==
    /\ published \in 1 .. MaxPublished
    /\ lastId \in LastIdSet
    /\ segments \in [1 .. MaxPublished -> {"absent", "ok", "error"}]
    /\ index \in [1 .. MaxPublished -> IndexSet]
    /\ lookup \in [Requests -> LookupSet]

\* The segments of an index arrive in order.
EntryInv(n) ==
    /\ index[n].state = "computing" => \E k \in 0 .. n : index[n].got = 1 .. k
    /\ index[n].state = "ok" => index[n].got = 1 .. n

LookupInv(r) ==
    /\ lookup[r].pc = "index" => lookup[r].id \in 1 .. MaxPublished
    /\ lookup[r].pc = "done" => lookup[r].got \in {EmptyIndex, 1 .. lookup[r].id}

(***************************************************************************)
(* A last id is one that was published.  Every entry that is being put     *)
(* together holds the segments up to some number, every other one all or   *)
(* none that count.                                                        *)
(***************************************************************************)
IndexInv ==
    /\ IndexTypes
    /\ lastId.state = "ok" => lastId.id \in 1 .. published
    /\ \A n \in 1 .. MaxPublished : EntryInv(n)
    /\ \A r \in Requests : LookupInv(r)

LEMMA IndexInvImplies == IndexInv => IndexComplete
  BY DEF IndexInv, IndexTypes, EntryInv, LookupInv, IndexComplete

LEMMA IndexInitInv == IndexInit => IndexInv
  <1> SUFFICES ASSUME IndexInit PROVE IndexInv
    OBVIOUS
  <1>1. IndexTypes
    BY SourceIndexConstants DEF IndexInit, IndexTypes, LastIdSet, IndexSet, LookupSet, EmptyIndex
  <1>2. \A n \in 1 .. MaxPublished : EntryInv(n)
    BY DEF IndexInit, EntryInv
  <1>3. \A r \in Requests : LookupInv(r)
    BY DEF IndexInit, LookupInv
  <1> QED
    BY <1>1, <1>2, <1>3 DEF IndexInv, IndexInit

\* A request that goes on with the last id, or without one.
LEMMA WithLastIdInv ==
    ASSUME IndexInv, NEW r \in Requests, NEW e \in LastIdSet, WithLastId(r, e),
           e.state = "ok" => e.id \in 1 .. MaxPublished
    PROVE  lookup' \in [Requests -> LookupSet] /\ \A s \in Requests : LookupInv(s)'
  <1> DEFINE l == IF e.state = "ok" THEN [lookup[r] EXCEPT !.pc = "index", !.id = e.id]
                  ELSE [lookup[r] EXCEPT !.pc = "done", !.got = EmptyIndex]
  <1>1. lookup' = [lookup EXCEPT ![r] = l]
    BY DEF WithLastId
  <1>2. lookup[r] \in LookupSet
    BY DEF IndexInv, IndexTypes
  <1>3. /\ l \in LookupSet /\ l.pc # "lastid"
        /\ l.pc = "index" => l.id \in 1 .. MaxPublished
        /\ l.pc = "done" => l.got = EmptyIndex
    BY <1>2 DEF LookupSet, LastIdSet, EmptyIndex
  <1> HIDE DEF l
  <1>4. /\ lookup' \in [Requests -> LookupSet] /\ lookup'[r] = l
        /\ \A s \in Requests \ {r} : lookup'[s] = lookup[s]
    BY <1>1, <1>3 DEF IndexInv, IndexTypes
  <1>5. LookupInv(r)'
    BY <1>3, <1>4 DEF LookupInv, EmptyIndex
  <1>6. ASSUME NEW s \in Requests \ {r} PROVE LookupInv(s)'
    BY <1>4, <1>6 DEF IndexInv, LookupInv, EmptyIndex
  <1> QED
    BY <1>4, <1>5, <1>6

\* What the download of the last id memoises is never less than what was.
LEMMA RefreshedInv ==
    ASSUME IndexInv, NEW ok \in BOOLEAN
    PROVE  /\ Refreshed(ok) \in LastIdSet
           /\ Refreshed(ok).state = "ok" => Refreshed(ok).id \in 1 .. published
           /\ lastId.state = "ok" => Refreshed(ok).state = "ok" /\ Refreshed(ok).id >= lastId.id
  <1>1. /\ published \in 1 .. MaxPublished /\ lastId \in LastIdSet
        /\ lastId.state = "ok" => lastId.id \in 1 .. published
    BY DEF IndexInv, IndexTypes
  <1>2. CASE ok
    BY <1>1, <1>2, SourceIndexConstants DEF Refreshed, LastIdSet, Nobody
  <1>3. CASE ~ok /\ lastId.state = "ok"
    <2>1. Refreshed(ok) = [lastId EXCEPT !.expired = FALSE, !.by = Nobody]
      BY <1>3 DEF Refreshed
    <2>2. Refreshed(ok) \in LastIdSet /\ Refreshed(ok).state = "ok" /\ Refreshed(ok).id = lastId.id
      BY <2>1, <1>1, <1>3 DEF LastIdSet
    <2>3. lastId.id \in 1 .. published /\ published \in Nat
      BY <1>1, <1>3, SourceIndexConstants
    <2>4. lastId.id >= lastId.id
      BY <2>3
    <2> QED
      BY <2>2, <2>3, <2>4
  <1>4. CASE ~ok /\ lastId.state # "ok"
    BY <1>1, <1>4 DEF Refreshed, LastIdSet
  <1> QED
    BY <1>2, <1>3, <1>4

\* The next segment follows those that have arrived.
LEMMA NextSegmentIs ==
    ASSUME NEW n \in Nat, NEW k \in 0 .. n, index[n].got = 1 .. k
    PROVE  NextSegment(n) = k + 1
  <1>1. k + 1 \in 1 .. n + 1 /\ k + 1 \notin 1 .. k /\ 1 .. (k + 1) - 1 \subseteq 1 .. k
    OBVIOUS
  <1>2. ASSUME NEW i \in 1 .. n + 1, i \notin 1 .. k, 1 .. i - 1 \subseteq 1 .. k
        PROVE  i = k + 1
    <2>1. i > k
      BY <1>2
    <2>2. i > k + 1 => i - 1 \in 1 .. i - 1 /\ i - 1 \notin 1 .. k
      OBVIOUS
    <2> QED
      BY <1>2, <2>1, <2>2
  <1> QED
    BY <1>1, <1>2 DEF NextSegment

\* A step that changes one entry of the index.
LEMMA EntryFrame ==
    ASSUME IndexInv, NEW n \in 1 .. MaxPublished, NEW e \in IndexSet,
           index' = [index EXCEPT ![n] = e],
           e.state = "computing" => \E k \in 0 .. n : e.got = 1 .. k,
           e.state = "ok" => e.got = 1 .. n,
           UNCHANGED <<published, lastId, segments, lookup>>
    PROVE  IndexInv'
  <1>1. /\ index' \in [1 .. MaxPublished -> IndexSet] /\ index'[n] = e
        /\ \A m \in (1 .. MaxPublished) \ {n} : index'[m] = index[m]
    BY DEF IndexInv, IndexTypes
  <1>2. IndexTypes'
    BY <1>1 DEF IndexInv, IndexTypes
  <1>3. EntryInv(n)'
    BY <1>1 DEF EntryInv
  <1>4. ASSUME NEW m \in (1 .. MaxPublished) \ {n} PROVE EntryInv(m)'
    BY <1>1, <1>4 DEF IndexInv, EntryInv
  <1>5. \A r \in Requests : LookupInv(r)'
    BY DEF IndexInv, LookupInv, EmptyIndex
  <1> QED
    BY <1>2, <1>3, <1>4, <1>5 DEF IndexInv

\* The segments that a request appends, or finds failed.
LEMMA AppendedInv ==
    ASSUME IndexInv, NEW r \in Requests, SegmentAppended(r)
    PROVE  IndexInv'
  <1> DEFINE n == lookup[r].id
             m == NextSegment(n)
             e == IF segments[m] = "ok" THEN [index[n] EXCEPT !.got = Appended(index[n].got, m)]
                  ELSE [state |-> "error", got |-> {}, by |-> Nobody]
  <1>1. n \in 1 .. MaxPublished /\ index[n] \in IndexSet /\ index[n].state = "computing"
    BY DEF IndexInv, IndexTypes, LookupInv, SegmentAppended, Computing
  <1>2. PICK k \in 0 .. n : index[n].got = 1 .. k
    BY <1>1 DEF IndexInv, EntryInv
  <1>3. m = k + 1 /\ m <= n
    BY <1>1, <1>2, NextSegmentIs DEF SegmentAppended
  <1>4. index' = [index EXCEPT ![n] = e] /\ UNCHANGED <<published, lastId, segments, lookup>>
    BY DEF SegmentAppended
  <1>5. (1 .. k) \union {k + 1} = 1 .. k + 1 /\ k + 1 \in 0 .. n
    BY <1>1, <1>3
  <1>6. /\ e \in IndexSet
        /\ e.state \in {"computing", "error"}
        /\ e.state = "computing" => e.got = 1 .. k + 1
    <2>1. CASE segments[m] = "ok"
      <3>1. e = [index[n] EXCEPT !.got = 1 .. k + 1]
        BY <2>1, <1>2, <1>3, <1>5 DEF Appended
      <3> QED
        BY <3>1, <1>1 DEF IndexSet
    <2>2. CASE segments[m] # "ok"
      <3>1. e = [state |-> "error", got |-> {}, by |-> Nobody]
        BY <2>2
      <3> QED
        BY <3>1 DEF IndexSet
    <2> QED
      BY <2>1, <2>2
  <1> HIDE DEF e, m, n
  <1> QED
    BY <1>1, <1>4, <1>5, <1>6, EntryFrame

\* The requests of an index source keep the invariant.
LEMMA IndexStepInv ==
    ASSUME IndexInv, NEW r \in Requests, IndexStep(r)
    PROVE  IndexInv'
  <1> DEFINE n == lookup[r].id
  <1>1. /\ IndexTypes /\ lookup[r] \in LookupSet /\ LookupInv(r)
        /\ \A s \in Requests : LookupInv(s)
        /\ lastId.state = "ok" => lastId.id \in 1 .. published /\ lastId.id \in 1 .. MaxPublished
    BY SourceIndexConstants DEF IndexInv, IndexTypes
  <1>2. CASE LastIdReused(r)
    <2>1. lookup' \in [Requests -> LookupSet] /\ \A s \in Requests : LookupInv(s)'
      BY <1>1, <1>2, WithLastIdInv DEF LastIdReused, IndexTypes
    <2> QED
      BY <1>2, <2>1 DEF LastIdReused, IndexInv, IndexTypes, EntryInv
  <1>3. CASE LastIdRequested(r)
    <2>1. /\ lastId' \in LastIdSet /\ lastId'.state = lastId.state /\ lastId'.id = lastId.id
          /\ UNCHANGED <<published, segments, index, lookup>>
      BY <1>1, <1>3 DEF LastIdRequested, IndexTypes, LastIdSet
    <2> QED
      BY <1>1, <2>1 DEF IndexInv, IndexTypes, EntryInv, LookupInv, EmptyIndex
  <1>4. ASSUME NEW ok \in BOOLEAN, LastIdFetched(r, ok) PROVE IndexInv'
    <2>1. lastId' = Refreshed(ok) /\ WithLastId(r, lastId') /\ UNCHANGED <<published, segments, index>>
      BY <1>4 DEF LastIdFetched
    <2>2. lastId' \in LastIdSet /\ (lastId'.state = "ok" => lastId'.id \in 1 .. published)
      BY <2>1, RefreshedInv
    <2>3. lastId'.state = "ok" => lastId'.id \in 1 .. MaxPublished
      BY <2>2, <1>1, SourceIndexConstants DEF IndexTypes
    <2>4. lookup' \in [Requests -> LookupSet] /\ \A s \in Requests : LookupInv(s)'
      BY <2>1, <2>2, <2>3, WithLastIdInv
    <2> QED
      BY <2>1, <2>2, <2>4 DEF IndexInv, IndexTypes, EntryInv
  <1>5. CASE IndexFound(r)
    <2>1. n \in 1 .. MaxPublished /\ index[n] \in IndexSet /\ EntryInv(n)
      BY <1>1, <1>5 DEF IndexFound, IndexInv, IndexTypes, LookupInv
    <2> DEFINE l == [lookup[r] EXCEPT !.pc = "done", !.got = IF index[n].state = "ok" THEN index[n].got ELSE EmptyIndex]
    <2>2. /\ l \in LookupSet /\ l.pc = "done" /\ l.id = n
          /\ l.got \in {EmptyIndex, 1 .. n}
      BY <2>1, <1>1 DEF LookupSet, IndexSet, EntryInv, EmptyIndex
    <2>3. lookup' = [lookup EXCEPT ![r] = l] /\ UNCHANGED <<published, lastId, segments, index>>
      BY <1>5 DEF IndexFound
    <2> HIDE DEF l, n
    <2>4. /\ lookup' \in [Requests -> LookupSet] /\ lookup'[r] = l
          /\ \A s \in Requests \ {r} : lookup'[s] = lookup[s]
      BY <2>2, <2>3, <1>1 DEF IndexTypes
    <2>5. LookupInv(r)'
      BY <2>2, <2>4 DEF LookupInv, EmptyIndex
    <2>6. ASSUME NEW s \in Requests \ {r} PROVE LookupInv(s)'
      BY <1>1, <2>4, <2>6 DEF LookupInv, EmptyIndex
    <2> QED
      BY <2>3, <2>4, <2>5, <2>6 DEF IndexInv, IndexTypes, EntryInv
  <1>6. CASE IndexStarted(r)
    <2>1. n \in 1 .. MaxPublished /\ index[n] \in IndexSet
      BY <1>1, <1>6 DEF IndexStarted, IndexTypes, LookupInv
    <2> DEFINE e == IF n > LastIdMax THEN [index[n] EXCEPT !.state = "error"]
                    ELSE [state |-> "computing", got |-> {}, by |-> r]
    <2>2. index' = [index EXCEPT ![n] = e] /\ UNCHANGED <<published, lastId, segments, lookup>>
      BY <1>6, <2>1, <1>1 DEF IndexStarted, IndexTypes
    <2>3. e \in IndexSet /\ e.state \in {"error", "computing"} /\ (e.state = "computing" => e.got = {})
      BY <2>1 DEF IndexSet
    <2>4. 0 \in 0 .. n /\ 1 .. 0 = {}
      BY <2>1, SourceIndexConstants
    <2> HIDE DEF e, n
    <2>5. e.state = "computing" => \E k \in 0 .. n : e.got = 1 .. k
      BY <2>3, <2>4
    <2> QED
      BY <2>1, <2>2, <2>3, <2>5, EntryFrame
  <1>7. ASSUME NEW ok \in BOOLEAN, SegmentDownloaded(r, ok) PROVE IndexInv'
    <2>1. segments' \in [1 .. MaxPublished -> {"absent", "ok", "error"}] /\ UNCHANGED <<published, lastId, index, lookup>>
      BY <1>1, <1>7 DEF SegmentDownloaded, IndexTypes
    <2> QED
      BY <1>1, <2>1 DEF IndexInv, IndexTypes, EntryInv, LookupInv, EmptyIndex
  <1>8. CASE SegmentAppended(r)
    BY <1>8, AppendedInv
  <1>9. CASE IndexWritten(r)
    <2>1. n \in 1 .. MaxPublished /\ index[n] \in IndexSet /\ index[n].state = "computing"
      BY <1>1, <1>9 DEF IndexWritten, Computing, IndexTypes, LookupInv
    <2>2. PICK k \in 0 .. n : index[n].got = 1 .. k
      BY <2>1 DEF IndexInv, EntryInv
    <2>3. k = n
      BY <2>1, <2>2, <1>9, NextSegmentIs DEF IndexWritten
    <2> DEFINE e == [index[n] EXCEPT !.state = "ok", !.by = Nobody]
    <2>4. index' = [index EXCEPT ![n] = e] /\ UNCHANGED <<published, lastId, segments, lookup>>
      BY <1>9, <2>1, <1>1 DEF IndexWritten, IndexTypes
    <2>5. e \in IndexSet /\ e.state = "ok" /\ e.got = 1 .. n
      BY <2>1, <2>2, <2>3 DEF IndexSet
    <2> HIDE DEF e, n
    <2> QED
      BY <2>1, <2>4, <2>5, EntryFrame
  <1> QED
    BY <1>2, <1>3, <1>4, <1>5, <1>6, <1>7, <1>8, <1>9 DEF IndexStep

\* So do expiry and the uploads of the source.
LEMMA IndexEnvironmentInv == IndexInv /\ IndexEnvironment => IndexInv'
  <1> SUFFICES ASSUME IndexInv, IndexEnvironment PROVE IndexInv'
    OBVIOUS
  <1>1. CASE LastIdExpires
    <2>1. /\ lastId' \in LastIdSet /\ lastId'.state = lastId.state /\ lastId'.id = lastId.id
          /\ UNCHANGED <<published, segments, index, lookup>>
      BY <1>1 DEF LastIdExpires, IndexInv, IndexTypes, LastIdSet
    <2> QED
      BY <2>1 DEF IndexInv, IndexTypes, EntryInv, LookupInv, EmptyIndex
  <1>2. CASE ErrorsExpire
    <2>1. ASSUME NEW n \in 1 .. MaxPublished
          PROVE  /\ index'[n] \in IndexSet /\ index'[n].got = index[n].got
                 /\ index'[n].state # "absent" => index'[n].state = index[n].state
      BY <1>2 DEF ErrorsExpire, IndexInv, IndexTypes, IndexSet
    <2>2. /\ DOMAIN index' = 1 .. MaxPublished /\ index' = [n \in 1 .. MaxPublished |-> index'[n]]
          /\ segments' \in [1 .. MaxPublished -> {"absent", "ok", "error"}]
          /\ UNCHANGED <<published, lastId, lookup>>
      BY <1>2 DEF ErrorsExpire, IndexInv, IndexTypes
    <2>3. ASSUME NEW n \in 1 .. MaxPublished PROVE EntryInv(n)'
      BY <2>1, <2>3 DEF IndexInv, EntryInv
    <2> QED
      BY <2>1, <2>2, <2>3 DEF IndexInv, IndexTypes, LookupInv, EmptyIndex
  <1>3. CASE Publish
    <2>1. published' \in 1 .. MaxPublished /\ published' = published + 1 /\ published \in Nat
          /\ UNCHANGED <<lastId, segments, index, lookup>>
      BY <1>3, SourceIndexConstants DEF Publish, IndexInv, IndexTypes
    <2>2. lastId.id \in 1 .. published => lastId.id \in 1 .. published'
      BY <2>1
    <2> QED
      BY <2>1, <2>2 DEF IndexInv, IndexTypes, EntryInv, LookupInv, EmptyIndex
  <1> QED
    BY <1>1, <1>2, <1>3 DEF IndexEnvironment

\* A step of the index never loses a last id nor takes it back.
LEMMA LastIdStep ==
    ASSUME IndexInv, IndexEnvironment \/ \E r \in Requests : IndexStep(r), lastId.state = "ok"
    PROVE  lastId'.state = "ok" /\ lastId'.id >= lastId.id
  <1>1. lastId \in LastIdSet /\ lastId.id \in Nat /\ lastId.id >= lastId.id
    BY DEF IndexInv, IndexTypes, LastIdSet
  <1>2. \/ lastId' = lastId \/ (\E r \in Requests : lastId' = [lastId EXCEPT !.by = r])
        \/ lastId' = [lastId EXCEPT !.expired = TRUE]
        \/ \E ok \in BOOLEAN : lastId' = Refreshed(ok)
    BY DEF IndexStep, IndexEnvironment, LastIdReused, LastIdRequested, LastIdFetched, IndexFound, IndexStarted,
           SegmentDownloaded, SegmentAppended, IndexWritten, LastIdExpires, ErrorsExpire, Publish
  <1>3. CASE lastId' = lastId
    BY <1>1, <1>3
  <1>4. CASE \E r \in Requests : lastId' = [lastId EXCEPT !.by = r]
    <2>1. lastId'.state = lastId.state /\ lastId'.id = lastId.id
      BY <1>1, <1>4 DEF LastIdSet
    <2> QED
      BY <1>1, <2>1
  <1>5. CASE lastId' = [lastId EXCEPT !.expired = TRUE]
    <2>1. lastId'.state = lastId.state /\ lastId'.id = lastId.id
      BY <1>1, <1>5 DEF LastIdSet
    <2> QED
      BY <1>1, <2>1
  <1>6. CASE \E ok \in BOOLEAN : lastId' = Refreshed(ok)
    BY <1>6, RefreshedInv
  <1> QED
    BY <1>2, <1>3, <1>4, <1>5, <1>6

\* What the rest of an object lookup does leaves the index alone, or makes a
\* request look at the last id again.
LEMMA IndexFrame ==
    ASSUME IndexInv, UNCHANGED <<published, lastId, segments, index>>,
           lookup' = lookup \/ \E r \in Requests : lookup' = [lookup EXCEPT ![r].pc = "lastid"]
    PROVE  IndexInv'
  <1>1. CASE lookup' = lookup
    BY <1>1 DEF IndexInv, IndexTypes, EntryInv, LookupInv, EmptyIndex
  <1>2. ASSUME NEW r \in Requests, lookup' = [lookup EXCEPT ![r].pc = "lastid"] PROVE IndexInv'
    <2>1. /\ lookup' \in [Requests -> LookupSet] /\ lookup'[r].pc = "lastid"
          /\ \A s \in Requests \ {r} : lookup'[s] = lookup[s]
      BY <1>2 DEF IndexInv, IndexTypes, LookupSet
    <2>2. ASSUME NEW s \in Requests PROVE LookupInv(s)'
      BY <2>1 DEF IndexInv, LookupInv, EmptyIndex
    <2> QED
      BY <2>1, <2>2 DEF IndexInv, IndexTypes, EntryInv
  <1> QED
    BY <1>1, <1>2

-----------------------------------------------------------------------------
(* Names of files and keys of caches *)

\* Sequences of files that name none twice.
LEMMA CatalogNames ==
    /\ Len(Catalog) \in Nat /\ DOMAIN Catalog = 1 .. Len(Catalog)
    /\ \A i, j \in DOMAIN Catalog : Catalog[i].name = Catalog[j].name => i = j
    /\ \A i \in DOMAIN Catalog : Catalog[i].name \in Files /\ File(Catalog[i].name) = Catalog[i]
  <1>1. Len(Catalog) \in Nat /\ DOMAIN Catalog = 1 .. Len(Catalog)
    BY ObjectConstants
  <1>2. \A i, j \in DOMAIN Catalog : Catalog[i].name = Catalog[j].name => i = j
    BY ObjectConstants DEF IsInjective
  <1>3. ASSUME NEW i \in DOMAIN Catalog PROVE File(Catalog[i].name) = Catalog[i]
    <2>1. /\ Catalog[i] \in Range(Catalog)
          /\ \A c \in Range(Catalog) : c.name = Catalog[i].name => c = Catalog[i]
      BY <1>2 DEF Range
    <2> QED
      BY <2>1 DEF File
  <1> QED
    BY <1>1, <1>2, <1>3 DEF Files

\* The key of a file is one of the keys, and names the file.
LEMMA KeyIs ==
    ASSUME NEW scope \in {"global"} \union Range(Scope), NEW f \in Files
    PROVE  /\ Key(scope, f) \in Keys /\ Key(scope, f)[2] = f
           /\ KeyScope(scope, f) \in {"global"} \union Range(Scope)
  BY DEF Key, KeyScope, Keys

LEMMA ScopeIs == \A r \in Requests : Scope[r] \in {"global"} \union Range(Scope)
  BY ObjectConstants DEF Range

Results == Errors \union Features

\* What a file parses to is a result.
LEMMA ParsedIs ==
    ASSUME NEW c \in Contents
    PROVE  Parsed(c) \in Results
  BY DEF Parsed, Contents, Features, Errors, Results

\* In no state of a cache and for no request are the marks of a lookup results.
LEMMA MarksAreNoResults ==
    ASSUME NEW x \in Results
    PROVE  x \notin {"absent", "busy", "pending", "computing"}
  BY DEF Results, Errors, Features

-----------------------------------------------------------------------------
(* The files of a request *)

SourcesInv(q) ==
    /\ q.sources \in Seq(Range(q.sources)) /\ q.sources # <<>>
    /\ IsInjective(q.sources) /\ Range(q.sources) \cap Files = {}
    /\ q.pos \in 1 .. Len(q.sources)

\* The object files found up to some source.
Found(q, files, pos) ==
    /\ IsInjective(files)
    /\ \A a \in DOMAIN files : /\ files[a] \in DifFiles
                               /\ \E j \in 1 .. pos : File(files[a]).source = q.sources[j]

\* Listing one more source.
LEMMA FilesWithIs ==
    ASSUME NEW r \in Requests, NEW held, SourcesInv(req[r]), req[r].files \in Seq(Files)
    PROVE  /\ FilesWith(r, held) \in Seq(Files)
           /\ req[r].stage = "dif" /\ Found(req[r], req[r].files, req[r].pos - 1)
              => Found(req[r], FilesWith(r, held), req[r].pos)
  <1> DEFINE q == req[r]
             N == Len(Catalog)
             Takes(i) == Catalog[i].source = Current(r) /\ Catalog[i].kind = q.stage /\ Catalog[i] \in held
             all[i \in 0 .. N] == IF i = 0 THEN q.files
                                  ELSE IF Takes(i) THEN Append(all[i - 1], Catalog[i].name) ELSE all[i - 1]
             E(h) == h = [i \in 0 .. N |-> IF i = 0 THEN q.files
                                           ELSE IF Takes(i) THEN Append(h[i - 1], Catalog[i].name) ELSE h[i - 1]]
             F == [p \in Seq(Files) \X (1 .. N) |->
                     IF Takes(p[2]) THEN Append(p[1], Catalog[p[2]].name) ELSE p[1]]
  <1>1. N \in Nat /\ \A i \in 1 .. N : Catalog[i].name \in Files /\ File(Catalog[i].name) = Catalog[i]
    BY CatalogNames
  <1>2. FilesWith(r, held) = all[N] /\ all = CHOOSE h : E(h)
    BY DEF FilesWith
  <1>3. \E h : E(h)
    <2>1. F \in [Seq(Files) \X (1 .. N) -> Seq(Files)]
      BY <1>1
    <2>2. PICK h \in [0 .. N -> Seq(Files)] : Rounds(h, F, q.files, N)
      BY <1>1, <2>1, RoundsStay
    <2>3. /\ h = [i \in 0 .. N |-> h[i]]
          /\ \A i \in 0 .. N : h[i] = IF i = 0 THEN q.files ELSE F[<<h[i - 1], i>>]
      BY <2>2 DEF Rounds
    <2>4. ASSUME NEW i \in 0 .. N, i # 0
          PROVE  F[<<h[i - 1], i>>] = IF Takes(i) THEN Append(h[i - 1], Catalog[i].name) ELSE h[i - 1]
      <3> HIDE DEF Takes, all, E, N
      <3>1. i - 1 \in 0 .. N /\ i \in 1 .. N
        BY <1>1, <2>4
      <3>2. <<h[i - 1], i>> \in Seq(Files) \X (1 .. N)
        BY <2>2, <3>1
      <3> QED
        BY <3>2
    <2> HIDE DEF F, Takes
    <2>5. ASSUME NEW i \in 0 .. N
          PROVE  h[i] = IF i = 0 THEN q.files
                        ELSE IF Takes(i) THEN Append(h[i - 1], Catalog[i].name) ELSE h[i - 1]
      BY <2>3, <2>4
    <2> QED
      BY <2>3, <2>5
  <1>4. E(all)
    BY <1>2, <1>3
  <1> HIDE DEF all, F
  <1>5. /\ all[0] = q.files
        /\ \A i \in 1 .. N : all[i] = IF Takes(i) THEN Append(all[i - 1], Catalog[i].name) ELSE all[i - 1]
    <2> HIDE DEF Takes, N
    <2>1. \A i \in 0 .. N : all[i] = IF i = 0 THEN q.files
                                     ELSE IF Takes(i) THEN Append(all[i - 1], Catalog[i].name) ELSE all[i - 1]
      BY <1>4
    <2>2. 0 \in 0 .. N /\ \A i \in 1 .. N : i \in 0 .. N /\ i # 0
      BY <1>1
    <2> QED
      BY <2>1, <2>2
  <1> HIDE DEF E
  <1> DEFINE
        \* Where the files after the first i names of the catalog are from.
        FromEarlier(f) == \E j \in 1 .. q.pos - 1 : File(f).source = q.sources[j]
        FromNow(f, i)  == \E k \in 1 .. i : f = Catalog[k].name /\ Takes(k)
        Ok(i) == /\ all[i] \in Seq(Files)
                 /\ q.stage = "dif" /\ Found(q, q.files, q.pos - 1)
                    => /\ IsInjective(all[i])
                       /\ \A a \in DOMAIN all[i] :
                             all[i][a] \in DifFiles /\ (FromEarlier(all[i][a]) \/ FromNow(all[i][a], i))
        T == {i \in Nat : i <= N => Ok(i)}
  <1> HIDE DEF FromEarlier, FromNow, Ok, T, Takes
  <1>6. /\ q.pos \in Nat /\ q.pos \in DOMAIN q.sources /\ Current(r) = q.sources[q.pos]
        /\ \A j \in 1 .. q.pos - 1 : j \in DOMAIN q.sources /\ q.sources[j] # q.sources[q.pos]
    <2>1. q.sources \in Seq(Range(q.sources)) /\ q.pos \in 1 .. Len(q.sources) /\ IsInjective(q.sources)
      BY DEF SourcesInv
    <2>2. DOMAIN q.sources = 1 .. Len(q.sources) /\ Len(q.sources) \in Nat
      BY <2>1
    <2> QED
      BY <2>1, <2>2 DEF IsInjective, Current
  <1>7. 0 \in T
    BY <1>5 DEF Found, T, Ok, FromEarlier
  <1>8. ASSUME NEW i \in Nat, Ok(i), i + 1 <= N, Takes(i + 1) PROVE Ok(i + 1)
    <2> DEFINE s == all[i]
               f == Catalog[i + 1].name
    <2>1. i + 1 \in 1 .. N /\ (i + 1) - 1 = i
      BY <1>1, <1>8
    <2>2. all[i + 1] = Append(s, f) /\ s \in Seq(Files) /\ f \in Files /\ File(f) = Catalog[i + 1]
      BY <1>1, <1>5, <1>8, <2>1 DEF Ok
    <2>3. ASSUME q.stage = "dif", Found(q, q.files, q.pos - 1)
          PROVE  /\ IsInjective(all[i + 1])
                 /\ \A a \in DOMAIN all[i + 1] :
                       /\ all[i + 1][a] \in DifFiles
                       /\ (FromEarlier(all[i + 1][a]) \/ FromNow(all[i + 1][a], i + 1))
      <3>1. f \in DifFiles /\ FromNow(f, i + 1)
        BY <1>8, <2>1, <2>2, <2>3 DEF DifFiles, FromNow, Takes
      <3>2. ~ FromEarlier(f)
        <4>1. File(f).source = q.sources[q.pos]
          BY <1>6, <1>8, <2>2 DEF Takes
        <4> QED
          BY <4>1, <1>6 DEF FromEarlier
      <3>3. ~ FromNow(f, i)
        BY <1>1, <1>8, <2>1, CatalogNames DEF FromNow
      <3>4. /\ IsInjective(s)
            /\ \A a \in DOMAIN s : s[a] \in DifFiles /\ (FromEarlier(s[a]) \/ FromNow(s[a], i))
        BY <1>8, <2>3 DEF Ok
      <3>5. \A g : FromNow(g, i) => FromNow(g, i + 1)
        BY <1>8 DEF FromNow
      <3> HIDE DEF f
      <3>6. \A a \in DOMAIN s : s[a] # f
        BY <3>2, <3>3, <3>4
      <3> HIDE DEF s
      <3>7. /\ Len(s) \in Nat /\ DOMAIN s = 1 .. Len(s)
            /\ DOMAIN Append(s, f) = 1 .. Len(s) + 1 /\ Append(s, f)[Len(s) + 1] = f
            /\ \A a \in 1 .. Len(s) : Append(s, f)[a] = s[a]
        BY <2>2
      <3>8. \A a \in 1 .. Len(s) + 1 : a \in 1 .. Len(s) \/ a = Len(s) + 1
        BY <3>7
      <3>9. IsInjective(Append(s, f))
        BY <3>4, <3>6, <3>7, <3>8 DEF IsInjective
      <3>10. ASSUME NEW a \in DOMAIN Append(s, f)
             PROVE  /\ Append(s, f)[a] \in DifFiles
                    /\ (FromEarlier(Append(s, f)[a]) \/ FromNow(Append(s, f)[a], i + 1))
        BY <3>1, <3>4, <3>5, <3>7, <3>8
      <3> QED
        BY <2>2, <3>9, <3>10
    <2>4. all[i + 1] \in Seq(Files)
      BY <2>2
    <2> QED
      BY <2>3, <2>4 DEF Ok
  <1>9. ASSUME NEW i \in Nat, Ok(i), i + 1 <= N, ~ Takes(i + 1) PROVE Ok(i + 1)
    <2>1. i + 1 \in 1 .. N /\ (i + 1) - 1 = i
      BY <1>1, <1>9
    <2>2. all[i + 1] = all[i]
      BY <1>5, <1>9, <2>1
    <2>3. \A g : FromNow(g, i) => FromNow(g, i + 1)
      BY <1>9 DEF FromNow
    <2> QED
      BY <1>9, <2>2, <2>3 DEF Ok
  <1>10. \A i \in Nat : i \in T => i + 1 \in T
    BY <1>1, <1>8, <1>9 DEF T
  <1>11. Nat \subseteq T
    BY <1>7, <1>10, SetInduction
  <1>12. Ok(N)
    BY <1>1, <1>11 DEF T
  <1>13. ASSUME NEW f, FromEarlier(f) \/ FromNow(f, N)
         PROVE  \E j \in 1 .. q.pos : File(f).source = q.sources[j]
    <2>1. CASE FromEarlier(f)
      BY <1>6, <2>1 DEF FromEarlier
    <2>2. CASE FromNow(f, N)
      <3>1. File(f).source = q.sources[q.pos]
        BY <1>1, <1>6, <2>2 DEF FromNow, Takes
      <3>2. q.pos \in 1 .. q.pos
        BY DEF SourcesInv
      <3> QED
        BY <3>1, <3>2
    <2> QED
      BY <1>13, <2>1, <2>2
  <1> HIDE DEF N
  <1> QED
    BY <1>2, <1>12, <1>13 DEF Found, Ok

\* How good a file is among those that are considered.
LEMMA QualityIs == \A r, x : ObjectQuality(r, x) \in 0 .. 3
  BY DEF ObjectQuality

\* The file i is the first of the best of the first n.
FirstBest(r, i, n) ==
    LET files == req[r].files
        Quality(k) == ObjectQuality(r, req[r].res[files[k]])
    IN  /\ i \in 1 .. n /\ ~ Unfit(r, files[i])
        /\ \A j \in 1 .. n : ~ Unfit(r, files[j]) => Quality(i) < Quality(j) \/ (Quality(i) = Quality(j) /\ i <= j)

\* What select_meta finds: the first of the best files, if any is considered.
LEMMA SelectMetaIs ==
    ASSUME NEW r \in Requests, req[r].files \in Seq(Files)
    PROVE  LET n == Len(req[r].files)
           IN  \/ SelectMeta(r) = None /\ \A j \in 1 .. n : Unfit(r, req[r].files[j])
               \/ \E i \in 1 .. n : SelectMeta(r) = req[r].files[i] /\ FirstBest(r, i, n)
  <1> DEFINE files == req[r].files
             N == Len(files)
             Quality(i) == ObjectQuality(r, req[r].res[files[i]])
             best[i \in 0 .. N] ==
                IF i = 0 THEN [file |-> None, quality |-> 255]
                ELSE IF Unfit(r, files[i]) \/ Quality(i) >= best[i - 1].quality THEN best[i - 1]
                ELSE [file |-> files[i], quality |-> Quality(i)]
             E(h) == h = [i \in 0 .. N |->
                IF i = 0 THEN [file |-> None, quality |-> 255]
                ELSE IF Unfit(r, files[i]) \/ Quality(i) >= h[i - 1].quality THEN h[i - 1]
                ELSE [file |-> files[i], quality |-> Quality(i)]]
             Picks == [file : Files \union {None}, quality : Nat]
             F == [p \in Picks \X (1 .. N) |->
                     IF Unfit(r, files[p[2]]) \/ Quality(p[2]) >= p[1].quality THEN p[1]
                     ELSE [file |-> files[p[2]], quality |-> Quality(p[2])]]
  <1>1. N \in Nat /\ DOMAIN files = 1 .. N /\ \A i \in 1 .. N : files[i] \in Files /\ files[i] # None
    BY ObjectConstants
  <1>2. \A i : Quality(i) \in 0 .. 3
    BY QualityIs
  <1>3. SelectMeta(r) = best[N].file /\ best = CHOOSE h : E(h)
    BY DEF SelectMeta
  <1> HIDE DEF best, Quality, files, N
  <1>4. \E h : E(h)
    <2>1. F \in [Picks \X (1 .. N) -> Picks] /\ [file |-> None, quality |-> 255] \in Picks
      BY <1>1, <1>2
    <2>2. PICK h \in [0 .. N -> Picks] : Rounds(h, F, [file |-> None, quality |-> 255], N)
      BY <1>1, <2>1, RoundsStay
    <2>3. /\ h = [i \in 0 .. N |-> h[i]]
          /\ \A i \in 0 .. N : h[i] = IF i = 0 THEN [file |-> None, quality |-> 255] ELSE F[<<h[i - 1], i>>]
      BY <2>2 DEF Rounds
    <2>4. ASSUME NEW i \in 0 .. N, i # 0
          PROVE  F[<<h[i - 1], i>>] = IF Unfit(r, files[i]) \/ Quality(i) >= h[i - 1].quality THEN h[i - 1]
                                      ELSE [file |-> files[i], quality |-> Quality(i)]
      <3>1. i - 1 \in 0 .. N /\ i \in 1 .. N
        BY <1>1, <2>4
      <3>2. <<h[i - 1], i>> \in Picks \X (1 .. N)
        BY <2>2, <3>1
      <3> QED
        BY <3>2
    <2> HIDE DEF F, Picks
    <2>5. ASSUME NEW i \in 0 .. N
          PROVE  h[i] = IF i = 0 THEN [file |-> None, quality |-> 255]
                        ELSE IF Unfit(r, files[i]) \/ Quality(i) >= h[i - 1].quality THEN h[i - 1]
                        ELSE [file |-> files[i], quality |-> Quality(i)]
      BY <2>3, <2>4
    <2>6. E(h)
      BY <2>3, <2>5, Zenon
    <2> HIDE DEF E
    <2> QED
      BY <2>6
  <1> HIDE DEF F, Picks
  <1>5. E(best)
    BY <1>3, <1>4
  <1>6. /\ best[0] = [file |-> None, quality |-> 255]
        /\ \A i \in 1 .. N : best[i] = IF Unfit(r, files[i]) \/ Quality(i) >= best[i - 1].quality THEN best[i - 1]
                                       ELSE [file |-> files[i], quality |-> Quality(i)]
    <2>1. \A i \in 0 .. N : best[i] =
                IF i = 0 THEN [file |-> None, quality |-> 255]
                ELSE IF Unfit(r, files[i]) \/ Quality(i) >= best[i - 1].quality THEN best[i - 1]
                ELSE [file |-> files[i], quality |-> Quality(i)]
      BY <1>5
    <2>2. 0 \in 0 .. N /\ \A i \in 1 .. N : i \in 0 .. N /\ i # 0
      BY <1>1
    <2> QED
      BY <2>1, <2>2
  <1> HIDE DEF E
  <1> DEFINE
        Beats(i, n) == /\ i \in 1 .. n /\ ~ Unfit(r, files[i])
                       /\ \A j \in 1 .. n : ~ Unfit(r, files[j]) => Quality(i) < Quality(j) \/ (Quality(i) = Quality(j) /\ i <= j)
        NoneOf(n)   == best[n].file = None /\ best[n].quality = 255 /\ \A j \in 1 .. n : Unfit(r, files[j])
        SomeOf(n)   == \E i \in 1 .. n : best[n].file = files[i] /\ best[n].quality = Quality(i) /\ Beats(i, n)
        T == {n \in Nat : n <= N => NoneOf(n) \/ SomeOf(n)}
  <1> HIDE DEF NoneOf, SomeOf, T
  <1>7. 0 \in T
    BY <1>6 DEF NoneOf, T
  <1>8. ASSUME NEW n \in Nat, n + 1 <= N, NoneOf(n) \/ SomeOf(n) PROVE NoneOf(n + 1) \/ SomeOf(n + 1)
    <2>1. /\ n + 1 \in 1 .. N /\ (n + 1) - 1 = n
          /\ \A j \in 1 .. n + 1 : j \in 1 .. n \/ j = n + 1
          /\ \A j \in 1 .. n : j \in 1 .. n + 1
          /\ n + 1 \in 1 .. n + 1
      BY <1>1, <1>8
    <2>2. best[n + 1] = IF Unfit(r, files[n + 1]) \/ Quality(n + 1) >= best[n].quality THEN best[n]
                        ELSE [file |-> files[n + 1], quality |-> Quality(n + 1)]
      BY <1>6, <2>1
    <2>3. CASE Unfit(r, files[n + 1])
      <3>1. best[n + 1] = best[n]
        BY <2>2, <2>3
      <3>2. NoneOf(n) => NoneOf(n + 1)
        BY <2>1, <2>3, <3>1 DEF NoneOf
      <3>3. \A i : Beats(i, n) => Beats(i, n + 1)
        BY <2>1, <2>3
      <3>4. SomeOf(n) => SomeOf(n + 1)
        BY <2>1, <3>1, <3>3 DEF SomeOf
      <3> QED
        BY <1>8, <3>2, <3>4
    <2>4. CASE ~ Unfit(r, files[n + 1]) /\ NoneOf(n)
      <3>1. best[n + 1] = [file |-> files[n + 1], quality |-> Quality(n + 1)]
        BY <1>2, <2>2, <2>4 DEF NoneOf
      <3>2. Beats(n + 1, n + 1)
        BY <2>1, <2>4, <1>2 DEF NoneOf
      <3>3. best[n + 1].file = files[n + 1] /\ best[n + 1].quality = Quality(n + 1)
        BY <3>1
      <3> HIDE DEF Beats
      <3> QED
        BY <2>1, <3>2, <3>3 DEF SomeOf
    <2>5. CASE ~ Unfit(r, files[n + 1]) /\ SomeOf(n)
      <3>1. PICK i \in 1 .. n : best[n].file = files[i] /\ best[n].quality = Quality(i) /\ Beats(i, n)
        BY <2>5 DEF SomeOf
      <3>2. CASE Quality(n + 1) >= Quality(i)
        <4>1. best[n + 1] = best[n]
          BY <2>2, <3>1, <3>2
        <4>2. Quality(i) < Quality(n + 1) \/ (Quality(i) = Quality(n + 1) /\ i <= n + 1)
          BY <1>2, <3>1, <3>2
        <4>3. Beats(i, n + 1)
          BY <2>1, <3>1, <4>2
        <4> HIDE DEF Beats
        <4> QED
          BY <2>1, <3>1, <4>1, <4>3 DEF SomeOf
      <3>3. CASE Quality(n + 1) < Quality(i)
        <4>1. best[n + 1] = [file |-> files[n + 1], quality |-> Quality(n + 1)]
          BY <1>2, <2>2, <2>5, <3>1, <3>3
        <4>2. ASSUME NEW j \in 1 .. n, ~ Unfit(r, files[j]) PROVE Quality(n + 1) < Quality(j)
          BY <1>2, <3>1, <3>3, <4>2
        <4>3. Beats(n + 1, n + 1)
          BY <1>2, <2>1, <2>5, <4>2
        <4>4. best[n + 1].file = files[n + 1] /\ best[n + 1].quality = Quality(n + 1)
          BY <4>1
        <4> HIDE DEF Beats
        <4> QED
          BY <2>1, <4>3, <4>4 DEF SomeOf
      <3> QED
        BY <1>2, <3>2, <3>3
    <2> QED
      BY <1>8, <2>3, <2>4, <2>5
  <1>9. \A n \in Nat : n \in T => n + 1 \in T
    BY <1>1, <1>8 DEF T
  <1>10. Nat \subseteq T
    BY <1>7, <1>9, SetInduction
  <1>11. NoneOf(N) \/ SomeOf(N)
    BY <1>1, <1>10 DEF T
  <1> QED
    BY <1>3, <1>11 DEF NoneOf, SomeOf, FirstBest, files, N, Quality

-----------------------------------------------------------------------------
(* The invariant of the requests and of the caches they share *)

Fields == {"purpose", "sources", "pc", "stage", "pos", "files", "res", "listed",
           "sel", "map", "il2cpp", "candidates", "answer"}

\* A request that has not selected an object yet.
Selecting(q) == q.stage = "dif" /\ q.pc \in {"list", "fetch"}

Shape(q) ==
    /\ DOMAIN q = Fields
    /\ SourcesInv(q)
    /\ q.pc \in {"list", "fetch", "derive", "deriving", "done"}
    /\ q.pc \in {"list", "fetch"} => q.stage \in {"dif", "plist", "map", "il2cpp"}
    /\ q.files \in Seq(Files)

\* The results of the files that are fetched; only those of objects are computed by others.
ResInv(q) ==
    /\ q.pc = "list" => q.res = <<>>
    /\ q.pc = "fetch" => q.res = [f \in Range(q.files) |-> q.res[f]]
    /\ \A f \in DOMAIN q.res : /\ f \in Files
                               /\ q.res[f] \in Results \union {"pending", "computing"}
                               /\ q.res[f] = "computing" => Selecting(q)

\* Before the selection.
SelectingInv(q) ==
    /\ q.sel = None /\ q.map = None /\ q.il2cpp = None /\ q.candidates = <<>> /\ q.answer = [res |-> None]
    /\ q.pc = "list" => q.listed = <<>> /\ Found(q, q.files, q.pos - 1)
    /\ q.pc = "fetch" => q.listed = q.files /\ Found(q, q.files, Len(q.sources))

\* The candidates of a request account for its sources and for all files it found.
Accounted(q) ==
    /\ \A f \in Range(q.listed) : f \in DifFiles /\ f \in DOMAIN q.candidates
    /\ \A s \in Range(q.sources) : \/ s \in DOMAIN q.candidates
                                   \/ \E f \in DOMAIN q.candidates \cap Files : File(f).source = s
    /\ \A l \in DOMAIN q.candidates : DOMAIN q.candidates[l] = {"download", "use"}

MadeOf(v, sel, map, il2cpp) == v.object = sel /\ v.map = map /\ v.il2cpp = il2cpp

\* After the selection.
SelectedInv(q) ==
    /\ Accounted(q)
    /\ q.sel # None => q.sel \in Range(q.listed)
    /\ \A l \in DOMAIN q.candidates : q.candidates[l].use # None => l = q.sel
    /\ q.pc = "done" => (q.answer.res = "ok" <=> \E l \in DOMAIN q.candidates : q.candidates[l].use = "ok")
    /\ q.answer.res = "ok" => MadeOf(q.answer, q.sel, q.map, q.il2cpp)
    /\ q.pc # "done" => /\ q.sel # None /\ q.answer = [res |-> None]
                        /\ \A l \in DOMAIN q.candidates : q.candidates[l].use = None

ReqInv(q) ==
    /\ Shape(q) /\ ResInv(q)
    /\ Selecting(q) => SelectingInv(q)
    /\ ~ Selecting(q) => SelectedInv(q)

ReqsInv == DOMAIN req = Requests /\ \A r \in Requests : ReqInv(req[r])

\* What the caches hold of files and results.
CacheInv ==
    /\ content \in [Files -> Contents]
    /\ meta \in [Keys -> Results \union {"absent", "busy"}]
    /\ data \in [Keys -> Results \union {"absent"}]
    /\ aux \in [Keys -> Results \union {"absent"}]

\* The key of a derived cache.
KeyOf(purpose, k, map, il2cpp) ==
    <<purpose, k>>
    \o (IF map = None THEN <<>> ELSE <<<<"bcsymbolmap", map>>>>)
    \o (IF il2cpp = None THEN <<>> ELSE <<<<"il2cpp", il2cpp>>>>)

\* A derived cache was made of what its key names.
DerivedInv ==
    \A k \in DOMAIN derived :
        /\ derived[k].res \in {"busy", "ok", "notfound", "denied", "malformed", "error", "unsupported"}
        /\ derived[k].res = "ok" =>
              \E purpose, scope : k = KeyOf(purpose, <<scope, derived[k].object>>, derived[k].map, derived[k].il2cpp)

Inv == IndexInv /\ CacheInv /\ DerivedInv /\ ReqsInv

LEMMA ConcatOne ==
    ASSUME NEW S, NEW s \in Seq(S), NEW e \in S
    PROVE  /\ s \o <<e>> \in Seq(S) /\ Len(s \o <<e>>) = Len(s) + 1
           /\ \A i \in 1 .. Len(s) : (s \o <<e>>)[i] = s[i]
           /\ (s \o <<e>>)[Len(s) + 1] = e
  <1>1. <<e>> \in Seq(S) /\ Len(<<e>>) = 1 /\ <<e>>[1] = e /\ Len(s) \in Nat
    OBVIOUS
  <1>2. /\ s \o <<e>> \in Seq(S) /\ Len(s \o <<e>>) = Len(s) + Len(<<e>>)
        /\ \A i \in 1 .. Len(s) + Len(<<e>>) :
              (s \o <<e>>)[i] = IF i <= Len(s) THEN s[i] ELSE <<e>>[i - Len(s)]
    BY <1>1, ConcatProperties
  <1>3. \A i \in 1 .. Len(s) : i \in 1 .. Len(s) + Len(<<e>>) /\ i <= Len(s)
    BY <1>1
  <1>4. /\ Len(s) + 1 \in 1 .. Len(s) + Len(<<e>>) /\ ~ (Len(s) + 1 <= Len(s))
        /\ (Len(s) + 1) - Len(s) = 1
    BY <1>1
  <1> QED
    BY <1>1, <1>2, <1>3, <1>4

\* What stands where in the key of a derived cache.
LEMMA KeyOfParts ==
    ASSUME NEW p, NEW k, NEW m, NEW i
    PROVE  LET t == KeyOf(p, k, m, i)
           IN  /\ Len(t) = 2 + (IF m = None THEN 0 ELSE 1) + (IF i = None THEN 0 ELSE 1)
               /\ t[2] = k
               /\ m # None => t[3] = <<"bcsymbolmap", m>>
               /\ i # None => t[IF m = None THEN 3 ELSE 4] = <<"il2cpp", i>>
  <1> DEFINE u == <<"bcsymbolmap", m>>
             v == <<"il2cpp", i>>
             S == {p, k, u, v}
             s == <<p, k>>
             t == IF m = None THEN s ELSE s \o <<u>>
  <1>1. s \in Seq(S) /\ Len(s) = 2 /\ s[2] = k /\ u \in S /\ v \in S
    OBVIOUS
  <1>2. KeyOf(p, k, m, i) = IF i = None THEN t ELSE t \o <<v>>
    <2>1. s \o <<>> = s /\ t \o <<>> = t /\ (s \o <<u>>) \o <<>> = s \o <<u>>
      <3> HIDE DEF S, s, u
      <3> QED
        BY <1>1, ConcatOne, ConcatEmptySeq
    <2>2. KeyOf(p, k, m, i) = s \o (IF m = None THEN <<>> ELSE <<u>>) \o (IF i = None THEN <<>> ELSE <<v>>)
      BY DEF KeyOf
    <2> HIDE DEF s, u, v
    <2> QED
      BY <2>1, <2>2
  <1> HIDE DEF S, s, u, v
  <1>3. /\ t \in Seq(S) /\ Len(t) = (IF m = None THEN 2 ELSE 3) /\ t[2] = k
        /\ m # None => t[3] = u
    <2>1. /\ s \o <<u>> \in Seq(S) /\ Len(s \o <<u>>) = Len(s) + 1
          /\ \A j \in 1 .. Len(s) : (s \o <<u>>)[j] = s[j]
          /\ (s \o <<u>>)[Len(s) + 1] = u
      BY <1>1, ConcatOne, Zenon
    <2>2. Len(s) + 1 = 3 /\ 2 \in 1 .. Len(s)
      BY <1>1
    <2>3. Len(s \o <<u>>) = 3 /\ (s \o <<u>>)[2] = k /\ (s \o <<u>>)[3] = u
      BY <1>1, <2>1, <2>2
    <2> QED
      BY <1>1, <2>1, <2>3
  <1> HIDE DEF t
  <1>4. /\ Len(t \o <<v>>) = Len(t) + 1 /\ (t \o <<v>>)[Len(t) + 1] = v
        /\ \A j \in 1 .. Len(t) : (t \o <<v>>)[j] = t[j]
    <2>1. t \in Seq(S) /\ v \in S
      BY <1>1, <1>3
    <2>2. ASSUME NEW x \in Seq(S)
          PROVE  /\ Len(x \o <<v>>) = Len(x) + 1 /\ (x \o <<v>>)[Len(x) + 1] = v
                 /\ \A j \in 1 .. Len(x) : (x \o <<v>>)[j] = x[j]
      BY <2>1, ConcatOne
    <2> QED
      BY <2>1, <2>2
  <1>5. /\ Len(KeyOf(p, k, m, i)) = 2 + (IF m = None THEN 0 ELSE 1) + (IF i = None THEN 0 ELSE 1)
        /\ KeyOf(p, k, m, i)[2] = k
        /\ m # None => KeyOf(p, k, m, i)[3] = u
        /\ i # None => KeyOf(p, k, m, i)[IF m = None THEN 3 ELSE 4] = v
    BY <1>2, <1>3, <1>4
  <1> QED
    BY <1>5 DEF u, v

\* The key of a derived cache tells what it is made of.
LEMMA KeyOfIs ==
    ASSUME NEW p, NEW k, NEW m, NEW i, NEW p2, NEW k2, NEW m2, NEW i2,
           KeyOf(p, k, m, i) = KeyOf(p2, k2, m2, i2)
    PROVE  k = k2 /\ m = m2 /\ i = i2
  <1> DEFINE t == KeyOf(p, k, m, i)
  <1>1. /\ Len(t) = 2 + (IF m = None THEN 0 ELSE 1) + (IF i = None THEN 0 ELSE 1)
        /\ t[2] = k
        /\ m # None => t[3] = <<"bcsymbolmap", m>>
        /\ i # None => t[IF m = None THEN 3 ELSE 4] = <<"il2cpp", i>>
    BY KeyOfParts
  <1>2. /\ Len(t) = 2 + (IF m2 = None THEN 0 ELSE 1) + (IF i2 = None THEN 0 ELSE 1)
        /\ t[2] = k2
        /\ m2 # None => t[3] = <<"bcsymbolmap", m2>>
        /\ i2 # None => t[IF m2 = None THEN 3 ELSE 4] = <<"il2cpp", i2>>
    BY KeyOfParts
  <1> HIDE DEF t
  <1> QED
    BY <1>1, <1>2

LEMMA DerivedKeyIs ==
    ASSUME NEW r \in Requests
    PROVE  DerivedKey(r) = KeyOf(req[r].purpose, <<KeyScope(Scope[r], req[r].sel), req[r].sel>>, req[r].map, req[r].il2cpp)
  BY DEF DerivedKey, KeyOf, Key

LEMMA InvImplies == Inv => IndexComplete /\ CandidatesConsistent /\ SymcacheUsesItsSources
  <1> SUFFICES ASSUME Inv PROVE IndexComplete /\ CandidatesConsistent /\ SymcacheUsesItsSources
    OBVIOUS
  <1>1. IndexComplete
    BY IndexInvImplies DEF Inv
  <1>2. ASSUME NEW r \in Requests
        PROVE  /\ ReqInv(req[r])
               /\ req[r].pc = "done" => SelectedInv(req[r])
               /\ req[r].answer.res = "ok" => SelectedInv(req[r])
    BY DEF Inv, ReqsInv, ReqInv, Selecting, SelectingInv, None
  <1>3. CandidatesConsistent
    BY <1>2 DEF CandidatesConsistent, SelectedInv, Accounted
  <1>4. SymcacheUsesItsSources
    BY <1>2 DEF SymcacheUsesItsSources, SelectedInv, MadeOf
  <1> QED
    BY <1>1, <1>3, <1>4

LEMMA InitInv == Init => Inv
  <1> SUFFICES ASSUME Init PROVE Inv
    OBVIOUS
  <1>1. IndexInv
    BY IndexInitInv DEF Init
  <1>2. PICK w \in Worlds :
          /\ content = w.content
          /\ req = [r \in Requests |->
                   [purpose |-> w.purpose[r], sources |-> w.sources, pc |-> "list", stage |-> "dif", pos |-> 1, files |-> <<>>, res |-> <<>>, listed |-> <<>>,
                    sel |-> None, map |-> None, il2cpp |-> None, candidates |-> <<>>, answer |-> [res |-> None]]]
    BY DEF Init
  <1>3. CacheInv
    BY <1>2, ObjectConstants DEF Init, CacheInv
  <1>4. DerivedInv
    BY DEF Init, DerivedInv
  <1>5. ASSUME NEW r \in Requests PROVE ReqInv(req[r])
    <2> DEFINE q == req[r]
    <2>1. /\ q.sources = w.sources /\ q.pc = "list" /\ q.stage = "dif" /\ q.pos = 1 /\ q.files = <<>> /\ q.res = <<>>
          /\ q.listed = <<>> /\ q.sel = None /\ q.map = None /\ q.il2cpp = None /\ q.candidates = <<>>
          /\ q.answer = [res |-> None] /\ DOMAIN q = Fields
      BY <1>2 DEF Fields
    <2> HIDE DEF q
    <2>2. /\ w.sources \in Seq(Range(w.sources)) /\ w.sources # <<>> /\ IsInjective(w.sources)
          /\ Range(w.sources) \cap Files = {}
      BY ObjectConstants
    <2>3. 1 \in 1 .. Len(w.sources)
      BY <2>2
    <2>4. Shape(q)
      BY <2>1, <2>2, <2>3 DEF Shape, SourcesInv
    <2>5. ResInv(q)
      BY <2>1 DEF ResInv
    <2>6. SelectingInv(q)
      BY <2>1 DEF SelectingInv, Found, IsInjective
    <2>7. Selecting(q)
      BY <2>1 DEF Selecting
    <2> QED
      BY <2>4, <2>5, <2>6, <2>7 DEF ReqInv, q
  <1>6. DOMAIN req = Requests
    BY <1>2
  <1> QED
    BY <1>1, <1>3, <1>4, <1>5, <1>6 DEF Inv, ReqsInv

\* A step of one request.
LEMMA ReqFrame ==
    ASSUME ReqsInv, NEW r \in Requests, NEW p, req' = [req EXCEPT ![r] = p],
           ReqInv(p)
    PROVE  ReqsInv'
  <1>1. /\ DOMAIN req' = Requests /\ req'[r] = p
        /\ \A s \in Requests \ {r} : req'[s] = req[s]
    BY DEF ReqsInv
  <1>2. ASSUME NEW s \in Requests PROVE ReqInv(req'[s])
    BY <1>1 DEF ReqsInv
  <1> QED
    BY <1>1, <1>2 DEF ReqsInv

-----------------------------------------------------------------------------
(* What BestObject sees of a request *)

Suits(purpose, x) ==
    IF x \in {"pending", "computing"} THEN -1
    ELSE IF x \notin Errors /\ ~ (IF purpose = "cfi" THEN x \in {"unwind", "torn"}
                                  ELSE x \in {"debug", "symbols", "ppdb", "torn"}) THEN 4
    ELSE IF x \in Errors THEN 3
    ELSE IF purpose = "cfi" THEN 0
    ELSE IF x \in {"debug", "ppdb"} THEN 0
    ELSE 1

Outcome(q) ==
    IF q.candidates = <<>> THEN [f \in DOMAIN q.res |-> Suits(q.purpose, q.res[f])]
    ELSE [f \in Range(q.listed) |-> Suits(q.purpose, q.candidates[f].download)]

Verdict(q) == IF q.sel # None THEN q.sel ELSE IF q.pc = "done" THEN "nothing" ELSE "unanswered"

\* The steps of BestObject, of one request.
Same(q, p) == p.listed = q.listed /\ Outcome(p) = Outcome(q) /\ Verdict(p) = Verdict(q)

ListStep(q, p) ==
    /\ q.listed = <<>> /\ Outcome(q) = <<>> /\ Verdict(q) = "unanswered"
    /\ \A i \in DOMAIN p.listed : p.listed[i] \in DifFiles
    /\ IsInjective(p.listed)
    /\ Outcome(p) = [f \in Range(p.listed) |-> -1]
    /\ Verdict(p) = Verdict(q)

ResolveStep(q, p, f) ==
    /\ f \in DOMAIN Outcome(q) /\ Outcome(q)[f] = -1
    /\ Outcome(p)[f] \in 0 .. 4
    /\ Outcome(p) = [Outcome(q) EXCEPT ![f] = Outcome(p)[f]]
    /\ p.listed = q.listed /\ Verdict(p) = Verdict(q)

AnswerStep(q, p) ==
    /\ Verdict(q) = "unanswered"
    /\ \A f \in DOMAIN Outcome(q) : Outcome(q)[f] # -1
    /\ LET suitable == {i \in DOMAIN q.listed : Outcome(q)[q.listed[i]] # 4}
           o(i) == Outcome(q)[q.listed[i]]
       IN  \/ suitable = {} /\ Verdict(p) = "nothing"
           \/ \E i \in suitable : /\ \A j \in suitable \ {i} : o(i) < o(j) \/ (o(i) = o(j) /\ i < j)
                                  /\ Verdict(p) = q.listed[i]
    /\ p.listed = q.listed /\ Outcome(p) = Outcome(q)

BestStep(q, p) ==
    Same(q, p) \/ ListStep(q, p) \/ AnswerStep(q, p) \/ \E f \in DOMAIN Outcome(q) : ResolveStep(q, p, f)

\* The request makes a step that BestObject allows and keeps the invariant.
Moves(r) ==
    \E p : /\ req' = [req EXCEPT ![r] = p]
           /\ ReqInv(p)
           /\ BestStep(req[r], p)

LEMMA SuitsIs ==
    /\ \A r, x : Suitability(r, x) = Suits(req[r].purpose, x)
    /\ (\A r, x : Suitability(r, x) = Suits(req[r].purpose, x))'
  BY DEF Suitability, Suits, HasFeatures, ObjectQuality

\* How suitable a result is.
LEMMA SuitsOfResult ==
    ASSUME NEW r, NEW x \in Results
    PROVE  /\ Suits(req[r].purpose, x) \in 0 .. 4
           /\ (x \notin Errors /\ ~ HasFeatures(r, x)) <=> Suits(req[r].purpose, x) = 4
           /\ ~ (x \notin Errors /\ ~ HasFeatures(r, x)) => Suits(req[r].purpose, x) = ObjectQuality(r, x)
  BY DEF Suits, HasFeatures, ObjectQuality, Results, Errors, Features

LEMMA SuitsOfMarks == \A purpose : Suits(purpose, "pending") = -1 /\ Suits(purpose, "computing") = -1
  BY DEF Suits

-----------------------------------------------------------------------------
(* The steps of a request *)

\* Listing the files of one more source.
LEMMA ListedMoves ==
    ASSUME Inv, NEW r \in Requests, NEW held, req[r].pc = "list", Listed(r, held)
    PROVE  Moves(r)
  <1> DEFINE q == req[r]
             all == FilesWith(r, held)
  <1>1. /\ Shape(q) /\ ResInv(q) /\ DOMAIN q = Fields
        /\ Selecting(q) => SelectingInv(q)
        /\ ~ Selecting(q) => SelectedInv(q)
        /\ SourcesInv(q) /\ q.files \in Seq(Files) /\ q.res = <<>> /\ q.pc = "list"
    BY DEF Inv, ReqsInv, ReqInv, Shape, ResInv
  <1>2. /\ all \in Seq(Files)
        /\ q.stage = "dif" /\ Found(q, q.files, q.pos - 1) => Found(q, all, q.pos)
    BY <1>1, FilesWithIs
  <1>3. q.pos \in 1 .. Len(q.sources) /\ Len(q.sources) \in Nat
    BY <1>1 DEF SourcesInv
  <1>4. CASE q.pos < Len(q.sources)
    <2> DEFINE p == [q EXCEPT !.pos = q.pos + 1, !.files = all]
    <2>1. req' = [req EXCEPT ![r] = p]
      BY <1>4 DEF Listed
    <2> HIDE DEF q, all
    <2>2. /\ p.purpose = q.purpose /\ p.sources = q.sources /\ p.pc = "list" /\ p.stage = q.stage /\ p.pos = q.pos + 1
          /\ p.files = all /\ p.res = q.res /\ p.listed = q.listed /\ p.sel = q.sel /\ p.map = q.map
          /\ p.il2cpp = q.il2cpp /\ p.candidates = q.candidates /\ p.answer = q.answer /\ DOMAIN p = Fields
      BY <1>1 DEF Fields
    <2> HIDE DEF p
    <2>3. q.pos + 1 \in 1 .. Len(q.sources) /\ (q.pos + 1) - 1 = q.pos
      BY <1>3, <1>4
    <2>4. Shape(p)
      BY <1>1, <1>2, <2>2, <2>3 DEF Shape, SourcesInv
    <2>5. ResInv(p)
      BY <1>1, <2>2 DEF ResInv
    <2>6. Selecting(p) => SelectingInv(p)
      <3>1. ASSUME Selecting(p) PROVE Found(q, all, q.pos) /\ SelectingInv(q)
        BY <1>1, <1>2, <2>2, <3>1 DEF Selecting, SelectingInv
      <3>2. Found(q, all, q.pos) => Found(p, p.files, p.pos - 1)
        BY <2>2, <2>3 DEF Found
      <3> QED
        BY <1>1, <2>2, <3>1, <3>2 DEF SelectingInv
    <2>7. ~ Selecting(p) => SelectedInv(p)
      BY <1>1, <2>2 DEF Selecting, SelectedInv, Accounted, MadeOf
    <2>8. ReqInv(p)
      BY <2>4, <2>5, <2>6, <2>7 DEF ReqInv
    <2>9. Same(q, p)
      BY <1>1, <2>2 DEF Same, Outcome, Verdict
    <2> QED
      BY <2>1, <2>8, <2>9 DEF Moves, BestStep, q
  <1>5. CASE ~ (q.pos < Len(q.sources))
    <2> DEFINE new == [f \in Range(all) |-> "pending"]
               p == [q EXCEPT !.pc = "fetch", !.pos = 1, !.files = all, !.res = new,
                              !.listed = IF q.stage = "dif" THEN all ELSE q.listed]
    <2>1. req' = [req EXCEPT ![r] = p]
      BY <1>5 DEF Listed
    <2> HIDE DEF q, all, new
    <2>2. /\ p.purpose = q.purpose /\ p.sources = q.sources /\ p.pc = "fetch" /\ p.stage = q.stage /\ p.pos = 1
          /\ p.files = all /\ p.res = new /\ p.sel = q.sel /\ p.map = q.map
          /\ p.il2cpp = q.il2cpp /\ p.candidates = q.candidates /\ p.answer = q.answer /\ DOMAIN p = Fields
          /\ p.listed = IF q.stage = "dif" THEN all ELSE q.listed
      BY <1>1 DEF Fields
    <2> HIDE DEF p
    <2>3. 1 \in 1 .. Len(q.sources) /\ q.pos = Len(q.sources)
      BY <1>3, <1>5
    <2>4. Shape(p)
      BY <1>1, <1>2, <2>2, <2>3 DEF Shape, SourcesInv
    <2>5. /\ DOMAIN new = Range(all) /\ new = [f \in Range(all) |-> new[f]]
          /\ \A f \in Range(all) : f \in Files /\ new[f] = "pending"
      BY <1>2 DEF new, Range
    <2>6. ResInv(p)
      BY <2>2, <2>5 DEF ResInv
    <2>7. q.stage = "dif" => SelectingInv(q) /\ Found(q, all, Len(q.sources)) /\ q.listed = <<>>
      BY <1>1, <1>2, <2>3 DEF Selecting, SelectingInv
    <2>8. Selecting(p) => SelectingInv(p)
      <3>1. Found(q, all, Len(q.sources)) => Found(p, p.files, Len(p.sources))
        BY <2>2 DEF Found
      <3> QED
        BY <2>2, <2>5, <2>7, <3>1 DEF Selecting, SelectingInv
    <2>9. ~ Selecting(p) => SelectedInv(p)
      BY <1>1, <2>2 DEF Selecting, SelectedInv, Accounted, MadeOf
    <2>10. ReqInv(p)
      BY <2>4, <2>6, <2>8, <2>9 DEF ReqInv
    <2>11. CASE q.stage = "dif"
      <3>1. q.candidates = <<>> /\ q.sel = None
        BY <2>7, <2>11 DEF SelectingInv
      <3>2. Outcome(q) = <<>>
        BY <1>1, <3>1 DEF Outcome
      <3>3. Verdict(q) = "unanswered" /\ Verdict(p) = "unanswered"
        BY <1>1, <2>2, <3>1 DEF Verdict
      <3>4. Outcome(p) = [f \in Range(all) |-> -1]
        <4>1. \A f \in Range(all) : Suits(p.purpose, p.res[f]) = -1
              BY <2>2, <2>5, SuitsOfMarks
        <4> QED
          BY <2>2, <2>5, <3>1, <4>1 DEF Outcome
      <3>5. p.listed = all /\ IsInjective(all) /\ \A i \in DOMAIN all : all[i] \in DifFiles
        BY <2>2, <2>7, <2>11 DEF Found
      <3>6. ListStep(q, p)
        BY <2>7, <2>11, <3>2, <3>3, <3>4, <3>5 DEF ListStep
      <3> QED
        BY <2>1, <2>10, <3>6 DEF Moves, BestStep, q
    <2>12. CASE q.stage # "dif"
      <3>1. SelectedInv(q) /\ q.candidates # <<>>
        <4>1. SelectedInv(q)
          BY <1>1, <2>12 DEF Selecting
        <4>2. q.sel \in DOMAIN q.candidates
          BY <1>1, <4>1 DEF SelectedInv, Accounted
        <4> QED
          BY <4>1, <4>2
      <3>2. Same(q, p)
        BY <1>1, <2>2, <2>12, <3>1 DEF Same, Outcome, Verdict
      <3> QED
        BY <2>1, <2>10, <3>2 DEF Moves, BestStep, q
    <2> QED
      BY <2>11, <2>12
  <1> QED
    BY <1>4, <1>5

\* What the invariant says of a request, in one place.
LEMMA RequestIs ==
    ASSUME Inv, NEW r \in Requests
    PROVE  LET q == req[r]
           IN  /\ DOMAIN q = Fields /\ Shape(q) /\ ResInv(q) /\ ReqInv(q)
               /\ Selecting(q) => SelectingInv(q)
               /\ ~ Selecting(q) => SelectedInv(q)
               /\ q.pc \in {"derive", "deriving"} \/ (q.pc # "done" /\ q.stage # "dif") => q.candidates # <<>> /\ SelectedInv(q)
  <1> DEFINE q == req[r]
  <1>1. /\ DOMAIN q = Fields /\ Shape(q) /\ ResInv(q) /\ ReqInv(q)
        /\ Selecting(q) => SelectingInv(q)
        /\ ~ Selecting(q) => SelectedInv(q)
    BY DEF Inv, ReqsInv, ReqInv, Shape
  <1> HIDE DEF q
  <1>2. ASSUME q.pc \in {"derive", "deriving"} \/ (q.pc # "done" /\ q.stage # "dif")
        PROVE  q.candidates # <<>> /\ SelectedInv(q)
    <2>1. SelectedInv(q) /\ q.pc # "done"
      BY <1>1, <1>2 DEF Selecting
    <2>2. q.sel \in DOMAIN q.candidates
      BY <2>1 DEF SelectedInv, Accounted
    <2> QED
      BY <2>1, <2>2
  <1> QED
    BY <1>1, <1>2 DEF q

\* A result arrives for a file, or its metadata begins to be computed.
LEMMA ResultMoves ==
    ASSUME Inv, NEW r \in Requests, NEW f \in DOMAIN req[r].res, NEW v,
           Selecting(req[r]), req[r].pc = "fetch", req[r].res[f] \in {"pending", "computing"},
           v \in Results \union {"computing"},
           req' = [req EXCEPT ![r].res[f] = v]
    PROVE  Moves(r)
  <1> DEFINE q == req[r]
             res == [q.res EXCEPT ![f] = v]
             p == [q EXCEPT !.res = res]
  <1>1. req' = [req EXCEPT ![r] = p]
    OBVIOUS
  <1>2. DOMAIN q = Fields /\ Shape(q) /\ ResInv(q) /\ SelectingInv(q)
    BY RequestIs
  <1>3. /\ DOMAIN q.res = Range(q.files) /\ q.res = [g \in Range(q.files) |-> q.res[g]]
        /\ \A g \in DOMAIN q.res : g \in Files /\ q.res[g] \in Results \union {"pending", "computing"}
    BY <1>2 DEF ResInv
  <1>4. /\ res = [g \in Range(q.files) |-> res[g]] /\ DOMAIN res = Range(q.files) /\ res[f] = v
        /\ \A g \in DOMAIN q.res : g # f => res[g] = q.res[g]
    BY <1>3
  <1> HIDE DEF q, res
  <1>5. /\ p.purpose = q.purpose /\ p.sources = q.sources /\ p.pc = q.pc /\ p.stage = q.stage /\ p.pos = q.pos
        /\ p.files = q.files /\ p.res = res /\ p.listed = q.listed /\ p.sel = q.sel /\ p.map = q.map
        /\ p.il2cpp = q.il2cpp /\ p.candidates = q.candidates /\ p.answer = q.answer /\ DOMAIN p = Fields
    BY <1>2 DEF Fields
  <1> HIDE DEF p
  <1>6. q.pc = "fetch" /\ q.stage = "dif" /\ Selecting(q) /\ Selecting(p) /\ f \in DOMAIN q.res
    BY <1>5 DEF Selecting, q
  <1>7. Shape(p)
    BY <1>2, <1>5 DEF Shape, SourcesInv
  <1>8. ResInv(p)
    BY <1>3, <1>4, <1>5, <1>6 DEF ResInv
  <1>9. SelectingInv(p)
    <2>1. Found(q, q.files, Len(q.sources)) => Found(p, p.files, Len(p.sources))
      BY <1>5 DEF Found
    <2> QED
      BY <1>2, <1>5, <1>6, <2>1 DEF SelectingInv
  <1>10. ReqInv(p)
    BY <1>6, <1>7, <1>8, <1>9 DEF ReqInv
  <1>11. /\ Outcome(q) = [g \in Range(q.files) |-> Suits(q.purpose, q.res[g])]
         /\ Outcome(p) = [g \in Range(q.files) |-> Suits(q.purpose, res[g])]
    BY <1>2, <1>3, <1>4, <1>5 DEF Outcome, SelectingInv
  <1>12. p.listed = q.listed /\ Verdict(p) = Verdict(q)
    BY <1>5 DEF Verdict
  <1>13. Suits(q.purpose, q.res[f]) = -1
    BY SuitsOfMarks DEF q
  <1>14. CASE v = "computing"
    <2>1. \A g \in Range(q.files) : Suits(q.purpose, res[g]) = Suits(q.purpose, q.res[g])
      BY <1>3, <1>4, <1>13, <1>14, SuitsOfMarks
    <2>2. Outcome(p) = Outcome(q)
      BY <1>11, <2>1
    <2> QED
      BY <1>1, <1>10, <1>12, <2>2 DEF Moves, BestStep, Same, q
  <1>15. CASE v \in Results
    <2> DEFINE n == Suits(q.purpose, v)
    <2>1. n \in 0 .. 4
      BY <1>15, SuitsOfResult DEF q
    <2> HIDE DEF n
    <2>2. Outcome(p)[f] = n /\ Outcome(q)[f] = -1 /\ f \in DOMAIN Outcome(q)
      BY <1>3, <1>4, <1>6, <1>11, <1>13 DEF n
    <2>3. \A g \in Range(q.files) : Suits(q.purpose, res[g]) = IF g = f THEN n ELSE Suits(q.purpose, q.res[g])
      BY <1>3, <1>4 DEF n
    <2>4. Outcome(p) = [Outcome(q) EXCEPT ![f] = n]
      BY <1>11, <2>3
    <2>5. ResolveStep(q, p, f)
      BY <1>12, <2>1, <2>2, <2>4 DEF ResolveStep
    <2> QED
      BY <1>1, <1>10, <2>2, <2>5 DEF Moves, BestStep, q
  <1> QED
    BY <1>14, <1>15

\* Every file and every source without one becomes a candidate.
LEMMA CandidatesIs ==
    ASSUME NEW r \in Requests, Shape(req[r])
    PROVE  LET q == req[r]
               c == CreateCandidates(r)
           IN  /\ c # <<>>
               /\ \A f \in Range(q.files) : f \in DOMAIN c /\ c[f].download = q.res[f]
               /\ \A l \in DOMAIN c : DOMAIN c[l] = {"download", "use"} /\ c[l].use = None
               /\ \A s \in Range(q.sources) : \/ s \in DOMAIN c
                                              \/ \E f \in DOMAIN c \cap Files : File(f).source = s
  <1> DEFINE q == req[r]
             c == CreateCandidates(r)
             silent == {s \in Range(q.sources) : \A f \in Range(q.files) : File(f).source # s}
  <1>1. /\ Range(q.files) \subseteq Files /\ Range(q.sources) \cap Files = {}
        /\ q.sources[1] \in Range(q.sources)
    <2>1. q.files \in Seq(Files) /\ SourcesInv(q)
      BY DEF Shape
    <2>2. Range(q.files) \subseteq Files
      BY <2>1 DEF Range
    <2>3. 1 \in DOMAIN q.sources
      BY <2>1 DEF SourcesInv
    <2> HIDE DEF q
    <2> QED
      BY <2>1, <2>2, <2>3 DEF SourcesInv, Range
  <1>2. c = [l \in Range(q.files) \cup silent |->
                [download |-> IF l \in silent THEN "notfound" ELSE q.res[l], use |-> None]]
    BY DEF CreateCandidates
  <1>3. /\ silent \subseteq Range(q.sources)
        /\ \A s \in Range(q.sources) : s \in silent \/ \E f \in Range(q.files) : File(f).source = s
    OBVIOUS
  <1> HIDE DEF q, c, silent
  <1>4. DOMAIN c = Range(q.files) \cup silent /\ DOMAIN c # {}
    BY <1>1, <1>2, <1>3
  <1>5. \A f \in Range(q.files) : f \in DOMAIN c /\ c[f].download = q.res[f]
    BY <1>1, <1>2, <1>3
  <1>6. \A l \in DOMAIN c : DOMAIN c[l] = {"download", "use"} /\ c[l].use = None
    BY <1>2, <1>4
  <1>7. \A s \in Range(q.sources) : s \in DOMAIN c \/ \E f \in DOMAIN c \cap Files : File(f).source = s
    BY <1>1, <1>3, <1>4
  <1>8. c # <<>>
    BY <1>4
  <1> QED
    BY <1>5, <1>6, <1>7, <1>8 DEF q, c

\* Reporting the use of a candidate touches nothing else.
LEMMA SetStatusIs ==
    ASSUME NEW c, NEW f \in DOMAIN c, NEW info, \A l \in DOMAIN c : DOMAIN c[l] = {"download", "use"}
    PROVE  LET d == SetStatus(c, f, info)
           IN  /\ DOMAIN d = DOMAIN c /\ d # <<>>
               /\ d[f].use = info
               /\ \A l \in DOMAIN c : /\ d[l].download = c[l].download /\ DOMAIN d[l] = {"download", "use"}
                                      /\ l # f => d[l].use = c[l].use
  <1> DEFINE d == SetStatus(c, f, info)
  <1>1. d = [c EXCEPT ![f].use = info]
    BY DEF SetStatus
  <1>2. DOMAIN d = DOMAIN c /\ d[f] = [c[f] EXCEPT !.use = info] /\ \A l \in DOMAIN c : l # f => d[l] = c[l]
    BY <1>1
  <1>3. d[f].use = info /\ d[f].download = c[f].download /\ DOMAIN d[f] = {"download", "use"}
    BY <1>2
  <1>4. d # <<>>
    BY <1>2
  <1> HIDE DEF d
  <1> QED
    BY <1>2, <1>3, <1>4 DEF d

\* The selection is the answer of BestObject.
LEMMA AnswerIs ==
    ASSUME Inv, NEW r \in Requests, Selecting(req[r]), Resolved(r), NEW p,
           p.listed = req[r].listed, p.purpose = req[r].purpose, p.candidates # <<>>,
           \A g \in Range(req[r].files) : p.candidates[g].download = req[r].res[g],
           p.sel = SelectMeta(r), p.sel = None => p.pc = "done"
    PROVE  AnswerStep(req[r], p)
  <1> DEFINE q == req[r]
             o(i) == Outcome(q)[q.listed[i]]
             n == Len(q.files)
  <1>1. /\ ResInv(q) /\ SelectingInv(q) /\ q.files \in Seq(Files) /\ q.pc = "fetch"
        /\ \A g \in DOMAIN q.res : q.res[g] \notin {"pending", "computing"}
    BY RequestIs DEF Resolved, Shape
  <1>2. /\ q.candidates = <<>> /\ q.sel = None /\ q.listed = q.files
        /\ DOMAIN q.res = Range(q.files) /\ \A g \in Range(q.files) : q.res[g] \in Results
    BY <1>1 DEF ResInv, SelectingInv
  <1>3. Outcome(q) = [g \in Range(q.files) |-> Suits(q.purpose, q.res[g])]
    BY <1>2 DEF Outcome
  <1>4. Outcome(p) = [g \in Range(q.files) |-> Suits(q.purpose, q.res[g])]
    BY <1>2 DEF Outcome
  <1>5. /\ n \in Nat /\ DOMAIN q.files = 1 .. n
        /\ \A i \in 1 .. n : q.files[i] \in Range(q.files) /\ q.files[i] \in Files /\ q.files[i] # None
    BY <1>1, ObjectConstants DEF Range
  <1>6. ASSUME NEW i \in 1 .. n
        PROVE  /\ o(i) \in 0 .. 4
               /\ Unfit(r, q.files[i]) <=> o(i) = 4
               /\ ~ Unfit(r, q.files[i]) => o(i) = ObjectQuality(r, q.res[q.files[i]])
    <2>1. o(i) = Suits(q.purpose, q.res[q.files[i]]) /\ q.res[q.files[i]] \in Results
      BY <1>2, <1>3, <1>5
    <2> QED
      BY <2>1, SuitsOfResult DEF Unfit
  <1>7. \A g \in DOMAIN Outcome(q) : Outcome(q)[g] # -1
    <2>1. ASSUME NEW g \in Range(q.files) PROVE Suits(q.purpose, q.res[g]) # -1
      <3>1. Suits(q.purpose, q.res[g]) \in 0 .. 4
        BY <1>2, SuitsOfResult
      <3> QED
        BY <3>1
    <2> HIDE DEF q
    <2> QED
      BY <1>3, <2>1
  <1>8. Verdict(q) = "unanswered"
    BY <1>1, <1>2 DEF Verdict
  <1>9. \/ p.sel = None /\ \A j \in 1 .. n : Unfit(r, q.files[j])
        \/ \E i \in 1 .. n : p.sel = q.files[i] /\ FirstBest(r, i, n)
    BY <1>1, SelectMetaIs
  <1> DEFINE suitable == {i \in DOMAIN q.listed : o(i) # 4}
  <1>10. CASE p.sel = None /\ \A j \in 1 .. n : Unfit(r, q.files[j])
    <2>1. suitable = {}
      BY <1>2, <1>5, <1>6, <1>10
    <2>2. Verdict(p) = "nothing"
      BY <1>10 DEF Verdict
    <2> QED
      BY <1>2, <1>3, <1>4, <1>7, <1>8, <2>1, <2>2 DEF AnswerStep
  <1>11. ASSUME NEW i \in 1 .. n, p.sel = q.files[i], FirstBest(r, i, n) PROVE AnswerStep(q, p)
    <2>1. Verdict(p) = q.listed[i]
      BY <1>2, <1>5, <1>11 DEF Verdict
    <2>2. i \in suitable
      BY <1>2, <1>5, <1>6, <1>11 DEF FirstBest
    <2>3. ASSUME NEW j \in suitable \ {i} PROVE o(i) < o(j) \/ (o(i) = o(j) /\ i < j)
      <3>1. j \in 1 .. n /\ ~ Unfit(r, q.files[j]) /\ ~ Unfit(r, q.files[i]) /\ j # i
        BY <1>2, <1>5, <1>6, <1>11, <2>3 DEF FirstBest
      <3>2. o(i) = ObjectQuality(r, q.res[q.files[i]]) /\ o(j) = ObjectQuality(r, q.res[q.files[j]])
        BY <1>6, <3>1
      <3>3. \/ ObjectQuality(r, q.res[q.files[i]]) < ObjectQuality(r, q.res[q.files[j]])
            \/ (ObjectQuality(r, q.res[q.files[i]]) = ObjectQuality(r, q.res[q.files[j]]) /\ i <= j)
        BY <1>11, <3>1 DEF FirstBest
      <3> QED
        BY <3>1, <3>2, <3>3
    <2> QED
      BY <1>2, <1>3, <1>4, <1>7, <1>8, <2>1, <2>2, <2>3 DEF AnswerStep
  <1> QED
    BY <1>9, <1>10, <1>11

LEMMA SelectMoves ==
    ASSUME Inv, NEW r \in Requests, Select(r)
    PROVE  Moves(r)
  <1> DEFINE q == req[r]
             f == SelectMeta(r)
             c == CreateCandidates(r)
             p == IF f = None THEN [q EXCEPT !.pc = "done", !.answer = [res |-> "notfound"], !.candidates = c]
                  ELSE IF q.res[f] \in Errors
                  THEN [q EXCEPT !.pc = "done", !.answer = [res |-> q.res[f]], !.sel = f,
                                 !.candidates = SetStatus(c, f, UseInfoOfError(q.res[f]))]
                  ELSE IF q.purpose = "symcache"
                  THEN [q EXCEPT !.pc = "list", !.stage = "plist", !.sel = f, !.candidates = c,
                                 !.pos = 1, !.files = <<>>, !.res = <<>>]
                  ELSE [q EXCEPT !.pc = "derive", !.sel = f, !.candidates = c]
  <1>1. /\ req' = [req EXCEPT ![r] = p]
        /\ Resolved(r) /\ q.stage = "dif"
    BY DEF Select
  <1>2. Selecting(q)
    BY <1>1 DEF Selecting, Resolved
  <1>3. /\ DOMAIN q = Fields /\ Shape(q) /\ ResInv(q) /\ SelectingInv(q) /\ q.files \in Seq(Files) /\ q.pc = "fetch"
        /\ \A g \in DOMAIN q.res : q.res[g] \notin {"pending", "computing"}
    BY <1>1, <1>2, RequestIs DEF Resolved, Shape
  <1>4. /\ q.candidates = <<>> /\ q.sel = None /\ q.map = None /\ q.il2cpp = None /\ q.listed = q.files /\ q.answer = [res |-> None]
        /\ DOMAIN q.res = Range(q.files) /\ \A g \in Range(q.files) : q.res[g] \in Results /\ g \in DifFiles /\ g # None
    <2>1. \A g \in Range(q.files) : g \in DifFiles /\ g # None
      BY <1>3, ObjectConstants DEF SelectingInv, Found, Range, DifFiles
    <2> QED
      BY <1>3, <2>1 DEF ResInv, SelectingInv
  <1>5. /\ c # <<>>
        /\ \A g \in Range(q.files) : g \in DOMAIN c /\ c[g].download = q.res[g]
        /\ \A l \in DOMAIN c : DOMAIN c[l] = {"download", "use"} /\ c[l].use = None
        /\ \A s \in Range(q.sources) : s \in DOMAIN c \/ \E g \in DOMAIN c \cap Files : File(g).source = s
    BY <1>3, CandidatesIs
  <1>6. f = None \/ f \in Range(q.files)
    BY <1>3, SelectMetaIs DEF Range
  <1>7. SourcesInv(q) /\ 1 \in 1 .. Len(q.sources)
    <2>1. SourcesInv(q)
      BY <1>3 DEF Shape
    <2>2. q.pos \in 1 .. Len(q.sources) /\ Len(q.sources) \in Nat
      BY <2>1 DEF SourcesInv
    <2> HIDE DEF q
    <2> QED
      BY <2>1, <2>2
  \* What all of the outcomes share.
  <1>8. ASSUME NEW x, DOMAIN x = Fields, x.purpose = q.purpose, x.sources = q.sources, x.listed = q.listed,
               x.sel = f, x.sel = None => x.pc = "done", x.pos \in 1 .. Len(q.sources),
               x.candidates # <<>>,
               \A g \in Range(q.files) : x.candidates[g].download = q.res[g],
               DOMAIN x.candidates = DOMAIN c,
               \A l \in DOMAIN c : DOMAIN x.candidates[l] = {"download", "use"},
               \A l \in DOMAIN c : x.candidates[l].use # None => l = x.sel,
               x.pc \in {"list", "derive", "done"}, x.pc = "list" => x.stage = "plist",
               (x.files = q.files /\ x.res = q.res /\ x.pc # "list") \/ (x.files = <<>> /\ x.res = <<>>),
               x.answer.res # "ok",
               x.pc = "done" => \A l \in DOMAIN c : x.candidates[l].use # "ok",
               x.pc # "done" => /\ f # None /\ q.res[f] \notin Errors /\ x.answer = [res |-> None]
                                /\ \A l \in DOMAIN c : x.candidates[l].use = None
        PROVE  ReqInv(x) /\ AnswerStep(q, x)
    <2>1. AnswerStep(q, x)
      BY <1>1, <1>2, <1>8, AnswerIs
    <2> HIDE DEF q, f, c
    <2>2. Shape(x)
      <3>1. SourcesInv(x)
        BY <1>7, <1>8 DEF SourcesInv
      <3>2. x.files \in Seq(Files)
        <4>1. x.files = q.files \/ x.files = <<>>
          BY <1>8
        <4>2. q.files \in Seq(Files) /\ <<>> \in Seq(Files)
          BY <1>3
        <4> QED
          BY <4>1, <4>2
      <3>3. x.pc \in {"list", "derive", "done"} /\ DOMAIN x = Fields /\ (x.pc = "list" => x.stage = "plist")
        BY <1>8
      <3> QED
        BY <3>1, <3>2, <3>3 DEF Shape
    <2>3. ResInv(x)
      BY <1>3, <1>4, <1>8 DEF ResInv
    <2>4. ~ Selecting(x)
      BY <1>8 DEF Selecting
    <2>5. Accounted(x)
      BY <1>4, <1>5, <1>8 DEF Accounted
    <2>6. SelectedInv(x)
      BY <1>4, <1>6, <1>8, <2>5 DEF SelectedInv
    <2> QED
      BY <2>1, <2>2, <2>3, <2>4, <2>6 DEF ReqInv
  <1>9. ReqInv(p) /\ AnswerStep(q, p)
    <2>1. CASE f = None
      <3>1. p = [q EXCEPT !.pc = "done", !.answer = [res |-> "notfound"], !.candidates = c]
        BY <2>1
      <3> HIDE DEF q, f, c, p
      <3>2. /\ p.purpose = q.purpose /\ p.sources = q.sources /\ p.pc = "done" /\ p.stage = q.stage /\ p.pos = q.pos
            /\ p.files = q.files /\ p.res = q.res /\ p.listed = q.listed /\ p.sel = q.sel
            /\ p.candidates = c /\ p.answer = [res |-> "notfound"] /\ DOMAIN p = Fields
        BY <1>3, <3>1 DEF Fields
      <3>3. q.pos \in 1 .. Len(q.sources) /\ p.answer.res = "notfound" /\ None # "ok"
        BY <1>7, <3>2 DEF SourcesInv, None
      <3> QED
        BY <1>4, <1>5, <1>8, <2>1, <3>2, <3>3
    <2>2. CASE f # None /\ q.res[f] \in Errors
      <3> DEFINE i == UseInfoOfError(q.res[f])
                 d == SetStatus(c, f, i)
      <3>1. p = [q EXCEPT !.pc = "done", !.answer = [res |-> q.res[f]], !.sel = f, !.candidates = d]
        BY <2>2
      <3>2. i # "ok"
        BY DEF UseInfoOfError, None
      <3>3. f \in Range(q.files) /\ f \in DOMAIN c
        BY <1>5, <1>6, <2>2
      <3> HIDE DEF q, f, c, p, i
      <3>4. /\ DOMAIN d = DOMAIN c /\ d # <<>> /\ d[f].use = i
            /\ \A l \in DOMAIN c : /\ d[l].download = c[l].download /\ DOMAIN d[l] = {"download", "use"}
                                   /\ l # f => d[l].use = c[l].use
        BY <1>5, <3>3, SetStatusIs
      <3> HIDE DEF d
      <3>5. /\ p.purpose = q.purpose /\ p.sources = q.sources /\ p.pc = "done" /\ p.stage = q.stage /\ p.pos = q.pos
            /\ p.files = q.files /\ p.res = q.res /\ p.listed = q.listed /\ p.sel = f
            /\ p.candidates = d /\ p.answer = [res |-> q.res[f]] /\ DOMAIN p = Fields
        BY <1>3, <3>1 DEF Fields
      <3>6. q.pos \in 1 .. Len(q.sources) /\ p.answer.res # "ok" /\ None # "ok"
        BY <1>7, <2>2, <3>5 DEF SourcesInv, Errors, None
      <3>7. \A l \in DOMAIN c : /\ d[l].use # None => l = f
                                /\ d[l].use # "ok"
        BY <1>5, <3>2, <3>4, <3>6
      <3>8. \A g \in Range(q.files) : d[g].download = q.res[g]
        BY <1>5, <3>4
      <3> QED
        BY <1>8, <2>2, <3>4, <3>5, <3>6, <3>7, <3>8
    <2>3. CASE f # None /\ q.res[f] \notin Errors /\ q.purpose = "symcache"
      <3>1. p = [q EXCEPT !.pc = "list", !.stage = "plist", !.sel = f, !.candidates = c,
                          !.pos = 1, !.files = <<>>, !.res = <<>>]
        BY <2>3
      <3> HIDE DEF q, f, c, p
      <3>2. /\ p.purpose = q.purpose /\ p.sources = q.sources /\ p.pc = "list" /\ p.stage = "plist" /\ p.pos = 1
            /\ p.files = <<>> /\ p.res = <<>> /\ p.listed = q.listed /\ p.sel = f
            /\ p.candidates = c /\ p.answer = q.answer /\ DOMAIN p = Fields
        BY <1>3, <3>1 DEF Fields
      <3>3. p.answer = [res |-> None] /\ p.answer.res # "ok"
        BY <1>4, <3>2 DEF None
      <3> QED
        BY <1>5, <1>7, <1>8, <2>3, <3>2, <3>3
    <2>4. CASE f # None /\ q.res[f] \notin Errors /\ q.purpose # "symcache"
      <3>1. p = [q EXCEPT !.pc = "derive", !.sel = f, !.candidates = c]
        BY <2>4
      <3> HIDE DEF q, f, c, p
      <3>2. /\ p.purpose = q.purpose /\ p.sources = q.sources /\ p.pc = "derive" /\ p.stage = q.stage /\ p.pos = q.pos
            /\ p.files = q.files /\ p.res = q.res /\ p.listed = q.listed /\ p.sel = f
            /\ p.candidates = c /\ p.answer = q.answer /\ DOMAIN p = Fields
        BY <1>3, <3>1 DEF Fields
      <3>3. p.answer = [res |-> None] /\ p.answer.res # "ok" /\ q.pos \in 1 .. Len(q.sources)
        BY <1>4, <1>7, <3>2 DEF None, SourcesInv
      <3> QED
        BY <1>5, <1>8, <2>4, <3>2, <3>3
    <2> QED
      BY <2>1, <2>2, <2>3, <2>4
  <1> HIDE DEF p
  <1> QED
    BY <1>1, <1>9 DEF Moves, BestStep

\* A request that has selected an object and answers nothing yet goes on.
LEMMA SelectedMoves ==
    ASSUME Inv, NEW r \in Requests, ~ Selecting(req[r]), req[r].pc # "done", req[r].candidates # <<>>,
           NEW p, req' = [req EXCEPT ![r] = p],
           Shape(p), ResInv(p), ~ Selecting(p), p.pc # "done",
           p.purpose = req[r].purpose, p.sources = req[r].sources, p.listed = req[r].listed,
           p.sel = req[r].sel, p.candidates = req[r].candidates, p.answer = req[r].answer
    PROVE  Moves(r)
  <1> DEFINE q == req[r]
  <1>1. SelectedInv(q)
    BY RequestIs
  <1> HIDE DEF q
  <1>2. SelectedInv(p)
    <2>1. Accounted(p)
      BY <1>1 DEF SelectedInv, Accounted, q
    <2>2. q.sel = p.sel /\ q.listed = p.listed /\ q.candidates = p.candidates /\ q.answer = p.answer /\ q.pc # "done"
      BY DEF q
    <2>3. q.answer.res # "ok"
      BY <1>1, <2>2 DEF SelectedInv, None
    <2> QED
      BY <1>1, <2>1, <2>2, <2>3 DEF SelectedInv
  <1>3. ReqInv(p)
    BY <1>2 DEF ReqInv
  <1>4. Same(q, p)
    BY DEF Same, Outcome, Verdict, q
  <1> QED
    BY <1>3, <1>4 DEF Moves, BestStep, q

\* A secondary file arrives.
LEMMA FetchAuxMoves ==
    ASSUME Inv, NEW r \in Requests, NEW f \in DOMAIN req[r].res, NEW fail \in BOOLEAN, FetchAux(r, f, fail)
    PROVE  Moves(r) /\ aux' \in [Keys -> Results \union {"absent"}]
  <1> DEFINE q == req[r]
             k == AuxKey(r, f)
             v == IF aux[k] # "absent" THEN aux[k] ELSE IF fail THEN "error" ELSE Parsed(content[f])
             res == [q.res EXCEPT ![f] = v]
             p == [q EXCEPT !.res = res]
  <1>1. /\ req' = [req EXCEPT ![r] = p] /\ aux' = [aux EXCEPT ![k] = v]
        /\ q.pc = "fetch" /\ q.stage # "dif"
    BY DEF FetchAux, Waiting
  <1>2. DOMAIN q = Fields /\ Shape(q) /\ ResInv(q) /\ q.candidates # <<>> /\ SelectedInv(q)
    BY <1>1, RequestIs
  <1>3. f \in Files /\ q.sel \in Files
    BY <1>1, <1>2 DEF ResInv, SelectedInv, Accounted, DifFiles
  <1>4. k \in Keys
    BY <1>3, KeyIs, ScopeIs DEF AuxKey
  <1>5. v \in Results /\ aux' \in [Keys -> Results \union {"absent"}]
    <2>1. aux \in [Keys -> Results \union {"absent"}] /\ content[f] \in Contents
      BY <1>3 DEF Inv, CacheInv
    <2>2. Parsed(content[f]) \in Results /\ "error" \in Results
      BY <2>1, ParsedIs DEF Results, Errors
    <2>3. v \in Results
      BY <1>4, <2>1, <2>2
    <2> HIDE DEF k, v
    <2> QED
      BY <1>1, <2>1, <2>3
  <1> HIDE DEF q, v, res, k
  <1>6. /\ p.purpose = q.purpose /\ p.sources = q.sources /\ p.pc = q.pc /\ p.stage = q.stage /\ p.pos = q.pos
        /\ p.files = q.files /\ p.res = res /\ p.listed = q.listed /\ p.sel = q.sel /\ p.map = q.map
        /\ p.il2cpp = q.il2cpp /\ p.candidates = q.candidates /\ p.answer = q.answer /\ DOMAIN p = Fields
    BY <1>2 DEF Fields
  <1> HIDE DEF p
  <1>7. Shape(p)
    BY <1>2, <1>6 DEF Shape, SourcesInv
  <1>8. /\ q.res = [g \in Range(q.files) |-> q.res[g]]
        /\ \A g \in DOMAIN q.res : g \in Files /\ q.res[g] \in Results \union {"pending", "computing"}
                                   /\ (q.res[g] = "computing" => Selecting(q))
    BY <1>1, <1>2 DEF ResInv
  <1>9. /\ res = [g \in Range(q.files) |-> res[g]] /\ DOMAIN res = DOMAIN q.res
        /\ \A g \in DOMAIN q.res : res[g] = IF g = f THEN v ELSE q.res[g]
    BY <1>8 DEF res
  <1>10. ~ Selecting(q) /\ ~ Selecting(p)
    BY <1>1, <1>6 DEF Selecting
  <1>11. v # "computing"
    BY <1>5, MarksAreNoResults
  <1>12. ResInv(p)
    BY <1>1, <1>5, <1>6, <1>8, <1>9, <1>10, <1>11 DEF ResInv
  <1> QED
    BY <1>1, <1>2, <1>5, <1>6, <1>7, <1>10, <1>12, SelectedMoves DEF q

\* One stage of secondary files ends.
LEMMA AuxDoneMoves ==
    ASSUME Inv, NEW r \in Requests, AuxDone(r)
    PROVE  Moves(r)
  <1> DEFINE q == req[r]
             pc == IF q.stage = "il2cpp" THEN "derive" ELSE "list"
             map == IF q.stage = "map" THEN FirstOk(r) ELSE q.map
             il2cpp == IF q.stage = "il2cpp" THEN FirstOk(r) ELSE q.il2cpp
             p == [q EXCEPT !.pc = pc, !.stage = NextStage(r), !.map = map, !.il2cpp = il2cpp,
                            !.pos = 1, !.files = <<>>, !.res = <<>>]
  <1>1. /\ req' = [req EXCEPT ![r] = p] /\ q.pc = "fetch" /\ q.stage # "dif"
    BY DEF AuxDone, Resolved
  <1>2. DOMAIN q = Fields /\ Shape(q) /\ ResInv(q) /\ q.candidates # <<>> /\ SelectedInv(q)
    BY <1>1, RequestIs
  <1>3. SourcesInv(q) /\ 1 \in 1 .. Len(q.sources)
    <2>1. SourcesInv(q)
      BY <1>2 DEF Shape
    <2>2. q.pos \in 1 .. Len(q.sources) /\ Len(q.sources) \in Nat
      BY <2>1 DEF SourcesInv
    <2> HIDE DEF q
    <2> QED
      BY <2>1, <2>2
  <1>4. pc \in {"list", "derive"} /\ (pc = "list" => NextStage(r) \in {"map", "il2cpp"})
    BY <1>1, <1>2 DEF NextStage, Shape
  <1> HIDE DEF q, pc, map, il2cpp
  <1>5. /\ p.purpose = q.purpose /\ p.sources = q.sources /\ p.pc = pc /\ p.stage = NextStage(r) /\ p.pos = 1
        /\ p.files = <<>> /\ p.res = <<>> /\ p.listed = q.listed /\ p.sel = q.sel
        /\ p.candidates = q.candidates /\ p.answer = q.answer /\ DOMAIN p = Fields
    BY <1>2 DEF Fields
  <1> HIDE DEF p
  <1>6. Shape(p)
    BY <1>3, <1>4, <1>5 DEF Shape, SourcesInv
  <1>7. ResInv(p)
    BY <1>4, <1>5 DEF ResInv
  <1>8. ~ Selecting(q) /\ ~ Selecting(p)
    BY <1>1, <1>4, <1>5 DEF Selecting
  <1> QED
    BY <1>1, <1>2, <1>4, <1>5, <1>6, <1>7, <1>8, SelectedMoves DEF q

-----------------------------------------------------------------------------
(* The caches the requests share *)

\* Reading the object from its source, or from the data cache.
LEMMA FetchDataInv ==
    ASSUME CacheInv, NEW k \in Keys, NEW fail \in BOOLEAN, FetchData(k, fail)
    PROVE  /\ data'[k] \in Results
           /\ data' \in [Keys -> Results \union {"absent"}]
           /\ k[2] \in Files
  <1> DEFINE v == Data(k, fail)
             c == content[k[2]]
  <1>1. data' = [data EXCEPT ![k] = v]
    BY DEF FetchData
  <1>2. /\ k[2] \in Files /\ c \in Contents /\ data[k] \in Results \union {"absent"}
    BY DEF CacheInv, Keys
  <1> HIDE DEF c
  <1>3. Parsed(c) \in Results /\ "error" \in Results
    BY <1>2, ParsedIs DEF Results, Errors
  <1>4. v \in Results
    BY <1>2, <1>3 DEF Data, c
  <1> HIDE DEF v
  <1> QED
    BY <1>1, <1>2, <1>4 DEF CacheInv

\* Another request has computed the metadata of a file.
LEMMA MetaHitMoves ==
    ASSUME Inv, NEW r \in Requests, NEW f \in DOMAIN req[r].res, MetaHit(r, f)
    PROVE  Moves(r)
  <1> DEFINE k == Key(Scope[r], f)
  <1>1. /\ req[r].pc = "fetch" /\ req[r].stage = "dif" /\ req[r].res[f] = "pending" /\ Selecting(req[r])
        /\ req' = [req EXCEPT ![r].res[f] = meta[k]] /\ meta[k] \notin {"absent", "busy"}
    BY DEF MetaHit, Waiting, Selecting
  <1>2. f \in Files
    BY RequestIs DEF ResInv
  <1>3. k \in Keys /\ k[2] = f
    BY <1>2, KeyIs, ScopeIs
  <1>4. meta[k] \in Results
    BY <1>1, <1>3 DEF Inv, CacheInv
  <1> HIDE DEF k
  <1> QED
    BY <1>1, <1>4, ResultMoves

\* A request computes the metadata of a file.
LEMMA MetaStartMoves ==
    ASSUME Inv, NEW r \in Requests, NEW f \in DOMAIN req[r].res, MetaStart(r, f)
    PROVE  Moves(r) /\ CacheInv'
  <1> DEFINE k == Key(Scope[r], f)
  <1>1. /\ req[r].pc = "fetch" /\ req[r].stage = "dif" /\ req[r].res[f] = "pending" /\ Selecting(req[r])
        /\ req' = [req EXCEPT ![r].res[f] = "computing"]
        /\ meta' = [meta EXCEPT ![k] = "busy"] /\ UNCHANGED <<content, data, aux>>
    BY DEF MetaStart, Waiting, Selecting
  <1>2. CacheInv'
    BY <1>1 DEF Inv, CacheInv
  <1>3. Moves(r)
    BY <1>1, ResultMoves
  <1> QED
    BY <1>2, <1>3

LEMMA MetaFinishMoves ==
    ASSUME Inv, NEW r \in Requests, NEW f \in DOMAIN req[r].res, NEW fail \in BOOLEAN, MetaFinish(r, f, fail)
    PROVE  Moves(r) /\ CacheInv'
  <1> DEFINE k == Key(Scope[r], f)
  <1>1. /\ req[r].res[f] = "computing" /\ FetchData(k, fail)
        /\ meta' = [meta EXCEPT ![k] = data'[k]] /\ req' = [req EXCEPT ![r].res[f] = data'[k]]
        /\ UNCHANGED <<content, aux>>
    BY DEF MetaFinish
  <1>2. ResInv(req[r])
    BY RequestIs
  <1>3. f \in Files /\ Selecting(req[r]) /\ req[r].pc = "fetch"
    <2>1. f \in Files /\ Selecting(req[r])
      BY <1>1, <1>2 DEF ResInv
    <2> QED
      BY <1>2, <2>1 DEF ResInv, Selecting
  <1>4. k \in Keys /\ k[2] = f
    BY <1>3, KeyIs, ScopeIs
  <1> HIDE DEF k
  <1>5. data'[k] \in Results /\ data' \in [Keys -> Results \union {"absent"}]
    BY <1>1, <1>4, FetchDataInv DEF Inv
  <1>6. CacheInv'
    <2>1. meta' \in [Keys -> Results \union {"absent", "busy"}]
      BY <1>1, <1>5 DEF Inv, CacheInv
    <2> QED
      BY <1>1, <1>5, <2>1 DEF Inv, CacheInv
  <1>7. Moves(r)
    <2> DEFINE v == data'[k]
    <2>1. req' = [req EXCEPT ![r].res[f] = v] /\ v \in Results
      BY <1>1, <1>5
    <2> HIDE DEF v
    <2> QED
      BY <1>1, <1>2, <1>3, <2>1, ResultMoves
  <1> QED
    BY <1>6, <1>7

\* A request whose answer is there.
LEMMA AnsweredMoves ==
    ASSUME Inv, NEW r \in Requests, req[r].pc \in {"derive", "deriving"}, NEW v, Answered(r, v),
           v.res \in {"ok", "notfound", "denied", "malformed", "error", "unsupported"},
           v.res = "ok" => MadeOf(v, req[r].sel, req[r].map, req[r].il2cpp)
    PROVE  Moves(r)
  <1> DEFINE q == req[r]
             i == UseInfo(v.res)
             c == q.candidates
             d == SetStatus(c, q.sel, i)
             p == [q EXCEPT !.pc = "done", !.answer = v, !.candidates = d]
  <1>1. req' = [req EXCEPT ![r] = p]
    BY DEF Answered
  <1>2. DOMAIN q = Fields /\ Shape(q) /\ ResInv(q) /\ q.candidates # <<>> /\ SelectedInv(q)
    BY RequestIs
  <1>3. i # None /\ (i = "ok" <=> v.res = "ok")
    BY DEF UseInfo, None
  <1>4. q.pc # "done" /\ q.pc # "list" /\ q.pc # "fetch" /\ ~ Selecting(q)
    BY DEF Selecting
  <1> HIDE DEF q, i
  <1>5. /\ q.sel \in Range(q.listed) /\ q.sel # None /\ q.sel \in DOMAIN c /\ Accounted(q)
        /\ \A l \in DOMAIN c : DOMAIN c[l] = {"download", "use"} /\ c[l].use = None
    BY <1>2, <1>4 DEF SelectedInv, Accounted
  <1> HIDE DEF c
  <1>6. /\ DOMAIN d = DOMAIN c /\ d # <<>> /\ d[q.sel].use = i
        /\ \A l \in DOMAIN c : /\ d[l].download = c[l].download /\ DOMAIN d[l] = {"download", "use"}
                               /\ l # q.sel => d[l].use = c[l].use
    BY <1>5, SetStatusIs
  <1> HIDE DEF d
  <1>7. /\ p.purpose = q.purpose /\ p.sources = q.sources /\ p.pc = "done" /\ p.stage = q.stage /\ p.pos = q.pos
        /\ p.files = q.files /\ p.res = q.res /\ p.listed = q.listed /\ p.sel = q.sel /\ p.map = q.map
        /\ p.il2cpp = q.il2cpp /\ p.candidates = d /\ p.answer = v /\ DOMAIN p = Fields
    BY <1>2 DEF Fields
  <1> HIDE DEF p
  <1>8. Shape(p)
    BY <1>2, <1>7 DEF Shape, SourcesInv
  <1>9. ResInv(p)
    BY <1>2, <1>4, <1>7 DEF ResInv
  <1>10. ~ Selecting(p)
    BY <1>7 DEF Selecting
  <1>11. Accounted(p)
    <2>1. /\ DOMAIN p.candidates = DOMAIN q.candidates /\ p.listed = q.listed /\ p.sources = q.sources
          /\ \A l \in DOMAIN q.candidates : DOMAIN p.candidates[l] = {"download", "use"}
      BY <1>6, <1>7 DEF c
    <2>2. Accounted(q)
      BY <1>5
    <2> QED
      BY <2>1, <2>2 DEF Accounted
  <1>12. \A l \in DOMAIN d : d[l].use # None => l = q.sel
    BY <1>5, <1>6
  <1>13. v.res = "ok" <=> \E l \in DOMAIN d : d[l].use = "ok"
    <2>1. \A l \in DOMAIN d : d[l].use = "ok" => l = q.sel
      BY <1>12 DEF None
    <2> QED
      BY <1>3, <1>5, <1>6, <2>1
  <1>14. v.res = "ok" => MadeOf(v, p.sel, p.map, p.il2cpp)
    BY <1>7 DEF q
  <1>15. SelectedInv(p)
    BY <1>5, <1>7, <1>11, <1>12, <1>13, <1>14 DEF SelectedInv
  <1>16. ReqInv(p)
    BY <1>8, <1>9, <1>10, <1>15 DEF ReqInv
  <1>17. Same(q, p)
    <2>1. \A f \in Range(q.listed) : d[f].download = c[f].download
      BY <1>5, <1>6 DEF Accounted, c
    <2>2. Outcome(q) = [f \in Range(q.listed) |-> Suits(q.purpose, c[f].download)]
      BY <1>2 DEF Outcome, c
    <2>3. Outcome(p) = [f \in Range(q.listed) |-> Suits(q.purpose, d[f].download)]
      BY <1>6, <1>7 DEF Outcome
    <2>4. Outcome(p) = Outcome(q)
      BY <2>1, <2>2, <2>3
    <2> QED
      BY <1>5, <1>7, <2>4 DEF Same, Verdict
  <1> QED
    BY <1>1, <1>16, <1>17 DEF Moves, BestStep, q

\* The derived cache another request has written is what this one needs.
LEMMA DerivedHitMoves ==
    ASSUME Inv, NEW r \in Requests, DerivedHit(r)
    PROVE  Moves(r)
  <1> DEFINE k == DerivedKey(r)
             v == derived[k]
  <1>1. req[r].pc = "derive" /\ k \in DOMAIN derived /\ v.res # "busy" /\ Answered(r, v)
    BY DEF DerivedHit
  <1>2. /\ v.res \in {"busy", "ok", "notfound", "denied", "malformed", "error", "unsupported"}
        /\ v.res = "ok" => \E purpose, scope : k = KeyOf(purpose, <<scope, v.object>>, v.map, v.il2cpp)
    BY <1>1 DEF Inv, DerivedInv
  <1>3. k = KeyOf(req[r].purpose, <<KeyScope(Scope[r], req[r].sel), req[r].sel>>, req[r].map, req[r].il2cpp)
    BY DerivedKeyIs
  <1> HIDE DEF k, v
  <1>4. ASSUME v.res = "ok" PROVE MadeOf(v, req[r].sel, req[r].map, req[r].il2cpp)
    <2>1. PICK purpose, scope : k = KeyOf(purpose, <<scope, v.object>>, v.map, v.il2cpp)
      BY <1>2, <1>4
    <2>2. /\ <<scope, v.object>> = <<KeyScope(Scope[r], req[r].sel), req[r].sel>>
          /\ v.map = req[r].map /\ v.il2cpp = req[r].il2cpp
      BY <1>3, <2>1, KeyOfIs
    <2> QED
      BY <2>2 DEF MadeOf
  <1> QED
    BY <1>1, <1>2, <1>4, AnsweredMoves

LEMMA DerivedStartMoves ==
    ASSUME Inv, NEW r \in Requests, DerivedStart(r)
    PROVE  Moves(r) /\ DerivedInv'
  <1> DEFINE q == req[r]
             k == DerivedKey(r)
             p == [q EXCEPT !.pc = "deriving"]
  <1>1. /\ q.pc = "derive" /\ req' = [req EXCEPT ![r] = p]
        /\ k \notin DOMAIN derived
        /\ derived' = [j \in {k} \union DOMAIN derived |-> IF j = k THEN [res |-> "busy"] ELSE derived[j]]
    BY DEF DerivedStart
  <1>2. DOMAIN q = Fields /\ Shape(q) /\ ResInv(q) /\ q.candidates # <<>>
    BY <1>1, RequestIs
  <1> HIDE DEF q, k
  <1>3. /\ DOMAIN derived' = {k} \union DOMAIN derived
        /\ derived'[k] = [res |-> "busy"]
        /\ \A j \in DOMAIN derived : derived'[j] = derived[j]
    BY <1>1
  <1>4. DerivedInv'
    <2>1. derived'[k].res = "busy"
      BY <1>3
    <2>2. ASSUME NEW j \in DOMAIN derived'
          PROVE  /\ derived'[j].res \in {"busy", "ok", "notfound", "denied", "malformed", "error", "unsupported"}
                 /\ derived'[j].res = "ok" =>
                      \E purpose, scope : j = KeyOf(purpose, <<scope, derived'[j].object>>, derived'[j].map, derived'[j].il2cpp)
      <3>1. CASE j = k
        BY <2>1, <3>1
      <3>2. CASE j \in DOMAIN derived
        BY <1>3, <3>2 DEF Inv, DerivedInv
      <3> QED
        BY <1>3, <2>2, <3>1, <3>2
    <2> QED
      BY <2>2 DEF DerivedInv
  <1>5. /\ p.purpose = q.purpose /\ p.sources = q.sources /\ p.pc = "deriving" /\ p.stage = q.stage /\ p.pos = q.pos
        /\ p.files = q.files /\ p.res = q.res /\ p.listed = q.listed /\ p.sel = q.sel /\ p.map = q.map
        /\ p.il2cpp = q.il2cpp /\ p.candidates = q.candidates /\ p.answer = q.answer /\ DOMAIN p = Fields
    BY <1>2 DEF Fields
  <1> HIDE DEF p
  <1>6. ~ Selecting(q) /\ ~ Selecting(p)
    BY <1>1, <1>5 DEF Selecting
  <1>7. Shape(p)
    BY <1>2, <1>5 DEF Shape, SourcesInv
  <1>8. ResInv(p)
    BY <1>1, <1>2, <1>5, <1>6 DEF ResInv
  <1>9. Moves(r)
    BY <1>1, <1>2, <1>5, <1>6, <1>7, <1>8, SelectedMoves DEF q
  <1> QED
    BY <1>4, <1>9

LEMMA DerivedFinishMoves ==
    ASSUME Inv, NEW r \in Requests, NEW fail \in BOOLEAN, DerivedFinish(r, fail)
    PROVE  Moves(r) /\ DerivedInv' /\ CacheInv'
  <1> DEFINE q == req[r]
             k == Key(Scope[r], q.sel)
             d == data'[k]
             v == Derive(r, d)
             key == DerivedKey(r)
  <1>1. /\ q.pc = "deriving" /\ FetchData(k, fail) /\ derived' = [derived EXCEPT ![key] = v]
        /\ Answered(r, v) /\ UNCHANGED <<content, meta, aux>>
    BY DEF DerivedFinish
  <1>2. SelectedInv(q) /\ q.sel \in Files
    <2>1. SelectedInv(q)
      BY <1>1, RequestIs
    <2> QED
      BY <1>1, <2>1 DEF SelectedInv, Accounted, DifFiles
  <1>3. k \in Keys /\ k[2] = q.sel
    BY <1>2, KeyIs, ScopeIs
  <1>4. key = KeyOf(q.purpose, <<KeyScope(Scope[r], q.sel), q.sel>>, q.map, q.il2cpp)
    BY DerivedKeyIs
  <1> HIDE DEF k, key
  <1>5. d \in Results /\ data' \in [Keys -> Results \union {"absent"}]
    BY <1>1, <1>2, <1>3, FetchDataInv DEF Inv
  <1>6. CacheInv'
    BY <1>1, <1>5 DEF Inv, CacheInv
  <1> HIDE DEF q, d
  <1>7. /\ v.res \in {"ok", "notfound", "denied", "malformed", "error", "unsupported"}
        /\ v.res = "ok" => v.object = q.sel /\ v.map = q.map /\ v.il2cpp = q.il2cpp
    <2>1. CASE d \in Errors
      <3>1. v = [res |-> d]
        BY <2>1 DEF Derive
      <3> QED
        BY <1>5, <2>1, <3>1 DEF Errors
    <2>2. CASE d \notin Errors
      <3>1. \/ v = [res |-> "unsupported"] \/ v = [res |-> "malformed"]
            \/ v = [res |-> "ok", object |-> q.sel, map |-> q.map, il2cpp |-> q.il2cpp]
        BY <2>2 DEF Derive, Converted, q
      <3> QED
        BY <3>1
    <2> QED
      BY <2>1, <2>2
  <1> HIDE DEF v
  <1>8. Moves(r)
    BY <1>1, <1>7, AnsweredMoves DEF MadeOf, q
  <1>9. DerivedInv'
    <2>1. /\ DOMAIN derived' = DOMAIN derived
          /\ \A j \in DOMAIN derived : derived'[j] = IF j = key THEN v ELSE derived[j]
      BY <1>1
    <2>2. ASSUME NEW j \in DOMAIN derived
          PROVE  /\ derived'[j].res \in {"busy", "ok", "notfound", "denied", "malformed", "error", "unsupported"}
                 /\ derived'[j].res = "ok" =>
                      \E purpose, scope : j = KeyOf(purpose, <<scope, derived'[j].object>>, derived'[j].map, derived'[j].il2cpp)
      <3>1. CASE j = key
        <4>1. derived'[j] = v
          BY <2>1, <3>1
        <4>2. v.res = "ok" => j = KeyOf(q.purpose, <<KeyScope(Scope[r], q.sel), v.object>>, v.map, v.il2cpp)
          BY <1>4, <1>7, <3>1
        <4> QED
          BY <1>7, <4>1, <4>2
      <3>2. CASE j # key
        <4>1. derived'[j] = derived[j]
          BY <2>1, <3>2
        <4> QED
          BY <4>1 DEF Inv, DerivedInv
      <3> QED
        BY <3>1, <3>2
    <2> QED
      BY <2>1, <2>2 DEF DerivedInv
  <1> QED
    BY <1>6, <1>8, <1>9

-----------------------------------------------------------------------------
(* The invariant is kept *)

\* What a step of one request does to the index.
LEMMA StepIndex ==
    ASSUME IndexInv, NEW r \in Requests, Step(r)
    PROVE  \/ IndexStep(r)
           \/ /\ UNCHANGED <<published, lastId, segments, index>>
              /\ lookup' = lookup \/ lookup' = [lookup EXCEPT ![r].pc = "lastid"]
  BY DEF Step, ListPlain, ListIndexed, ListSentry, Select, AuxDone, DerivedHit, DerivedStart, DerivedFinish,
         MetaHit, MetaStart, MetaFinish, FetchAux, indexVars, indexState

\* The invariants of the caches depend on nothing else.
LEMMA CachesStay ==
    ASSUME CacheInv, UNCHANGED <<content, meta, data, aux>>
    PROVE  CacheInv'
  BY DEF CacheInv

LEMMA DerivedStays == ASSUME DerivedInv, UNCHANGED derived PROVE DerivedInv'
  BY DEF DerivedInv

\* A step of one request: it either looks at the index, or moves on.
LEMMA StepMoves ==
    ASSUME Inv, NEW r \in Requests, Step(r)
    PROVE  /\ IndexInv' /\ CacheInv' /\ DerivedInv'
           /\ req' = req \/ Moves(r)
  <1>1. IndexInv'
    <2>1. IndexInv
      BY DEF Inv
    <2> QED
      BY <2>1, StepIndex, IndexStepInv, IndexFrame
  <1>2. /\ UNCHANGED <<content, meta, data, aux>> => CacheInv'
        /\ UNCHANGED derived => DerivedInv'
    <2>1. ASSUME UNCHANGED <<content, meta, data, aux>> PROVE CacheInv'
      BY <2>1, CachesStay DEF Inv
    <2>2. ASSUME UNCHANGED derived PROVE DerivedInv'
      BY <2>2, DerivedStays DEF Inv
    <2> QED
      BY <2>1, <2>2
  <1>3. CASE ListPlain(r)
    <2>1. req[r].pc = "list" /\ Listed(r, Range(Catalog)) /\ UNCHANGED <<content, meta, data, aux, derived>>
      BY <1>3 DEF ListPlain, Listing
    <2>2. Moves(r)
      BY <2>1, ListedMoves
    <2> QED
      BY <1>1, <1>2, <2>1, <2>2
  <1>4. CASE ListIndexed(r)
    <2>1. /\ req[r].pc = "list" /\ \E held : Listed(r, held)
          /\ UNCHANGED <<content, meta, data, aux, derived>>
      BY <1>4 DEF ListIndexed, Listing
    <2>2. Moves(r)
      BY <2>1, ListedMoves
    <2> QED
      BY <1>1, <1>2, <2>1, <2>2
  <1>5. ASSUME NEW fail \in BOOLEAN, ListSentry(r, fail)
        PROVE  CacheInv' /\ DerivedInv' /\ Moves(r)
    <2>1. /\ req[r].pc = "list" /\ \E held : Listed(r, held)
          /\ UNCHANGED <<content, meta, data, aux, derived>>
      BY <1>5 DEF ListSentry, Listing
    <2>2. Moves(r)
      BY <2>1, ListedMoves
    <2> QED
      BY <1>2, <2>1, <2>2
  <1>6. CASE Listing(r, "indexed") /\ IndexStep(r) /\ UNCHANGED ownVars
    <2>1. UNCHANGED <<content, meta, data, aux, derived, req>>
      BY <1>6 DEF ownVars
    <2> QED
      BY <1>1, <1>2, <2>1
  <1>7. CASE Select(r)
    <2>1. Moves(r)
      BY <1>7, SelectMoves
    <2>2. UNCHANGED <<content, meta, data, aux, derived>>
      BY <1>7 DEF Select
    <2> QED
      BY <1>1, <1>2, <2>1, <2>2
  <1>8. CASE AuxDone(r)
    <2>1. Moves(r)
      BY <1>8, AuxDoneMoves
    <2>2. UNCHANGED <<content, meta, data, aux, derived>>
      BY <1>8 DEF AuxDone
    <2> QED
      BY <1>1, <1>2, <2>1, <2>2
  <1>9. CASE DerivedHit(r)
    <2>1. Moves(r)
      BY <1>9, DerivedHitMoves
    <2>2. UNCHANGED <<content, meta, data, aux, derived>>
      BY <1>9 DEF DerivedHit
    <2> QED
      BY <1>1, <1>2, <2>1, <2>2
  <1>10. CASE DerivedStart(r)
    <2>1. Moves(r) /\ DerivedInv'
      BY <1>10, DerivedStartMoves
    <2>2. UNCHANGED <<content, meta, data, aux>>
      BY <1>10 DEF DerivedStart
    <2> QED
      BY <1>1, <1>2, <2>1, <2>2
  <1>11. ASSUME NEW fail \in BOOLEAN, DerivedFinish(r, fail)
         PROVE  CacheInv' /\ DerivedInv' /\ Moves(r)
    BY <1>11, DerivedFinishMoves
  <1>12. ASSUME NEW f \in DOMAIN req[r].res, MetaHit(r, f)
         PROVE  CacheInv' /\ DerivedInv' /\ Moves(r)
    <2>1. Moves(r)
      BY <1>12, MetaHitMoves
    <2>2. UNCHANGED <<content, meta, data, aux, derived>>
      BY <1>12 DEF MetaHit
    <2> QED
      BY <1>2, <2>1, <2>2
  <1>13. ASSUME NEW f \in DOMAIN req[r].res, MetaStart(r, f)
         PROVE  CacheInv' /\ DerivedInv' /\ Moves(r)
    <2>1. Moves(r) /\ CacheInv'
      BY <1>13, MetaStartMoves
    <2>2. UNCHANGED derived
      BY <1>13 DEF MetaStart
    <2> QED
      BY <1>2, <2>1, <2>2
  <1>14. ASSUME NEW f \in DOMAIN req[r].res, NEW fail \in BOOLEAN, MetaFinish(r, f, fail)
         PROVE  CacheInv' /\ DerivedInv' /\ Moves(r)
    <2>1. Moves(r) /\ CacheInv'
      BY <1>14, MetaFinishMoves
    <2>2. UNCHANGED derived
      BY <1>14 DEF MetaFinish
    <2> QED
      BY <1>2, <2>1, <2>2
  <1>15. ASSUME NEW f \in DOMAIN req[r].res, NEW fail \in BOOLEAN, FetchAux(r, f, fail)
         PROVE  CacheInv' /\ DerivedInv' /\ Moves(r)
    <2>1. Moves(r) /\ aux' \in [Keys -> Results \union {"absent"}]
      BY <1>15, FetchAuxMoves
    <2>2. UNCHANGED <<content, meta, data, derived>>
      BY <1>15 DEF FetchAux
    <2>3. CacheInv'
      BY <2>1, <2>2 DEF Inv, CacheInv
    <2> QED
      BY <1>2, <2>1, <2>2, <2>3
  <1> QED
    BY <1>1, <1>3, <1>4, <1>5, <1>6, <1>7, <1>8, <1>9, <1>10, <1>11, <1>12, <1>13, <1>14, <1>15 DEF Step

\* Evicting an entry or removing a file.
LEMMA EvictInv ==
    ASSUME Inv, Evict
    PROVE  Inv' /\ req' = req
  <1>1. UNCHANGED <<published, lastId, segments, index, lookup, aux, derived, req>>
    BY DEF Evict, indexState
  <1>2. IndexInv' /\ DerivedInv' /\ ReqsInv'
    BY <1>1, IndexFrame DEF Inv, DerivedInv, ReqsInv
  <1>3. CacheInv'
    <2>1. CASE UNCHANGED <<meta, data, content>>
      BY <1>1, <2>1 DEF Inv, CacheInv
    <2>2. ASSUME NEW k \in Keys, meta' = [meta EXCEPT ![k] = "absent"], UNCHANGED <<data, content>>
          PROVE  CacheInv'
      BY <1>1, <2>2 DEF Inv, CacheInv
    <2>3. ASSUME NEW k \in Keys, data' = [data EXCEPT ![k] = "absent"], UNCHANGED <<meta, content>>
          PROVE  CacheInv'
      BY <1>1, <2>3 DEF Inv, CacheInv
    <2>4. ASSUME NEW f \in DifFiles, NEW c \in {"missing", "forbidden"},
                 content' = [content EXCEPT ![f] = c], UNCHANGED <<meta, data>>
          PROVE  CacheInv'
      BY <1>1, <2>4 DEF Inv, CacheInv, Contents
    <2> QED
      BY <2>1, <2>2, <2>3, <2>4 DEF Evict
  <1> QED
    BY <1>1, <1>2, <1>3 DEF Inv

LEMMA NextMoves ==
    ASSUME Inv, [Next]_vars
    PROVE  /\ Inv'
           /\ req' = req \/ \E r \in Requests : Moves(r)
  <1>1. CASE UNCHANGED vars
    <2>1. /\ UNCHANGED <<published, lastId, segments, index, lookup>>
          /\ UNCHANGED <<content, meta, data, aux, derived, req>>
      BY <1>1 DEF vars, indexVars, indexState, ownVars
    <2>2. IndexInv'
      BY <2>1, IndexFrame DEF Inv
    <2> QED
      BY <2>1, <2>2, CachesStay, DerivedStays DEF Inv, ReqsInv
  <1>2. CASE Evict
    BY <1>2, EvictInv
  <1>3. CASE IndexEnvironment /\ UNCHANGED ownVars
    <2>1. UNCHANGED <<content, meta, data, aux, derived, req>>
      BY <1>3 DEF ownVars
    <2>2. IndexInv'
      BY <1>3, IndexEnvironmentInv DEF Inv
    <2> QED
      BY <2>1, <2>2, CachesStay, DerivedStays DEF Inv, ReqsInv
  <1>4. ASSUME NEW r \in Requests, Step(r)
        PROVE  Inv' /\ (req' = req \/ Moves(r))
    <2>1. IndexInv' /\ CacheInv' /\ DerivedInv' /\ (req' = req \/ Moves(r))
      BY <1>4, StepMoves
    <2>2. ReqsInv'
      <3>1. CASE req' = req
        BY <3>1 DEF Inv, ReqsInv
      <3>2. CASE Moves(r)
        BY <3>2, ReqFrame DEF Inv, Moves
      <3> QED
        BY <2>1, <3>1, <3>2
    <2> QED
      BY <2>1, <2>2 DEF Inv
  <1> QED
    BY <1>1, <1>2, <1>3, <1>4 DEF Next

-----------------------------------------------------------------------------
(* BestObject is implemented *)

LEMMA MappedIs ==
    /\ Orders = [r \in Requests |-> req[r].listed]
    /\ Orders' = [r \in Requests |-> req'[r].listed]
    /\ Outcomes = [r \in Requests |-> Outcome(req[r])]
    /\ Outcomes' = [r \in Requests |-> Outcome(req'[r])]
    /\ Answers = [r \in Requests |-> Verdict(req[r])]
    /\ Answers' = [r \in Requests |-> Verdict(req'[r])]
  <1>1. Outcomes = [r \in Requests |-> Outcome(req[r])]
    BY SuitsIs DEF Outcomes, Outcome
  <1>2. Outcomes' = [r \in Requests |-> Outcome(req'[r])]
    BY SuitsIs DEF Outcomes, Outcome
  <1> QED
    BY <1>1, <1>2 DEF Orders, Answers, Verdict

\* A step of one request is a step of BestObject or none.
LEMMA BestMoves ==
    ASSUME DOMAIN req = Requests, NEW r \in Requests, NEW p, req' = [req EXCEPT ![r] = p], BestStep(req[r], p)
    PROVE  [Best!Next]_<<Orders, Outcomes, Answers>>
  <1> DEFINE q == req[r]
  <1>1. /\ Orders[r] = q.listed /\ Outcomes[r] = Outcome(q) /\ Answers[r] = Verdict(q)
        /\ Orders = [s \in Requests |-> Orders[s]] /\ Outcomes = [s \in Requests |-> Outcomes[s]]
        /\ Answers = [s \in Requests |-> Answers[s]]
    BY MappedIs
  <1>2. /\ Orders' = [Orders EXCEPT ![r] = p.listed]
        /\ Outcomes' = [Outcomes EXCEPT ![r] = Outcome(p)]
        /\ Answers' = [Answers EXCEPT ![r] = Verdict(p)]
    <2>1. \A s \in Requests : req'[s] = IF s = r THEN p ELSE req[s]
      OBVIOUS
    <2>5. Orders' = [Orders EXCEPT ![r] = p.listed]
      BY <2>1, MappedIs
    <2>6. Outcomes' = [Outcomes EXCEPT ![r] = Outcome(p)]
      BY <2>1, MappedIs
    <2>7. Answers' = [Answers EXCEPT ![r] = Verdict(p)]
      BY <2>1, MappedIs
    <2> QED
      BY <2>5, <2>6, <2>7
  <1>3. Orders'[r] = p.listed /\ Outcomes'[r] = Outcome(p) /\ Answers'[r] = Verdict(p)
    BY <1>1, <1>2
  <1> HIDE DEF q
  <1>4. CASE Same(q, p)
    BY <1>1, <1>2, <1>4 DEF Same
  <1>5. CASE ListStep(q, p)
    <2>1. Best!List(r)
      BY <1>1, <1>2, <1>3, <1>5 DEF Best!List, Best!Pending, Best!Unanswered, ListStep, Range, IsInjective
    <2> QED
      BY <2>1 DEF Best!Next
  <1>6. CASE AnswerStep(q, p)
    <2>1. Best!Answer(r)
      <3> DEFINE suitable == {i \in DOMAIN Orders[r] : Outcomes[r][Orders[r][i]] # 4}
      <3>1. suitable = {i \in DOMAIN q.listed : Outcome(q)[q.listed[i]] # 4}
        BY <1>1
      <3>2. \A i, j : Best!Better(r, i, j) <=> \/ Outcome(q)[q.listed[i]] < Outcome(q)[q.listed[j]]
                                               \/ Outcome(q)[q.listed[i]] = Outcome(q)[q.listed[j]] /\ i < j
        BY <1>1 DEF Best!Better
      <3>3. /\ Verdict(q) = "unanswered" /\ p.listed = q.listed /\ Outcome(p) = Outcome(q)
            /\ \A f \in DOMAIN Outcome(q) : Outcome(q)[f] # -1
            /\ \/ suitable = {} /\ Verdict(p) = "nothing"
               \/ \E i \in suitable : (\A j \in suitable \ {i} : Best!Better(r, i, j)) /\ Verdict(p) = q.listed[i]
        BY <1>6, <3>1, <3>2 DEF AnswerStep
      <3>4. Orders' = Orders /\ Outcomes' = Outcomes
        BY <1>1, <1>2, <3>3
      <3> HIDE DEF suitable
      <3>5. \/ suitable = {} /\ Answers' = [Answers EXCEPT ![r] = "nothing"]
            \/ \E i \in suitable : /\ \A j \in suitable \ {i} : Best!Better(r, i, j)
                                   /\ Answers' = [Answers EXCEPT ![r] = Orders[r][i]]
        BY <1>1, <1>2, <3>3
      <3> QED
        BY <1>1, <3>3, <3>4, <3>5
           DEF Best!Answer, Best!Pending, Best!Unanswered, Best!Useless, Best!NoFile, suitable
    <2> QED
      BY <2>1 DEF Best!Next
  <1>7. ASSUME NEW f \in DOMAIN Outcome(q), ResolveStep(q, p, f)
        PROVE  Best!Next
    <2>1. Best!Resolve(r, f)
      BY <1>1, <1>2, <1>3, <1>7 DEF Best!Resolve, Best!Pending, Best!Useless, ResolveStep
    <2>2. f \in DOMAIN Outcomes[r]
      BY <1>1
    <2> QED
      BY <2>1, <2>2 DEF Best!Next
  <1> QED
    BY <1>4, <1>5, <1>6, <1>7 DEF BestStep, q

LEMMA BestInit == Init => Best!Init
  <1> SUFFICES ASSUME Init PROVE Best!Init
    OBVIOUS
  <1>1. ASSUME NEW r \in Requests
        PROVE  /\ req[r].listed = <<>> /\ req[r].res = <<>> /\ req[r].sel = None /\ req[r].pc = "list" /\ req[r].candidates = <<>>
    BY DEF Init
  <1>2. ASSUME NEW r \in Requests PROVE Outcome(req[r]) = [f \in {} |-> -1] /\ Verdict(req[r]) = "unanswered"
    BY <1>1 DEF Outcome, Verdict
  <1> QED
    BY <1>1, <1>2, MappedIs DEF Best!Init, Best!Pending, Best!Unanswered

-----------------------------------------------------------------------------
(* The theorems *)

LEMMA Invariant == Spec => []Inv
  <1>1. Init => Inv
    BY InitInv
  <1>2. Inv /\ [Next]_vars => Inv'
    BY NextMoves
  <1> QED
    BY <1>1, <1>2, PTL DEF Spec

\* download_full_index: however uploads, expiry, failed segments and requests
\* interleave, the index a request looks a file up in is the whole one of its
\* last id, or the empty one.
THEOREM IndexWhole == Spec => []IndexComplete
  <1>1. Inv => IndexComplete
    BY InvImplies
  <1> QED
    BY <1>1, Invariant, PTL

\* fetch_symstore_last_id_memoized: no failure, expiry or interleaving of
\* requests loses a last id that was fetched or takes it back.
THEOREM LastIdStays == Spec => LastIdKept
  <1>1. Inv /\ [Next]_vars
           => [lastId.state = "ok" => lastId'.state = "ok" /\ lastId'.id >= lastId.id]_indexVars
    <2> SUFFICES ASSUME Inv, [Next]_vars, lastId.state = "ok"
                 PROVE  lastId'.state = "ok" /\ lastId'.id >= lastId.id
      BY DEF indexVars
    <2>1. IndexInv /\ lastId.id \in Nat
      BY DEF Inv, IndexInv, IndexTypes, LastIdSet
    <2>2. CASE lastId' = lastId
      BY <2>1, <2>2
    <2>3. CASE IndexEnvironment \/ \E r \in Requests : IndexStep(r)
      BY <2>1, <2>3, LastIdStep
    <2>4. lastId' = lastId \/ IndexEnvironment \/ \E r \in Requests : IndexStep(r)
      BY <2>1, StepIndex DEF Next, Evict, vars, indexVars, indexState
    <2> QED
      BY <2>2, <2>3, <2>4
  <1> QED
    BY <1>1, Invariant, PTL DEF Spec, LastIdKept

\* create_candidates, set_status: for any requests that share the caches, the
\* answer accounts for every source, and at most the selected candidate is
\* reported as used, exactly when the answer is a success.
THEOREM CandidatesAccount == Spec => []CandidatesConsistent
  <1>1. Inv => CandidatesConsistent
    BY InvImplies
  <1> QED
    BY <1>1, Invariant, PTL

\* SymCacheActor::fetch: no request is given a symcache that another request
\* derived from other secondary files.
THEOREM SourcesUsed == Spec => []SymcacheUsesItsSources
  <1>1. Inv => SymcacheUsesItsSources
    BY InvImplies
  <1> QED
    BY <1>1, Invariant, PTL

\* ObjectsActor::find implements BestObject: however the results of the files
\* arrive, the answer is the best of them, the first one among equals.
THEOREM BestIsFound == Spec => FindsBestObject
  <1>1. Init => Best!Init
    BY BestInit
  <1>2. Inv /\ [Next]_vars => [Best!Next]_<<Orders, Outcomes, Answers>>
    <2> SUFFICES ASSUME Inv, [Next]_vars PROVE [Best!Next]_<<Orders, Outcomes, Answers>>
      OBVIOUS
    <2>1. CASE req' = req
      BY <2>1 DEF Orders, Outcomes, Answers, Suitability, HasFeatures, ObjectQuality
    <2>2. ASSUME NEW r \in Requests, Moves(r) PROVE [Best!Next]_<<Orders, Outcomes, Answers>>
      BY <2>2, BestMoves DEF Moves, Inv, ReqsInv
    <2> QED
      BY <2>1, <2>2, NextMoves
  <1> QED
    BY <1>1, <1>2, Invariant, PTL DEF Spec, FindsBestObject, Best!Spec
=============================================================================
