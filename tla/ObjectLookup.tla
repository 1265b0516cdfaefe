----------------------------- MODULE ObjectLookup -----------------------------
(***************************************************************************)
(* The way from a module of an event to the file its symbols are read      *)
(* from.  A request lists the files of all sources in order, fetches the   *)
(* metadata of all of them concurrently, selects the most suitable object  *)
(* and derives a symcache, a CFI cache or a PortablePDB cache from it; a   *)
(* symcache also uses a BCSymbolMap, found through a plist, and an il2cpp  *)
(* line mapping.  Requests share every cache on this way.                  *)
(*                                                                         *)
(* A cache here maps a key to "absent", to "busy" while one request        *)
(* computes the entry and the others wait for it, or to a result; the      *)
(* cacher itself is the subject of Cacher.  Entries may be evicted, files  *)
(* may be removed from their source or be refused, and downloads may fail. *)
(***************************************************************************)
EXTENDS SourceIndex, SequencesExt, FiniteSetsExt

CONSTANTS SourceKind,    \* per source: sentry, indexed or plain
          PublicSources, \* sources whose files are shared between scopes
          Catalog,       \* the files a source's layout names, in order: name, source, kind, segment
          Worlds,        \* the contents of the files, by name, and per request what it is for,
                         \* symcache, cfi or ppdb, and its sources, in order
          Scope          \* per request

VARIABLES content, listing, meta, data, aux, derived, req

ownVars == <<content, listing, meta, data, aux, derived, req>>
vars    == <<indexVars, ownVars>>

None  == "none"
Files == {Catalog[i].name : i \in DOMAIN Catalog}
File(f) == CHOOSE c \in Range(Catalog) : c.name = f
DifFiles == {f \in Files : File(f).kind = "dif"}

Errors == {"notfound", "denied", "malformed", "error"}

\* What a source holds under the name of a file; the contents that parse are
\* named for the features they have.
Features == {"debug", "symbols", "ppdb", "unwind", "torn"}
Contents == {"missing", "forbidden", "garbage", "fat_other", "fat_broken"} \cup Features

\* No two files have one name, and no request lists a source twice.
ASSUME ObjectConstants ==
    /\ Catalog \in Seq(Range(Catalog)) /\ None \notin Files
    /\ IsInjective([i \in DOMAIN Catalog |-> Catalog[i].name])
    /\ DOMAIN Scope = Requests
    /\ \A w \in Worlds :
          /\ w.content \in [Files -> Contents]
          /\ w.sources \in Seq(Range(w.sources)) \ {<<>>} /\ IsInjective(w.sources)
          /\ Range(w.sources) \cap Files = {}

\* fetch_object_file: the archive is parsed and the matching object taken
\* out of it.
Parsed(c) ==
    CASE c \in {"missing", "fat_other"}    -> "notfound"
      [] c = "forbidden"                   -> "denied"
      [] c \in {"garbage", "fat_broken"}   -> "malformed"
      [] OTHER                             -> c

HasFeatures(r, res) ==
    IF req[r].purpose = "cfi" THEN res \in {"unwind", "torn"} ELSE res \in {"debug", "symbols", "ppdb", "torn"}

ObjectQuality(r, res) ==
    IF res \in Errors THEN 3
    ELSE IF req[r].purpose = "cfi" THEN 0
    ELSE IF res \in {"debug", "ppdb"} THEN 0
    ELSE 1

\* The scope under which a file is cached for a request of some scope.
KeyScope(scope, f) == IF File(f).source \in PublicSources THEN "global" ELSE scope
Key(scope, f) == <<KeyScope(scope, f), f>>
Keys == ({"global"} \cup Range(Scope)) \X Files

-----------------------------------------------------------------------------
Init ==
    /\ IndexInit
    /\ listing = [q \in {"dif", "uuid", "map"} |-> "absent"]
    /\ meta = [k \in Keys |-> "absent"]
    /\ data = [k \in Keys |-> "absent"]
    /\ aux = [k \in Keys |-> "absent"]
    /\ derived = <<>>
    /\ \E w \in Worlds :
          /\ content = w.content
          /\ req = [r \in Requests |->
                   [purpose |-> w.purpose[r], sources |-> w.sources, pc |-> "list", stage |-> "dif", pos |-> 1, files |-> <<>>, res |-> <<>>, listed |-> <<>>,
                    sel |-> None, map |-> None, il2cpp |-> None, candidates |-> <<>>, answer |-> [res |-> None]]]

Fails(fail) ==
    /\ fail => faults < MaxFaults
    /\ faults' = IF fail THEN faults + 1 ELSE faults

-----------------------------------------------------------------------------
(* list_files: one source after the other *)

Current(r) == req[r].sources[req[r].pos]
Listing(r, kind) == req[r].pc = "list" /\ SourceKind[Current(r)] = kind

\* The files a source contributes, of those it holds, after those of the sources before it.
FilesWith(r, held) ==
    LET files[i \in 0 .. Len(Catalog)] ==
            IF i = 0 THEN req[r].files
            ELSE IF Catalog[i].source = Current(r) /\ Catalog[i].kind = req[r].stage /\ Catalog[i] \in held
                 THEN Append(files[i - 1], Catalog[i].name)
                 ELSE files[i - 1]
    IN  files[Len(Catalog)]

\* After the last source, all files are fetched at once.
Listed(r, held) ==
    LET all == FilesWith(r, held)
    IN  IF req[r].pos < Len(req[r].sources)
        THEN req' = [req EXCEPT ![r].pos = @ + 1, ![r].files = all]
        ELSE req' = [req EXCEPT ![r].pc = "fetch", ![r].pos = 1, ![r].files = all,
                                ![r].res = [f \in Range(all) |-> "pending"],
                                ![r].listed = IF req[r].stage = "dif" THEN all ELSE @]

ListPlain(r) ==
    /\ Listing(r, "plain")
    /\ Listed(r, Range(Catalog))
    /\ UNCHANGED <<indexVars, content, listing, meta, data, aux, derived>>

\* Sentry is asked for the ids of the object, for its debug id alone, or for
\* the id that a plist names.
Query(r) ==
    CASE req[r].stage \in {"dif", "il2cpp"} -> "dif"
      [] req[r].stage = "plist"             -> "uuid"
      [] req[r].stage = "map"               -> "map"

\* Only a successful answer of Sentry is reused; without one the source
\* contributes nothing.
ListSentry(r, fail) ==
    /\ Listing(r, "sentry")
    /\ fail => listing[Query(r)] = "absent"
    /\ Fails(fail)
    /\ listing' = [listing EXCEPT ![Query(r)] = IF fail THEN "absent" ELSE "ok"]
    /\ Listed(r, IF fail THEN {} ELSE Range(Catalog))
    /\ UNCHANGED <<indexState, content, meta, data, aux, derived>>

ListIndexed(r) ==
    /\ Listing(r, "indexed") /\ lookup[r].pc = "done"
    /\ Listed(r, {c \in Range(Catalog) : IndexContains(lookup[r].got, c.segment)})
    /\ lookup' = [lookup EXCEPT ![r].pc = "lastid"]
    /\ UNCHANGED <<published, lastId, segments, index, faults,
                   content, listing, meta, data, aux, derived>>

-----------------------------------------------------------------------------
(* Metadata and data of the objects *)

Waiting(r, f, stages) ==
    req[r].pc = "fetch" /\ req[r].stage \in stages /\ f \in DOMAIN req[r].res /\ req[r].res[f] = "pending"

MetaHit(r, f) ==
    /\ Waiting(r, f, {"dif"})
    /\ meta[Key(Scope[r], f)] \notin {"absent", "busy"}
    /\ req' = [req EXCEPT ![r].res[f] = meta[Key(Scope[r], f)]]
    /\ UNCHANGED <<indexVars, content, listing, meta, data, aux, derived>>

MetaStart(r, f) ==
    /\ Waiting(r, f, {"dif"})
    /\ meta[Key(Scope[r], f)] = "absent"
    /\ meta' = [meta EXCEPT ![Key(Scope[r], f)] = "busy"]
    /\ req' = [req EXCEPT ![r].res[f] = "computing"]
    /\ UNCHANGED <<indexVars, content, listing, data, aux, derived>>

\* The object comes from the data cache or is downloaded into it.
Data(k, fail) ==
    IF data[k] # "absent" THEN data[k] ELSE IF fail THEN "error" ELSE Parsed(content[k[2]])

FetchData(k, fail) ==
    /\ fail => data[k] = "absent"
    /\ Fails(fail)
    /\ data' = [data EXCEPT ![k] = Data(k, fail)]

\* Mutant of MetaFinish: a failure leaves the entry marked as being computed.
MetaFinishStuck(r, f, fail) ==
    LET k == Key(Scope[r], f)
    IN  /\ f \in DOMAIN req[r].res /\ req[r].res[f] = "computing"
        /\ FetchData(k, fail)
        /\ meta' = IF fail THEN meta ELSE [meta EXCEPT ![k] = data'[k]]
        /\ req' = [req EXCEPT ![r].res[f] = data'[k]]
        /\ UNCHANGED <<indexState, content, listing, aux, derived>>

MetaFinish(r, f, fail) ==
    LET k == Key(Scope[r], f)
    IN  /\ f \in DOMAIN req[r].res /\ req[r].res[f] = "computing"
        /\ FetchData(k, fail)
        /\ meta' = [meta EXCEPT ![k] = data'[k]]
        /\ req' = [req EXCEPT ![r].res[f] = data'[k]]
        /\ UNCHANGED <<indexState, content, listing, aux, derived>>

Resolved(r) ==
    req[r].pc = "fetch" /\ \A f \in DOMAIN req[r].res : req[r].res[f] \notin {"pending", "computing"}

\* Files without the features the request needs are not considered.
Unfit(r, f) == req[r].res[f] \notin Errors /\ ~HasFeatures(r, req[r].res[f])

\* Mutant of SelectMeta: the last file among equals is taken.
SelectMetaLast(r) ==
    LET files == req[r].files
        Quality(i) == ObjectQuality(r, req[r].res[files[i]])
        best[i \in 0 .. Len(files)] ==
            IF i = 0 THEN [file |-> None, quality |-> 255]
            ELSE IF Unfit(r, files[i]) \/ Quality(i) > best[i - 1].quality THEN best[i - 1]
            ELSE [file |-> files[i], quality |-> Quality(i)]
    IN  best[Len(files)].file

\* select_meta: a later file is taken only if it is better.
SelectMeta(r) ==
    LET files == req[r].files
        Quality(i) == ObjectQuality(r, req[r].res[files[i]])
        best[i \in 0 .. Len(files)] ==
            IF i = 0 THEN [file |-> None, quality |-> 255]
            ELSE IF Unfit(r, files[i]) \/ Quality(i) >= best[i - 1].quality THEN best[i - 1]
            ELSE [file |-> files[i], quality |-> Quality(i)]
    IN  best[Len(files)].file

\* Mutant of CreateCandidates: a source without a file is left out.
CreateCandidatesFound(r) == [l \in Range(req[r].files) |-> [download |-> req[r].res[l], use |-> None]]

\* create_candidates: one for each file, and one for a source without any.
CreateCandidates(r) ==
    LET silent == {s \in Range(req[r].sources) : \A f \in Range(req[r].files) : File(f).source # s}
    IN  [l \in Range(req[r].files) \cup silent |->
            [download |-> IF l \in silent THEN "notfound" ELSE req[r].res[l], use |-> None]]

\* derive_from_object_handle: how the use of the selected candidate is reported
UseInfo(res) ==
    CASE res = "ok"        -> "ok"
      [] res = "malformed" -> "malformed"
      [] OTHER             -> "error"

UseInfoOfError(res) == IF res \in {"notfound", "denied", "error"} THEN None ELSE "malformed"

SetStatus(candidates, f, info) == IF f \in DOMAIN candidates THEN [candidates EXCEPT ![f].use = info] ELSE candidates

Select(r) ==
    LET f == SelectMeta(r)
        c == CreateCandidates(r)
    IN  /\ Resolved(r) /\ req[r].stage = "dif"
        /\ req' = [req EXCEPT ![r] =
              IF f = None THEN [@ EXCEPT !.pc = "done", !.answer = [res |-> "notfound"], !.candidates = c]
              ELSE IF req[r].res[f] \in Errors
              THEN [@ EXCEPT !.pc = "done", !.answer = [res |-> req[r].res[f]], !.sel = f,
                             !.candidates = SetStatus(c, f, UseInfoOfError(req[r].res[f]))]
              ELSE IF req[r].purpose = "symcache"
              THEN [@ EXCEPT !.pc = "list", !.stage = "plist", !.sel = f, !.candidates = c,
                             !.pos = 1, !.files = <<>>, !.res = <<>>]
              ELSE [@ EXCEPT !.pc = "derive", !.sel = f, !.candidates = c]]
        /\ UNCHANGED <<indexVars, content, listing, meta, data, aux, derived>>

-----------------------------------------------------------------------------
(* The secondary files of a symcache *)

\* They are cached under the scope of the selected object.
AuxKey(r, f) == Key(KeyScope(Scope[r], req[r].sel), f)

FetchAux(r, f, fail) ==
    LET k == AuxKey(r, f)
        v == IF aux[k] # "absent" THEN aux[k] ELSE IF fail THEN "error" ELSE Parsed(content[f])
    IN  /\ Waiting(r, f, {"plist", "map", "il2cpp"})
        /\ fail => aux[k] = "absent"
        /\ Fails(fail)
        /\ aux' = [aux EXCEPT ![k] = v]
        /\ req' = [req EXCEPT ![r].res[f] = v]
        /\ UNCHANGED <<indexState, content, listing, meta, data, derived>>

FirstOk(r) ==
    LET i == SelectInSeq(req[r].files, LAMBDA f : req[r].res[f] = "debug")
    IN  IF i = 0 THEN None ELSE req[r].files[i]

\* The BCSymbolMap is looked for only if there is a plist.
NextStage(r) ==
    CASE req[r].stage = "plist"  -> IF FirstOk(r) # None THEN "map" ELSE "il2cpp"
      [] req[r].stage = "map"    -> "il2cpp"
      [] req[r].stage = "il2cpp" -> "none"

AuxDone(r) ==
    /\ Resolved(r) /\ req[r].stage # "dif"
    /\ req' = [req EXCEPT ![r].pc = IF req[r].stage = "il2cpp" THEN "derive" ELSE "list",
                          ![r].stage = NextStage(r),
                          ![r].map = IF req[r].stage = "map" THEN FirstOk(r) ELSE @,
                          ![r].il2cpp = IF req[r].stage = "il2cpp" THEN FirstOk(r) ELSE @,
                          ![r].pos = 1, ![r].files = <<>>, ![r].res = <<>>]
    /\ UNCHANGED <<indexVars, content, listing, meta, data, aux, derived>>

-----------------------------------------------------------------------------
(* The derived cache *)

\* Mutant of DerivedKey: the key names the object only.
DerivedKeyOfObject(r) == <<req[r].purpose, Key(Scope[r], req[r].sel)>>

DerivedKey(r) ==
    <<req[r].purpose, Key(Scope[r], req[r].sel)>>
    \o (IF req[r].map = None THEN <<>> ELSE <<<<"bcsymbolmap", req[r].map>>>>)
    \o (IF req[r].il2cpp = None THEN <<>> ELSE <<<<"il2cpp", req[r].il2cpp>>>>)

\* write_symcache, write_cficache: an object that parses but is torn fails.
Converted(d) == IF d = "torn" THEN "malformed" ELSE "ok"

\* Writing the derived file from the object; made of what it was built from.
Derive(r, d) ==
    IF d \in Errors THEN [res |-> d]
    ELSE IF req[r].purpose = "ppdb" /\ d # "ppdb" THEN [res |-> "unsupported"]
    ELSE IF Converted(d) # "ok" THEN [res |-> Converted(d)]
    ELSE [res |-> "ok", object |-> req[r].sel, map |-> req[r].map, il2cpp |-> req[r].il2cpp]

Answered(r, v) ==
    req' = [req EXCEPT ![r].pc = "done", ![r].answer = v,
                       ![r].candidates = SetStatus(@, req[r].sel, UseInfo(v.res))]

DerivedHit(r) ==
    /\ req[r].pc = "derive" /\ DerivedKey(r) \in DOMAIN derived
    /\ derived[DerivedKey(r)].res # "busy"
    /\ Answered(r, derived[DerivedKey(r)])
    /\ UNCHANGED <<indexVars, content, listing, meta, data, aux, derived>>

DerivedStart(r) ==
    /\ req[r].pc = "derive" /\ DerivedKey(r) \notin DOMAIN derived
    /\ derived' = [k \in {DerivedKey(r)} \union DOMAIN derived |->
                      IF k = DerivedKey(r) THEN [res |-> "busy"] ELSE derived[k]]
    /\ req' = [req EXCEPT ![r].pc = "deriving"]
    /\ UNCHANGED <<indexVars, content, listing, meta, data, aux>>

DerivedFinish(r, fail) ==
    LET k == Key(Scope[r], req[r].sel)
    IN  /\ req[r].pc = "deriving"
        /\ FetchData(k, fail)
        /\ derived' = [derived EXCEPT ![DerivedKey(r)] = Derive(r, data'[k])]
        /\ Answered(r, Derive(r, data'[k]))
        /\ UNCHANGED <<indexState, content, listing, meta, aux>>

-----------------------------------------------------------------------------
(* The environment *)

Evict ==
    /\ faults < MaxFaults
    /\ faults' = faults + 1
    /\ \/ /\ \E q \in DOMAIN listing : listing[q] # "absent" /\ listing' = [listing EXCEPT ![q] = "absent"]
          /\ UNCHANGED <<meta, data, content>>
       \/ /\ \E k \in Keys : meta[k] \notin {"absent", "busy"} /\ meta' = [meta EXCEPT ![k] = "absent"]
          /\ UNCHANGED <<listing, data, content>>
       \/ /\ \E k \in Keys : data[k] # "absent" /\ data' = [data EXCEPT ![k] = "absent"]
          /\ UNCHANGED <<listing, meta, content>>
       \/ /\ \E f \in DifFiles, c \in {"missing", "forbidden"} :
                content[f] # "missing" /\ content' = [content EXCEPT ![f] = c]
          /\ UNCHANGED <<listing, meta, data>>
    /\ UNCHANGED <<indexState, aux, derived, req>>

Step(r) ==
    \/ ListPlain(r) \/ ListIndexed(r)
    \/ Listing(r, "indexed") /\ IndexStep(r) /\ UNCHANGED ownVars
    \/ Select(r) \/ AuxDone(r) \/ DerivedHit(r) \/ DerivedStart(r)
    \/ \E fail \in BOOLEAN : ListSentry(r, fail) \/ DerivedFinish(r, fail)
    \/ \E f \in DOMAIN req[r].res : \/ MetaHit(r, f) \/ MetaStart(r, f)
                                    \/ \E fail \in BOOLEAN : MetaFinish(r, f, fail) \/ FetchAux(r, f, fail)

Next == (\E r \in Requests : Step(r)) \/ Evict \/ (IndexEnvironment /\ UNCHANGED ownVars)

\* Some request that can go on does: the tasks of requests are polled.
Spec == Init /\ [][Next]_vars /\ WF_vars(\E r \in Requests : Step(r))

-----------------------------------------------------------------------------
(* Properties *)

\* How suitable a file is; the candidates keep it after the selection.
Suitability(r, res) ==
    IF res \in {"pending", "computing"} THEN -1
    ELSE IF res \notin Errors /\ ~HasFeatures(r, res) THEN 4
    ELSE ObjectQuality(r, res)

\* What BestObject sees of the requests.
Orders == [r \in Requests |-> req[r].listed]

Outcomes ==
    [r \in Requests |->
        IF req[r].candidates = <<>>
        THEN [f \in DOMAIN req[r].res |-> Suitability(r, req[r].res[f])]
        ELSE [f \in Range(req[r].listed) |-> Suitability(r, req[r].candidates[f].download)]]

Answers ==
    [r \in Requests |-> IF req[r].sel # None THEN req[r].sel
                        ELSE IF req[r].pc = "done" THEN "nothing" ELSE "unanswered"]

Best == INSTANCE BestObject WITH Files <- DifFiles, order <- Orders, outcome <- Outcomes, answer <- Answers

\* ObjectsActor::find and select_meta: whatever the order in which the
\* metadata of the files arrives, with entries of other requests and evicted
\* ones among it, a request takes the best file, the first one among equals,
\* and an error only if nothing is suitable.
FindsBestObject == Best!Spec

\* create_candidates, set_status: the answer accounts for every source, and
\* no candidate but the one that was selected is reported as used, whatever
\* happened to its file between selecting and reading it.
CandidatesConsistent ==
    \A r \in Requests : req[r].pc = "done" =>
        LET c == req[r].candidates
        IN  /\ \A s \in Range(req[r].sources) : s \in DOMAIN c \/ \E f \in DOMAIN c \cap Files : File(f).source = s
            /\ \A l \in DOMAIN c : c[l].use # None => l = req[r].sel
            /\ req[r].answer.res = "ok" <=> \E l \in DOMAIN c : c[l].use = "ok"

\* SymCacheActor::fetch: the symcache of a request was written with the object,
\* the BCSymbolMap and the line mapping the request itself found, never with
\* what another request found for the same object.
SymcacheUsesItsSources ==
    \A r \in Requests : req[r].answer.res = "ok" =>
        /\ req[r].answer.object = req[r].sel
        /\ req[r].answer.map = req[r].map
        /\ req[r].answer.il2cpp = req[r].il2cpp

\* Every lookup ends, also the one that waits for an entry another request
\* computes (meta_cache.rs, compute_memoized).
RequestsAnswered == <>(\A r \in Requests : req[r].pc = "done")
=============================================================================
