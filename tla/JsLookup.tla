------------------------------- MODULE JsLookup -------------------------------
(***************************************************************************)
(* Symbolication of JavaScript stack traces (symbolicator-js).  A request  *)
(* goes through its frames one by one.  The first frame of a module looks  *)
(* up the minified file and its source map: in the artifact bundles the    *)
(* request knows of, through Sentry, among individual artifacts, on the    *)
(* web.  Requests run concurrently and share what Sentry answered, the     *)
(* bundles, the files found in bundles, scraped files and the caches made  *)
(* from source maps.  Each action ends where the code awaits.              *)
(*                                                                         *)
(* A file's contents are a version; Size is its length.                    *)
(***************************************************************************)
EXTENDS JsNames, FiniteSetsExt

CONSTANTS Requests,
          Jobs,        \* per request: frames, order, ids, release, scraping, origins, context
          Bundles,     \* a sequence: per bundle uri, a number, the files in it
          Artifacts,   \* individual artifacts by url
          Website,     \* the first and the later version of files on the web
          Tokens,      \* per version of a source map and line: what it maps to
          Size,        \* per version
          Budget,      \* max_sources_size_per_request
          MaxFaults    \* bound: failures, evictions and changes on the web

IsSeq(s) == Len(s) \in Nat /\ DOMAIN s = 1 .. Len(s)

\* "empty" stands for no contents at all, which is not a source map.
ASSUME JsConstants ==
    /\ IsSeq(Bundles)
    /\ "empty" \notin DOMAIN Tokens
    /\ Budget \in Nat /\ MaxFaults \in Nat

\* Stack traces are sequences of frames, and files have a length.
ASSUME JsSizes ==
    /\ \A job \in Jobs : \A r \in Requests : IsSeq(job[r].frames)
    /\ \A b \in DOMAIN Bundles : \A f \in Bundles[b] : Size[f.ver] \in Nat
    /\ \A u \in DOMAIN Artifacts : Size[Artifacts[u].ver] \in Nat
    /\ \A u \in DOMAIN Website : \A w \in {1, 2} : Size[Website[u][w].ver] \in Nat
    /\ Size["empty"] = 0

\* Lines have numbers, and a name, if there is one, has at least one part.
ASSUME JsTexts ==
    /\ \A v \in DOMAIN Tokens : \A l \in DOMAIN Tokens[v] :
          IsName(Tokens[v][l].scope) /\ (Tokens[v][l].name = NoName \/ IsName(Tokens[v][l].name))
    /\ \A job \in Jobs : \A r \in Requests : \A i \in DOMAIN job[r].frames :
          LET frame == job[r].frames[i]
          IN  frame.line \in Nat /\ (frame.function = NoName \/ IsName(frame.function))

VARIABLES uploaded,       \* the bundles Sentry knows of
          web,            \* the version of Website that is served
          api,            \* js_cache: answers of Sentry by query
          objects,        \* the downloaded bundles, through the object caches
          filesInBundles, \* FileInBundleCache
          scraped,        \* sourcefiles_cache for scraped files
          smcaches,       \* sourcemap_caches
          req, faults

vars == <<uploaded, web, api, objects, filesInBundles, scraped, smcaches, req, faults>>

None == "none"

\* The map f with v under the key k
With(f, k, v) == [x \in DOMAIN f \cup {k} |-> IF x = k THEN v ELSE f[x]]

NoUrl == [scheme |-> "", host |-> "", path |-> <<>>, query |-> FALSE, fragment |-> FALSE]

\* FileKey
Key(ty, url, id) == [ty |-> ty, url |-> url, id |-> id]

\* CachedFileEntry: where a file was found, the outcome, its contents unless
\* they were dropped, what it says about its source map and debug id, and
\* (as history) the version that was found
Entry(uri, res, ver, ref, id) == [uri |-> uri, res |-> res, ver |-> ver, ref |-> ref, id |-> id, origin |-> ver]
Failed(uri, res) == Entry(uri, res, None, NoUrl, None)
Invalid == Failed(<<"invalid">>, "notfound")
NoRef == NoUrl
DataRef == [NoUrl EXCEPT !.scheme = "data"]

NoSourceMap == [res |-> None, min |-> None, map |-> None, found |-> None]
Module(id) == [id |-> id, fetched |-> FALSE, base |-> NoUrl, min |-> Invalid, sm |-> NoSourceMap]

\* Mutant of InCallerFirst: the frames are processed as they were sent.
InCallerFirstAsSent(job) == job.frames

\* Frames are processed from caller to callee.
InCallerFirst(job) == IF job.order = "callee_first" THEN Reverse(job.frames) ELSE job.frames

JsInit ==
    /\ uploaded \in SUBSET DOMAIN Bundles
    /\ web = 1
    /\ api = <<>> /\ filesInBundles = <<>> /\ scraped = <<>> /\ smcaches = <<>>
    /\ objects = [b \in DOMAIN Bundles |-> "absent"]
    /\ faults = 0
    /\ \E job \in Jobs :
          req = [r \in Requests |->
              [job |-> job[r], pc |-> "frame", pos |-> 1, frames |-> InCallerFirst(job[r]), out |-> <<>>, errors |-> {}, callsite |-> NoName,
               modules |-> [u \in {job[r].frames[i].url : i \in DOMAIN job[r].frames} |->
                               Module(IF u \in DOMAIN job[r].ids THEN job[r].ids[u] ELSE None)],
               files |-> <<>>, bundles |-> <<>>, artifacts |-> {}, queue |-> {}, fresh |-> FALSE,
               key |-> Key("min", NoUrl, None), got |-> Invalid, min |-> Invalid,
               budget |-> Budget, attempts |-> <<>>]]

Fails(fail) ==
    /\ fail => faults < MaxFaults
    /\ faults' = IF fail THEN faults + 1 ELSE faults

-----------------------------------------------------------------------------
(* Files in bundles *)

source_by_debug_id(b, id, ty) == {f \in Bundles[b] : f.id = id /\ f.ty = ty}
source_by_url(b, url) == {f \in Bundles[b] : f.url = url}
One(S) == CHOOSE f \in S : TRUE

\* CachedFile::from_descriptor: the reference is resolved against the path
\* the file was asked for.
Resolve(base, ref) == IF ref \in {NoRef, DataRef} THEN ref ELSE join_paths(base, ref)
from_descriptor(b, key, f) ==
    IF f.ref # NoRef /\ key.url = NoUrl THEN Failed(<<"bundle", b, key>>, "malformed")
    ELSE Entry(<<"bundle", b, key>>, "ok", f.ver, Resolve(key.url, f.ref), None)

\* Bundles are searched from the last to the first.
Opened(q) == {b \in DOMAIN q.bundles : q.bundles[b] = "ok"}

ById(q, key) ==
    LET having == {b \in Opened(q) : key.id # None /\ source_by_debug_id(b, key.id, key.ty) # {}}
        b == Max(having)
    IN  IF having = {} THEN <<>>
        ELSE <<b, from_descriptor(b, key, One(source_by_debug_id(b, key.id, key.ty)))>>

ByPath(q, key) ==
    LET urls == get_release_file_candidate_urls(key.url)
        having(u) == {b \in Opened(q) : source_by_url(b, u) # {}}
        hits == {i \in DOMAIN urls : having(urls[i]) # {}}
        url == urls[Min(hits)]
        b == Max(having(url))
    IN  IF key.url = NoUrl \/ hits = {} THEN <<>>
        ELSE <<b, from_descriptor(b, key, One(source_by_url(b, url)))>>

\* FileInBundleCache::try_get
InCache(q, key) ==
    LET having == {b \in DOMAIN q.bundles : <<b, key>> \in DOMAIN filesInBundles}
    IN  IF having = {} THEN <<>> ELSE <<Max(having), filesInBundles[<<Max(having), key>>]>>

\* FileInBundleCache::insert drops the contents of source maps.
Inserted(found, key) ==
    With(filesInBundles, <<found[1], key>>,
         IF key.ty = "map" THEN [found[2] EXCEPT !.ver = None] ELSE found[2])

ArtifactFor(q, key) ==
    LET urls == get_release_file_candidate_urls(key.url)
        hits == {i \in DOMAIN urls : urls[i] \in q.artifacts}
    IN  IF key.url = NoUrl \/ hits = {} THEN NoUrl ELSE urls[Min(hits)]

-----------------------------------------------------------------------------
(* get_file *)

Attempt(q, result) == IF q.key.url = NoUrl THEN q.attempts ELSE Append(q.attempts, <<q.key.url, result>>)

\* The file was found without going to the web.
Found(q, e) == [q EXCEPT !.pc = "got", !.got = e, !.attempts = Attempt(q, "not_attempted")]

\* A key with a debug id is looked up by path only after Sentry was asked.
GetFile(r) ==
    LET q == req[r]
        cached == InCache(q, q.key)
        local == IF q.key.id # None THEN ById(q, q.key) ELSE ByPath(q, q.key)
    IN  /\ q.pc = "file"
        /\ \/ /\ cached # <<>>
              /\ req' = [req EXCEPT ![r] = Found(q, cached[2])]
              /\ UNCHANGED filesInBundles
           \/ /\ cached = <<>> /\ local # <<>>
              /\ req' = [req EXCEPT ![r] = Found(q, local[2])]
              /\ filesInBundles' = Inserted(local, q.key)
           \/ /\ cached = <<>> /\ local = <<>>
              /\ req' = [req EXCEPT ![r].pc = IF q.key.id = None /\ ArtifactFor(q, q.key) # NoUrl
                                              THEN "artifact" ELSE "query"]
              /\ UNCHANGED filesInBundles
        /\ UNCHANGED <<uploaded, web, api, objects, scraped, smcaches, faults>>

\* lookup_js_artifacts: the bundles and artifacts for a debug id or, with a
\* release, for a file stem
Answer(query) ==
    [bundles |-> {b \in uploaded : \E f \in Bundles[b] :
                      \/ query.id # None /\ f.id = query.id
                      \/ query.release /\ query.stem # <<>> /\ f.url.path = query.stem},
     artifacts |-> {u \in DOMAIN Artifacts : query.release /\ query.stem # <<>> /\ u.path = query.stem}]

QueryOf(q) == [id |-> q.key.id, stem |-> extract_file_stem(q.key.url), release |-> q.job.release]

QuerySentry(r, fail) ==
    LET q == req[r]
        query == QueryOf(q)
        known == query \in DOMAIN api
        a == IF known THEN api[query] ELSE Answer(query)
    IN  /\ q.pc = "query"
        /\ IF query.id = None /\ (query.stem = <<>> \/ ~query.release)
           THEN /\ ~fail /\ UNCHANGED <<api, faults>>
                /\ req' = [req EXCEPT ![r].pc = "retry", ![r].fresh = FALSE]
           ELSE /\ fail => ~known
                /\ Fails(fail)
                /\ api' = IF fail \/ known THEN api ELSE With(api, query, a)
                /\ req' = [req EXCEPT ![r] =
                      IF fail THEN [q EXCEPT !.pc = "retry", !.fresh = FALSE]
                      ELSE [q EXCEPT !.pc = "bundles", !.fresh = a.artifacts \ q.artifacts # {},
                                     !.artifacts = @ \cup a.artifacts, !.queue = a.bundles]]
        /\ UNCHANGED <<uploaded, web, objects, filesInBundles, scraped, smcaches>>

\* ensure_artifact_bundle, in the order of the answer, which is any: also a bundle
\* that could not be fetched is kept.
EnsureBundle(r, b, fail) ==
    LET q == req[r]
        o == IF objects[b] # "absent" THEN objects[b] ELSE IF fail THEN "error" ELSE "ok"
    IN  /\ q.pc = "bundles" /\ b \in q.queue
        /\ fail => objects[b] = "absent" /\ b \notin DOMAIN q.bundles
        /\ Fails(fail)
        /\ IF b \in DOMAIN q.bundles
           THEN UNCHANGED objects /\ req' = [req EXCEPT ![r].queue = @ \ {b}]
           ELSE /\ objects' = [objects EXCEPT ![b] = o]
                /\ req' = [req EXCEPT ![r].queue = @ \ {b}, ![r].fresh = TRUE, ![r].bundles = With(@, b, o)]
        /\ UNCHANGED <<uploaded, web, api, filesInBundles, scraped, smcaches>>

QueryDone(r) ==
    /\ req[r].pc = "bundles" /\ req[r].queue = {}
    /\ req' = [req EXCEPT ![r].pc = "retry"]
    /\ UNCHANGED <<uploaded, web, api, objects, filesInBundles, scraped, smcaches, faults>>

Retry(r) ==
    LET q == req[r]
        id == IF q.fresh THEN ById(q, q.key) ELSE <<>>
        path == IF q.key.id # None \/ q.fresh THEN ByPath(q, q.key) ELSE <<>>
        local == IF id # <<>> THEN id ELSE path
    IN  /\ q.pc = "retry"
        /\ IF local # <<>>
           THEN req' = [req EXCEPT ![r] = Found(q, local[2])] /\ filesInBundles' = Inserted(local, q.key)
           ELSE /\ UNCHANGED filesInBundles
                /\ req' = [req EXCEPT ![r].pc =
                      IF (q.key.id # None \/ q.fresh) /\ ArtifactFor(q, q.key) # NoUrl THEN "artifact" ELSE "scrape"]
        /\ UNCHANGED <<uploaded, web, api, objects, scraped, smcaches, faults>>

\* resolve_sourcemap_url and discover_debug_id read the contents.
\* An empty file, cached as not found, is one if Sentry has headers for it.
FetchArtifact(r, res) ==
    LET q == req[r]
        u == ArtifactFor(q, q.key)
        f == Artifacts[u]
        ref == Resolve(q.key.url, f.ref)
    IN  /\ q.pc = "artifact"
        /\ Fails(res # "ok")
        /\ req' = [req EXCEPT ![r] =
              Found(q, IF res = "ok" THEN Entry(<<"artifact", u>>, "ok", f.ver, ref, f.id)
                       ELSE IF res = "notfound" /\ f.headers THEN Entry(<<"artifact", u>>, "ok", "empty", ref, None)
                       ELSE Failed(<<"artifact", u>>, res))]
        /\ UNCHANGED <<uploaded, web, api, objects, filesInBundles, scraped, smcaches>>

-----------------------------------------------------------------------------
(* scrape *)

Allowed(job, url) ==
    /\ url.scheme \in {"http", "https"}
    /\ is_valid_origin(url, job.origins)
    /\ url.host # "localhost"

\* A url that does not parse leaves no attempt behind.
ScrapeRefused(r) ==
    LET q == req[r]
        uri == <<"scraped", q.key.url>>
        refusal == IF q.key.url = NoUrl THEN <<Invalid, q.attempts>>
                   ELSE IF q.key.url.scheme = "" THEN <<Failed(uri, "download"), q.attempts>>
                   ELSE IF ~q.job.scraping THEN <<Failed(uri, "disabled"), Attempt(q, "disabled")>>
                   ELSE <<Failed(uri, "download"), Attempt(q, "invalid_host")>>
    IN  /\ q.pc = "scrape"
        /\ ~(q.job.scraping /\ q.key.url # NoUrl /\ Allowed(q.job, q.key.url))
        /\ req' = [req EXCEPT ![r].pc = "got", ![r].got = refusal[1], ![r].attempts = refusal[2]]
        /\ UNCHANGED <<uploaded, web, api, objects, filesInBundles, scraped, smcaches, faults>>

\* The cache of scraped files; the time slot in its key has not passed.
Scrape(r, fail) ==
    LET q == req[r]
        u == [q.key.url EXCEPT !.fragment = FALSE]
        hit == u \in DOMAIN scraped
        f == IF hit THEN scraped[u]
             ELSE IF fail THEN Failed(<<"scraped", u>>, "download")
             ELSE IF u \notin DOMAIN Website THEN Failed(<<"scraped", u>>, "notfound")
             ELSE LET w == Website[u][web]
                  IN  Entry(<<"scraped", u>>, "ok", w.ver, Resolve(q.key.url, w.ref), w.id)
    IN  /\ q.pc = "scrape" /\ q.job.scraping /\ q.key.url # NoUrl /\ Allowed(q.job, q.key.url)
        /\ fail => ~hit
        /\ Fails(fail)
        /\ scraped' = With(scraped, u, f)
        /\ req' = [req EXCEPT ![r].pc = "got", ![r].got = f,
                              ![r].attempts = Attempt(q, IF f.res = "ok" THEN "success" ELSE f.res)]
        /\ UNCHANGED <<uploaded, web, api, objects, filesInBundles, smcaches>>

-----------------------------------------------------------------------------
(* fetch_minified_and_sourcemap, get_source_file *)

SizeOf(e) == IF e.ver = None THEN 0 ELSE Size[e.ver]

\* apply_sources_budget
WithinBudget(q, e) == e.res # "ok" \/ SizeOf(e) <= q.budget
Budgeted(q, e) == IF WithinBudget(q, e) THEN e ELSE [e EXCEPT !.res = "notfound", !.ver = None]
BudgetLeft(q, e) == IF e.res = "ok" /\ WithinBudget(q, e) THEN q.budget - SizeOf(e) ELSE q.budget

FrameUrl(q) == q.frames[q.pos].url

\* get_module: the url of a source map, otherwise the module's own, is what
\* source files are relative to.
ModuleDone(q, min, sm) ==
    [q EXCEPT !.pc = "frame",
              !.modules[FrameUrl(q)] = [@ EXCEPT !.fetched = TRUE, !.min = min, !.sm = sm,
                    !.base = IF min.res = "ok" /\ min.ref \notin {NoRef, DataRef} THEN min.ref ELSE FrameUrl(q)]]

GotMinified(r) ==
    LET q == req[r]
        min == Budgeted(q, q.got)
        spent == [q EXCEPT !.budget = BudgetLeft(q, q.got)]
        ref == IF min.res = "ok" THEN min.ref ELSE NoRef
        id == IF q.key.id # None THEN q.key.id ELSE min.id
    IN  /\ q.pc = "got" /\ q.key.ty = "min"
        /\ req' = [req EXCEPT ![r] =
              IF min.res = "notfound" \/ (ref = NoRef /\ id = None) THEN ModuleDone(spent, min, NoSourceMap)
              ELSE IF ref = DataRef
              THEN [spent EXCEPT !.pc = "smcache", !.min = min, !.got = Entry(<<"embedded">>, "ok", min.ver, NoRef, id)]
              ELSE [spent EXCEPT !.pc = "file", !.min = min, !.key = Key("map", ref, id)]]
        /\ UNCHANGED <<uploaded, web, api, objects, filesInBundles, scraped, smcaches, faults>>

GotSourceMap(r) ==
    /\ req[r].pc = "got" /\ req[r].key.ty = "map"
    /\ req' = [req EXCEPT ![r].pc = "smcache"]
    /\ UNCHANGED <<uploaded, web, api, objects, filesInBundles, scraped, smcaches, faults>>

\* Mutant of KeyPart: every file is named by where it came from.
KeyPartByUri(e) == e.uri

\* write_cache_key: a scraped file is named by its contents, others by where
\* they came from.
KeyPart(e) == IF e.uri[1] = "scraped" THEN <<"hash", e.ver>> ELSE e.uri
SmcacheKey(min, map) == <<KeyPart(min), KeyPart(map)>>

\* get_descriptor_from_bundle
Descriptor(b, key) ==
    LET id == IF key.id = None THEN {} ELSE source_by_debug_id(b, key.id, key.ty)
        urls == get_release_file_candidate_urls(key.url)
        hits == IF key.url = NoUrl THEN {} ELSE {i \in DOMAIN urls : source_by_url(b, urls[i]) # {}}
    IN  IF id # {} THEN One(id).ver
        ELSE IF hits # {} THEN One(source_by_url(b, urls[Min(hits)])).ver ELSE None

\* SourceMapContents::from_cachedfile: contents that were dropped are read
\* again from the bundle, if the request has it open.
SourceMapContents(q, map) ==
    IF map.ver # None THEN map.ver
    ELSE IF map.uri[1] = "bundle" /\ q.bundles[map.uri[2]] = "ok" THEN Descriptor(map.uri[2], map.uri[3])
    ELSE "empty"

\* write_sourcemap_cache
Converted(min, contents) ==
    IF contents \in DOMAIN Tokens THEN [res |-> "ok", min |-> min.ver, map |-> contents, found |-> None]
    ELSE [NoSourceMap EXCEPT !.res = "malformed"]

FetchSourceMapCache(r) ==
    LET q == req[r]
        min == q.min
        k == SmcacheKey(min, q.got)
        c == IF k \in DOMAIN smcaches THEN smcaches[k] ELSE Converted(min, SourceMapContents(q, q.got))
        failed == IF min.res # "ok" THEN min.res ELSE q.got.res
    IN  /\ q.pc = "smcache"
        /\ IF failed = "ok"
           THEN /\ smcaches' = With(smcaches, k, c)
                /\ req' = [req EXCEPT ![r] = ModuleDone(q, min, [c EXCEPT !.found = q.got.origin])]
           ELSE /\ UNCHANGED smcaches
                /\ req' = [req EXCEPT ![r] = ModuleDone(q, min, [NoSourceMap EXCEPT !.res = failed])]
        /\ UNCHANGED <<uploaded, web, api, objects, filesInBundles, scraped, faults>>

\* Mutant of GotSource: source files do not count.
GotSourceUncounted(r) ==
    LET q == req[r]
    IN  /\ q.pc = "got" /\ q.key.ty = "src"
        /\ req' = [req EXCEPT ![r].pc = "frame", ![r].files = With(@, q.key, q.got)]
        /\ UNCHANGED <<uploaded, web, api, objects, filesInBundles, scraped, smcaches, faults>>

GotSource(r) ==
    LET q == req[r]
    IN  /\ q.pc = "got" /\ q.key.ty = "src"
        /\ req' = [req EXCEPT ![r].pc = "frame", ![r].files = With(@, q.key, Budgeted(q, q.got)),
                              ![r].budget = BudgetLeft(q, q.got)]
        /\ UNCHANGED <<uploaded, web, api, objects, filesInBundles, scraped, smcaches, faults>>

-----------------------------------------------------------------------------
(* symbolicate_js_frame *)

\* The module of the frame has to be fetched first.
StartModule(r) ==
    LET q == req[r]
        m == q.modules[FrameUrl(q)]
    IN  /\ q.pc = "frame" /\ q.pos <= Len(q.frames)
        /\ q.frames[q.pos].line > 0 /\ ~m.fetched
        /\ req' = [req EXCEPT ![r].pc = "file", ![r].key = Key("min", FrameUrl(q), m.id)]
        /\ UNCHANGED <<uploaded, web, api, objects, filesInBundles, scraped, smcaches, faults>>

\* The outcome for a frame whose module is there: an error, or a token.
FrameError(frame, m) ==
    CASE frame.line = 0                                        -> "invalid_location"
      [] frame.line > 0 /\ m.min.res = "disabled"              -> "scraping_disabled"
      [] frame.line > 0 /\ m.min.res \notin {"ok", "disabled"} -> "missing_source"
      [] frame.line > 0 /\ m.min.res = "ok" /\ m.sm.res = "malformed" -> "malformed_sourcemap"
      [] frame.line > 0 /\ m.min.res = "ok" /\ m.sm.res = "disabled"  -> "scraping_disabled"
      [] frame.line > 0 /\ m.min.res = "ok" /\ m.sm.res \in {"download", "notfound"} -> "missing_sourcemap"
      [] frame.line > 0 /\ m.min.res = "ok" /\ m.sm.res = "ok" /\ frame.line \notin DOMAIN Tokens[m.sm.map]
            -> "invalid_location"
      [] OTHER -> None

\* The file context lines are read from if the source map has none
SourceKey(m, token) == Key("src", join_paths(m.base, token.file), None)

StartSource(r) ==
    LET q == req[r]
        frame == q.frames[q.pos]
        m == q.modules[frame.url]
        token == Tokens[m.sm.map][frame.line]
    IN  /\ q.pc = "frame" /\ q.pos <= Len(q.frames) /\ q.job.context
        /\ frame.line > 0 /\ m.fetched /\ FrameError(frame, m) = None /\ m.sm.res = "ok"
        /\ ~token.content /\ SourceKey(m, token) \notin DOMAIN q.files
        /\ req' = [req EXCEPT ![r].pc = "file", ![r].key = SourceKey(m, token)]
        /\ UNCHANGED <<uploaded, web, api, objects, filesInBundles, scraped, smcaches, faults>>

Raw(frame) == [of |-> frame, function |-> NoName, symbolicated |-> FALSE]

\* A frame is named by its own scope or by the token of its caller.
Symbolicated(q, frame, token) ==
    [of |-> frame, symbolicated |-> TRUE,
     function |-> fold_function_name(get_function_for_token(frame.function, token.scope, q.callsite))]

SymbolicateFrame(r) ==
    LET q == req[r]
        frame == q.frames[q.pos]
        m == q.modules[frame.url]
        error == FrameError(frame, m)
        mapped == error = None /\ m.sm.res = "ok"
        token == Tokens[m.sm.map][frame.line]
        needs == mapped /\ q.job.context /\ ~token.content
    IN  /\ q.pc = "frame" /\ q.pos <= Len(q.frames)
        /\ frame.line = 0 \/ m.fetched
        /\ needs => SourceKey(m, token) \in DOMAIN q.files
        /\ req' = [req EXCEPT ![r] =
              [q EXCEPT !.pos = @ + 1,
                        !.out = Append(@, IF mapped THEN Symbolicated(q, frame, token) ELSE Raw(frame)),
                        !.callsite = IF mapped THEN token.name ELSE NoName,
                        !.errors = @ \cup (IF error # None THEN {<<frame.url, error>>}
                                           ELSE IF needs /\ q.files[SourceKey(m, token)].res # "ok"
                                           THEN {<<frame.url, "missing_source_content">>} ELSE {})]]
        /\ UNCHANGED <<uploaded, web, api, objects, filesInBundles, scraped, smcaches, faults>>

\* The frames are processed from caller to callee and returned in the order
\* in which they were sent.
Respond(r) ==
    LET q == req[r]
    IN  /\ q.pc = "frame" /\ q.pos > Len(q.frames)
        /\ req' = [req EXCEPT ![r].pc = "done", ![r].out = IF q.job.order = "callee_first" THEN Reverse(@) ELSE @]
        /\ UNCHANGED <<uploaded, web, api, objects, filesInBundles, scraped, smcaches, faults>>

-----------------------------------------------------------------------------
Fault ==
    /\ faults < MaxFaults
    /\ faults' = faults + 1
    /\ \/ /\ \E k \in DOMAIN smcaches : smcaches' = [j \in DOMAIN smcaches \ {k} |-> smcaches[j]]
          /\ UNCHANGED <<uploaded, web, api, objects, scraped>>
       \/ /\ \E b \in DOMAIN objects : objects[b] # "absent" /\ objects' = [objects EXCEPT ![b] = "absent"]
          /\ UNCHANGED <<uploaded, web, api, smcaches, scraped>>
       \/ /\ web = 1 /\ web' = 2 /\ scraped' = <<>>
          /\ UNCHANGED <<uploaded, api, objects, smcaches>>
       \/ /\ api # <<>> /\ api' = <<>>
          /\ UNCHANGED <<uploaded, web, objects, smcaches, scraped>>
       \/ /\ uploaded # DOMAIN Bundles /\ \E b \in DOMAIN Bundles \ uploaded : uploaded' = uploaded \cup {b}
          /\ UNCHANGED <<web, api, objects, smcaches, scraped>>
    /\ UNCHANGED <<filesInBundles, req>>

JsStep(r) ==
    \/ StartModule(r) \/ GetFile(r) \/ QueryDone(r) \/ Retry(r) \/ ScrapeRefused(r)
    \/ GotMinified(r) \/ GotSourceMap(r) \/ FetchSourceMapCache(r) \/ GotSource(r)
    \/ StartSource(r) \/ SymbolicateFrame(r) \/ Respond(r)
    \/ \E fail \in BOOLEAN : QuerySentry(r, fail) \/ Scrape(r, fail)
    \/ \E b \in req[r].queue, fail \in BOOLEAN : EnsureBundle(r, b, fail)
    \/ \E res \in {"ok", "download", "notfound"} : FetchArtifact(r, res)

\* Nothing is left to do; a request that is stuck elsewhere is a deadlock.
Finished == (\A r \in Requests : req[r].pc = "done") /\ UNCHANGED vars

JsNext == (\E r \in Requests : JsStep(r)) \/ Fault \/ Finished

JsSpec == JsInit /\ [][JsNext]_vars

-----------------------------------------------------------------------------
(* Properties *)

\* An individual artifact that was not found although Sentry has headers for
\* it is taken for an empty file.
TakenForEmpty(m) == "empty" \in {m.min.origin, m.sm.min, m.sm.found}

\* fetch_sourcemap_cache: the source map a module is resolved with was made
\* from the minified file and the source map this request found, though it
\* may come from a cache other requests filled, and though the contents of a
\* bundled source map are read a second time, by another lookup.  The exception
\* is an artifact that one request found and another did not: both name it by
\* its uri (write_cache_key).
SourceMapFaithful ==
    \A r \in Requests : \A u \in DOMAIN req[r].modules :
        LET m == req[r].modules[u]
        IN  m.sm.res = "ok" /\ ~TakenForEmpty(m) =>
                m.sm.min = m.min.ver /\ m.sm.map = m.sm.found

\* apply_sources_budget: what a request retains and what is left of its budget
\* is always the whole budget, so it never retains more.
BudgetKept ==
    \A r \in Requests : req[r].pc = "frame" =>
        LET q == req[r]
            minified == SumFunction([u \in DOMAIN q.modules |-> SizeOf(q.modules[u].min)])
            sources  == SumFunction([k \in DOMAIN q.files |-> SizeOf(q.files[k])])
        IN  q.budget >= 0 /\ q.budget + minified + sources = Budget

\* symbolicate_js: the answer has the frames that were sent, in their order;
\* a frame is named after the token of its own caller and of no other frame,
\* and folding a name loses nothing.
FramesInOrder ==
    \A r \in Requests : req[r].pc = "done" =>
        LET q == req[r]
            caller(i) == IF q.job.order = "callee_first" THEN i + 1 ELSE i - 1
            token(i) == Tokens[q.modules[q.out[i].of.url].sm.map][q.out[i].of.line]
            called(i) == IF caller(i) \in DOMAIN q.out /\ q.out[caller(i)].symbolicated THEN token(caller(i)).name ELSE NoName
        IN  /\ Len(q.out) = Len(q.job.frames)
            /\ \A i \in DOMAIN q.out :
                  /\ q.out[i].of = q.job.frames[i]
                  /\ q.out[i].symbolicated =>
                        Unfolded(q.out[i].function) =
                            get_function_for_token(q.out[i].of.function, token(i).scope, called(i))

=============================================================================
