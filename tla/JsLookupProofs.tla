--------------------------- MODULE JsLookupProofs ---------------------------
(***************************************************************************)
(* Theorems about JsLookup, for any bundles, artifacts, websites, source   *)
(* maps and events, and any number of requests that share the caches.      *)
(***************************************************************************)
EXTENDS JsLookup, Recursion, SequenceTheorems

ReqFields == {"job", "pc", "pos", "frames", "out", "errors", "callsite", "modules", "files",
              "bundles", "artifacts", "queue", "fresh", "key", "got", "min", "budget", "attempts"}

\* The values are records; what is in them is said below as far as it matters.
IsReq(q)    == q = [f \in ReqFields |-> q[f]]
IsModule(m) == m = [f \in {"id", "fetched", "base", "min", "sm"} |-> m[f]]
IsEntry(e)  == e = [f \in {"uri", "res", "ver", "ref", "id", "origin"} |-> e[f]]
IsCache(c)  == c = [f \in {"res", "min", "map", "found"} |-> c[f]]

\* No open bundle has a file with the debug id of the key.
NoneById(bundles, key) ==
    key.id # None =>
        \A b \in DOMAIN bundles : bundles[b] = "ok" => source_by_debug_id(b, key.id, key.ty) = {}

\* Which version a part of the key of a source map cache stands for.
Named(part, ver) ==
    /\ part[1] = "bundle" => ver = Descriptor(part[2], part[3])
    /\ part[1] = "artifact" => ver \in {Artifacts[part[2]].ver, "empty"}
    /\ part[1] = "hash" => ver = part[2]

\* A file that was found is the one its uri names; its contents may be dropped.
EntryInv(e) ==
    /\ IsEntry(e)
    /\ e.res = "ok" => /\ e.uri[1] \in {"bundle", "artifact", "scraped"}
                       /\ Named(KeyPart(e), e.origin)
                       /\ e.ver \in {e.origin, None}

MinInv(e) == EntryInv(e) /\ (e.res = "ok" => e.ver = e.origin)

GotInv(e, ty) == EntryInv(e) /\ (ty # "map" /\ e.res = "ok" => e.ver = e.origin)

\* A source map, which may be embedded in the minified file min.
SourceInv(e, min) ==
    \/ EntryInv(e)
    \/ IsEntry(e) /\ e.uri = <<"embedded">> /\ e.res = "ok" /\ e.origin = min.ver /\ e.ver = min.ver

ModuleInv(m) ==
    /\ IsModule(m)
    /\ m.sm.res = "ok" /\ ~TakenForEmpty(m) => m.sm.min = m.min.ver /\ m.sm.map = m.sm.found

Searching == {"file", "query", "bundles", "retry", "artifact", "scrape", "got"}

ReqInv(q) ==
    /\ IsReq(q)
    /\ DOMAIN q.bundles \subseteq DOMAIN Bundles /\ q.queue \subseteq DOMAIN Bundles
    /\ q.pc = "query" => NoneById(q.bundles, q.key)
    /\ q.pc \in {"bundles", "retry"} => q.fresh \/ NoneById(q.bundles, q.key)
    /\ q.pc = "got" => GotInv(q.got, q.key.ty)
    /\ q.pc \in Searching /\ q.key.ty = "map" => MinInv(q.min)
    /\ q.pc = "smcache" => MinInv(q.min) /\ SourceInv(q.got, q.min)
    /\ \A u \in DOMAIN q.modules : ModuleInv(q.modules[u])

\* The file for key in bundle b, which its uri says.
InBundle(e, b, key) == GotInv(e, key.ty) /\ e.uri = <<"bundle", b, key>>

\* The caches the requests share.
SharedInv ==
    /\ uploaded \subseteq DOMAIN Bundles
    /\ \A x \in DOMAIN api : api[x].bundles \subseteq DOMAIN Bundles
    /\ \A b, key : <<b, key>> \in DOMAIN filesInBundles => InBundle(filesInBundles[<<b, key>>], b, key)
    /\ \A u \in DOMAIN scraped : GotInv(scraped[u], "min")
    /\ \A a, b : <<a, b>> \in DOMAIN smcaches /\ smcaches[<<a, b>>].res = "ok" =>
          LET c == smcaches[<<a, b>>]
          IN  /\ Named(a, c.min) /\ Named(b, c.map) /\ c.map \in DOMAIN Tokens
              /\ b = <<"embedded">> => c.map = c.min
    /\ \A k \in DOMAIN smcaches : IsCache(smcaches[k])

Inv ==
    /\ req = [r \in Requests |-> req[r]]
    /\ \A r \in Requests : ReqInv(req[r])
    /\ SharedInv

-----------------------------------------------------------------------------
(* Lemmas on the search in bundles *)

\* A set of bundles has a last one.
LEMMA LastBundle ==
    ASSUME NEW S, S \subseteq DOMAIN Bundles, S # {}
    PROVE  Max(S) \in S
  <1> DEFINE n == Len(Bundles)
             T == {n - x : x \in S}
  <1>1. n \in Nat /\ \A x \in S : x \in Nat /\ n - x \in Nat
    BY JsConstants DEF IsSeq
  <1>2. T \in SUBSET Nat /\ T # {}
    BY <1>1
  <1>3. PICK m \in T : \A k \in T : m <= k
    BY <1>2, LeastNat
  <1>4. PICK x \in S : m = n - x
    BY <1>3
  <1>5. ASSUME NEW y \in S PROVE x >= y
    <2>1. n - y \in T
      OBVIOUS
    <2>2. n - x <= n - y
      BY <1>3, <1>4, <2>1
    <2> HIDE DEF n
    <2> QED
      BY <1>1, <2>2
  <1> QED
    BY <1>5 DEF Max

\* A set of numbers has a first one.
LEMMA FirstIndex ==
    ASSUME NEW I \in SUBSET Nat, I # {}
    PROVE  Min(I) \in I /\ \A k \in I : Min(I) <= k
  BY LeastNat DEF Min

LEMMA OneOrTwo ==
    ASSUME NEW S, NEW u \in S, NEW v \in S, NEW c
    PROVE  (IF c THEN <<u, v>> ELSE <<u>>) \in Seq(S)
  OBVIOUS

\* The names a file may have are numbered.
LEMMA Candidates ==
    ASSUME NEW url
    PROVE  DOMAIN get_release_file_candidate_urls(url) \subseteq Nat
  <1> DEFINE both(u) == IF u.query THEN <<u, [u EXCEPT !.query = FALSE]>> ELSE <<u>>
             plain == [url EXCEPT !.fragment = FALSE]
             other == strip_hostname(plain)
             S == {plain, [plain EXCEPT !.query = FALSE], other, [other EXCEPT !.query = FALSE]}
  <1>1. get_release_file_candidate_urls(url) = both(plain) \o both(other)
    BY DEF get_release_file_candidate_urls
  <1>2. both(plain) \in Seq(S) /\ both(other) \in Seq(S)
    <2>1. \A u, v : u \in S /\ v \in S => (IF u.query THEN <<u, v>> ELSE <<u>>) \in Seq(S)
      BY OneOrTwo
    <2> QED
      BY <2>1, Zenon
  <1> HIDE DEF both, plain, other, S
  <1>3. both(plain) \o both(other) \in Seq(S)
    BY <1>2
  <1> QED
    BY <1>1, <1>3

\* The file a search of a bundle yields is the one its uri names, if reading the
\* bundle for the same key again yields it.
LEMMA FromDescriptor ==
    ASSUME NEW b, NEW key, NEW f, Descriptor(b, key) = f.ver
    PROVE  InBundle(from_descriptor(b, key, f), b, key)
  <1> DEFINE e == from_descriptor(b, key, f)
  <1>1. CASE f.ref # NoRef /\ key.url = NoUrl
    <2>1. e = Entry(<<"bundle", b, key>>, "malformed", None, NoUrl, None)
      BY <1>1 DEF from_descriptor, Failed
    <2> QED
      BY <2>1 DEF Entry, InBundle, GotInv, EntryInv, IsEntry
  <1>2. CASE ~(f.ref # NoRef /\ key.url = NoUrl)
    <2>1. e = Entry(<<"bundle", b, key>>, "ok", f.ver, Resolve(key.url, f.ref), None)
      BY <1>2 DEF from_descriptor
    <2>2. e.uri = <<"bundle", b, key>> /\ e.ver = f.ver /\ e.origin = f.ver /\ IsEntry(e)
      BY <2>1 DEF Entry, IsEntry
    <2>3. KeyPart(e) = <<"bundle", b, key>>
      BY <2>2 DEF KeyPart
    <2>4. Named(KeyPart(e), e.origin)
      BY <2>2, <2>3 DEF Named
    <2> QED
      BY <2>2, <2>4 DEF InBundle, GotInv, EntryInv
  <1> QED
    BY <1>1, <1>2

\* Looking for a debug id finds the file of the uri, or there is none.
LEMMA ByIdFacts ==
    ASSUME NEW q, NEW key, DOMAIN q.bundles \subseteq DOMAIN Bundles
    PROVE  /\ ById(q, key) = <<>> => NoneById(q.bundles, key)
           /\ ById(q, key) # <<>> => InBundle(ById(q, key)[2], ById(q, key)[1], key)
  <1> DEFINE having == {b \in Opened(q) : key.id # None /\ source_by_debug_id(b, key.id, key.ty) # {}}
             b == Max(having)
             f == One(source_by_debug_id(b, key.id, key.ty))
             e == from_descriptor(b, key, f)
  <1>1. ById(q, key) = IF having = {} THEN <<>> ELSE <<b, e>>
    BY DEF ById
  <1>2. CASE having = {}
    BY <1>1, <1>2 DEF NoneById, Opened
  <1>3. CASE having # {}
    <2>1. b \in having
      BY <1>3, LastBundle DEF Opened
    <2>2. Descriptor(b, key) = f.ver
      BY <2>1 DEF Descriptor
    <2>3. InBundle(e, b, key)
      BY <2>2, FromDescriptor
    <2> QED
      BY <1>1, <1>3, <2>3
  <1> QED
    BY <1>2, <1>3

\* So does looking for the names, if no open bundle has the debug id.
LEMMA ByPathFacts ==
    ASSUME NEW q, NEW key, DOMAIN q.bundles \subseteq DOMAIN Bundles,
           NoneById(q.bundles, key), ByPath(q, key) # <<>>
    PROVE  InBundle(ByPath(q, key)[2], ByPath(q, key)[1], key)
  <1> DEFINE urls == get_release_file_candidate_urls(key.url)
             having(u) == {b \in Opened(q) : source_by_url(b, u) # {}}
             hits == {i \in DOMAIN urls : having(urls[i]) # {}}
             url == urls[Min(hits)]
             b == Max(having(url))
             f == One(source_by_url(b, url))
             local == {i \in DOMAIN urls : source_by_url(b, urls[i]) # {}}
  <1>1. key.url # NoUrl /\ hits # {} /\ ByPath(q, key) = <<b, from_descriptor(b, key, f)>>
    BY DEF ByPath
  <1>2. hits \in SUBSET Nat /\ local \in SUBSET Nat
    BY Candidates
  <1>3. Min(hits) \in hits /\ \A k \in hits : Min(hits) <= k
    BY <1>1, <1>2, FirstIndex
  <1>4. b \in having(url)
    <2>1. having(url) # {} /\ having(url) \subseteq DOMAIN Bundles
      BY <1>3 DEF Opened
    <2> HIDE DEF having, url
    <2> QED
      BY <2>1, LastBundle
  <1>5. b \in Opened(q) /\ source_by_url(b, url) # {}
    BY <1>4
  <1>6. Min(hits) \in local
    BY <1>3, <1>5
  <1>7. local \subseteq hits
    BY <1>5
  <1>8. Min(local) \in local /\ Min(local) <= Min(hits)
    BY <1>2, <1>6, FirstIndex
  <1> HIDE DEF hits, local
  <1>9. Min(local) = Min(hits)
    <2>1. Min(local) \in Nat /\ Min(hits) \in Nat
      BY <1>2, <1>3, <1>8, Zenon
    <2>2. Min(hits) <= Min(local)
      BY <1>3, <1>7, <1>8, Zenon
    <2>3. Min(local) <= Min(hits)
      BY <1>8, Zenon
    <2> DEFINE i == Min(hits)
               j == Min(local)
    <2>4. i \in Nat /\ j \in Nat /\ i <= j /\ j <= i
      BY <2>1, <2>2, <2>3, Zenon
    <2> HIDE DEF i, j
    <2>5. j = i
      BY <2>4
    <2> USE DEF i, j
    <2> QED
      BY <2>5, Zenon
  <1> USE DEF hits, local
  <1>10. key.id = None \/ source_by_debug_id(b, key.id, key.ty) = {}
    BY <1>5 DEF NoneById, Opened
  <1> HIDE DEF b, having
  <1>11. Descriptor(b, key) = f.ver
    <2>1. Descriptor(b, key) = One(source_by_url(b, urls[Min(local)])).ver
      BY <1>1, <1>6, <1>10 DEF Descriptor
    <2> QED
      BY <2>1, <1>9
  <1> QED
    BY <1>1, <1>11, FromDescriptor

-----------------------------------------------------------------------------
(* Steps of a request *)

\* A step of one request that leaves the invariant true of it and of the caches.
LEMMA OneRequest ==
    ASSUME NEW r \in Requests, NEW q, Inv, req' = [req EXCEPT ![r] = q], ReqInv(q), SharedInv'
    PROVE  Inv'
  <1>1. req' = [x \in Requests |-> req'[x]]
    BY DEF Inv
  <1>2. \A x \in Requests : req'[x] = IF x = r THEN q ELSE req[x]
    BY DEF Inv
  <1>3. \A x \in Requests : ReqInv(req'[x])
    BY <1>2 DEF Inv
  <1> QED
    BY <1>1, <1>3 DEF Inv

\* The parts of a request the invariant speaks of that a search does not change
SameSearch(p, q) ==
    q.bundles = p.bundles /\ q.queue = p.queue /\ q.modules = p.modules /\ q.key = p.key /\ q.min = p.min

\* A step of a search
LEMMA SearchStep ==
    ASSUME NEW p, NEW q, ReqInv(p), IsReq(q), SameSearch(p, q),
           p.pc \in Searching, q.pc \in Searching,
           q.pc = "query" => NoneById(p.bundles, p.key),
           q.pc \in {"bundles", "retry"} => q.fresh \/ NoneById(p.bundles, p.key),
           q.pc = "got" => GotInv(q.got, p.key.ty)
    PROVE  ReqInv(q)
  <1>1. q.pc # "smcache"
    BY DEF Searching
  <1> QED
    BY <1>1 DEF ReqInv, SameSearch

\* The search ends with a file.
LEMMA FoundStep ==
    ASSUME NEW q, NEW e, ReqInv(q), q.pc \in Searching, GotInv(e, q.key.ty)
    PROVE  ReqInv(Found(q, e))
  <1>1. /\ IsReq(Found(q, e)) /\ SameSearch(q, Found(q, e))
        /\ Found(q, e).pc = "got" /\ Found(q, e).got = e
    BY DEF Found, ReqInv, IsReq, ReqFields, SameSearch
  <1> QED
    BY <1>1, SearchStep DEF Searching

\* What was found in a bundle is kept under the bundle and the key.
LEMMA InsertedInBundle ==
    ASSUME NEW found, NEW key, SharedInv, InBundle(found[2], found[1], key),
           filesInBundles' = Inserted(found, key),
           UNCHANGED <<uploaded, api, scraped, smcaches>>
    PROVE  SharedInv'
  <1> DEFINE e == IF key.ty = "map" THEN [found[2] EXCEPT !.ver = None] ELSE found[2]
  <1>1. InBundle(e, found[1], key)
    <2>1. CASE key.ty = "map"
      <3>1. e = [found[2] EXCEPT !.ver = None]
        BY <2>1
      <3>2. /\ IsEntry(e) /\ e.ver = None /\ e.uri = found[2].uri /\ e.res = found[2].res
            /\ e.origin = found[2].origin
        BY <3>1 DEF IsEntry, InBundle, GotInv, EntryInv
      <3>3. KeyPart(e) = KeyPart(found[2])
        BY <3>2 DEF KeyPart, InBundle
      <3> QED
        BY <2>1, <3>2, <3>3 DEF InBundle, GotInv, EntryInv
    <2>2. CASE key.ty # "map"
      BY <2>2
    <2> QED
      BY <2>1, <2>2
  <1>2. /\ DOMAIN filesInBundles' = DOMAIN filesInBundles \cup {<<found[1], key>>}
        /\ \A x \in DOMAIN filesInBundles' :
              filesInBundles'[x] = IF x = <<found[1], key>> THEN e ELSE filesInBundles[x]
    BY DEF Inserted, With
  <1> HIDE DEF e
  <1>3. ASSUME NEW b, NEW k, <<b, k>> \in DOMAIN filesInBundles'
        PROVE  InBundle(filesInBundles'[<<b, k>>], b, k)
    BY <1>1, <1>2, <1>3 DEF SharedInv
  <1> QED
    BY <1>3 DEF SharedInv

\* A file that was found in a bundle earlier
LEMMA InCacheFacts ==
    ASSUME NEW q, NEW key, SharedInv, DOMAIN q.bundles \subseteq DOMAIN Bundles, InCache(q, key) # <<>>
    PROVE  GotInv(InCache(q, key)[2], key.ty)
  <1> DEFINE having == {b \in DOMAIN q.bundles : <<b, key>> \in DOMAIN filesInBundles}
             b == Max(having)
  <1>1. having # {} /\ InCache(q, key) = <<b, filesInBundles[<<b, key>>]>>
    BY DEF InCache
  <1>2. b \in having
    BY <1>1, LastBundle
  <1> HIDE DEF b
  <1>3. InBundle(filesInBundles[<<b, key>>], b, key)
    BY <1>2 DEF SharedInv
  <1> QED
    BY <1>1, <1>3 DEF InBundle

LEMMA GetFileStep ==
    ASSUME NEW r \in Requests, Inv, GetFile(r)
    PROVE  Inv'
  <1> DEFINE q == req[r]
             cached == InCache(q, q.key)
             local == IF q.key.id # None THEN ById(q, q.key) ELSE ByPath(q, q.key)
             next == IF q.key.id = None /\ ArtifactFor(q, q.key) # NoUrl THEN "artifact" ELSE "query"
  <1>1. ReqInv(q) /\ SharedInv /\ q.pc = "file" /\ q.pc \in Searching
    BY DEF GetFile, Inv, Searching
  <1>2. DOMAIN q.bundles \subseteq DOMAIN Bundles
    BY <1>1 DEF ReqInv
  <1>3. CASE cached # <<>> /\ req' = [req EXCEPT ![r] = Found(q, cached[2])] /\ UNCHANGED filesInBundles
    <2>1. ReqInv(Found(q, cached[2]))
      BY <1>1, <1>2, <1>3, InCacheFacts, FoundStep
    <2>2. SharedInv'
      BY <1>1, <1>3 DEF SharedInv, GetFile
    <2> QED
      BY <1>3, <2>1, <2>2, OneRequest
  <1>4. CASE /\ local # <<>> /\ req' = [req EXCEPT ![r] = Found(q, local[2])]
             /\ filesInBundles' = Inserted(local, q.key)
    <2>1. InBundle(local[2], local[1], q.key)
      <3>1. q.key.id = None => NoneById(q.bundles, q.key)
        BY DEF NoneById
      <3> QED
        BY <1>2, <1>4, <3>1, ByIdFacts, ByPathFacts
    <2>2. ReqInv(Found(q, local[2]))
      BY <1>1, <2>1, FoundStep DEF InBundle
    <2>3. SharedInv'
      BY <1>1, <1>4, <2>1, InsertedInBundle DEF GetFile
    <2> QED
      BY <1>4, <2>2, <2>3, OneRequest
  <1>5. CASE local = <<>> /\ req' = [req EXCEPT ![r].pc = next] /\ UNCHANGED filesInBundles
    <2> DEFINE p == [q EXCEPT !.pc = next]
    <2>1. req' = [req EXCEPT ![r] = p]
      BY <1>5
    <2>2. NoneById(q.bundles, q.key)
      BY <1>2, <1>5, ByIdFacts DEF NoneById
    <2>3. IsReq(p) /\ SameSearch(q, p) /\ p.pc = next
      BY <1>1 DEF ReqInv, IsReq, ReqFields, SameSearch
    <2>4. next \in {"artifact", "query"}
      OBVIOUS
    <2> HIDE DEF p, next
    <2>5. ReqInv(p)
      BY <1>1, <2>2, <2>3, <2>4, SearchStep DEF Searching
    <2>6. SharedInv'
      BY <1>1, <1>5 DEF SharedInv, GetFile
    <2> QED
      BY <2>1, <2>5, <2>6, OneRequest
  <1> QED
    BY <1>3, <1>4, <1>5 DEF GetFile

LEMMA QueryStep ==
    ASSUME NEW r \in Requests, NEW fail, Inv, QuerySentry(r, fail)
    PROVE  Inv'
  <1> DEFINE q == req[r]
             query == QueryOf(q)
             known == query \in DOMAIN api
             a == IF known THEN api[query] ELSE Answer(query)
             fresh == a.artifacts \ q.artifacts # {}
             idle == [q EXCEPT !.pc = "retry", !.fresh = FALSE]
             told == [q EXCEPT !.pc = "bundles", !.fresh = fresh,
                               !.artifacts = @ \cup a.artifacts, !.queue = a.bundles]
  <1>1. ReqInv(q) /\ SharedInv /\ q.pc = "query" /\ q.pc \in Searching
    BY DEF QuerySentry, Inv, Searching
  <1>2. NoneById(q.bundles, q.key)
    BY <1>1 DEF ReqInv
  <1>3. a.bundles \subseteq DOMAIN Bundles
    BY <1>1 DEF SharedInv, Answer
  <1>4. CASE req' = [req EXCEPT ![r].pc = "retry", ![r].fresh = FALSE] /\ UNCHANGED api
    <2>1. req' = [req EXCEPT ![r] = idle]
      BY <1>4 DEF Inv
    <2>2. IsReq(idle) /\ SameSearch(q, idle) /\ idle.pc = "retry"
      BY <1>1 DEF ReqInv, IsReq, ReqFields, SameSearch
    <2> HIDE DEF idle
    <2>3. ReqInv(idle)
      BY <1>1, <1>2, <2>2, SearchStep DEF Searching
    <2>4. SharedInv'
      BY <1>1, <1>4 DEF SharedInv, QuerySentry
    <2> QED
      BY <2>1, <2>3, <2>4, OneRequest
  <1>5. CASE req' = [req EXCEPT ![r] = told] /\ api' \in {api, With(api, query, a)}
    <2>1. /\ IsReq(told) /\ told.pc = "bundles" /\ told.queue = a.bundles
          /\ told.bundles = q.bundles /\ told.modules = q.modules /\ told.key = q.key /\ told.min = q.min
      BY <1>1 DEF ReqInv, IsReq, ReqFields
    <2> HIDE DEF told
    <2>2. ReqInv(told)
      BY <1>1, <1>2, <1>3, <2>1 DEF ReqInv, Searching
    <2>3. \A x \in DOMAIN api' : api'[x].bundles \subseteq DOMAIN Bundles
      <3> HIDE DEF a
      <3> QED
        BY <1>1, <1>3, <1>5 DEF SharedInv, With
    <2>4. SharedInv'
      BY <1>1, <2>3 DEF SharedInv, QuerySentry
    <2> QED
      BY <1>5, <2>2, <2>4, OneRequest
  <1> QED
    <2>1. QuerySentry(r, fail) =>
            \/ req' = [req EXCEPT ![r].pc = "retry", ![r].fresh = FALSE] /\ UNCHANGED api
            \/ /\ api' = IF fail \/ known THEN api ELSE With(api, query, a)
               /\ req' = [req EXCEPT ![r] = IF fail THEN idle ELSE told]
      BY DEF QuerySentry
    <2> QED
      BY <1>4, <1>5, <2>1

LEMMA EnsureStep ==
    ASSUME NEW r \in Requests, NEW b, NEW fail, Inv, EnsureBundle(r, b, fail)
    PROVE  Inv'
  <1> DEFINE q == req[r]
             o == IF objects[b] # "absent" THEN objects[b] ELSE IF fail THEN "error" ELSE "ok"
             rest == q.queue \ {b}
             known == [q EXCEPT !.queue = rest]
             opened == [q EXCEPT !.queue = rest, !.fresh = TRUE, !.bundles = With(q.bundles, b, o)]
  <1>1. ReqInv(q) /\ SharedInv /\ q.pc = "bundles" /\ b \in q.queue
    BY DEF EnsureBundle, Inv
  <1>2. rest \subseteq DOMAIN Bundles /\ b \in DOMAIN Bundles
    BY <1>1 DEF ReqInv
  <1>3. SharedInv'
    BY <1>1 DEF SharedInv, EnsureBundle
  <1>4. CASE req' = [req EXCEPT ![r].queue = @ \ {b}]
    <2>1. req' = [req EXCEPT ![r] = known]
      BY <1>4
    <2>2. /\ IsReq(known) /\ known.pc = q.pc /\ known.queue = rest /\ known.fresh = q.fresh
          /\ known.bundles = q.bundles /\ known.modules = q.modules /\ known.key = q.key /\ known.min = q.min
      BY <1>1 DEF ReqInv, IsReq, ReqFields
    <2> HIDE DEF known, rest
    <2>3. ReqInv(known)
      BY <1>1, <1>2, <2>2 DEF ReqInv, Searching
    <2> QED
      BY <1>3, <2>1, <2>3, OneRequest
  <1>5. CASE req' = [req EXCEPT ![r].queue = @ \ {b}, ![r].fresh = TRUE, ![r].bundles = With(@, b, o)]
    <2>1. req' = [req EXCEPT ![r] = opened]
      <3> HIDE DEF o
      <3> QED
        BY <1>1, <1>5 DEF Inv, ReqInv, IsReq, ReqFields
    <2> DEFINE bundles == With(q.bundles, b, o)
    <2>2. DOMAIN bundles \subseteq DOMAIN Bundles
      BY <1>1, <1>2 DEF ReqInv, With
    <2>3. /\ IsReq(opened) /\ opened.pc = q.pc /\ opened.queue = rest /\ opened.fresh = TRUE
          /\ opened.bundles = bundles /\ opened.modules = q.modules /\ opened.key = q.key
          /\ opened.min = q.min
      <3> HIDE DEF bundles
      <3>1. opened = [q EXCEPT !.queue = rest, !.fresh = TRUE, !.bundles = bundles]
        BY DEF bundles
      <3> HIDE DEF opened
      <3> QED
        BY <1>1, <3>1 DEF ReqInv, IsReq, ReqFields
    <2> HIDE DEF opened, rest, bundles
    <2>4. ReqInv(opened)
      BY <1>1, <1>2, <2>2, <2>3 DEF ReqInv, Searching
    <2> QED
      BY <1>3, <2>1, <2>4, OneRequest
  <1> QED
    BY <1>4, <1>5 DEF EnsureBundle

LEMMA QueryDoneStep ==
    ASSUME NEW r \in Requests, Inv, QueryDone(r)
    PROVE  Inv'
  <1> DEFINE q == req[r]
             p == [q EXCEPT !.pc = "retry"]
  <1>1. ReqInv(q) /\ SharedInv /\ q.pc = "bundles" /\ q.pc \in Searching
    BY DEF QueryDone, Inv, Searching
  <1>2. req' = [req EXCEPT ![r] = p]
    BY DEF QueryDone
  <1>3. IsReq(p) /\ SameSearch(q, p) /\ p.pc = "retry" /\ p.fresh = q.fresh
    BY <1>1 DEF ReqInv, IsReq, ReqFields, SameSearch
  <1> HIDE DEF p
  <1>4. ReqInv(p)
    <2>1. q.fresh \/ NoneById(q.bundles, q.key)
      BY <1>1 DEF ReqInv
    <2> QED
      BY <1>1, <1>3, <2>1, SearchStep DEF Searching
  <1>5. SharedInv'
    BY <1>1 DEF SharedInv, QueryDone
  <1> QED
    BY <1>2, <1>4, <1>5, OneRequest

LEMMA RetryStep ==
    ASSUME NEW r \in Requests, Inv, Retry(r)
    PROVE  Inv'
  <1> DEFINE q == req[r]
             id == IF q.fresh THEN ById(q, q.key) ELSE <<>>
             path == IF q.key.id # None \/ q.fresh THEN ByPath(q, q.key) ELSE <<>>
             local == IF id # <<>> THEN id ELSE path
             next == IF (q.key.id # None \/ q.fresh) /\ ArtifactFor(q, q.key) # NoUrl
                     THEN "artifact" ELSE "scrape"
  <1>1. ReqInv(q) /\ SharedInv /\ q.pc = "retry" /\ q.pc \in Searching
    BY DEF Retry, Inv, Searching
  <1>2. DOMAIN q.bundles \subseteq DOMAIN Bundles /\ (q.fresh \/ NoneById(q.bundles, q.key))
    BY <1>1 DEF ReqInv
  <1>3. CASE /\ local # <<>> /\ req' = [req EXCEPT ![r] = Found(q, local[2])]
             /\ filesInBundles' = Inserted(local, q.key)
    <2>1. InBundle(local[2], local[1], q.key)
      <3>1. CASE id # <<>>
        BY <1>2, <3>1, ByIdFacts
      <3>2. CASE id = <<>>
        <4>1. NoneById(q.bundles, q.key)
          BY <1>2, <3>2, ByIdFacts
        <4> QED
          BY <1>2, <1>3, <3>2, <4>1, ByPathFacts
      <3> QED
        BY <3>1, <3>2
    <2>2. ReqInv(Found(q, local[2]))
      BY <1>1, <2>1, FoundStep DEF InBundle
    <2>3. SharedInv'
      BY <1>1, <1>3, <2>1, InsertedInBundle DEF Retry
    <2> QED
      BY <1>3, <2>2, <2>3, OneRequest
  <1>4. CASE req' = [req EXCEPT ![r].pc = next] /\ UNCHANGED filesInBundles
    <2> DEFINE p == [q EXCEPT !.pc = next]
    <2>1. req' = [req EXCEPT ![r] = p]
      BY <1>4
    <2>2. IsReq(p) /\ SameSearch(q, p) /\ p.pc = next
      BY <1>1 DEF ReqInv, IsReq, ReqFields, SameSearch
    <2>3. next \in {"artifact", "scrape"}
      OBVIOUS
    <2> HIDE DEF p, next
    <2>4. ReqInv(p)
      BY <1>1, <2>2, <2>3, SearchStep DEF Searching
    <2>5. SharedInv'
      BY <1>1, <1>4 DEF SharedInv, Retry
    <2> QED
      BY <2>1, <2>4, <2>5, OneRequest
  <1> QED
    BY <1>3, <1>4 DEF Retry

\* An individual artifact, or the empty file it is taken for.
LEMMA ArtifactStep ==
    ASSUME NEW r \in Requests, NEW res, Inv, FetchArtifact(r, res)
    PROVE  Inv'
  <1> DEFINE q == req[r]
             u == ArtifactFor(q, q.key)
             f == Artifacts[u]
             ref == Resolve(q.key.url, f.ref)
             e == IF res = "ok" THEN Entry(<<"artifact", u>>, "ok", f.ver, ref, f.id)
                  ELSE IF res = "notfound" /\ f.headers THEN Entry(<<"artifact", u>>, "ok", "empty", ref, None)
                  ELSE Failed(<<"artifact", u>>, res)
  <1>1. ReqInv(q) /\ SharedInv /\ q.pc = "artifact" /\ q.pc \in Searching
    BY DEF FetchArtifact, Inv, Searching
  <1>2. req' = [req EXCEPT ![r] = Found(q, e)]
    BY DEF FetchArtifact
  <1>3. \E v, w, i, s : e = Entry(<<"artifact", u>>, s, v, w, i) /\ (s = "ok" => v \in {f.ver, "empty"})
    BY DEF Failed
  <1> HIDE DEF e, f
  <1>4. PICK v, w, i, s : e = Entry(<<"artifact", u>>, s, v, w, i) /\ (s = "ok" => v \in {f.ver, "empty"})
    BY <1>3
  <1>5. IsEntry(e) /\ e.uri = <<"artifact", u>> /\ e.res = s /\ e.ver = v /\ e.origin = v
    BY <1>4 DEF Entry, IsEntry
  <1>6. KeyPart(e) = <<"artifact", u>>
    BY <1>5 DEF KeyPart
  <1>7. s = "ok" => Named(KeyPart(e), v)
    BY <1>4, <1>6 DEF Named, f
  <1>8. GotInv(e, q.key.ty)
    BY <1>5, <1>7 DEF GotInv, EntryInv
  <1>9. ReqInv(Found(q, e))
    BY <1>1, <1>8, FoundStep
  <1>10. SharedInv'
    BY <1>1 DEF SharedInv, FetchArtifact
  <1> QED
    BY <1>2, <1>9, <1>10, OneRequest

\* A failure is an entry without contents.
LEMMA FailedInv ==
    ASSUME NEW uri, NEW res, NEW ty, res # "ok"
    PROVE  GotInv(Failed(uri, res), ty)
  BY DEF Failed, Entry, GotInv, EntryInv, IsEntry

LEMMA ScrapeRefusedStep ==
    ASSUME NEW r \in Requests, Inv, ScrapeRefused(r)
    PROVE  Inv'
  <1> DEFINE q == req[r]
  <1>1. ReqInv(q) /\ SharedInv /\ q.pc = "scrape" /\ q.pc \in Searching
    BY DEF ScrapeRefused, Inv, Searching
  <1>2. PICK uri, res, att :
            /\ res # "ok"
            /\ req' = [req EXCEPT ![r].pc = "got", ![r].got = Failed(uri, res), ![r].attempts = att]
    BY DEF ScrapeRefused, Invalid
  <1> DEFINE e == Failed(uri, res)
             p == [q EXCEPT !.pc = "got", !.got = e, !.attempts = att]
  <1>3. req' = [req EXCEPT ![r] = p]
    <2> HIDE DEF e
    <2>1. req' = [req EXCEPT ![r].pc = "got", ![r].got = e, ![r].attempts = att]
      BY <1>2 DEF e
    <2> QED
      BY <1>1, <2>1 DEF Inv, ReqInv, IsReq, ReqFields
  <1>4. GotInv(e, q.key.ty)
    BY <1>2, FailedInv
  <1> HIDE DEF e
  <1>5. IsReq(p) /\ SameSearch(q, p) /\ p.pc = "got" /\ p.got = e
    BY <1>1 DEF ReqInv, IsReq, ReqFields, SameSearch
  <1> HIDE DEF p
  <1>6. ReqInv(p)
    BY <1>1, <1>4, <1>5, SearchStep DEF Searching
  <1>7. SharedInv'
    BY <1>1 DEF SharedInv, ScrapeRefused
  <1> QED
    BY <1>3, <1>6, <1>7, OneRequest

\* A scraped file is named by its contents.
LEMMA ScrapeStep ==
    ASSUME NEW r \in Requests, NEW fail, Inv, Scrape(r, fail)
    PROVE  Inv'
  <1> DEFINE q == req[r]
             u == [q.key.url EXCEPT !.fragment = FALSE]
             hit == u \in DOMAIN scraped
             w == Website[u][web]
             f == IF hit THEN scraped[u]
                  ELSE IF fail THEN Failed(<<"scraped", u>>, "download")
                  ELSE IF u \notin DOMAIN Website THEN Failed(<<"scraped", u>>, "notfound")
                  ELSE Entry(<<"scraped", u>>, "ok", w.ver, Resolve(q.key.url, w.ref), w.id)
             att == Attempt(q, IF f.res = "ok" THEN "success" ELSE f.res)
             p == [q EXCEPT !.pc = "got", !.got = f, !.attempts = att]
  <1>1. ReqInv(q) /\ SharedInv /\ q.pc = "scrape" /\ q.pc \in Searching
    BY DEF Scrape, Inv, Searching
  <1>2. scraped' = With(scraped, u, f) /\ req' = [req EXCEPT ![r].pc = "got", ![r].got = f, ![r].attempts = att]
    BY DEF Scrape
  <1>3. GotInv(f, "min")
    <2>1. CASE hit
      BY <1>1, <2>1 DEF SharedInv
    <2>2. CASE ~hit /\ f \in {Failed(<<"scraped", u>>, "download"), Failed(<<"scraped", u>>, "notfound")}
      <3> HIDE DEF f, u
      <3> QED
        BY <2>2, FailedInv
    <2>3. CASE f = Entry(<<"scraped", u>>, "ok", w.ver, Resolve(q.key.url, w.ref), w.id)
      <3> HIDE DEF u, f, w
      <3>1. IsEntry(f) /\ f.uri = <<"scraped", u>> /\ f.ver = w.ver /\ f.origin = w.ver
        BY <2>3 DEF Entry, IsEntry
      <3>2. Named(KeyPart(f), f.origin)
        BY <3>1 DEF KeyPart, Named
      <3> QED
        BY <3>1, <3>2 DEF GotInv, EntryInv
    <2> QED
      BY <2>1, <2>2, <2>3
  <1> HIDE DEF f, u
  <1>4. GotInv(f, q.key.ty)
    BY <1>3 DEF GotInv
  <1> HIDE DEF att
  <1>5. req' = [req EXCEPT ![r] = p]
    BY <1>1, <1>2 DEF Inv, ReqInv, IsReq, ReqFields
  <1>6. IsReq(p) /\ SameSearch(q, p) /\ p.pc = "got" /\ p.got = f
    BY <1>1 DEF ReqInv, IsReq, ReqFields, SameSearch
  <1> HIDE DEF p
  <1>7. ReqInv(p)
    BY <1>1, <1>4, <1>6, SearchStep DEF Searching
  <1>8. \A x \in DOMAIN scraped' : GotInv(scraped'[x], "min")
    BY <1>1, <1>2, <1>3 DEF SharedInv, With
  <1>9. SharedInv'
    BY <1>1, <1>8 DEF SharedInv, Scrape
  <1> QED
    BY <1>5, <1>7, <1>9, OneRequest

-----------------------------------------------------------------------------
(* Modules *)

\* A file that does not fit into the budget is one that was not found.
LEMMA BudgetedInv ==
    ASSUME NEW q, NEW e, GotInv(e, "min")
    PROVE  MinInv(Budgeted(q, e))
  <1>1. CASE WithinBudget(q, e)
    BY <1>1 DEF Budgeted, GotInv, MinInv
  <1>2. CASE ~WithinBudget(q, e)
    <2>1. Budgeted(q, e) = [e EXCEPT !.res = "notfound", !.ver = None]
      BY <1>2 DEF Budgeted
    <2> QED
      BY <2>1 DEF GotInv, EntryInv, MinInv, IsEntry
  <1> QED
    BY <1>1, <1>2

\* A module is resolved with the cache sm.
LEMMA ModuleDoneStep ==
    ASSUME NEW p, NEW min, NEW sm, IsReq(p),
           DOMAIN p.bundles \subseteq DOMAIN Bundles, p.queue \subseteq DOMAIN Bundles,
           \A u \in DOMAIN p.modules : ModuleInv(p.modules[u]),
           sm.res = "ok" /\ "empty" \notin {min.origin, sm.min, sm.found} =>
                sm.min = min.ver /\ sm.map = sm.found
    PROVE  ReqInv(ModuleDone(p, min, sm))
  <1> DEFINE q == ModuleDone(p, min, sm)
             w == FrameUrl(p)
             base == IF min.res = "ok" /\ min.ref \notin {NoRef, DataRef} THEN min.ref ELSE w
             done == [p.modules[w] EXCEPT !.fetched = TRUE, !.min = min, !.sm = sm, !.base = base]
             modules == [p.modules EXCEPT ![w] = done]
  <1>1. q = [p EXCEPT !.pc = "frame", !.modules = modules]
    BY DEF ModuleDone, IsReq, ReqFields
  <1> HIDE DEF modules
  <1>2. /\ IsReq(q) /\ q.pc = "frame" /\ q.bundles = p.bundles /\ q.queue = p.queue /\ q.modules = modules
    BY <1>1 DEF IsReq, ReqFields
  <1>3. ASSUME NEW u \in DOMAIN modules PROVE ModuleInv(modules[u])
    <2>1. u \in DOMAIN p.modules /\ ModuleInv(p.modules[u])
      BY DEF modules
    <2>2. CASE u = w
      <3>1. modules[u] = done
        BY <2>1, <2>2 DEF modules
      <3> HIDE DEF base, w
      <3>2. IsModule(done) /\ done.min = min /\ done.sm = sm
        BY <2>1, <2>2 DEF ModuleInv, IsModule
      <3> HIDE DEF done
      <3> QED
        BY <3>1, <3>2 DEF ModuleInv, TakenForEmpty
    <2>3. CASE u # w
      BY <2>1, <2>3 DEF modules
    <2> QED
      BY <2>2, <2>3
  <1> QED
    BY <1>2, <1>3 DEF ReqInv, Searching

LEMMA GotMinifiedStep ==
    ASSUME NEW r \in Requests, Inv, GotMinified(r)
    PROVE  Inv'
  <1> DEFINE q == req[r]
             min == Budgeted(q, q.got)
             left == BudgetLeft(q, q.got)
             spent == [q EXCEPT !.budget = left]
             ref == IF min.res = "ok" THEN min.ref ELSE NoRef
             id == IF q.key.id # None THEN q.key.id ELSE min.id
             embedded == Entry(<<"embedded">>, "ok", min.ver, NoRef, id)
             inline == [spent EXCEPT !.pc = "smcache", !.min = min, !.got = embedded]
             further == [spent EXCEPT !.pc = "file", !.min = min, !.key = Key("map", ref, id)]
  <1>1. ReqInv(q) /\ SharedInv /\ q.pc = "got" /\ q.key.ty = "min"
    BY DEF GotMinified, Inv
  <1>2. MinInv(min)
    BY <1>1, BudgetedInv DEF ReqInv
  <1> HIDE DEF min, left
  <1>3. /\ IsReq(spent) /\ spent.bundles = q.bundles /\ spent.queue = q.queue /\ spent.modules = q.modules
    BY <1>1 DEF ReqInv, IsReq, ReqFields
  <1>4. SharedInv'
    BY <1>1 DEF SharedInv, GotMinified
  <1>5. CASE req' = [req EXCEPT ![r] = ModuleDone(spent, min, NoSourceMap)]
    <2>1. NoSourceMap.res # "ok"
      BY DEF NoSourceMap, None
    <2> HIDE DEF spent
    <2>2. ReqInv(ModuleDone(spent, min, NoSourceMap))
      BY <1>1, <1>3, <2>1, ModuleDoneStep DEF ReqInv
    <2> QED
      BY <1>4, <1>5, <2>2, OneRequest
  <1>6. CASE req' = [req EXCEPT ![r] = inline]
    <2>1. SourceInv(embedded, min)
      BY DEF SourceInv, Entry, IsEntry
    <2> HIDE DEF embedded, spent
    <2>2. /\ IsReq(inline) /\ inline.pc = "smcache" /\ inline.min = min /\ inline.got = embedded
          /\ inline.bundles = q.bundles /\ inline.queue = q.queue /\ inline.modules = q.modules
      BY <1>3 DEF IsReq, ReqFields
    <2> HIDE DEF inline
    <2>3. ReqInv(inline)
      BY <1>1, <1>2, <2>1, <2>2 DEF ReqInv, Searching
    <2> QED
      BY <1>4, <1>6, <2>3, OneRequest
  <1>7. CASE req' = [req EXCEPT ![r] = further]
    <2> DEFINE key == Key("map", ref, id)
    <2> HIDE DEF key, spent
    <2>1. /\ IsReq(further) /\ further.pc = "file" /\ further.min = min
          /\ further.bundles = q.bundles /\ further.queue = q.queue /\ further.modules = q.modules
      <3>1. further = [spent EXCEPT !.pc = "file", !.min = min, !.key = key]
        BY DEF key
      <3> HIDE DEF further
      <3> QED
        BY <1>3, <3>1 DEF IsReq, ReqFields
    <2> HIDE DEF further
    <2>2. ReqInv(further)
      BY <1>1, <1>2, <2>1 DEF ReqInv, Searching
    <2> QED
      BY <1>4, <1>7, <2>2, OneRequest
  <1> QED
    <2>1. GotMinified(r) =>
            req' = [req EXCEPT ![r] =
                IF min.res = "notfound" \/ (ref = NoRef /\ id = None) THEN ModuleDone(spent, min, NoSourceMap)
                ELSE IF ref = DataRef THEN inline ELSE further]
      BY DEF GotMinified, min, left
    <2> HIDE DEF spent, inline, further, ref, id
    <2> QED
      BY <1>5, <1>6, <1>7, <2>1

LEMMA GotSourceMapStep ==
    ASSUME NEW r \in Requests, Inv, GotSourceMap(r)
    PROVE  Inv'
  <1> DEFINE q == req[r]
             p == [q EXCEPT !.pc = "smcache"]
  <1>1. ReqInv(q) /\ SharedInv /\ q.pc = "got" /\ q.key.ty = "map"
    BY DEF GotSourceMap, Inv
  <1>2. req' = [req EXCEPT ![r] = p]
    BY DEF GotSourceMap
  <1>3. IsReq(p) /\ SameSearch(q, p) /\ p.pc = "smcache" /\ p.got = q.got
    BY <1>1 DEF ReqInv, IsReq, ReqFields, SameSearch
  <1> HIDE DEF p
  <1>4. MinInv(q.min) /\ SourceInv(q.got, q.min)
    BY <1>1 DEF ReqInv, Searching, SourceInv, GotInv
  <1>5. ReqInv(p)
    BY <1>1, <1>3, <1>4 DEF ReqInv, SameSearch, Searching
  <1>6. SharedInv'
    BY <1>1 DEF SharedInv, GotSourceMap
  <1> QED
    BY <1>2, <1>5, <1>6, OneRequest

\* A cache that may be stored under the parts a and b of a key
Fits(c, a, b) ==
    c.res = "ok" => /\ Named(a, c.min) /\ Named(b, c.map) /\ c.map \in DOMAIN Tokens
                    /\ b = <<"embedded">> => c.map = c.min

\* A part of a key that stands for a file says which, but for the empty file.
LEMMA NamedOnce ==
    ASSUME NEW e, NEW ver, EntryInv(e), e.res = "ok", Named(KeyPart(e), ver)
    PROVE  ver = e.origin \/ "empty" \in {ver, e.origin}
  <1>1. Named(KeyPart(e), e.origin) /\ e.uri[1] \in {"bundle", "artifact", "scraped"}
    BY DEF EntryInv
  <1>2. CASE e.uri[1] = "scraped"
    BY <1>1, <1>2 DEF KeyPart, Named
  <1>3. CASE e.uri[1] = "bundle"
    BY <1>1, <1>3 DEF KeyPart, Named
  <1>4. CASE e.uri[1] = "artifact"
    BY <1>1, <1>4 DEF KeyPart, Named
  <1> QED
    BY <1>1, <1>2, <1>3, <1>4

\* A cache that fits the files a request found was made from them.
LEMMA FittingCache ==
    ASSUME NEW min, NEW map, NEW c, MinInv(min), SourceInv(map, min), min.res = "ok", map.res = "ok",
           Fits(c, KeyPart(min), KeyPart(map)), c.res = "ok", "empty" \notin {min.origin, c.min, map.origin}
    PROVE  c.min = min.ver /\ c.map = map.origin
  <1>1. c.min = min.origin /\ min.ver = min.origin
    BY NamedOnce DEF Fits, MinInv
  <1>2. c.map # "empty"
    BY JsConstants DEF Fits
  <1>3. CASE EntryInv(map)
    BY <1>1, <1>2, <1>3, NamedOnce DEF Fits
  <1>4. CASE map.uri = <<"embedded">> /\ map.origin = min.ver
    <2>1. KeyPart(map) = <<"embedded">>
      BY <1>4 DEF KeyPart
    <2> QED
      BY <1>1, <1>4, <2>1 DEF Fits
  <1> QED
    BY <1>3, <1>4 DEF SourceInv

\* A cache made from the files of a request fits them, though the contents of the
\* source map are read once more.
LEMMA ConvertedFits ==
    ASSUME NEW q, NEW min, NEW map, MinInv(min), SourceInv(map, min), min.res = "ok", map.res = "ok"
    PROVE  LET c == Converted(min, SourceMapContents(q, map))
           IN  IsCache(c) /\ Fits(c, KeyPart(min), KeyPart(map))
  <1> DEFINE contents == SourceMapContents(q, map)
             c == Converted(min, contents)
  <1> SUFFICES IsCache(c) /\ Fits(c, KeyPart(min), KeyPart(map))
    OBVIOUS
  <1>1. CASE contents \notin DOMAIN Tokens
    <2>1. c = [NoSourceMap EXCEPT !.res = "malformed"]
      BY <1>1 DEF Converted
    <2> HIDE DEF c
    <2> QED
      BY <2>1 DEF NoSourceMap, None, IsCache, Fits
  <1>2. CASE contents \in DOMAIN Tokens
    <2>1. c = [res |-> "ok", min |-> min.ver, map |-> contents, found |-> None]
      BY <1>2 DEF Converted
    <2> HIDE DEF contents, c
    <2>2. IsCache(c) /\ c.min = min.ver /\ c.map = contents
      BY <2>1 DEF IsCache
    <2> USE DEF contents
    <2>3. Named(KeyPart(min), c.min)
      BY <2>2 DEF MinInv, EntryInv
    <2>4. contents # "empty"
      BY <1>2, JsConstants
    <2>5. CASE EntryInv(map)
      <3>1. map.uri[1] \in {"bundle", "artifact", "scraped"} /\ Named(KeyPart(map), map.origin)
        BY <2>5 DEF EntryInv
      <3>2. Named(KeyPart(map), contents)
        <4>1. CASE map.ver # None
          BY <2>5, <3>1, <4>1 DEF SourceMapContents, EntryInv
        <4>2. CASE map.ver = None
          <5>1. map.uri[1] = "bundle" /\ contents = Descriptor(map.uri[2], map.uri[3])
            BY <2>4, <4>2 DEF SourceMapContents
          <5>2. KeyPart(map) = map.uri
            BY <5>1 DEF KeyPart
          <5> QED
            BY <5>1, <5>2 DEF Named
        <4> QED
          BY <4>1, <4>2
      <3>3. KeyPart(map) # <<"embedded">>
        BY <3>1 DEF KeyPart
      <3> QED
        BY <1>2, <2>2, <2>3, <3>2, <3>3 DEF Fits
    <2>6. CASE map.uri = <<"embedded">> /\ map.ver = min.ver
      <3>1. KeyPart(map) = <<"embedded">>
        BY <2>6 DEF KeyPart
      <3>2. contents = min.ver
        BY <2>4, <2>6 DEF SourceMapContents
      <3>3. Named(<<"embedded">>, contents)
        BY DEF Named
      <3> QED
        BY <1>2, <2>2, <2>3, <3>1, <3>2, <3>3 DEF Fits
    <2> QED
      BY <2>5, <2>6 DEF SourceInv
  <1> QED
    BY <1>1, <1>2


LEMMA FetchSourceMapCacheStep ==
    ASSUME NEW r \in Requests, Inv, FetchSourceMapCache(r)
    PROVE  Inv'
  <1> DEFINE q == req[r]
             min == q.min
             a == KeyPart(min)
             b == KeyPart(q.got)
             k == SmcacheKey(min, q.got)
             c == IF k \in DOMAIN smcaches THEN smcaches[k] ELSE Converted(min, SourceMapContents(q, q.got))
             failed == IF min.res # "ok" THEN min.res ELSE q.got.res
             sm == [c EXCEPT !.found = q.got.origin]
             none == [NoSourceMap EXCEPT !.res = failed]
  <1>1. ReqInv(q) /\ SharedInv /\ MinInv(min) /\ SourceInv(q.got, min)
    BY DEF FetchSourceMapCache, Inv, ReqInv
  <1>2. /\ IsReq(q) /\ DOMAIN q.bundles \subseteq DOMAIN Bundles /\ q.queue \subseteq DOMAIN Bundles
        /\ \A u \in DOMAIN q.modules : ModuleInv(q.modules[u])
    BY <1>1 DEF ReqInv
  <1>3. k = <<a, b>>
    BY DEF SmcacheKey
  <1>4. CASE /\ failed = "ok" /\ smcaches' = With(smcaches, k, c)
             /\ req' = [req EXCEPT ![r] = ModuleDone(q, min, sm)]
    <2>1. min.res = "ok" /\ q.got.res = "ok"
      BY <1>4
    <2>2. IsCache(c) /\ Fits(c, a, b)
      <3>1. CASE k \in DOMAIN smcaches
        <4>1. c = smcaches[<<a, b>>] /\ <<a, b>> \in DOMAIN smcaches
          BY <1>3, <3>1
        <4> HIDE DEF a, b, c
        <4> QED
          BY <1>1, <4>1 DEF SharedInv, Fits
      <3>2. CASE k \notin DOMAIN smcaches
        <4>1. c = Converted(min, SourceMapContents(q, q.got))
          BY <3>2
        <4> QED
          BY <1>1, <2>1, <4>1, ConvertedFits
      <3> QED
        BY <3>1, <3>2
    <2> HIDE DEF c
    <2>3. sm.res = c.res /\ sm.min = c.min /\ sm.map = c.map /\ sm.found = q.got.origin
      BY <2>2 DEF IsCache
    <2> HIDE DEF sm
    <2>4. sm.res = "ok" /\ "empty" \notin {min.origin, sm.min, sm.found} => sm.min = min.ver /\ sm.map = sm.found
      <3> SUFFICES ASSUME sm.res = "ok", "empty" \notin {min.origin, sm.min, sm.found}
                   PROVE  sm.min = min.ver /\ sm.map = sm.found
        OBVIOUS
      <3>1. c.res = "ok" /\ "empty" \notin {min.origin, c.min, q.got.origin}
        BY <2>3
      <3>2. c.min = min.ver /\ c.map = q.got.origin
        BY <1>1, <2>1, <2>2, <3>1, FittingCache
      <3> QED
        BY <2>3, <3>2
    <2>5. ReqInv(ModuleDone(q, min, sm))
      BY <1>2, <2>4, ModuleDoneStep
    <2>6. SharedInv'
      <3> HIDE DEF a, b, k
      <3>1. /\ DOMAIN smcaches' = DOMAIN smcaches \cup {<<a, b>>}
            /\ \A x \in DOMAIN smcaches' : smcaches'[x] = IF x = <<a, b>> THEN c ELSE smcaches[x]
        BY <1>3, <1>4 DEF With
      <3>2. ASSUME NEW m, NEW n, <<m, n>> \in DOMAIN smcaches' PROVE Fits(smcaches'[<<m, n>>], m, n)
        <4>1. CASE m = a /\ n = b
          BY <2>2, <3>1, <3>2, <4>1
        <4>2. CASE <<m, n>> # <<a, b>>
          BY <1>1, <3>1, <3>2, <4>2 DEF SharedInv, Fits
        <4> QED
          BY <4>1, <4>2
      <3>3. \A x \in DOMAIN smcaches' : IsCache(smcaches'[x])
        BY <1>1, <2>2, <3>1 DEF SharedInv
      <3>4. UNCHANGED <<uploaded, api, filesInBundles, scraped>>
        BY DEF FetchSourceMapCache
      <3> QED
        BY <1>1, <3>2, <3>3, <3>4 DEF SharedInv, Fits
    <2> QED
      BY <1>4, <2>5, <2>6, OneRequest
  <1>5. CASE /\ failed # "ok" /\ UNCHANGED smcaches
             /\ req' = [req EXCEPT ![r] = ModuleDone(q, min, none)]
    <2>1. none.res # "ok"
      <3> HIDE DEF failed
      <3> QED
        BY <1>5 DEF NoSourceMap
    <2> HIDE DEF none
    <2>2. ReqInv(ModuleDone(q, min, none))
      BY <1>2, <2>1, ModuleDoneStep
    <2>3. SharedInv'
      BY <1>1, <1>5 DEF SharedInv, FetchSourceMapCache
    <2> QED
      BY <1>5, <2>2, <2>3, OneRequest
  <1> QED
    BY <1>4, <1>5 DEF FetchSourceMapCache

-----------------------------------------------------------------------------
(* Frames *)

\* A step of a request that is, or will be, between two searches, or that begins one
\* for another file than a source map.
LEMMA FrameStep ==
    ASSUME NEW p, NEW q, ReqInv(p), IsReq(q),
           q.bundles = p.bundles, q.queue = p.queue, q.modules = p.modules,
           q.pc \in {"frame", "done"} \/ (q.pc = "file" /\ q.key.ty # "map")
    PROVE  ReqInv(q)
  BY DEF ReqInv, Searching

LEMMA GotSourceStep ==
    ASSUME NEW r \in Requests, Inv, GotSource(r)
    PROVE  Inv'
  <1> DEFINE q == req[r]
             files == With(q.files, q.key, Budgeted(q, q.got))
             left == BudgetLeft(q, q.got)
             p == [q EXCEPT !.pc = "frame", !.files = files, !.budget = left]
  <1>1. ReqInv(q) /\ SharedInv
    BY DEF Inv
  <1> HIDE DEF left
  <1>2. req' = [req EXCEPT ![r] = p]
    BY <1>1 DEF GotSource, Inv, ReqInv, IsReq, ReqFields, left
  <1> HIDE DEF files
  <1>3. IsReq(p) /\ p.pc = "frame" /\ p.bundles = q.bundles /\ p.queue = q.queue /\ p.modules = q.modules
    BY <1>1 DEF ReqInv, IsReq, ReqFields
  <1> HIDE DEF p
  <1>4. ReqInv(p)
    BY <1>1, <1>3, FrameStep
  <1>5. SharedInv'
    BY <1>1 DEF SharedInv, GotSource
  <1> QED
    BY <1>2, <1>4, <1>5, OneRequest

\* The search for another file begins.
LEMMA StartStep ==
    ASSUME NEW r \in Requests, NEW ty, NEW url, NEW id, Inv, ty # "map",
           req' = [req EXCEPT ![r].pc = "file", ![r].key = Key(ty, url, id)], SharedInv'
    PROVE  Inv'
  <1> DEFINE q == req[r]
             key == Key(ty, url, id)
             p == [q EXCEPT !.pc = "file", !.key = key]
  <1>1. ReqInv(q)
    BY DEF Inv
  <1>2. key.ty # "map"
    BY DEF Key
  <1> HIDE DEF key
  <1>3. req' = [req EXCEPT ![r] = p]
    BY <1>1 DEF Inv, ReqInv, IsReq, ReqFields, key
  <1>4. /\ IsReq(p) /\ p.pc = "file" /\ p.key = key
        /\ p.bundles = q.bundles /\ p.queue = q.queue /\ p.modules = q.modules
    BY <1>1 DEF ReqInv, IsReq, ReqFields
  <1> HIDE DEF p
  <1>5. ReqInv(p)
    BY <1>1, <1>2, <1>4, FrameStep
  <1> QED
    BY <1>3, <1>5, OneRequest

LEMMA SymbolicateStep ==
    ASSUME NEW r \in Requests, Inv, SymbolicateFrame(r)
    PROVE  Inv'
  <1> DEFINE q == req[r]
  <1>1. ReqInv(q) /\ SharedInv /\ q.pc = "frame"
    BY DEF Inv, SymbolicateFrame
  <1>2. PICK pos, out, site, errors :
            req' = [req EXCEPT ![r] = [q EXCEPT !.pos = pos, !.out = out, !.callsite = site, !.errors = errors]]
    BY DEF SymbolicateFrame
  <1> DEFINE p == [q EXCEPT !.pos = pos, !.out = out, !.callsite = site, !.errors = errors]
  <1>3. IsReq(p) /\ p.pc = "frame" /\ p.bundles = q.bundles /\ p.queue = q.queue /\ p.modules = q.modules
    BY <1>1 DEF ReqInv, IsReq, ReqFields
  <1>4. req' = [req EXCEPT ![r] = p]
    BY <1>2
  <1> HIDE DEF p
  <1>5. ReqInv(p)
    BY <1>1, <1>3, FrameStep
  <1>6. SharedInv'
    BY <1>1 DEF SharedInv, SymbolicateFrame
  <1> QED
    BY <1>4, <1>5, <1>6, OneRequest

LEMMA RespondStep ==
    ASSUME NEW r \in Requests, Inv, Respond(r)
    PROVE  Inv'
  <1> DEFINE q == req[r]
             out == IF q.job.order = "callee_first" THEN Reverse(q.out) ELSE q.out
             p == [q EXCEPT !.pc = "done", !.out = out]
  <1>1. ReqInv(q) /\ SharedInv
    BY DEF Inv
  <1>2. req' = [req EXCEPT ![r] = p]
    BY <1>1 DEF Respond, Inv, ReqInv, IsReq, ReqFields
  <1> HIDE DEF out
  <1>3. IsReq(p) /\ p.pc = "done" /\ p.bundles = q.bundles /\ p.queue = q.queue /\ p.modules = q.modules
    BY <1>1 DEF ReqInv, IsReq, ReqFields
  <1> HIDE DEF p
  <1>4. ReqInv(p)
    BY <1>1, <1>3, FrameStep
  <1>5. SharedInv'
    BY <1>1 DEF SharedInv, Respond
  <1> QED
    BY <1>2, <1>4, <1>5, OneRequest

\* A cache that is lost, or a bundle that is uploaded, disturbs nothing.
LEMMA FaultStep ==
    ASSUME Inv, Fault
    PROVE  Inv'
  <1>1. UNCHANGED <<filesInBundles, req>>
    BY DEF Fault
  <1>2. uploaded' \subseteq DOMAIN Bundles
    BY DEF Fault, Inv, SharedInv
  <1>3. \A x \in DOMAIN api' : api'[x].bundles \subseteq DOMAIN Bundles
    BY DEF Fault, Inv, SharedInv
  <1>4. \A u \in DOMAIN scraped' : GotInv(scraped'[u], "min")
    BY DEF Fault, Inv, SharedInv
  <1>5. \A x \in DOMAIN smcaches' : x \in DOMAIN smcaches /\ smcaches'[x] = smcaches[x]
    BY DEF Fault
  <1>6. SharedInv'
    BY <1>1, <1>2, <1>3, <1>4, <1>5 DEF Inv, SharedInv
  <1> QED
    BY <1>1, <1>6 DEF Inv

-----------------------------------------------------------------------------
(* The theorem *)

LEMMA InitInv ==
    ASSUME JsInit
    PROVE  Inv
  <1>1. SharedInv
    BY DEF JsInit, SharedInv
  <1>2. ASSUME NEW r \in Requests PROVE ReqInv(req[r])
    <2> DEFINE q == req[r]
    <2>1. /\ IsReq(q) /\ q.pc = "frame" /\ q.bundles = <<>> /\ q.queue = {}
          /\ \A u \in DOMAIN q.modules : \E id : q.modules[u] = Module(id)
      <3> DEFINE modules(job) == [u \in {job.frames[i].url : i \in DOMAIN job.frames} |->
                                     Module(IF u \in DOMAIN job.ids THEN job.ids[u] ELSE None)]
      <3>1. PICK jobs \in Jobs : req = [x \in Requests |->
               [job |-> jobs[x], pc |-> "frame", pos |-> 1, frames |-> InCallerFirst(jobs[x]), out |-> <<>>,
                 errors |-> {}, callsite |-> NoName, modules |-> modules(jobs[x]),
                 files |-> <<>>, bundles |-> <<>>, artifacts |-> {}, queue |-> {}, fresh |-> FALSE,
                 key |-> Key("min", NoUrl, None), got |-> Invalid, min |-> Invalid,
                 budget |-> Budget, attempts |-> <<>>]]
        BY DEF JsInit
      <3> DEFINE job == jobs[r]
      <3> HIDE DEF modules
      <3>4. q = [job |-> job, pc |-> "frame", pos |-> 1, frames |-> InCallerFirst(job), out |-> <<>>,
                  errors |-> {}, callsite |-> NoName, modules |-> modules(job),
                  files |-> <<>>, bundles |-> <<>>, artifacts |-> {}, queue |-> {}, fresh |-> FALSE,
                  key |-> Key("min", NoUrl, None), got |-> Invalid, min |-> Invalid,
                  budget |-> Budget, attempts |-> <<>>]
        BY <3>1
      <3> USE DEF modules
      <3> HIDE DEF q
      <3>2. IsReq(q) /\ q.pc = "frame" /\ q.bundles = <<>> /\ q.queue = {}
        BY <3>4 DEF IsReq, ReqFields
      <3>3. q.modules = [u \in {job.frames[i].url : i \in DOMAIN job.frames} |->
                            Module(IF u \in DOMAIN job.ids THEN job.ids[u] ELSE None)]
        BY <3>4
      <3> QED
        BY <3>2, <3>3
    <2>2. \A id : ModuleInv(Module(id))
      BY DEF ModuleInv, Module, IsModule, NoSourceMap, None
    <2> QED
      BY <2>1, <2>2 DEF ReqInv, Searching
  <1>3. req = [r \in Requests |-> req[r]]
    BY DEF JsInit
  <1> QED
    BY <1>1, <1>2, <1>3 DEF Inv

LEMMA NextInv ==
    ASSUME Inv, [JsNext]_vars
    PROVE  Inv'
  <1>1. CASE UNCHANGED vars
    BY <1>1 DEF vars, Inv, SharedInv
  <1>2. CASE Fault
    BY <1>2, FaultStep
  <1>3. CASE Finished
    BY <1>1, <1>3 DEF Finished
  <1>4. ASSUME NEW r \in Requests, JsStep(r)
        PROVE  Inv'
    <2>1. SharedInv
      BY DEF Inv
    <2>2. CASE StartModule(r)
      <3>1. SharedInv'
        BY <2>1, <2>2 DEF StartModule, SharedInv
      <3>2. \E url, id : req' = [req EXCEPT ![r].pc = "file", ![r].key = Key("min", url, id)]
        BY <2>2 DEF StartModule
      <3> QED
        BY <3>1, <3>2, StartStep
    <2>3. CASE StartSource(r)
      <3>1. SharedInv'
        BY <2>1, <2>3 DEF StartSource, SharedInv
      <3>2. \E url, id : req' = [req EXCEPT ![r].pc = "file", ![r].key = Key("src", url, id)]
        BY <2>3 DEF StartSource, SourceKey
      <3> QED
        BY <3>1, <3>2, StartStep
    <2>4. CASE GetFile(r) \/ QueryDone(r) \/ Retry(r) \/ ScrapeRefused(r)
      BY <2>4, GetFileStep, QueryDoneStep, RetryStep, ScrapeRefusedStep
    <2>5. CASE GotMinified(r) \/ GotSourceMap(r) \/ FetchSourceMapCache(r) \/ GotSource(r)
      BY <2>5, GotMinifiedStep, GotSourceMapStep, FetchSourceMapCacheStep, GotSourceStep
    <2>6. CASE SymbolicateFrame(r) \/ Respond(r)
      BY <2>6, SymbolicateStep, RespondStep
    <2>7. CASE \E fail \in BOOLEAN : QuerySentry(r, fail) \/ Scrape(r, fail)
      BY <2>7, QueryStep, ScrapeStep
    <2>8. CASE \E b \in req[r].queue, fail \in BOOLEAN : EnsureBundle(r, b, fail)
      BY <2>8, EnsureStep
    <2>9. CASE \E res \in {"ok", "download", "notfound"} : FetchArtifact(r, res)
      BY <2>9, ArtifactStep
    <2> QED
      BY <1>4, <2>2, <2>3, <2>4, <2>5, <2>6, <2>7, <2>8, <2>9 DEF JsStep
  <1> QED
    BY <1>1, <1>2, <1>3, <1>4 DEF JsNext

\* fetch_sourcemap_cache: whichever requests share the caches, and whatever is lost or
\* changes meanwhile, a module is resolved with the minified file and the source map
\* that were found for it, unless one of them is a missing artifact.
THEOREM SourceMapsFit == JsSpec => []SourceMapFaithful
  <1>1. JsInit => Inv
    BY InitInv
  <1>2. Inv /\ [JsNext]_vars => Inv'
    BY NextInv
  <1>3. Inv => SourceMapFaithful
    BY DEF Inv, ReqInv, ModuleInv, SourceMapFaithful
  <1> QED
    BY <1>1, <1>2, <1>3, PTL DEF JsSpec

-----------------------------------------------------------------------------
(* The budget *)

\* What an entry contributes to what a request retains
Sized(e) == SizeOf(e) \in Nat /\ (e.res # "ok" => SizeOf(e) = 0)

MinSizes(q)  == [u \in DOMAIN q.modules |-> SizeOf(q.modules[u].min)]
FileSizes(q) == [k \in DOMAIN q.files |-> SizeOf(q.files[k])]

\* A minified file that was paid for and is not yet with its module
WaitsForMap(q) == q.pc = "smcache" \/ (q.pc \in Searching /\ q.key.ty = "map")
Pending(q) == IF WaitsForMap(q) THEN SizeOf(q.min) ELSE 0

Stock(q) ==
    /\ IsSeq(q.frames) /\ q.pos \in Nat \ {0}
    /\ \A i \in DOMAIN q.frames : q.frames[i].url \in DOMAIN q.modules
    /\ IsFiniteSet(DOMAIN q.modules) /\ IsFiniteSet(DOMAIN q.files)
    /\ \A u \in DOMAIN q.modules :
          SizeOf(q.modules[u].min) \in Nat /\ (~q.modules[u].fetched => SizeOf(q.modules[u].min) = 0)
    /\ \A k \in DOMAIN q.files : SizeOf(q.files[k]) \in Nat

\* What is searched for is not there yet.
Missing(q) ==
    /\ q.pc = "smcache" \/ (q.pc \in Searching /\ q.key.ty # "src") =>
          FrameUrl(q) \in DOMAIN q.modules /\ ~q.modules[FrameUrl(q)].fetched
    /\ q.pc \in Searching /\ q.key.ty = "src" => q.key \notin DOMAIN q.files

Balanced(q, pending) ==
    /\ q.budget \in Nat /\ pending \in Nat
    /\ q.budget + SumFunction(MinSizes(q)) + SumFunction(FileSizes(q)) + pending = Budget

BudgetReq(q) ==
    /\ Stock(q) /\ Missing(q) /\ Balanced(q, Pending(q))
    /\ q.artifacts \subseteq DOMAIN Artifacts
    /\ q.pc = "artifact" => ArtifactFor(q, q.key) \in DOMAIN Artifacts
    /\ q.pc = "got" => Sized(q.got)

BudgetShared ==
    /\ web \in {1, 2}
    /\ \A x \in DOMAIN api : api[x].artifacts \subseteq DOMAIN Artifacts
    /\ \A k \in DOMAIN filesInBundles : Sized(filesInBundles[k])
    /\ \A u \in DOMAIN scraped : Sized(scraped[u])

BudgetInv == Inv /\ BudgetShared /\ \A r \in Requests : BudgetReq(req[r])

LEMMA BudgetOneRequest ==
    ASSUME NEW r \in Requests, NEW q, BudgetInv, Inv', req' = [req EXCEPT ![r] = q],
           BudgetReq(q), BudgetShared'
    PROVE  BudgetInv'
  <1>1. \A x \in Requests : req'[x] = IF x = r THEN q ELSE req[x]
    BY DEF BudgetInv, Inv
  <1> QED
    BY <1>1 DEF BudgetInv

\* A function on 1 .. n is a sequence of n elements.
LEMMA ReverseLength ==
    ASSUME NEW n \in Nat, NEW g
    PROVE  Len([i \in 1 .. n |-> g[(n - i) + 1]]) = n
  OBVIOUS

\* What a search leaves as it is
SameAccount(p, q) ==
    /\ q.key = p.key /\ q.min = p.min /\ q.modules = p.modules /\ q.files = p.files
    /\ q.frames = p.frames /\ q.pos = p.pos /\ q.budget = p.budget

LEMMA BudgetSearch ==
    ASSUME NEW p, NEW q, BudgetReq(p), SameAccount(p, q), p.pc \in Searching, q.pc \in Searching,
           q.artifacts \subseteq DOMAIN Artifacts,
           q.pc = "artifact" => ArtifactFor(q, q.key) \in DOMAIN Artifacts,
           q.pc = "got" => Sized(q.got)
    PROVE  BudgetReq(q)
  <1>1. p.pc # "smcache" /\ q.pc # "smcache"
    BY DEF Searching
  <1>2. Stock(q)
    BY DEF SameAccount, BudgetReq, Stock
  <1>3. Missing(q)
    BY <1>1 DEF SameAccount, BudgetReq, Missing, FrameUrl
  <1>4. Pending(q) = Pending(p) /\ MinSizes(q) = MinSizes(p) /\ FileSizes(q) = FileSizes(p)
    BY <1>1 DEF SameAccount, Pending, WaitsForMap, MinSizes, FileSizes
  <1>5. Balanced(q, Pending(q))
    BY <1>4 DEF SameAccount, BudgetReq, Balanced
  <1> QED
    BY <1>2, <1>3, <1>5 DEF BudgetReq

LEMMA BudgetFound ==
    ASSUME NEW q, NEW e, BudgetReq(q), IsReq(q), q.pc \in Searching, Sized(e)
    PROVE  BudgetReq(Found(q, e))
  <1> DEFINE p == Found(q, e)
  <1>1. SameAccount(q, p) /\ p.pc = "got" /\ p.got = e /\ p.artifacts = q.artifacts
    BY DEF Found, IsReq, ReqFields, SameAccount
  <1>2. q.artifacts \subseteq DOMAIN Artifacts
    BY DEF BudgetReq
  <1> HIDE DEF p
  <1>3. BudgetReq(p)
    BY <1>1, <1>2, BudgetSearch DEF Searching
  <1> QED
    BY <1>3 DEF p

\* An artifact that is taken is one of those the request was told of.
LEMMA ArtifactKnown ==
    ASSUME NEW q, NEW key, q.artifacts \subseteq DOMAIN Artifacts, ArtifactFor(q, key) # NoUrl
    PROVE  ArtifactFor(q, key) \in DOMAIN Artifacts
  <1> DEFINE urls == get_release_file_candidate_urls(key.url)
             hits == {i \in DOMAIN urls : urls[i] \in q.artifacts}
  <1>1. hits # {} /\ ArtifactFor(q, key) = urls[Min(hits)]
    BY DEF ArtifactFor
  <1>2. hits \in SUBSET Nat
    BY Candidates
  <1>3. Min(hits) \in hits
    BY <1>1, <1>2, FirstIndex
  <1> QED
    BY <1>1, <1>3

\* The files of bundles have a length.
LEMMA DescriptorSized ==
    ASSUME NEW b \in DOMAIN Bundles, NEW key, NEW f \in Bundles[b]
    PROVE  Sized(from_descriptor(b, key, f)) /\ IsEntry(from_descriptor(b, key, f))
  <1>1. Size[f.ver] \in Nat
    BY JsSizes
  <1> QED
    BY <1>1 DEF from_descriptor, Failed, Entry, Sized, SizeOf, IsEntry

LEMMA LocalSized ==
    ASSUME NEW q, NEW key, DOMAIN q.bundles \subseteq DOMAIN Bundles
    PROVE  /\ ById(q, key) # <<>> => Sized(ById(q, key)[2]) /\ IsEntry(ById(q, key)[2])
           /\ ByPath(q, key) # <<>> => Sized(ByPath(q, key)[2]) /\ IsEntry(ByPath(q, key)[2])
  <1>1. ASSUME ById(q, key) # <<>> PROVE Sized(ById(q, key)[2]) /\ IsEntry(ById(q, key)[2])
    <2> DEFINE having == {b \in Opened(q) : key.id # None /\ source_by_debug_id(b, key.id, key.ty) # {}}
               b == Max(having)
               f == One(source_by_debug_id(b, key.id, key.ty))
    <2>1. having # {} /\ ById(q, key) = <<b, from_descriptor(b, key, f)>>
      BY <1>1 DEF ById
    <2>2. b \in having /\ b \in DOMAIN Bundles
      BY <2>1, LastBundle DEF Opened
    <2> HIDE DEF b
    <2>3. f \in Bundles[b]
      BY <2>2 DEF One, source_by_debug_id
    <2> HIDE DEF f
    <2> QED
      BY <2>1, <2>2, <2>3, DescriptorSized
  <1>2. ASSUME ByPath(q, key) # <<>> PROVE Sized(ByPath(q, key)[2]) /\ IsEntry(ByPath(q, key)[2])
    <2> DEFINE urls == get_release_file_candidate_urls(key.url)
               having(u) == {b \in Opened(q) : source_by_url(b, u) # {}}
               hits == {i \in DOMAIN urls : having(urls[i]) # {}}
               url == urls[Min(hits)]
               b == Max(having(url))
               f == One(source_by_url(b, url))
    <2>1. hits # {} /\ ByPath(q, key) = <<b, from_descriptor(b, key, f)>>
      BY <1>2 DEF ByPath
    <2>2. hits \in SUBSET Nat
      BY Candidates
    <2>3. Min(hits) \in hits
      BY <2>1, <2>2, FirstIndex
    <2>4. having(url) # {} /\ having(url) \subseteq DOMAIN Bundles
      BY <2>3 DEF Opened
    <2>5. b \in having(url)
      <3> HIDE DEF having, url
      <3> QED
        BY <2>4, LastBundle
    <2>6. b \in DOMAIN Bundles /\ source_by_url(b, url) # {}
      BY <2>4, <2>5
    <2> HIDE DEF b, url
    <2>7. f \in Bundles[b]
      BY <2>6 DEF One, source_by_url
    <2> HIDE DEF f
    <2> QED
      BY <2>1, <2>6, <2>7, DescriptorSized
  <1> QED
    BY <1>1, <1>2

LEMMA InsertedSized ==
    ASSUME NEW found, NEW key, BudgetShared, IsEntry(found[2]), Sized(found[2]),
           filesInBundles' = Inserted(found, key), UNCHANGED <<web, api, scraped>>
    PROVE  BudgetShared'
  <1> DEFINE e == IF key.ty = "map" THEN [found[2] EXCEPT !.ver = None] ELSE found[2]
  <1>1. Sized(e)
    <2>1. CASE key.ty = "map"
      <3>1. e = [found[2] EXCEPT !.ver = None]
        BY <2>1
      <3>2. e.ver = None
        BY <3>1 DEF IsEntry
      <3> QED
        BY <3>2 DEF Sized, SizeOf
    <2>2. CASE key.ty # "map"
      BY <2>2
    <2> QED
      BY <2>1, <2>2
  <1>2. \A x \in DOMAIN filesInBundles' :
            filesInBundles'[x] = e \/ (x \in DOMAIN filesInBundles /\ filesInBundles'[x] = filesInBundles[x])
    BY DEF Inserted, With
  <1> HIDE DEF e
  <1> QED
    BY <1>1, <1>2 DEF BudgetShared

LEMMA BudgetGetFile ==
    ASSUME NEW r \in Requests, BudgetInv, Inv', GetFile(r)
    PROVE  BudgetInv'
  <1> DEFINE q == req[r]
             cached == InCache(q, q.key)
             local == IF q.key.id # None THEN ById(q, q.key) ELSE ByPath(q, q.key)
             next == IF q.key.id = None /\ ArtifactFor(q, q.key) # NoUrl THEN "artifact" ELSE "query"
  <1>1. BudgetReq(q) /\ BudgetShared /\ IsReq(q) /\ q.pc = "file" /\ q.pc \in Searching
    BY DEF GetFile, BudgetInv, Inv, ReqInv, Searching
  <1>2. DOMAIN q.bundles \subseteq DOMAIN Bundles /\ q.artifacts \subseteq DOMAIN Artifacts
    BY DEF BudgetInv, BudgetReq, Inv, ReqInv
  <1>3. CASE cached # <<>> /\ req' = [req EXCEPT ![r] = Found(q, cached[2])] /\ UNCHANGED filesInBundles
    <2>1. Sized(cached[2])
      <3> DEFINE having == {b \in DOMAIN q.bundles : <<b, q.key>> \in DOMAIN filesInBundles}
                 b == Max(having)
      <3>1. having # {} /\ cached = <<b, filesInBundles[<<b, q.key>>]>>
        BY <1>3 DEF InCache
      <3>2. b \in having
        BY <1>2, <3>1, LastBundle
      <3> HIDE DEF b
      <3> QED
        BY <1>1, <3>1, <3>2 DEF BudgetShared
    <2>2. BudgetReq(Found(q, cached[2]))
      BY <1>1, <2>1, BudgetFound
    <2>3. BudgetShared'
      BY <1>1, <1>3 DEF BudgetShared, GetFile
    <2> QED
      BY <1>3, <2>2, <2>3, BudgetOneRequest
  <1>4. CASE /\ local # <<>> /\ req' = [req EXCEPT ![r] = Found(q, local[2])]
             /\ filesInBundles' = Inserted(local, q.key)
    <2>1. Sized(local[2]) /\ IsEntry(local[2])
      BY <1>2, <1>4, LocalSized
    <2>2. BudgetReq(Found(q, local[2]))
      BY <1>1, <2>1, BudgetFound
    <2>3. BudgetShared'
      BY <1>1, <1>4, <2>1, InsertedSized DEF GetFile
    <2> QED
      BY <1>4, <2>2, <2>3, BudgetOneRequest
  <1>5. CASE req' = [req EXCEPT ![r].pc = next] /\ UNCHANGED filesInBundles
    <2> DEFINE p == [q EXCEPT !.pc = next]
    <2>1. req' = [req EXCEPT ![r] = p]
      BY <1>5
    <2>2. SameAccount(q, p) /\ p.pc = next /\ p.artifacts = q.artifacts
      BY <1>1 DEF IsReq, ReqFields, SameAccount
    <2>3. /\ next \in {"artifact", "query"}
          /\ next = "artifact" => ArtifactFor(q, q.key) \in DOMAIN Artifacts
      BY <1>2, ArtifactKnown
    <2> HIDE DEF p, next
    <2>4. ArtifactFor(p, p.key) = ArtifactFor(q, q.key)
      BY <2>2 DEF SameAccount, ArtifactFor
    <2>5. BudgetReq(p)
      BY <1>1, <1>2, <2>2, <2>3, <2>4, BudgetSearch DEF Searching
    <2>6. BudgetShared'
      BY <1>1, <1>5 DEF BudgetShared, GetFile
    <2> QED
      BY <2>1, <2>5, <2>6, BudgetOneRequest
  <1> QED
    BY <1>3, <1>4, <1>5 DEF GetFile

LEMMA BudgetQuery ==
    ASSUME NEW r \in Requests, NEW fail, BudgetInv, Inv', QuerySentry(r, fail)
    PROVE  BudgetInv'
  <1> DEFINE q == req[r]
             query == QueryOf(q)
             known == query \in DOMAIN api
             a == IF known THEN api[query] ELSE Answer(query)
             fresh == a.artifacts \ q.artifacts # {}
             all == q.artifacts \cup a.artifacts
             idle == [q EXCEPT !.pc = "retry", !.fresh = FALSE]
             told == [q EXCEPT !.pc = "bundles", !.fresh = fresh, !.artifacts = all, !.queue = a.bundles]
  <1>1. BudgetReq(q) /\ BudgetShared /\ IsReq(q) /\ q.pc = "query" /\ q.pc \in Searching
    BY DEF QuerySentry, BudgetInv, Inv, ReqInv, Searching
  <1>2. q.artifacts \subseteq DOMAIN Artifacts
    BY <1>1 DEF BudgetReq
  <1>3. a.artifacts \subseteq DOMAIN Artifacts
    BY <1>1 DEF BudgetShared, Answer
  <1>4. CASE req' = [req EXCEPT ![r].pc = "retry", ![r].fresh = FALSE] /\ UNCHANGED api
    <2>1. req' = [req EXCEPT ![r] = idle]
      BY <1>4 DEF BudgetInv, Inv
    <2>2. SameAccount(q, idle) /\ idle.pc = "retry" /\ idle.artifacts = q.artifacts
      BY <1>1 DEF IsReq, ReqFields, SameAccount
    <2> HIDE DEF idle
    <2>3. BudgetReq(idle)
      BY <1>1, <1>2, <2>2, BudgetSearch DEF Searching
    <2>4. BudgetShared'
      BY <1>1, <1>4 DEF BudgetShared, QuerySentry
    <2> QED
      BY <2>1, <2>3, <2>4, BudgetOneRequest
  <1>5. CASE req' = [req EXCEPT ![r] = told] /\ api' \in {api, With(api, query, a)}
    <2>1. told.pc = "bundles" /\ told.artifacts = all /\ SameAccount(q, told)
      BY <1>1 DEF IsReq, ReqFields, SameAccount
    <2>2. all \subseteq DOMAIN Artifacts
      BY <1>2, <1>3
    <2> HIDE DEF told, all
    <2>3. BudgetReq(told)
      BY <1>1, <2>1, <2>2, BudgetSearch DEF Searching
    <2>4. \A x \in DOMAIN api' : api'[x].artifacts \subseteq DOMAIN Artifacts
      <3> HIDE DEF a
      <3> QED
        BY <1>1, <1>3, <1>5 DEF BudgetShared, With
    <2>5. BudgetShared'
      BY <1>1, <2>4 DEF BudgetShared, QuerySentry
    <2> QED
      BY <1>5, <2>3, <2>5, BudgetOneRequest
  <1> QED
    <2>1. QuerySentry(r, fail) =>
            \/ req' = [req EXCEPT ![r].pc = "retry", ![r].fresh = FALSE] /\ UNCHANGED api
            \/ /\ api' = IF fail \/ known THEN api ELSE With(api, query, a)
               /\ req' = [req EXCEPT ![r] = IF fail THEN idle ELSE told]
      BY DEF QuerySentry
    <2> QED
      BY <1>4, <1>5, <2>1

LEMMA BudgetEnsure ==
    ASSUME NEW r \in Requests, NEW b, NEW fail, BudgetInv, Inv', EnsureBundle(r, b, fail)
    PROVE  BudgetInv'
  <1> DEFINE q == req[r]
             o == IF objects[b] # "absent" THEN objects[b] ELSE IF fail THEN "error" ELSE "ok"
             rest == q.queue \ {b}
             bundles == With(q.bundles, b, o)
             known == [q EXCEPT !.queue = rest]
             opened == [q EXCEPT !.queue = rest, !.fresh = TRUE, !.bundles = bundles]
  <1>1. BudgetReq(q) /\ BudgetShared /\ IsReq(q) /\ q.pc = "bundles" /\ q.pc \in Searching
    BY DEF EnsureBundle, BudgetInv, Inv, ReqInv, Searching
  <1>2. q.artifacts \subseteq DOMAIN Artifacts
    BY <1>1 DEF BudgetReq
  <1>3. req' = [req EXCEPT ![r] = known] \/ req' = [req EXCEPT ![r] = opened]
    <2> HIDE DEF o
    <2>1. \/ req' = [req EXCEPT ![r].queue = @ \ {b}]
          \/ req' = [req EXCEPT ![r].queue = @ \ {b}, ![r].fresh = TRUE, ![r].bundles = With(@, b, o)]
      BY DEF EnsureBundle, o
    <2> QED
      BY <1>1, <2>1 DEF BudgetInv, Inv, IsReq, ReqFields
  <1> HIDE DEF rest, bundles
  <1>4. PICK p \in {known, opened} : req' = [req EXCEPT ![r] = p]
    BY <1>3
  <1>5. SameAccount(q, p) /\ p.pc = "bundles" /\ p.artifacts = q.artifacts
    BY <1>1 DEF IsReq, ReqFields, SameAccount
  <1>6. BudgetReq(p)
    BY <1>1, <1>2, <1>5, BudgetSearch DEF Searching
  <1>7. BudgetShared'
    BY <1>1 DEF BudgetShared, EnsureBundle
  <1> QED
    BY <1>4, <1>6, <1>7, BudgetOneRequest

LEMMA BudgetQueryDone ==
    ASSUME NEW r \in Requests, BudgetInv, Inv', QueryDone(r)
    PROVE  BudgetInv'
  <1> DEFINE q == req[r]
             p == [q EXCEPT !.pc = "retry"]
  <1>1. BudgetReq(q) /\ BudgetShared /\ IsReq(q) /\ q.pc = "bundles" /\ q.pc \in Searching
    BY DEF QueryDone, BudgetInv, Inv, ReqInv, Searching
  <1>2. req' = [req EXCEPT ![r] = p]
    BY DEF QueryDone
  <1>3. SameAccount(q, p) /\ p.pc = "retry" /\ p.artifacts = q.artifacts
    BY <1>1 DEF IsReq, ReqFields, SameAccount
  <1> HIDE DEF p
  <1>4. BudgetReq(p)
    <2>1. q.artifacts \subseteq DOMAIN Artifacts
      BY <1>1 DEF BudgetReq
    <2> QED
      BY <1>1, <1>3, <2>1, BudgetSearch DEF Searching
  <1>5. BudgetShared'
    BY <1>1 DEF BudgetShared, QueryDone
  <1> QED
    BY <1>2, <1>4, <1>5, BudgetOneRequest

LEMMA BudgetRetry ==
    ASSUME NEW r \in Requests, BudgetInv, Inv', Retry(r)
    PROVE  BudgetInv'
  <1> DEFINE q == req[r]
             id == IF q.fresh THEN ById(q, q.key) ELSE <<>>
             path == IF q.key.id # None \/ q.fresh THEN ByPath(q, q.key) ELSE <<>>
             local == IF id # <<>> THEN id ELSE path
             next == IF (q.key.id # None \/ q.fresh) /\ ArtifactFor(q, q.key) # NoUrl
                     THEN "artifact" ELSE "scrape"
  <1>1. BudgetReq(q) /\ BudgetShared /\ IsReq(q) /\ q.pc = "retry" /\ q.pc \in Searching
    BY DEF Retry, BudgetInv, Inv, ReqInv, Searching
  <1>2. DOMAIN q.bundles \subseteq DOMAIN Bundles /\ q.artifacts \subseteq DOMAIN Artifacts
    BY DEF BudgetInv, BudgetReq, Inv, ReqInv
  <1>3. CASE /\ local # <<>> /\ req' = [req EXCEPT ![r] = Found(q, local[2])]
             /\ filesInBundles' = Inserted(local, q.key)
    <2>1. Sized(local[2]) /\ IsEntry(local[2])
      BY <1>2, <1>3, LocalSized
    <2>2. BudgetReq(Found(q, local[2]))
      BY <1>1, <2>1, BudgetFound
    <2>3. BudgetShared'
      BY <1>1, <1>3, <2>1, InsertedSized DEF Retry
    <2> QED
      BY <1>3, <2>2, <2>3, BudgetOneRequest
  <1>4. CASE req' = [req EXCEPT ![r].pc = next] /\ UNCHANGED filesInBundles
    <2> DEFINE p == [q EXCEPT !.pc = next]
    <2>1. req' = [req EXCEPT ![r] = p]
      BY <1>4
    <2>2. SameAccount(q, p) /\ p.pc = next /\ p.artifacts = q.artifacts
      BY <1>1 DEF IsReq, ReqFields, SameAccount
    <2>3. /\ next \in {"artifact", "scrape"}
          /\ next = "artifact" => ArtifactFor(q, q.key) \in DOMAIN Artifacts
      BY <1>2, ArtifactKnown
    <2> HIDE DEF p, next
    <2>4. ArtifactFor(p, p.key) = ArtifactFor(q, q.key)
      BY <2>2 DEF SameAccount, ArtifactFor
    <2>5. BudgetReq(p)
      BY <1>1, <1>2, <2>2, <2>3, <2>4, BudgetSearch DEF Searching
    <2>6. BudgetShared'
      BY <1>1, <1>4 DEF BudgetShared, Retry
    <2> QED
      BY <2>1, <2>5, <2>6, BudgetOneRequest
  <1> QED
    BY <1>3, <1>4 DEF Retry

LEMMA BudgetArtifact ==
    ASSUME NEW r \in Requests, NEW res, BudgetInv, Inv', FetchArtifact(r, res)
    PROVE  BudgetInv'
  <1> DEFINE q == req[r]
             u == ArtifactFor(q, q.key)
             f == Artifacts[u]
             ref == Resolve(q.key.url, f.ref)
             e == IF res = "ok" THEN Entry(<<"artifact", u>>, "ok", f.ver, ref, f.id)
                  ELSE IF res = "notfound" /\ f.headers THEN Entry(<<"artifact", u>>, "ok", "empty", ref, None)
                  ELSE Failed(<<"artifact", u>>, res)
  <1>1. BudgetReq(q) /\ BudgetShared /\ IsReq(q) /\ q.pc = "artifact" /\ q.pc \in Searching
    BY DEF FetchArtifact, BudgetInv, Inv, ReqInv, Searching
  <1>2. req' = [req EXCEPT ![r] = Found(q, e)]
    BY DEF FetchArtifact
  <1>3. u \in DOMAIN Artifacts
    BY <1>1 DEF BudgetReq
  <1> HIDE DEF u
  <1>4. Size[f.ver] \in Nat /\ Size["empty"] = 0
    BY <1>3, JsSizes
  <1> HIDE DEF f, ref
  <1>5. \E v, w, i, s : /\ e = Entry(<<"artifact", u>>, s, v, w, i)
                        /\ s = "ok" => v \in {f.ver, "empty"}
                        /\ s # "ok" => v = None
    BY DEF Failed
  <1>6. Sized(e)
    <2> HIDE DEF e
    <2>1. PICK v, w, i, s : /\ e = Entry(<<"artifact", u>>, s, v, w, i)
                            /\ s = "ok" => v \in {f.ver, "empty"}
                            /\ s # "ok" => v = None
      BY <1>5
    <2>2. e.res = s /\ e.ver = v
      BY <2>1 DEF Entry
    <2> QED
      BY <1>4, <2>1, <2>2 DEF Sized, SizeOf
  <1>7. BudgetReq(Found(q, e))
    BY <1>1, <1>6, BudgetFound
  <1>8. BudgetShared'
    BY <1>1 DEF BudgetShared, FetchArtifact
  <1> QED
    BY <1>2, <1>7, <1>8, BudgetOneRequest

\* A search on the web ends with the entry e.
LEMMA BudgetWeb ==
    ASSUME NEW r \in Requests, NEW e, NEW att, BudgetInv, Inv', req[r].pc = "scrape", Sized(e),
           req' = [req EXCEPT ![r].pc = "got", ![r].got = e, ![r].attempts = att], BudgetShared'
    PROVE  BudgetInv'
  <1> DEFINE q == req[r]
             p == [q EXCEPT !.pc = "got", !.got = e, !.attempts = att]
  <1>1. BudgetReq(q) /\ IsReq(q) /\ q.pc \in Searching /\ q.artifacts \subseteq DOMAIN Artifacts
    BY DEF BudgetInv, Inv, ReqInv, Searching, BudgetReq
  <1>2. req' = [req EXCEPT ![r] = p]
    BY <1>1 DEF BudgetInv, Inv, IsReq, ReqFields
  <1>3. SameAccount(q, p) /\ p.pc = "got" /\ p.artifacts = q.artifacts /\ p.got = e
    BY <1>1 DEF IsReq, ReqFields, SameAccount
  <1> HIDE DEF p
  <1>4. BudgetReq(p)
    BY <1>1, <1>3, BudgetSearch DEF Searching
  <1> QED
    BY <1>2, <1>4, BudgetOneRequest

LEMMA FailedSized ==
    ASSUME NEW uri, NEW res
    PROVE  Sized(Failed(uri, res))
  BY DEF Failed, Entry, Sized, SizeOf

LEMMA BudgetRefused ==
    ASSUME NEW r \in Requests, BudgetInv, Inv', ScrapeRefused(r)
    PROVE  BudgetInv'
  <1>1. PICK uri, res, att :
            req' = [req EXCEPT ![r].pc = "got", ![r].got = Failed(uri, res), ![r].attempts = att]
    BY DEF ScrapeRefused, Invalid
  <1>2. BudgetShared' /\ req[r].pc = "scrape"
    BY DEF BudgetInv, BudgetShared, ScrapeRefused
  <1> DEFINE e == Failed(uri, res)
  <1>3. Sized(e)
    BY FailedSized
  <1> HIDE DEF e
  <1>4. req' = [req EXCEPT ![r].pc = "got", ![r].got = e, ![r].attempts = att]
    BY <1>1 DEF e
  <1> QED
    BY <1>2, <1>3, <1>4, BudgetWeb

LEMMA BudgetScrape ==
    ASSUME NEW r \in Requests, NEW fail, BudgetInv, Inv', Scrape(r, fail)
    PROVE  BudgetInv'
  <1> DEFINE q == req[r]
             u == [q.key.url EXCEPT !.fragment = FALSE]
             hit == u \in DOMAIN scraped
             w == Website[u][web]
             f == IF hit THEN scraped[u]
                  ELSE IF fail THEN Failed(<<"scraped", u>>, "download")
                  ELSE IF u \notin DOMAIN Website THEN Failed(<<"scraped", u>>, "notfound")
                  ELSE Entry(<<"scraped", u>>, "ok", w.ver, Resolve(q.key.url, w.ref), w.id)
             att == Attempt(q, IF f.res = "ok" THEN "success" ELSE f.res)
  <1>1. BudgetShared /\ q.pc = "scrape"
    BY DEF BudgetInv, Scrape
  <1>2. scraped' = With(scraped, u, f) /\ req' = [req EXCEPT ![r].pc = "got", ![r].got = f, ![r].attempts = att]
    BY DEF Scrape
  <1>3. Sized(f)
    <2>1. CASE hit
      BY <1>1, <2>1 DEF BudgetShared
    <2>2. CASE f \in {Failed(<<"scraped", u>>, "download"), Failed(<<"scraped", u>>, "notfound")}
      <3> HIDE DEF f, u
      <3> QED
        BY <2>2, FailedSized
    <2>3. CASE u \in DOMAIN Website /\ f = Entry(<<"scraped", u>>, "ok", w.ver, Resolve(q.key.url, w.ref), w.id)
      <3> HIDE DEF u
      <3>1. Size[w.ver] \in Nat
        BY <1>1, <2>3, JsSizes DEF BudgetShared
      <3> HIDE DEF f, w
      <3>2. f.res = "ok" /\ f.ver = w.ver
        BY <2>3 DEF Entry
      <3> QED
        BY <3>1, <3>2 DEF Sized, SizeOf
    <2> QED
      BY <2>1, <2>2, <2>3
  <1> HIDE DEF f, u, att
  <1>4. \A x \in DOMAIN scraped' : Sized(scraped'[x])
    BY <1>1, <1>2, <1>3 DEF BudgetShared, With
  <1>5. BudgetShared'
    BY <1>1, <1>4 DEF BudgetShared, Scrape
  <1> QED
    BY <1>1, <1>2, <1>3, <1>5, BudgetWeb

\* What is retained of a file and what is left of the budget make up the budget.
LEMMA BudgetSplit ==
    ASSUME NEW q, NEW e, q.budget \in Nat, IsEntry(e), Sized(e)
    PROVE  /\ Sized(Budgeted(q, e)) /\ BudgetLeft(q, e) \in Nat
           /\ BudgetLeft(q, e) + SizeOf(Budgeted(q, e)) = q.budget
  <1> DEFINE size == SizeOf(e)
             left == q.budget
  <1>1. size \in Nat /\ left \in Nat /\ (e.res # "ok" => size = 0)
    BY DEF Sized
  <1>2. CASE e.res = "ok" /\ size <= left
    <2>1. Budgeted(q, e) = e /\ BudgetLeft(q, e) = left - size
      BY <1>2 DEF Budgeted, BudgetLeft, WithinBudget
    <2> HIDE DEF size, left
    <2>2. left - size \in Nat /\ (left - size) + size = left
      BY <1>1, <1>2
    <2> QED
      BY <2>1, <2>2 DEF size, left
  <1>3. CASE e.res # "ok"
    <2>1. Budgeted(q, e) = e /\ BudgetLeft(q, e) = left
      BY <1>3 DEF Budgeted, BudgetLeft, WithinBudget
    <2> QED
      BY <1>1, <1>3, <2>1
  <1>4. CASE e.res = "ok" /\ ~(size <= left)
    <2>1. Budgeted(q, e) = [e EXCEPT !.res = "notfound", !.ver = None] /\ BudgetLeft(q, e) = left
      BY <1>4 DEF Budgeted, BudgetLeft, WithinBudget
    <2>2. Budgeted(q, e).ver = None
      BY <2>1 DEF IsEntry
    <2>3. SizeOf(Budgeted(q, e)) = 0
      BY <2>2 DEF SizeOf
    <2> QED
      BY <1>1, <2>1, <2>3 DEF Sized
  <1> QED
    BY <1>2, <1>3, <1>4

\* The sums of a request are numbers.
LEMMA StockSums ==
    ASSUME NEW q, Stock(q)
    PROVE  SumFunction(MinSizes(q)) \in Nat /\ SumFunction(FileSizes(q)) \in Nat
  <1>1. /\ IsFiniteSet(DOMAIN MinSizes(q)) /\ IsFiniteSet(DOMAIN FileSizes(q))
        /\ \A u \in DOMAIN MinSizes(q) : MinSizes(q)[u] \in Nat
        /\ \A k \in DOMAIN FileSizes(q) : FileSizes(q)[k] \in Nat
    BY DEF Stock, MinSizes, FileSizes
  <1> QED
    BY <1>1, SumIsNat

\* A module is done with the minified file min, which was paid for.
LEMMA BudgetModuleDone ==
    ASSUME NEW p, NEW min, NEW sm, IsReq(p), Stock(p), p.artifacts \subseteq DOMAIN Artifacts,
           FrameUrl(p) \in DOMAIN p.modules, ~p.modules[FrameUrl(p)].fetched,
           IsModule(p.modules[FrameUrl(p)]), Balanced(p, SizeOf(min))
    PROVE  BudgetReq(ModuleDone(p, min, sm))
  <1> DEFINE q == ModuleDone(p, min, sm)
             w == FrameUrl(p)
             base == IF min.res = "ok" /\ min.ref \notin {NoRef, DataRef} THEN min.ref ELSE w
             done == [p.modules[w] EXCEPT !.fetched = TRUE, !.min = min, !.sm = sm, !.base = base]
             modules == [p.modules EXCEPT ![w] = done]
  <1>1. q = [p EXCEPT !.pc = "frame", !.modules = modules]
    BY DEF ModuleDone, IsReq, ReqFields
  <1>2. done.fetched /\ done.min = min
    <2> HIDE DEF base, w
    <2> QED
      BY DEF IsModule, w
  <1> HIDE DEF done
  <1>3. /\ DOMAIN modules = DOMAIN p.modules /\ modules[w] = done
        /\ \A u \in DOMAIN p.modules \ {w} : modules[u] = p.modules[u]
    OBVIOUS
  <1> HIDE DEF modules
  <1>4. /\ q.pc = "frame" /\ q.modules = modules /\ q.files = p.files /\ q.frames = p.frames
        /\ q.pos = p.pos /\ q.budget = p.budget /\ q.artifacts = p.artifacts
    BY <1>1 DEF IsReq, ReqFields
  <1> HIDE DEF q
  <1>5. Stock(q)
    <2>1. \A u \in DOMAIN modules :
              SizeOf(modules[u].min) \in Nat /\ (~modules[u].fetched => SizeOf(modules[u].min) = 0)
      <3> HIDE DEF w
      <3> QED
        BY <1>2, <1>3 DEF Stock, Balanced
    <2> QED
      BY <1>3, <1>4, <2>1 DEF Stock
  <1>6. SumFunction(MinSizes(q)) = SumFunction(MinSizes(p)) + SizeOf(min)
    <2> DEFINE f == MinSizes(p)
               g == MinSizes(q)
    <2>1. /\ DOMAIN f = DOMAIN p.modules /\ DOMAIN g = DOMAIN p.modules
          /\ \A u \in DOMAIN p.modules : f[u] = SizeOf(p.modules[u].min) /\ g[u] = SizeOf(modules[u].min)
      BY <1>3, <1>4 DEF MinSizes
    <2>2. /\ IsFiniteSet(DOMAIN f) /\ \A u \in DOMAIN f : f[u] \in Nat
          /\ f[w] = 0 /\ g[w] = SizeOf(min) /\ g[w] \in Nat
      BY <1>2, <1>3, <2>1 DEF Stock, Balanced
    <2>3. DOMAIN g = DOMAIN f \cup {w} /\ w \in DOMAIN f /\ \A u \in DOMAIN f \ {w} : g[u] = f[u]
      BY <1>3, <2>1
    <2> HIDE DEF f, g, w
    <2>4. SumFunction(g) + f[w] = SumFunction(f) + g[w] /\ SumFunction(g) \in Nat /\ SumFunction(f) \in Nat
      BY <2>2, <2>3, SumChanges
    <2>5. SumFunction(g) = SumFunction(f) + g[w]
      BY <2>2, <2>4
    <2> QED
      BY <2>2, <2>5 DEF f, g
  <1>7. Balanced(q, 0)
    <2> DEFINE m == SumFunction(MinSizes(p))
               s == SumFunction(FileSizes(p))
               z == SizeOf(min)
               b == p.budget
    <2>1. m \in Nat /\ s \in Nat /\ z \in Nat /\ b \in Nat /\ b + m + s + z = Budget
      BY StockSums DEF Balanced
    <2>2. SumFunction(MinSizes(q)) = m + z /\ SumFunction(FileSizes(q)) = s /\ q.budget = b
      BY <1>4, <1>6 DEF FileSizes
    <2> HIDE DEF m, s, z, b
    <2>3. b + (m + z) + s + 0 = Budget
      BY <2>1
    <2> QED
      BY <2>1, <2>2, <2>3 DEF Balanced
  <1>8. Pending(q) = 0 /\ Missing(q)
    BY <1>4 DEF Pending, WaitsForMap, Missing, Searching
  <1>9. BudgetReq(q)
    BY <1>4, <1>5, <1>7, <1>8 DEF BudgetReq
  <1> QED
    BY <1>9 DEF q

LEMMA BudgetGotMinified ==
    ASSUME NEW r \in Requests, BudgetInv, Inv', GotMinified(r)
    PROVE  BudgetInv'
  <1> DEFINE q == req[r]
             min == Budgeted(q, q.got)
             left == BudgetLeft(q, q.got)
             spent == [q EXCEPT !.budget = left]
             ref == IF min.res = "ok" THEN min.ref ELSE NoRef
             id == IF q.key.id # None THEN q.key.id ELSE min.id
             embedded == Entry(<<"embedded">>, "ok", min.ver, NoRef, id)
             key == Key("map", ref, id)
             inline == [spent EXCEPT !.pc = "smcache", !.min = min, !.got = embedded]
             further == [spent EXCEPT !.pc = "file", !.min = min, !.key = key]
  <1>1. /\ BudgetReq(q) /\ BudgetShared /\ IsReq(q) /\ IsEntry(q.got) /\ q.pc = "got" /\ q.key.ty = "min"
        /\ \A u \in DOMAIN q.modules : IsModule(q.modules[u])
    BY DEF GotMinified, BudgetInv, Inv, ReqInv, ModuleInv, GotInv, EntryInv
  <1>2. /\ Stock(q) /\ Sized(q.got) /\ q.artifacts \subseteq DOMAIN Artifacts
        /\ FrameUrl(q) \in DOMAIN q.modules /\ ~q.modules[FrameUrl(q)].fetched
    BY <1>1 DEF BudgetReq, Missing, Searching
  <1>3. Balanced(q, 0)
    BY <1>1 DEF BudgetReq, Pending, WaitsForMap
  <1>4. Sized(min) /\ left \in Nat /\ left + SizeOf(min) = q.budget
    BY <1>1, <1>2, <1>3, BudgetSplit DEF Balanced
  <1> HIDE DEF min, left
  <1>5. /\ IsReq(spent) /\ spent.pc = q.pc /\ spent.budget = left /\ spent.modules = q.modules
        /\ spent.files = q.files /\ spent.frames = q.frames /\ spent.pos = q.pos
        /\ spent.artifacts = q.artifacts
    BY <1>1 DEF IsReq, ReqFields
  <1> HIDE DEF spent
  <1>6. Stock(spent) /\ FrameUrl(spent) = FrameUrl(q)
    BY <1>2, <1>5 DEF Stock, FrameUrl
  <1>7. Balanced(spent, SizeOf(min))
    <2> DEFINE m == SumFunction(MinSizes(q))
               s == SumFunction(FileSizes(q))
               z == SizeOf(min)
               b == q.budget
    <2>1. m \in Nat /\ s \in Nat /\ z \in Nat /\ b \in Nat /\ b + m + s + 0 = Budget
      BY <1>2, <1>3, <1>4, StockSums DEF Balanced, Sized
    <2>2. SumFunction(MinSizes(spent)) = m /\ SumFunction(FileSizes(spent)) = s
      BY <1>5 DEF MinSizes, FileSizes
    <2>3. left + z = b /\ left \in Nat
      BY <1>4
    <2> HIDE DEF m, s, z, b
    <2>4. left + m + s + z = Budget
      BY <2>1, <2>3
    <2> QED
      BY <1>5, <2>1, <2>2, <2>3, <2>4 DEF Balanced, z
  <1>8. BudgetShared'
    BY <1>1 DEF BudgetShared, GotMinified
  <1>9. CASE req' = [req EXCEPT ![r] = ModuleDone(spent, min, NoSourceMap)]
    <2>1. BudgetReq(ModuleDone(spent, min, NoSourceMap))
      BY <1>1, <1>2, <1>4, <1>5, <1>6, <1>7, BudgetModuleDone
    <2> QED
      BY <1>8, <1>9, <2>1, BudgetOneRequest
  <1>10. ASSUME NEW p, req' = [req EXCEPT ![r] = p],
                p.pc = "smcache" \/ (p.pc = "file" /\ p.key.ty = "map"), p.min = min,
                p.modules = spent.modules, p.files = spent.files, p.frames = spent.frames,
                p.pos = spent.pos, p.budget = spent.budget, p.artifacts = spent.artifacts
         PROVE  BudgetInv'
    <2>1. Stock(p) /\ FrameUrl(p) = FrameUrl(q)
      BY <1>6, <1>10 DEF Stock, FrameUrl
    <2>2. Pending(p) = SizeOf(min)
      BY <1>10 DEF Pending, WaitsForMap, Searching
    <2>3. Balanced(p, SizeOf(min))
      BY <1>7, <1>10 DEF Balanced, MinSizes, FileSizes
    <2>4. Missing(p)
      BY <1>2, <1>5, <1>10, <2>1 DEF Missing, Searching
    <2>5. BudgetReq(p)
      BY <1>2, <1>5, <1>10, <2>1, <2>2, <2>3, <2>4 DEF BudgetReq
    <2> QED
      BY <1>8, <1>10, <2>5, BudgetOneRequest
  <1>11. CASE req' = [req EXCEPT ![r] = inline]
    <2> HIDE DEF embedded
    <2>1. /\ inline.pc = "smcache" /\ inline.min = min
          /\ inline.modules = spent.modules /\ inline.files = spent.files /\ inline.frames = spent.frames
          /\ inline.pos = spent.pos /\ inline.budget = spent.budget /\ inline.artifacts = spent.artifacts
      BY <1>5 DEF IsReq, ReqFields
    <2> HIDE DEF inline
    <2> QED
      BY <1>10, <1>11, <2>1
  <1>12. CASE req' = [req EXCEPT ![r] = further]
    <2>1. key.ty = "map"
      BY DEF Key
    <2> HIDE DEF key
    <2>2. /\ further.pc = "file" /\ further.key = key /\ further.min = min
          /\ further.modules = spent.modules /\ further.files = spent.files /\ further.frames = spent.frames
          /\ further.pos = spent.pos /\ further.budget = spent.budget /\ further.artifacts = spent.artifacts
      BY <1>5 DEF IsReq, ReqFields
    <2> HIDE DEF further
    <2> QED
      BY <1>10, <1>12, <2>1, <2>2
  <1> QED
    <2>1. GotMinified(r) =>
            req' = [req EXCEPT ![r] =
                IF min.res = "notfound" \/ (ref = NoRef /\ id = None) THEN ModuleDone(spent, min, NoSourceMap)
                ELSE IF ref = DataRef THEN inline ELSE further]
      BY DEF GotMinified, min, left, spent
    <2> HIDE DEF inline, further, ref, id
    <2> QED
      BY <1>9, <1>11, <1>12, <2>1

LEMMA BudgetGotSourceMap ==
    ASSUME NEW r \in Requests, BudgetInv, Inv', GotSourceMap(r)
    PROVE  BudgetInv'
  <1> DEFINE q == req[r]
             p == [q EXCEPT !.pc = "smcache"]
  <1>1. BudgetReq(q) /\ BudgetShared /\ IsReq(q) /\ q.pc = "got" /\ q.key.ty = "map"
    BY DEF GotSourceMap, BudgetInv, Inv, ReqInv
  <1>2. req' = [req EXCEPT ![r] = p]
    BY DEF GotSourceMap
  <1>3. SameAccount(q, p) /\ p.pc = "smcache" /\ p.artifacts = q.artifacts
    BY <1>1 DEF IsReq, ReqFields, SameAccount
  <1> HIDE DEF p
  <1>4. Stock(p) /\ FrameUrl(p) = FrameUrl(q)
    BY <1>1, <1>3 DEF BudgetReq, Stock, SameAccount, FrameUrl
  <1>5. Missing(p)
    BY <1>1, <1>3, <1>4 DEF BudgetReq, Missing, SameAccount, Searching
  <1>6. Pending(p) = Pending(q)
    BY <1>1, <1>3 DEF Pending, WaitsForMap, SameAccount, Searching
  <1>7. Balanced(p, Pending(p))
    BY <1>1, <1>3, <1>6 DEF BudgetReq, Balanced, SameAccount, MinSizes, FileSizes
  <1>8. BudgetReq(p)
    BY <1>1, <1>3, <1>4, <1>5, <1>7 DEF BudgetReq
  <1>9. BudgetShared'
    BY <1>1 DEF BudgetShared, GotSourceMap
  <1> QED
    BY <1>2, <1>8, <1>9, BudgetOneRequest

LEMMA BudgetFetchCache ==
    ASSUME NEW r \in Requests, BudgetInv, Inv', FetchSourceMapCache(r)
    PROVE  BudgetInv'
  <1> DEFINE q == req[r]
  <1>1. /\ BudgetReq(q) /\ BudgetShared /\ IsReq(q) /\ q.pc = "smcache"
        /\ \A u \in DOMAIN q.modules : IsModule(q.modules[u])
    BY DEF FetchSourceMapCache, BudgetInv, Inv, ReqInv, ModuleInv
  <1>2. PICK sm : req' = [req EXCEPT ![r] = ModuleDone(q, q.min, sm)]
    BY Zenon DEF FetchSourceMapCache
  <1>3. Pending(q) = SizeOf(q.min)
    BY <1>1 DEF Pending, WaitsForMap
  <1>5. BudgetReq(ModuleDone(q, q.min, sm))
    BY <1>1, <1>3, BudgetModuleDone DEF BudgetReq, Missing
  <1>6. BudgetShared'
    BY <1>1 DEF BudgetShared, FetchSourceMapCache
  <1> QED
    BY <1>2, <1>5, <1>6, BudgetOneRequest

LEMMA BudgetGotSource ==
    ASSUME NEW r \in Requests, BudgetInv, Inv', GotSource(r)
    PROVE  BudgetInv'
  <1> DEFINE q == req[r]
             e == Budgeted(q, q.got)
             files == With(q.files, q.key, e)
             left == BudgetLeft(q, q.got)
             p == [q EXCEPT !.pc = "frame", !.files = files, !.budget = left]
  <1>1. BudgetReq(q) /\ BudgetShared /\ IsReq(q) /\ IsEntry(q.got) /\ q.pc = "got" /\ q.key.ty = "src"
    BY DEF GotSource, BudgetInv, Inv, ReqInv, GotInv, EntryInv
  <1>2. Stock(q) /\ Sized(q.got) /\ q.artifacts \subseteq DOMAIN Artifacts /\ q.key \notin DOMAIN q.files
    BY <1>1 DEF BudgetReq, Missing, Searching
  <1>3. Balanced(q, 0)
    BY <1>1 DEF BudgetReq, Pending, WaitsForMap
  <1>4. Sized(e) /\ left \in Nat /\ left + SizeOf(e) = q.budget
    BY <1>1, <1>2, <1>3, BudgetSplit DEF Balanced
  <1>5. req' = [req EXCEPT ![r] = p]
    <2> HIDE DEF left, e
    <2>1. req' = [req EXCEPT ![r].pc = "frame", ![r].files = With(@, q.key, e), ![r].budget = left]
      BY DEF GotSource, left, e
    <2> QED
      BY <1>1, <2>1 DEF BudgetInv, Inv, IsReq, ReqFields
  <1> HIDE DEF e, left
  <1>6. /\ DOMAIN files = DOMAIN q.files \cup {q.key} /\ files[q.key] = e
        /\ \A k \in DOMAIN q.files \ {q.key} : files[k] = q.files[k]
    BY DEF With
  <1> HIDE DEF files
  <1>7. /\ p.pc = "frame" /\ p.files = files /\ p.budget = left /\ p.modules = q.modules
        /\ p.frames = q.frames /\ p.pos = q.pos /\ p.artifacts = q.artifacts
    BY <1>1 DEF IsReq, ReqFields
  <1> HIDE DEF p
  <1>8. Stock(p)
    <2>1. IsFiniteSet(DOMAIN files)
      BY <1>2, <1>6, FS_AddElement DEF Stock
    <2>2. \A k \in DOMAIN files : SizeOf(files[k]) \in Nat
      BY <1>2, <1>4, <1>6 DEF Stock, Sized
    <2> QED
      BY <1>2, <1>7, <2>1, <2>2 DEF Stock
  <1>9. SumFunction(FileSizes(p)) = SumFunction(FileSizes(q)) + SizeOf(e)
    <2> DEFINE f == FileSizes(q)
               g == FileSizes(p)
               k == q.key
    <2>1. /\ DOMAIN f = DOMAIN q.files /\ DOMAIN g = DOMAIN q.files \cup {k}
          /\ \A x \in DOMAIN q.files : f[x] = SizeOf(q.files[x])
          /\ \A x \in DOMAIN q.files \cup {k} : g[x] = SizeOf(files[x])
      BY <1>6, <1>7 DEF FileSizes
    <2>2. /\ IsFiniteSet(DOMAIN f) /\ \A x \in DOMAIN f : f[x] \in Nat
          /\ k \notin DOMAIN f /\ g[k] = SizeOf(e) /\ g[k] \in Nat
      BY <1>2, <1>4, <1>6, <2>1 DEF Stock, Sized
    <2>3. DOMAIN g = DOMAIN f \cup {k} /\ \A x \in DOMAIN f \ {k} : g[x] = f[x]
      BY <1>6, <2>1
    <2> HIDE DEF f, g, k
    <2>4. SumFunction(g) = SumFunction(f) + g[k]
      BY <2>2, <2>3, SumChanges
    <2> QED
      BY <2>2, <2>4 DEF f, g
  <1>10. Balanced(p, 0)
    <2> DEFINE m == SumFunction(MinSizes(q))
               s == SumFunction(FileSizes(q))
               z == SizeOf(e)
               b == q.budget
    <2>1. m \in Nat /\ s \in Nat /\ z \in Nat /\ b \in Nat /\ b + m + s + 0 = Budget
      BY <1>2, <1>3, <1>4, StockSums DEF Balanced, Sized
    <2>2. SumFunction(MinSizes(p)) = m /\ SumFunction(FileSizes(p)) = s + z
      BY <1>7, <1>9 DEF MinSizes
    <2>3. left + z = b /\ left \in Nat
      BY <1>4
    <2> HIDE DEF m, s, z, b
    <2>4. left + m + (s + z) + 0 = Budget
      BY <2>1, <2>3
    <2> QED
      BY <1>7, <2>2, <2>3, <2>4 DEF Balanced
  <1>11. Pending(p) = 0 /\ Missing(p)
    BY <1>7 DEF Pending, WaitsForMap, Missing, Searching
  <1>12. BudgetReq(p)
    BY <1>2, <1>7, <1>8, <1>10, <1>11 DEF BudgetReq
  <1>13. BudgetShared'
    BY <1>1 DEF BudgetShared, GotSource
  <1> QED
    BY <1>5, <1>12, <1>13, BudgetOneRequest

\* A step of a request between two frames, or one that begins a search: what is
\* retained stays as it is.
LEMMA BudgetFrame ==
    ASSUME NEW p, NEW q, BudgetReq(p), p.pc = "frame", q.pc \in {"frame", "done", "file"},
           q.pc = "file" => q.key.ty \in {"min", "src"}, q.pos \in Nat \ {0}, Missing(q),
           q.modules = p.modules, q.files = p.files, q.frames = p.frames, q.budget = p.budget,
           q.artifacts = p.artifacts
    PROVE  BudgetReq(q)
  <1>1. Pending(p) = 0 /\ Pending(q) = 0
    BY DEF Pending, WaitsForMap, Searching
  <1>2. Stock(q)
    BY DEF BudgetReq, Stock
  <1>3. Balanced(q, 0)
    BY <1>1 DEF BudgetReq, Balanced, MinSizes, FileSizes
  <1> QED
    BY <1>1, <1>2, <1>3 DEF BudgetReq

LEMMA BudgetStart ==
    ASSUME NEW r \in Requests, BudgetInv, Inv', StartModule(r) \/ StartSource(r)
    PROVE  BudgetInv'
  <1> DEFINE q == req[r]
             w == FrameUrl(q)
  <1>1. BudgetReq(q) /\ BudgetShared /\ IsReq(q) /\ q.pc = "frame" /\ q.pos <= Len(q.frames)
    BY DEF StartModule, StartSource, BudgetInv, Inv, ReqInv
  <1>2. w \in DOMAIN q.modules /\ q.pos \in Nat \ {0}
    BY <1>1 DEF BudgetReq, Stock, IsSeq, FrameUrl
  <1>3. BudgetShared'
    BY <1>1 DEF BudgetShared, StartModule, StartSource
  <1>4. \E key : /\ req' = [req EXCEPT ![r].pc = "file", ![r].key = key]
                 /\ \/ key.ty = "min" /\ ~q.modules[w].fetched
                    \/ key.ty = "src" /\ key \notin DOMAIN q.files
    <2>1. CASE StartModule(r)
      <3>1. \E id : /\ req' = [req EXCEPT ![r].pc = "file", ![r].key = Key("min", w, id)]
                    /\ ~q.modules[w].fetched
        BY <2>1, Zenon DEF StartModule
      <3>2. \A id : Key("min", w, id).ty = "min"
        BY DEF Key
      <3> QED
        BY <3>1, <3>2, Zenon
    <2>2. CASE StartSource(r)
      <3>1. \E url : /\ req' = [req EXCEPT ![r].pc = "file", ![r].key = Key("src", url, None)]
                     /\ Key("src", url, None) \notin DOMAIN q.files
        BY <2>2, Zenon DEF StartSource, SourceKey
      <3>2. \A url : Key("src", url, None).ty = "src"
        BY DEF Key
      <3> QED
        BY <3>1, <3>2, Zenon
    <2> QED
      BY <2>1, <2>2
  <1>5. PICK key : /\ req' = [req EXCEPT ![r].pc = "file", ![r].key = key]
                   /\ \/ key.ty = "min" /\ ~q.modules[w].fetched
                      \/ key.ty = "src" /\ key \notin DOMAIN q.files
    BY <1>4
  <1> DEFINE p == [q EXCEPT !.pc = "file", !.key = key]
  <1>6. req' = [req EXCEPT ![r] = p]
    BY <1>1, <1>5 DEF BudgetInv, Inv, IsReq, ReqFields
  <1>7. /\ p.pc = "file" /\ p.key = key /\ p.modules = q.modules /\ p.files = q.files
        /\ p.frames = q.frames /\ p.budget = q.budget /\ p.pos = q.pos /\ p.artifacts = q.artifacts
    BY <1>1 DEF IsReq, ReqFields
  <1> HIDE DEF p
  <1>8. Missing(p)
    BY <1>2, <1>5, <1>7 DEF Missing, FrameUrl
  <1>9. BudgetReq(p)
    BY <1>1, <1>2, <1>5, <1>7, <1>8, BudgetFrame
  <1> QED
    BY <1>3, <1>6, <1>9, BudgetOneRequest

LEMMA BudgetSymbolicate ==
    ASSUME NEW r \in Requests, BudgetInv, Inv', SymbolicateFrame(r)
    PROVE  BudgetInv'
  <1> DEFINE q == req[r]
  <1>1. BudgetReq(q) /\ BudgetShared /\ IsReq(q) /\ q.pc = "frame" /\ q.pos \in Nat \ {0}
    BY DEF SymbolicateFrame, BudgetInv, Inv, ReqInv, BudgetReq, Stock
  <1>2. PICK out, site, errors :
            req' = [req EXCEPT ![r] = [q EXCEPT !.pos = @ + 1, !.out = out, !.callsite = site, !.errors = errors]]
    BY DEF SymbolicateFrame
  <1> DEFINE pos == q.pos + 1
             p == [q EXCEPT !.pos = pos, !.out = out, !.callsite = site, !.errors = errors]
  <1>3. req' = [req EXCEPT ![r] = p]
    BY <1>2
  <1>4. pos \in Nat \ {0}
    BY <1>1
  <1> HIDE DEF pos
  <1>5. /\ p.pc = "frame" /\ p.modules = q.modules /\ p.files = q.files
        /\ p.frames = q.frames /\ p.budget = q.budget /\ p.pos = pos /\ p.artifacts = q.artifacts
    BY <1>1 DEF IsReq, ReqFields
  <1> HIDE DEF p
  <1>6. Missing(p)
    BY <1>5 DEF Missing, Searching
  <1>7. BudgetReq(p)
    BY <1>1, <1>4, <1>5, <1>6, BudgetFrame
  <1>8. BudgetShared'
    BY <1>1 DEF BudgetShared, SymbolicateFrame
  <1> QED
    BY <1>3, <1>7, <1>8, BudgetOneRequest

LEMMA BudgetRespond ==
    ASSUME NEW r \in Requests, BudgetInv, Inv', Respond(r)
    PROVE  BudgetInv'
  <1> DEFINE q == req[r]
             out == IF q.job.order = "callee_first" THEN Reverse(q.out) ELSE q.out
             p == [q EXCEPT !.pc = "done", !.out = out]
  <1>1. BudgetReq(q) /\ BudgetShared /\ IsReq(q) /\ q.pc = "frame" /\ q.pos \in Nat \ {0}
    BY DEF Respond, BudgetInv, Inv, ReqInv, BudgetReq, Stock
  <1>2. req' = [req EXCEPT ![r] = p]
    BY <1>1 DEF Respond, BudgetInv, Inv, IsReq, ReqFields
  <1> HIDE DEF out
  <1>3. /\ p.pc = "done" /\ p.modules = q.modules /\ p.files = q.files
        /\ p.frames = q.frames /\ p.budget = q.budget /\ p.pos = q.pos /\ p.artifacts = q.artifacts
    BY <1>1 DEF IsReq, ReqFields
  <1> HIDE DEF p
  <1>4. Missing(p)
    BY <1>3 DEF Missing, Searching
  <1>5. BudgetReq(p)
    BY <1>1, <1>3, <1>4, BudgetFrame
  <1>6. BudgetShared'
    BY <1>1 DEF BudgetShared, Respond
  <1> QED
    BY <1>2, <1>5, <1>6, BudgetOneRequest

LEMMA BudgetInit ==
    ASSUME JsInit
    PROVE  BudgetInv
  <1>1. Inv
    BY InitInv
  <1>2. BudgetShared
    BY DEF JsInit, BudgetShared
  <1>3. ASSUME NEW r \in Requests PROVE BudgetReq(req[r])
    <2> DEFINE q == req[r]
               modules(job) == [u \in {job.frames[i].url : i \in DOMAIN job.frames} |->
                                   Module(IF u \in DOMAIN job.ids THEN job.ids[u] ELSE None)]
    <2>1. PICK jobs \in Jobs : req = [x \in Requests |->
             [job |-> jobs[x], pc |-> "frame", pos |-> 1, frames |-> InCallerFirst(jobs[x]), out |-> <<>>,
              errors |-> {}, callsite |-> NoName, modules |-> modules(jobs[x]),
              files |-> <<>>, bundles |-> <<>>, artifacts |-> {}, queue |-> {}, fresh |-> FALSE,
              key |-> Key("min", NoUrl, None), got |-> Invalid, min |-> Invalid,
              budget |-> Budget, attempts |-> <<>>]]
      BY DEF JsInit
    <2> DEFINE job == jobs[r]
               n == Len(job.frames)
               sent == job.frames
    <2>2. /\ q.pc = "frame" /\ q.pos = 1 /\ q.frames = InCallerFirst(job) /\ q.modules = modules(job)
          /\ q.files = <<>> /\ q.artifacts = {} /\ q.budget = Budget
      <3> HIDE DEF modules
      <3> QED
        BY <2>1
    <2> HIDE DEF q
    <2>3. n \in Nat /\ DOMAIN sent = 1 .. n
      BY JsSizes DEF IsSeq
    <2>4. /\ IsSeq(q.frames)
          /\ \A i \in DOMAIN q.frames : q.frames[i] \in {sent[j] : j \in DOMAIN sent}
      <3>1. CASE q.frames = sent
        BY <2>3, <3>1 DEF IsSeq
      <3>2. CASE q.frames = Reverse(sent)
        <4>1. q.frames = [i \in 1 .. n |-> sent[(n - i) + 1]]
          BY <3>2 DEF Reverse
        <4>2. \A i \in 1 .. n : (n - i) + 1 \in 1 .. n
          BY <2>3
        <4>3. DOMAIN q.frames = 1 .. n /\ \A i \in 1 .. n : q.frames[i] = sent[(n - i) + 1]
          BY <4>1
        <4>4. Len(q.frames) = n
          BY <2>3, <4>1, ReverseLength
        <4> QED
          BY <2>3, <4>2, <4>3, <4>4 DEF IsSeq
      <3> QED
        BY <2>2, <3>1, <3>2 DEF InCallerFirst
    <2>5. DOMAIN q.modules = {sent[i].url : i \in DOMAIN sent}
      BY <2>2
    <2>6. \A u \in DOMAIN q.modules : \E id : q.modules[u] = Module(id)
      BY <2>2
    <2>7. \A id : SizeOf(Module(id).min) = 0
      BY DEF Module, Invalid, Failed, Entry, SizeOf
    <2>8. IsFiniteSet(DOMAIN q.modules) /\ IsFiniteSet(DOMAIN q.files)
      <3>1. IsFiniteSet(1 .. n)
        BY <2>3, FS_Interval
      <3> DEFINE f == [i \in 1 .. n |-> sent[i].url]
      <3>2. f \in Surjection(1 .. n, DOMAIN q.modules)
        BY <2>3, <2>5 DEF Surjection
      <3>3. IsFiniteSet(DOMAIN q.modules)
        BY <3>1, <3>2, FS_Surjection
      <3>4. DOMAIN q.files = {}
        BY <2>2
      <3> QED
        BY <3>3, <3>4, FS_EmptySet
    <2>9. Stock(q)
      BY <2>2, <2>4, <2>5, <2>6, <2>7, <2>8 DEF Stock
    <2>10. SumFunction(MinSizes(q)) = 0 /\ SumFunction(FileSizes(q)) = 0
      <3>1. /\ IsFiniteSet(DOMAIN MinSizes(q)) /\ \A u \in DOMAIN MinSizes(q) : MinSizes(q)[u] = 0
            /\ IsFiniteSet(DOMAIN FileSizes(q)) /\ \A u \in DOMAIN FileSizes(q) : FileSizes(q)[u] = 0
        BY <2>2, <2>6, <2>7, <2>8 DEF MinSizes, FileSizes
      <3> QED
        BY <3>1, SumOfZeros
    <2>11. Pending(q) = 0 /\ Missing(q)
      BY <2>2 DEF Pending, WaitsForMap, Missing, Searching
    <2>12. Balanced(q, 0)
      BY <2>2, <2>10, JsConstants DEF Balanced
    <2>13. BudgetReq(q)
      BY <2>2, <2>9, <2>11, <2>12 DEF BudgetReq
    <2> QED
      BY <2>13 DEF q
  <1> QED
    BY <1>1, <1>2, <1>3 DEF BudgetInv

LEMMA BudgetNext ==
    ASSUME BudgetInv, [JsNext]_vars
    PROVE  BudgetInv'
  <1>1. Inv'
    BY NextInv DEF BudgetInv
  <1>2. CASE UNCHANGED vars
    BY <1>1, <1>2 DEF vars, BudgetInv, BudgetShared
  <1>3. CASE Fault
    <2>1. UNCHANGED <<filesInBundles, req>>
      BY <1>3 DEF Fault
    <2>2. web' \in {1, 2}
      BY <1>3 DEF Fault, BudgetInv, BudgetShared
    <2>3. \A x \in DOMAIN api' : api'[x].artifacts \subseteq DOMAIN Artifacts
      BY <1>3 DEF Fault, BudgetInv, BudgetShared
    <2>4. \A u \in DOMAIN scraped' : Sized(scraped'[u])
      BY <1>3 DEF Fault, BudgetInv, BudgetShared
    <2> QED
      BY <1>1, <2>1, <2>2, <2>3, <2>4 DEF BudgetInv, BudgetShared
  <1>4. CASE Finished
    BY <1>2, <1>4 DEF Finished
  <1>5. ASSUME NEW r \in Requests, JsStep(r)
        PROVE  BudgetInv'
    <2>1. CASE StartModule(r) \/ StartSource(r)
      BY <1>1, <2>1, BudgetStart
    <2>2. CASE GetFile(r) \/ QueryDone(r) \/ Retry(r) \/ ScrapeRefused(r)
      BY <1>1, <2>2, BudgetGetFile, BudgetQueryDone, BudgetRetry, BudgetRefused
    <2>3. CASE GotMinified(r) \/ GotSourceMap(r) \/ FetchSourceMapCache(r) \/ GotSource(r)
      BY <1>1, <2>3, BudgetGotMinified, BudgetGotSourceMap, BudgetFetchCache, BudgetGotSource
    <2>4. CASE SymbolicateFrame(r) \/ Respond(r)
      BY <1>1, <2>4, BudgetSymbolicate, BudgetRespond
    <2>5. CASE \E fail \in BOOLEAN : QuerySentry(r, fail) \/ Scrape(r, fail)
      BY <1>1, <2>5, BudgetQuery, BudgetScrape
    <2>6. CASE \E b \in req[r].queue, fail \in BOOLEAN : EnsureBundle(r, b, fail)
      BY <1>1, <2>6, BudgetEnsure
    <2>7. CASE \E res \in {"ok", "download", "notfound"} : FetchArtifact(r, res)
      BY <1>1, <2>7, BudgetArtifact
    <2> QED
      BY <1>5, <2>1, <2>2, <2>3, <2>4, <2>5, <2>6, <2>7 DEF JsStep
  <1> QED
    BY <1>2, <1>3, <1>4, <1>5 DEF JsNext

\* apply_sources_budget: whatever files a request is given, what it retains of minified
\* files and source files and what is left of its budget are the whole budget.
THEOREM BudgetIsKept == JsSpec => []BudgetKept
  <1>1. JsInit => BudgetInv
    BY BudgetInit
  <1>2. BudgetInv /\ [JsNext]_vars => BudgetInv'
    BY BudgetNext
  <1>3. BudgetInv => BudgetKept
    <2> SUFFICES ASSUME BudgetInv, NEW r \in Requests, req[r].pc = "frame"
                 PROVE  /\ req[r].budget >= 0
                        /\ req[r].budget + SumFunction(MinSizes(req[r])) + SumFunction(FileSizes(req[r])) = Budget
      BY DEF BudgetKept, MinSizes, FileSizes
    <2> DEFINE q == req[r]
               b == q.budget
               m == SumFunction(MinSizes(q))
               s == SumFunction(FileSizes(q))
    <2>1. BudgetReq(q) /\ Pending(q) = 0
      BY DEF BudgetInv, Pending, WaitsForMap, Searching
    <2>2. b \in Nat /\ m \in Nat /\ s \in Nat /\ b + m + s + 0 = Budget
      BY <2>1, StockSums DEF BudgetReq, Balanced
    <2> HIDE DEF b, m, s
    <2>3. b >= 0 /\ b + m + s = Budget
      BY <2>2
    <2> QED
      BY <2>3 DEF b, m, s
  <1> QED
    BY <1>1, <1>2, <1>3, PTL DEF JsSpec-----------------------------------------------------------------------------
(* Names *)

Groups(P) == [part : P, count : Nat]

Repeated(g) == [i \in 1 .. g.count |-> g.part]

AddPart(groups, part) ==
    IF groups # <<>> /\ Last(groups).part = part
    THEN [groups EXCEPT ![Len(groups)].count = @ + 1]
    ELSE Append(groups, [part |-> part, count |-> 1])

LEMMA RepeatedType ==
    ASSUME NEW P, NEW g \in Groups(P)
    PROVE  /\ Repeated(g) \in Seq(P) /\ Len(Repeated(g)) = g.count
           /\ \A i \in 1 .. g.count : Repeated(g)[i] = g.part
  <1>1. g.count \in Nat /\ g.part \in P
    BY DEF Groups
  <1> QED
    BY <1>1 DEF Repeated

\* Unfolding takes the groups one after the other.
LEMMA UnfoldedSteps ==
    ASSUME NEW P, NEW gs \in Seq(Groups(P))
    PROVE  \E f \in [0 .. Len(gs) -> Seq(P)] :
              /\ f[0] = <<>> /\ \A k \in 0 .. Len(gs) - 1 : f[k + 1] = f[k] \o Repeated(gs[k + 1])
              /\ Unfolded(gs) = f[Len(gs)]
  <1> DEFINE n == Len(gs)
             V == Seq(P)
             F == [x \in V \X (1 .. n) |-> x[1] \o Repeated(gs[x[2]])]
             Eq(h) == h = [s \in SUBSET (1 .. n) |-> IF s = {} THEN <<>>
                                                     ELSE h[s \ {Max(s)}] \o Repeated(gs[Max(s)])]
             h == CHOOSE h : Eq(h)
  <1>1. n \in Nat /\ DOMAIN gs = 1 .. n /\ \A i \in 1 .. n : gs[i] \in Groups(P)
    OBVIOUS
  <1>2. <<>> \in V
    OBVIOUS
  <1>3. \A v \in V, i \in 1 .. n : v \o Repeated(gs[i]) \in V
    BY <1>1, RepeatedType, ConcatProperties
  <1>4. F \in [V \X (1 .. n) -> V]
    BY <1>3
  <1>5. \A v \in V, i \in 1 .. n : F[<<v, i>>] = v \o Repeated(gs[i])
    OBVIOUS
  <1> HIDE DEF F, V
  <1>6. PICK g \in [SUBSET (1 .. n) -> V] : Folds(g, F, <<>>, n)
    BY <1>1, <1>2, <1>4, FoldsExist
  <1>7. \A s \in SUBSET (1 .. n) : s # {} => Max(s) \in s /\ s \ {Max(s)} \in SUBSET (1 .. n)
    BY <1>1, LastNumber
  <1>8. Eq(g)
    <2>1. ASSUME NEW s \in SUBSET (1 .. n)
          PROVE  g[s] = IF s = {} THEN <<>> ELSE g[s \ {Max(s)}] \o Repeated(gs[Max(s)])
      <3>1. CASE s = {}
        BY <1>6, <3>1 DEF Folds
      <3>2. CASE s # {}
        <4>1. g[s \ {Max(s)}] \in V /\ Max(s) \in 1 .. n
          BY <1>6, <1>7, <3>2
        <4>2. g[s] = F[<<g[s \ {Max(s)}], Max(s)>>]
          BY <1>6, <3>2 DEF Folds
        <4> QED
          BY <1>5, <3>2, <4>1, <4>2
      <3> QED
        BY <3>1, <3>2
    <2>2. g = [s \in SUBSET (1 .. n) |-> g[s]]
      BY <1>6
    <2> HIDE DEF n
    <2> QED
      BY <2>1, <2>2
  <1>9. Eq(h)
    BY <1>8
  <1>10. Unfolded(gs) = LET iter[s \in SUBSET DOMAIN gs] ==
                                IF s = {} THEN <<>> ELSE iter[s \ {Max(s)}] \o Repeated(gs[Max(s)])
                        IN  iter[DOMAIN gs]
    BY DEF Unfolded, FoldLeft, MapThenFoldSet, Repeated
  <1>11. Unfolded(gs) = h[1 .. n]
    BY <1>1, <1>10
  <1>12. /\ h[1 .. 0] = <<>>
         /\ \A k \in 0 .. n - 1 : h[1 .. k + 1] = h[1 .. k] \o Repeated(gs[k + 1])
    <2>1. \A s \in SUBSET (1 .. n) : h[s] = IF s = {} THEN <<>> ELSE h[s \ {Max(s)}] \o Repeated(gs[Max(s)])
      <3> HIDE DEF h, n
      <3> QED
        BY <1>9
    <2> HIDE DEF h
    <2>2. 1 .. 0 = {} /\ 1 .. 0 \in SUBSET (1 .. n)
      OBVIOUS
    <2>3. ASSUME NEW k \in 0 .. n - 1 PROVE h[1 .. k + 1] = h[1 .. k] \o Repeated(gs[k + 1])
      <3>1. k \in Nat /\ 1 .. k + 1 \in SUBSET (1 .. n)
        BY <1>1
      <3> QED
        BY <2>1, <3>1, LastOfFirst
    <2> QED
      BY <2>1, <2>2, <2>3
  <1> HIDE DEF h, n
  <1> DEFINE f == [k \in 0 .. n |-> h[1 .. k]]
             T == {k \in Nat : k <= n => h[1 .. k] \in V}
  <1>13. 0 \in T
    BY <1>2, <1>12
  <1>14. ASSUME NEW k \in T PROVE k + 1 \in T
    <2> SUFFICES ASSUME k + 1 <= n PROVE h[1 .. k + 1] \in V
      OBVIOUS
    <2>1. k \in 0 .. n - 1 /\ k + 1 \in 1 .. n /\ h[1 .. k] \in V
      BY <1>1
    <2> QED
      BY <1>3, <1>12, <2>1
  <1> HIDE DEF T
  <1>15. Nat \subseteq T
    BY <1>13, <1>14, SetInduction
  <1>16. \A k \in 0 .. n : h[1 .. k] \in V
    BY <1>15 DEF T
  <1>17. f \in [0 .. n -> V]
    BY <1>16
  <1>18. f[0] = <<>> /\ f[n] = Unfolded(gs)
    BY <1>1, <1>11, <1>12
  <1>19. \A k \in 0 .. n - 1 : f[k + 1] = f[k] \o Repeated(gs[k + 1])
    <2>1. \A k \in 0 .. n - 1 : k \in 0 .. n /\ k + 1 \in 0 .. n
      BY <1>1
    <2> QED
      BY <1>12, <2>1
  <1> QED
    BY <1>17, <1>18, <1>19 DEF n, V

LEMMA UnfoldedEmpty == Unfolded(<<>>) = <<>>
  <1>1. <<>> \in Seq(Groups({})) /\ Len(<<>>) = 0
    OBVIOUS
  <1>2. PICK f \in [0 .. 0 -> Seq({})] : f[0] = <<>> /\ Unfolded(<<>>) = f[0]
    BY <1>1, UnfoldedSteps
  <1> QED
    BY <1>2

\* What comes first is unfolded first.
LEMMA UnfoldedAppend ==
    ASSUME NEW P, NEW gs \in Seq(Groups(P)), NEW g \in Groups(P)
    PROVE  /\ Unfolded(gs) \in Seq(P)
           /\ Unfolded(Append(gs, g)) = Unfolded(gs) \o Repeated(g)
  <1> DEFINE n == Len(gs)
             hs == Append(gs, g)
  <1>1. /\ n \in Nat /\ hs \in Seq(Groups(P)) /\ Len(hs) = n + 1 /\ hs[n + 1] = g
        /\ \A i \in 1 .. n : hs[i] = gs[i]
    OBVIOUS
  <1>2. PICK f \in [0 .. n -> Seq(P)] :
              /\ f[0] = <<>> /\ \A k \in 0 .. n - 1 : f[k + 1] = f[k] \o Repeated(gs[k + 1])
              /\ Unfolded(gs) = f[n]
    BY UnfoldedSteps
  <1>3. PICK h \in [0 .. Len(hs) -> Seq(P)] :
              /\ h[0] = <<>> /\ \A k \in 0 .. Len(hs) - 1 : h[k + 1] = h[k] \o Repeated(hs[k + 1])
              /\ Unfolded(hs) = h[Len(hs)]
    <2> HIDE DEF hs, n
    <2> QED
      BY <1>1, UnfoldedSteps
  <1> HIDE DEF n, hs
  <1> DEFINE T == {k \in Nat : k <= n => h[k] = f[k]}
  <1>4. 0 \in T
    BY <1>2, <1>3
  <1>5. ASSUME NEW k \in T PROVE k + 1 \in T
    <2> SUFFICES ASSUME k + 1 <= n PROVE h[k + 1] = f[k + 1]
      OBVIOUS
    <2>1. k \in 0 .. n - 1 /\ k \in 0 .. Len(hs) - 1 /\ k + 1 \in 1 .. n /\ h[k] = f[k]
      BY <1>1
    <2> QED
      BY <1>1, <1>2, <1>3, <2>1
  <1> HIDE DEF T
  <1>6. n \in T
    BY <1>1, <1>4, <1>5, SetInduction
  <1>7. h[n] = f[n]
    BY <1>1, <1>6 DEF T
  <1>8. h[n + 1] = h[n] \o Repeated(hs[n + 1])
    <2>1. n \in 0 .. Len(hs) - 1
      BY <1>1
    <2> QED
      BY <1>3, <2>1
  <1>9. f[n] \in Seq(P)
    BY <1>1, <1>2
  <1> QED
    BY <1>1, <1>2, <1>3, <1>7, <1>8, <1>9 DEF hs

\* Counting one more of a part adds it at the end.
LEMMA RepeatedMore ==
    ASSUME NEW P, NEW p \in P, NEW n \in Nat, NEW s \in Seq(P)
    PROVE  s \o Repeated([part |-> p, count |-> n + 1]) = Append(s \o Repeated([part |-> p, count |-> n]), p)
  <1> DEFINE a == Repeated([part |-> p, count |-> n + 1])
             b == Repeated([part |-> p, count |-> n])
             m == Len(s)
  <1>1. /\ a \in Seq(P) /\ Len(a) = n + 1 /\ \A i \in 1 .. n + 1 : a[i] = p
        /\ b \in Seq(P) /\ Len(b) = n /\ \A i \in 1 .. n : b[i] = p
    <2>1. ASSUME NEW c \in Nat
          PROVE  LET g == [part |-> p, count |-> c]
                 IN  /\ Repeated(g) \in Seq(P) /\ Len(Repeated(g)) = c
                     /\ \A i \in 1 .. c : Repeated(g)[i] = p
      <3> DEFINE g == [part |-> p, count |-> c]
      <3>1. g \in Groups(P) /\ g.count = c /\ g.part = p
        BY DEF Groups
      <3> HIDE DEF g
      <3>2. /\ Repeated(g) \in Seq(P) /\ Len(Repeated(g)) = c
            /\ \A i \in 1 .. c : Repeated(g)[i] = p
        BY <3>1, RepeatedType
      <3> QED
        BY <3>2 DEF g
    <2>2. n + 1 \in Nat
      OBVIOUS
    <2> QED
      BY <2>1, <2>2
  <1>2. m \in Nat
    OBVIOUS
  <1> HIDE DEF a, b
  <1>3. /\ s \o a \in Seq(P) /\ Len(s \o a) = m + (n + 1)
        /\ \A i \in 1 .. m + (n + 1) : (s \o a)[i] = IF i <= m THEN s[i] ELSE a[i - m]
    <2>1. /\ s \o a \in Seq(P) /\ Len(s \o a) = Len(s) + Len(a)
          /\ \A i \in 1 .. Len(s) + Len(a) : (s \o a)[i] = IF i <= Len(s) THEN s[i] ELSE a[i - Len(s)]
      BY <1>1, ConcatProperties
    <2> QED
      BY <1>1, <2>1
  <1>4. /\ s \o b \in Seq(P) /\ Len(s \o b) = m + n
        /\ \A i \in 1 .. m + n : (s \o b)[i] = IF i <= m THEN s[i] ELSE b[i - m]
    <2>1. /\ s \o b \in Seq(P) /\ Len(s \o b) = Len(s) + Len(b)
          /\ \A i \in 1 .. Len(s) + Len(b) : (s \o b)[i] = IF i <= Len(s) THEN s[i] ELSE b[i - Len(s)]
      BY <1>1, ConcatProperties
    <2> QED
      BY <1>1, <2>1
  <1> DEFINE c == Append(s \o b, p)
  <1>5. /\ c \in Seq(P) /\ Len(c) = (m + n) + 1 /\ c[(m + n) + 1] = p
        /\ \A i \in 1 .. m + n : c[i] = (s \o b)[i]
    BY <1>4
  <1> HIDE DEF c, m
  <1>6. \A i \in 1 .. m + (n + 1) : (s \o a)[i] = c[i]
    <2> SUFFICES ASSUME NEW i \in 1 .. m + (n + 1) PROVE (s \o a)[i] = c[i]
      OBVIOUS
    <2>1. CASE i <= m
      BY <1>2, <1>3, <1>4, <1>5, <2>1
    <2>2. CASE i > m /\ i <= m + n
      <3>1. i - m \in 1 .. n /\ i - m \in 1 .. n + 1 /\ i \in 1 .. m + n /\ ~(i <= m)
        BY <1>2, <2>2
      <3> QED
        BY <1>1, <1>3, <1>4, <1>5, <3>1
    <2>3. CASE i = (m + n) + 1
      <3>1. i - m \in 1 .. n + 1 /\ ~(i <= m)
        BY <1>2, <2>3
      <3> QED
        BY <1>1, <1>3, <1>5, <2>3, <3>1
    <2>4. i <= m \/ (i > m /\ i <= m + n) \/ i = (m + n) + 1
      BY <1>2
    <2> QED
      BY <2>1, <2>2, <2>3, <2>4
  <1>7. Len(s \o a) = Len(c)
    BY <1>2, <1>3, <1>5
  <1>8. s \o a = c
    BY <1>3, <1>5, <1>6, <1>7, SeqEqual
  <1> QED
    BY <1>8 DEF a, b, c

LEMMA AddPartUnfolds ==
    ASSUME NEW P, NEW gs \in Seq(Groups(P)), NEW p \in P
    PROVE  /\ AddPart(gs, p) \in Seq(Groups(P))
           /\ Unfolded(AddPart(gs, p)) = Append(Unfolded(gs), p)
  <1> DEFINE one == [part |-> p, count |-> 1]
             none == [part |-> p, count |-> 0]
             n == Len(gs)
  <1>1. one \in Groups(P) /\ n \in Nat /\ Unfolded(gs) \in Seq(P)
    <2>1. one \in Groups(P)
      BY DEF Groups
    <2> HIDE DEF one
    <2> QED
      BY <2>1, UnfoldedAppend
  <1>2. CASE gs # <<>> /\ Last(gs).part = p
    <2> DEFINE front == SubSeq(gs, 1, n - 1)
               last == gs[n]
               more == [last EXCEPT !.count = @ + 1]
    <2>1. n >= 1 /\ last \in Groups(P) /\ last.part = p
      BY <1>2 DEF Last
    <2>2. last.count \in Nat /\ last = [part |-> p, count |-> last.count]
      BY <2>1 DEF Groups
    <2>3. more = [part |-> p, count |-> last.count + 1] /\ more \in Groups(P)
      BY <2>1, <2>2 DEF Groups
    <2>4. front \in Seq(Groups(P)) /\ Len(front) = n - 1 /\ \A i \in 1 .. n - 1 : front[i] = gs[i]
      <3>1. 1 \in Int /\ n - 1 \in Int /\ \A i \in 1 .. n - 1 : gs[i] \in Groups(P)
        BY <1>1
      <3>2. /\ front \in Seq(Groups(P)) /\ Len(front) = IF 1 <= n - 1 THEN (n - 1) - 1 + 1 ELSE 0
            /\ \A i \in 1 .. (n - 1) - 1 + 1 : front[i] = gs[1 + i - 1]
        <4> HIDE DEF n
        <4> QED
          BY <3>1, SubSeqProperties
      <3> HIDE DEF n, front
      <3> QED
        BY <1>1, <2>1, <3>2
    <2> HIDE DEF front
    <2>5. gs = Append(front, last)
      <3>1. /\ Append(front, last) \in Seq(Groups(P)) /\ Len(Append(front, last)) = n
            /\ \A i \in 1 .. n : Append(front, last)[i] = gs[i]
        BY <1>1, <2>1, <2>4
      <3> QED
        BY <3>1, SeqEqual
    <2>6. AddPart(gs, p) = Append(front, more)
      <3>1. AddPart(gs, p) = [gs EXCEPT ![n] = more]
        BY <1>2, <2>1 DEF AddPart
      <3>2. /\ [gs EXCEPT ![n] = more] \in Seq(Groups(P)) /\ Len([gs EXCEPT ![n] = more]) = n
            /\ \A i \in 1 .. n : [gs EXCEPT ![n] = more][i] = IF i = n THEN more ELSE gs[i]
        <4> HIDE DEF more, last
        <4>1. n \in 1 .. Len(gs)
          BY <1>1, <2>1
        <4> QED
          BY <2>3, <4>1, ExceptSeq
      <3>3. /\ Append(front, more) \in Seq(Groups(P)) /\ Len(Append(front, more)) = n
            /\ \A i \in 1 .. n : Append(front, more)[i] = IF i = n THEN more ELSE gs[i]
        <4> HIDE DEF more, last
        <4> QED
          BY <1>1, <2>1, <2>3, <2>4
      <3> HIDE DEF more, last
      <3>4. [gs EXCEPT ![n] = more] = Append(front, more)
        BY <3>2, <3>3, SeqEqual
      <3> QED
        BY <3>1, <3>4
    <2> HIDE DEF last, more
    <2>7. /\ Unfolded(gs) = Unfolded(front) \o Repeated(last) /\ Unfolded(front) \in Seq(P)
          /\ Unfolded(AddPart(gs, p)) = Unfolded(front) \o Repeated(more)
      BY <2>1, <2>3, <2>4, <2>5, <2>6, UnfoldedAppend
    <2>8. Unfolded(front) \o Repeated(more) = Append(Unfolded(front) \o Repeated(last), p)
      BY <2>2, <2>3, <2>7, RepeatedMore
    <2>9. Append(front, more) \in Seq(Groups(P))
      BY <2>3, <2>4
    <2> QED
      BY <2>6, <2>7, <2>8, <2>9
  <1>3. CASE ~(gs # <<>> /\ Last(gs).part = p)
    <2>1. AddPart(gs, p) = Append(gs, one)
      BY <1>3 DEF AddPart
    <2>2. Unfolded(Append(gs, one)) = Unfolded(gs) \o Repeated(one)
      BY <1>1, UnfoldedAppend
    <2>3. Unfolded(gs) \o Repeated(one) = Append(Unfolded(gs) \o Repeated(none), p)
      <3>1. Unfolded(gs) \o Repeated([part |-> p, count |-> 0 + 1])
               = Append(Unfolded(gs) \o Repeated([part |-> p, count |-> 0]), p)
        BY <1>1, RepeatedMore
      <3> QED
        BY <3>1
    <2>4. Repeated(none) = <<>>
      BY DEF Repeated
    <2>5. Unfolded(gs) \o <<>> = Unfolded(gs)
      BY <1>1, ConcatEmptySeq
    <2>6. Append(gs, one) \in Seq(Groups(P))
      BY <1>1
    <2> QED
      BY <2>1, <2>2, <2>3, <2>4, <2>5, <2>6
  <1> QED
    BY <1>2, <1>3

\* Grouping takes the parts one after the other.
LEMMA GroupedSteps ==
    ASSUME NEW P, NEW parts \in Seq(P)
    PROVE  \E f \in [0 .. Len(parts) -> Seq(Groups(P))] :
              /\ f[0] = <<>> /\ \A k \in 0 .. Len(parts) - 1 : f[k + 1] = AddPart(f[k], parts[k + 1])
              /\ Grouped(parts) = f[Len(parts)]
  <1> DEFINE n == Len(parts)
             V == Seq(Groups(P))
             F == [x \in V \X (1 .. n) |-> AddPart(x[1], parts[x[2]])]
             Eq(h) == h = [s \in SUBSET (1 .. n) |-> IF s = {} THEN <<>>
                                                     ELSE AddPart(h[s \ {Max(s)}], parts[Max(s)])]
             h == CHOOSE h : Eq(h)
  <1>1. n \in Nat /\ DOMAIN parts = 1 .. n /\ \A i \in 1 .. n : parts[i] \in P
    OBVIOUS
  <1>2. <<>> \in V
    OBVIOUS
  <1>3. \A v \in V, i \in 1 .. n : AddPart(v, parts[i]) \in V
    BY <1>1, AddPartUnfolds
  <1>4. F \in [V \X (1 .. n) -> V]
    BY <1>3
  <1>5. \A v \in V, i \in 1 .. n : F[<<v, i>>] = AddPart(v, parts[i])
    OBVIOUS
  <1> HIDE DEF F, V
  <1>6. PICK g \in [SUBSET (1 .. n) -> V] : Folds(g, F, <<>>, n)
    BY <1>1, <1>2, <1>4, FoldsExist
  <1>7. \A s \in SUBSET (1 .. n) : s # {} => Max(s) \in s /\ s \ {Max(s)} \in SUBSET (1 .. n)
    BY <1>1, LastNumber
  <1>8. Eq(g)
    <2>1. ASSUME NEW s \in SUBSET (1 .. n)
          PROVE  g[s] = IF s = {} THEN <<>> ELSE AddPart(g[s \ {Max(s)}], parts[Max(s)])
      <3>1. CASE s = {}
        BY <1>6, <3>1 DEF Folds
      <3>2. CASE s # {}
        <4>1. g[s \ {Max(s)}] \in V /\ Max(s) \in 1 .. n
          BY <1>6, <1>7, <3>2
        <4>2. g[s] = F[<<g[s \ {Max(s)}], Max(s)>>]
          BY <1>6, <3>2 DEF Folds
        <4> QED
          BY <1>5, <3>2, <4>1, <4>2
      <3> QED
        BY <3>1, <3>2
    <2>2. g = [s \in SUBSET (1 .. n) |-> g[s]]
      BY <1>6
    <2> HIDE DEF n
    <2> QED
      BY <2>1, <2>2
  <1>9. Eq(h)
    BY <1>8
  <1>10. Grouped(parts) = LET iter[s \in SUBSET DOMAIN parts] ==
                                IF s = {} THEN <<>> ELSE AddPart(iter[s \ {Max(s)}], parts[Max(s)])
                          IN  iter[DOMAIN parts]
    BY DEF Grouped, FoldLeft, MapThenFoldSet, AddPart
  <1>11. Grouped(parts) = h[1 .. n]
    BY <1>1, <1>10
  <1>12. /\ h[1 .. 0] = <<>>
         /\ \A k \in 0 .. n - 1 : h[1 .. k + 1] = AddPart(h[1 .. k], parts[k + 1])
    <2>1. \A s \in SUBSET (1 .. n) : h[s] = IF s = {} THEN <<>> ELSE AddPart(h[s \ {Max(s)}], parts[Max(s)])
      <3> HIDE DEF h, n
      <3> QED
        BY <1>9
    <2> HIDE DEF h
    <2>2. 1 .. 0 = {} /\ 1 .. 0 \in SUBSET (1 .. n)
      OBVIOUS
    <2>3. ASSUME NEW k \in 0 .. n - 1 PROVE h[1 .. k + 1] = AddPart(h[1 .. k], parts[k + 1])
      <3>1. k \in Nat /\ 1 .. k + 1 \in SUBSET (1 .. n)
        BY <1>1
      <3> QED
        BY <2>1, <3>1, LastOfFirst
    <2> QED
      BY <2>1, <2>2, <2>3
  <1> HIDE DEF h, n
  <1> DEFINE f == [k \in 0 .. n |-> h[1 .. k]]
             T == {k \in Nat : k <= n => h[1 .. k] \in V}
  <1>13. 0 \in T
    BY <1>2, <1>12
  <1>14. ASSUME NEW k \in T PROVE k + 1 \in T
    <2> SUFFICES ASSUME k + 1 <= n PROVE h[1 .. k + 1] \in V
      OBVIOUS
    <2>1. k \in 0 .. n - 1 /\ k + 1 \in 1 .. n /\ h[1 .. k] \in V
      BY <1>1
    <2> QED
      BY <1>3, <1>12, <2>1
  <1> HIDE DEF T
  <1>15. Nat \subseteq T
    BY <1>13, <1>14, SetInduction
  <1>16. \A k \in 0 .. n : h[1 .. k] \in V
    BY <1>15 DEF T
  <1>17. f \in [0 .. n -> V]
    BY <1>16
  <1>18. f[0] = <<>> /\ f[n] = Grouped(parts)
    BY <1>1, <1>11, <1>12
  <1>19. \A k \in 0 .. n - 1 : f[k + 1] = AddPart(f[k], parts[k + 1])
    <2>1. \A k \in 0 .. n - 1 : k \in 0 .. n /\ k + 1 \in 0 .. n
      BY <1>1
    <2> QED
      BY <1>12, <2>1
  <1> QED
    BY <1>17, <1>18, <1>19 DEF n, V

\* Grouping loses nothing.
LEMMA GroupedUnfolds ==
    ASSUME NEW P, NEW parts \in Seq(P)
    PROVE  Grouped(parts) \in Seq(Groups(P)) /\ Unfolded(Grouped(parts)) = parts
  <1> DEFINE n == Len(parts)
             upto(k) == SubSeq(parts, 1, k)
  <1>1. n \in Nat /\ \A i \in 1 .. n : parts[i] \in P
    OBVIOUS
  <1>2. PICK f \in [0 .. n -> Seq(Groups(P))] :
              /\ f[0] = <<>> /\ \A k \in 0 .. n - 1 : f[k + 1] = AddPart(f[k], parts[k + 1])
              /\ Grouped(parts) = f[n]
    BY GroupedSteps
  <1>3. upto(0) = <<>>
    BY SubSeqEmpty
  <1>4. ASSUME NEW k \in 0 .. n - 1 PROVE upto(k + 1) = Append(upto(k), parts[k + 1])
    <2>1. k + 1 \in 1 .. Len(parts) /\ 1 \in 1 .. Len(parts) /\ k + 1 \in 1 .. k + 1 /\ (k + 1) - 1 = k
      BY <1>1
    <2>2. SubSeq(parts, 1, k + 1) = SubSeq(parts, 1, (k + 1) - 1) \o <<parts[k + 1]>>
      <3>1. k + 1 \in 1 .. Len(parts)
        BY <2>1
      <3> QED
        BY <2>1, SubSeqRecursiveSecond
    <2>3. SubSeq(parts, 1, k) \in Seq(P)
      BY <1>1, SubSeqProperties
    <2>4. SubSeq(parts, 1, k) \o <<parts[k + 1]>> = Append(SubSeq(parts, 1, k), parts[k + 1])
      BY <1>1, <2>1, <2>3, AppendIsConcat
    <2> QED
      BY <2>1, <2>2, <2>4
  <1> HIDE DEF upto, n
  <1> DEFINE T == {k \in Nat : k <= n => Unfolded(f[k]) = upto(k)}
  <1>5. 0 \in T
    BY <1>2, <1>3, UnfoldedEmpty
  <1>6. ASSUME NEW k \in T PROVE k + 1 \in T
    <2> SUFFICES ASSUME k + 1 <= n PROVE Unfolded(f[k + 1]) = upto(k + 1)
      OBVIOUS
    <2>1. k \in 0 .. n - 1 /\ k \in 0 .. n /\ k + 1 \in 1 .. n /\ Unfolded(f[k]) = upto(k)
      BY <1>1
    <2>2. f[k] \in Seq(Groups(P)) /\ parts[k + 1] \in P /\ f[k + 1] = AddPart(f[k], parts[k + 1])
      BY <1>1, <1>2, <2>1
    <2>3. Unfolded(f[k + 1]) = Append(Unfolded(f[k]), parts[k + 1])
      BY <2>2, AddPartUnfolds
    <2> QED
      BY <1>4, <2>1, <2>3
  <1> HIDE DEF T
  <1>7. n \in T
    BY <1>1, <1>5, <1>6, SetInduction
  <1>8. Unfolded(f[n]) = upto(n)
    BY <1>1, <1>7 DEF T
  <1>9. upto(n) = parts
    BY SubSeqFull DEF upto, n
  <1>10. f[n] \in Seq(Groups(P))
    BY <1>1, <1>2
  <1> QED
    BY <1>2, <1>8, <1>9, <1>10

\* Folding a name loses nothing.
LEMMA FoldedUnfolds ==
    ASSUME NEW name, IsName(name)
    PROVE  Unfolded(fold_function_name(name)) = name
  <1> DEFINE n == Len(name)
             P == {name[i] : i \in 1 .. n}
             front == Front(name)
             last == [part |-> Last(name), count |-> 1]
  <1>1. n \in Nat \ {0} /\ name \in Seq(P)
    <2>1. n \in Nat \ {0} /\ name = [i \in 1 .. n |-> name[i]]
      BY DEF IsName
    <2> HIDE DEF n
    <2>2. [i \in 1 .. n |-> name[i]] \in [1 .. n -> P]
      OBVIOUS
    <2> QED
      BY <2>1, <2>2, SeqDef
  <1> HIDE DEF P
  <1>2. front = SubSeq(name, 1, n - 1) /\ front \in Seq(P)
    <2>1. front = SubSeq(name, 1, n - 1)
      BY DEF Front
    <2>2. \A i \in 1 .. n - 1 : name[i] \in P
      BY <1>1
    <2>3. SubSeq(name, 1, n - 1) \in Seq(P)
      <3>1. n - 1 \in Int
        BY <1>1
      <3> HIDE DEF n
      <3> QED
        BY <2>2, <3>1, SubSeqProperties
    <2> QED
      BY <2>1, <2>3
  <1>3. last \in Groups(P) /\ Repeated(last) = <<name[n]>> /\ name[n] \in P
    <2>1. Last(name) = name[n] /\ name[n] \in P
      BY <1>1 DEF Last
    <2>2. last \in Groups(P) /\ last.count = 1 /\ last.part = name[n]
      BY <2>1 DEF Groups
    <2> HIDE DEF last
    <2>3. Repeated(last) = [i \in 1 .. 1 |-> name[n]]
      BY <2>2 DEF Repeated
    <2>4. [i \in 1 .. 1 |-> name[n]] = <<name[n]>>
      OBVIOUS
    <2> QED
      BY <2>1, <2>2, <2>3, <2>4
  <1> HIDE DEF front, last
  <1>4. Grouped(front) \in Seq(Groups(P)) /\ Unfolded(Grouped(front)) = front
    BY <1>2, GroupedUnfolds
  <1>5. Unfolded(Append(Grouped(front), last)) = front \o <<name[n]>>
    BY <1>3, <1>4, UnfoldedAppend
  <1>6. SubSeq(name, 1, n - 1) \o <<name[n]>> = name
    <2>1. 1 \in 1 .. Len(name) /\ n \in 1 .. Len(name)
      BY <1>1
    <2>2. SubSeq(name, 1, n) = SubSeq(name, 1, n - 1) \o <<name[n]>>
      BY <1>1, <2>1, SubSeqRecursiveSecond
    <2>3. SubSeq(name, 1, n) = name
      BY <1>1, SubSeqFull
    <2> QED
      BY <2>2, <2>3
  <1> QED
    BY <1>2, <1>5, <1>6 DEF fold_function_name, front, last

-----------------------------------------------------------------------------
(* The frames of an answer *)

\* The token a frame of the answer was resolved with, and the name it gives the callee
TokenOf(q, a) == Tokens[q.modules[a.of.url].sm.map][a.of.line]
NameAt(q, i)  == IF i \in DOMAIN q.out /\ q.out[i].symbolicated THEN TokenOf(q, q.out[i]).name ELSE NoName

\* Frame i is named by its own scope, or by the frame at c, its caller.
NamedBy(q, i, c) ==
    q.out[i].symbolicated =>
        Unfolded(q.out[i].function) =
            get_function_for_token(q.out[i].of.function, TokenOf(q, q.out[i]).scope, NameAt(q, c))

Sent(q) == q.job \in {job[r] : job \in Jobs, r \in Requests} /\ q.frames = InCallerFirst(q.job)

MapsKnown(q) == \A u \in DOMAIN q.modules : q.modules[u].sm.res = "ok" => q.modules[u].sm.map \in DOMAIN Tokens

\* While the frames are processed, from caller to callee
InWork(q) ==
    /\ \E S : q.out \in Seq(S)
    /\ q.pos = Len(q.out) + 1 /\ q.pos <= Len(q.frames) + 1
    /\ \A i \in DOMAIN q.out :
          /\ q.out[i].of = q.frames[i]
          /\ q.out[i].symbolicated => q.frames[i].url \in DOMAIN q.modules /\ q.modules[q.frames[i].url].fetched
          /\ NamedBy(q, i, i - 1)
    /\ q.callsite = NameAt(q, q.pos - 1)
    /\ q.callsite = NoName \/ IsName(q.callsite)

\* When they are returned in the order they were sent in
InOrder(q) ==
    LET caller(i) == IF q.job.order = "callee_first" THEN i + 1 ELSE i - 1
    IN  /\ Len(q.out) = Len(q.job.frames)
        /\ \A i \in DOMAIN q.out : q.out[i].of = q.job.frames[i] /\ NamedBy(q, i, caller(i))

FramesReq(q) ==
    /\ Sent(q) /\ MapsKnown(q)
    /\ q.pc # "done" => InWork(q)
    /\ q.pc = "done" => InOrder(q)

FramesInv == BudgetInv /\ \A r \in Requests : FramesReq(req[r])

LEMMA FramesOneRequest ==
    ASSUME NEW r \in Requests, NEW q, FramesInv, BudgetInv', req' = [req EXCEPT ![r] = q], FramesReq(q)
    PROVE  FramesInv'
  <1>1. \A x \in Requests : req'[x] = IF x = r THEN q ELSE req[x]
    BY DEF FramesInv, BudgetInv, Inv
  <1> QED
    BY <1>1 DEF FramesInv

\* What a search for a file leaves as it is
SameWork(p, q) ==
    /\ q.job = p.job /\ q.frames = p.frames /\ q.pos = p.pos /\ q.out = p.out
    /\ q.callsite = p.callsite /\ q.modules = p.modules
    /\ p.pc # "done" /\ q.pc # "done"

LEMMA FramesSame ==
    ASSUME NEW p, NEW q, FramesReq(p), SameWork(p, q)
    PROVE  FramesReq(q)
  <1>1. Sent(q) /\ MapsKnown(q) /\ InWork(p)
    BY DEF FramesReq, SameWork, Sent, MapsKnown
  <1>2. \A i : NameAt(q, i) = NameAt(p, i)
    BY DEF SameWork, NameAt, TokenOf
  <1>3. \A i, c : NamedBy(p, i, c) => NamedBy(q, i, c)
    BY <1>2 DEF SameWork, NamedBy, TokenOf
  <1>4. InWork(q)
    BY <1>1, <1>2, <1>3 DEF SameWork, InWork
  <1> QED
    BY <1>1, <1>4 DEF FramesReq, SameWork

LEMMA FoundWork ==
    ASSUME NEW q, NEW e, IsReq(q), q.pc # "done"
    PROVE  SameWork(q, Found(q, e))
  BY DEF Found, IsReq, ReqFields, SameWork

\* The steps of a search
LEMMA SearchWork ==
    ASSUME NEW r \in Requests, Inv,
           \/ StartModule(r) \/ StartSource(r) \/ GetFile(r) \/ QueryDone(r) \/ Retry(r) \/ ScrapeRefused(r)
           \/ GotSourceMap(r) \/ GotSource(r)
           \/ \E fail \in BOOLEAN : QuerySentry(r, fail) \/ Scrape(r, fail)
           \/ \E b \in req[r].queue, fail \in BOOLEAN : EnsureBundle(r, b, fail)
           \/ \E res \in {"ok", "download", "notfound"} : FetchArtifact(r, res)
    PROVE  \E q : req' = [req EXCEPT ![r] = q] /\ SameWork(req[r], q)
  <1> DEFINE q == req[r]
  <1>1. IsReq(q) /\ req = [x \in Requests |-> req[x]]
    BY DEF Inv, ReqInv
  <1>2. ASSUME NEW e, req' = [req EXCEPT ![r] = Found(q, e)], q.pc # "done"
        PROVE  \E p : req' = [req EXCEPT ![r] = p] /\ SameWork(q, p)
    BY <1>1, <1>2, FoundWork
  <1>3. ASSUME NEW pc, req' = [req EXCEPT ![r].pc = pc], q.pc # "done", pc # "done"
        PROVE  \E p : req' = [req EXCEPT ![r] = p] /\ SameWork(q, p)
    <2> DEFINE p == [q EXCEPT !.pc = pc]
    <2>1. req' = [req EXCEPT ![r] = p]
      BY <1>3
    <2>2. SameWork(q, p)
      BY <1>1, <1>3 DEF IsReq, ReqFields, SameWork
    <2> QED
      BY <2>1, <2>2
  <1>4. CASE StartModule(r) \/ StartSource(r)
    <2>1. q.pc = "frame" /\ \E key : req' = [req EXCEPT ![r].pc = "file", ![r].key = key]
      BY <1>4, Zenon DEF StartModule, StartSource
    <2>2. PICK key : req' = [req EXCEPT ![r].pc = "file", ![r].key = key]
      BY <2>1
    <2> DEFINE p == [q EXCEPT !.pc = "file", !.key = key]
    <2>3. req' = [req EXCEPT ![r] = p]
      BY <1>1, <2>2 DEF IsReq, ReqFields
    <2>4. SameWork(q, p)
      BY <1>1, <2>1 DEF IsReq, ReqFields, SameWork
    <2> QED
      BY <2>3, <2>4
  <1>5. CASE GetFile(r) \/ QueryDone(r) \/ Retry(r) \/ GotSourceMap(r)
    <2>1. /\ q.pc # "done"
          /\ \/ \E e : req' = [req EXCEPT ![r] = Found(q, e)]
             \/ \E pc \in {"artifact", "query", "retry", "scrape", "smcache"} : req' = [req EXCEPT ![r].pc = pc]
      <3>1. CASE GetFile(r)
        BY <3>1 DEF GetFile
      <3>2. CASE QueryDone(r) \/ GotSourceMap(r)
        BY <3>2 DEF QueryDone, GotSourceMap
      <3>3. CASE Retry(r)
        BY <3>3 DEF Retry
      <3> QED
        BY <1>5, <3>1, <3>2, <3>3
    <2> QED
      BY <1>2, <1>3, <2>1
  <1>6. CASE ScrapeRefused(r) \/ \E fail \in BOOLEAN : Scrape(r, fail)
    <2>1. q.pc = "scrape" /\ \E e, a : req' = [req EXCEPT ![r].pc = "got", ![r].got = e, ![r].attempts = a]
      <3>1. CASE ScrapeRefused(r)
        <4> DEFINE uri == <<"scraped", q.key.url>>
                   refusal == IF q.key.url = NoUrl THEN <<Invalid, q.attempts>>
                              ELSE IF q.key.url.scheme = "" THEN <<Failed(uri, "download"), q.attempts>>
                              ELSE IF ~q.job.scraping THEN <<Failed(uri, "disabled"), Attempt(q, "disabled")>>
                              ELSE <<Failed(uri, "download"), Attempt(q, "invalid_host")>>
        <4>1. /\ q.pc = "scrape"
              /\ req' = [req EXCEPT ![r].pc = "got", ![r].got = refusal[1], ![r].attempts = refusal[2]]
          BY <3>1 DEF ScrapeRefused
        <4> HIDE DEF refusal
        <4> QED
          BY <4>1, Zenon
      <3>2. CASE \E fail \in BOOLEAN : Scrape(r, fail)
        <4> DEFINE u == [q.key.url EXCEPT !.fragment = FALSE]
        <4>1. PICK fail \in BOOLEAN : Scrape(r, fail)
          BY <3>2
        <4> DEFINE f == IF u \in DOMAIN scraped THEN scraped[u]
                        ELSE IF fail THEN Failed(<<"scraped", u>>, "download")
                        ELSE IF u \notin DOMAIN Website THEN Failed(<<"scraped", u>>, "notfound")
                        ELSE Entry(<<"scraped", u>>, "ok", Website[u][web].ver,
                                   Resolve(q.key.url, Website[u][web].ref), Website[u][web].id)
                   attempts == Attempt(q, IF f.res = "ok" THEN "success" ELSE f.res)
        <4>2. /\ q.pc = "scrape"
              /\ req' = [req EXCEPT ![r].pc = "got", ![r].got = f, ![r].attempts = attempts]
          BY <4>1 DEF Scrape
        <4> HIDE DEF f, attempts
        <4> QED
          BY <4>2, Zenon
      <3> QED
        BY <1>6, <3>1, <3>2
    <2>2. PICK e, a : req' = [req EXCEPT ![r].pc = "got", ![r].got = e, ![r].attempts = a]
      BY <2>1
    <2> DEFINE p == [q EXCEPT !.pc = "got", !.got = e, !.attempts = a]
    <2>3. req' = [req EXCEPT ![r] = p]
      BY <1>1, <2>2 DEF IsReq, ReqFields
    <2>4. SameWork(q, p)
      BY <1>1, <2>1 DEF IsReq, ReqFields, SameWork
    <2> QED
      BY <2>3, <2>4
  <1>7. CASE GotSource(r)
    <2>1. q.pc = "got"
      BY <1>7 DEF GotSource
    <2>2. PICK files, left : req' = [req EXCEPT ![r] = [q EXCEPT !.pc = "frame", !.files = files, !.budget = left]]
      <3> DEFINE files == With(q.files, q.key, Budgeted(q, q.got))
                 left == BudgetLeft(q, q.got)
      <3>1. req' = [req EXCEPT ![r].pc = "frame", ![r].files = With(@, q.key, Budgeted(q, q.got)), ![r].budget = left]
        BY <1>7 DEF GotSource
      <3>2. req' = [req EXCEPT ![r] = [q EXCEPT !.pc = "frame", !.files = files, !.budget = left]]
        BY <1>1, <3>1 DEF IsReq, ReqFields
      <3> QED
        BY <3>2
    <2> DEFINE p == [q EXCEPT !.pc = "frame", !.files = files, !.budget = left]
    <2>3. SameWork(q, p)
      BY <1>1, <2>1 DEF IsReq, ReqFields, SameWork
    <2> QED
      BY <2>2, <2>3
  <1>8. CASE \E fail \in BOOLEAN : QuerySentry(r, fail)
    <2>1. q.pc = "query"
      BY <1>8 DEF QuerySentry
    <2>2. \/ req' = [req EXCEPT ![r].pc = "retry", ![r].fresh = FALSE]
          \/ req' = [req EXCEPT ![r] = [q EXCEPT !.pc = "retry", !.fresh = FALSE]]
          \/ \E fresh, all, queue : req' = [req EXCEPT ![r] =
                [q EXCEPT !.pc = "bundles", !.fresh = fresh, !.artifacts = all, !.queue = queue]]
      <3>1. PICK fail \in BOOLEAN : QuerySentry(r, fail)
        BY <1>8
      <3> DEFINE a == IF QueryOf(q) \in DOMAIN api THEN api[QueryOf(q)] ELSE Answer(QueryOf(q))
                 fresh == a.artifacts \ q.artifacts # {}
                 all == q.artifacts \cup a.artifacts
                 queue == a.bundles
                 told == [q EXCEPT !.pc = "bundles", !.fresh = fresh, !.artifacts = all, !.queue = queue]
                 idle == [q EXCEPT !.pc = "retry", !.fresh = FALSE]
      <3>2. \/ req' = [req EXCEPT ![r].pc = "retry", ![r].fresh = FALSE]
            \/ req' = [req EXCEPT ![r] = IF fail THEN idle ELSE told]
        BY <3>1 DEF QuerySentry
      <3>3. CASE req' = [req EXCEPT ![r] = told]
        <4> HIDE DEF fresh, all, queue
        <4> QED
          BY <3>3, Zenon
      <3> HIDE DEF told
      <3> QED
        BY <3>2, <3>3
    <2>3. CASE req' = [req EXCEPT ![r].pc = "retry", ![r].fresh = FALSE]
      <3> DEFINE p == [q EXCEPT !.pc = "retry", !.fresh = FALSE]
      <3>1. req' = [req EXCEPT ![r] = p]
        BY <1>1, <2>3 DEF IsReq, ReqFields
      <3>2. SameWork(q, p)
        BY <1>1, <2>1 DEF IsReq, ReqFields, SameWork
      <3> QED
        BY <3>1, <3>2
    <2>4. CASE req' = [req EXCEPT ![r] = [q EXCEPT !.pc = "retry", !.fresh = FALSE]]
      <3> DEFINE p == [q EXCEPT !.pc = "retry", !.fresh = FALSE]
      <3>1. SameWork(q, p)
        BY <1>1, <2>1 DEF IsReq, ReqFields, SameWork
      <3> QED
        BY <2>4, <3>1
    <2>5. CASE \E fresh, all, queue : req' = [req EXCEPT ![r] =
                  [q EXCEPT !.pc = "bundles", !.fresh = fresh, !.artifacts = all, !.queue = queue]]
      <3>1. PICK fresh, all, queue : req' = [req EXCEPT ![r] =
                  [q EXCEPT !.pc = "bundles", !.fresh = fresh, !.artifacts = all, !.queue = queue]]
        BY <2>5
      <3> DEFINE p == [q EXCEPT !.pc = "bundles", !.fresh = fresh, !.artifacts = all, !.queue = queue]
      <3>2. SameWork(q, p)
        BY <1>1, <2>1 DEF IsReq, ReqFields, SameWork
      <3> QED
        BY <3>1, <3>2
    <2> QED
      BY <2>2, <2>3, <2>4, <2>5
  <1>9. CASE \E b \in req[r].queue, fail \in BOOLEAN : EnsureBundle(r, b, fail)
    <2>1. q.pc = "bundles"
      BY <1>9 DEF EnsureBundle
    <2>2. \E queue, fresh, bundles :
             req' = [req EXCEPT ![r] = [q EXCEPT !.queue = queue, !.fresh = fresh, !.bundles = bundles]]
      <3>1. PICK b \in q.queue, fail \in BOOLEAN : EnsureBundle(r, b, fail)
        BY <1>9
      <3>2. CASE req' = [req EXCEPT ![r].queue = @ \ {b}]
        <4>1. req' = [req EXCEPT ![r] = [q EXCEPT !.queue = q.queue \ {b}, !.fresh = q.fresh, !.bundles = q.bundles]]
          BY <1>1, <3>2 DEF IsReq, ReqFields
        <4> QED
          BY <4>1
      <3>3. ASSUME NEW o, req' = [req EXCEPT ![r].queue = @ \ {b}, ![r].fresh = TRUE, ![r].bundles = With(@, b, o)]
            PROVE  \E queue, fresh, bundles :
                      req' = [req EXCEPT ![r] = [q EXCEPT !.queue = queue, !.fresh = fresh, !.bundles = bundles]]
        <4>1. req' = [req EXCEPT ![r] = [q EXCEPT !.queue = q.queue \ {b}, !.fresh = TRUE, !.bundles = With(q.bundles, b, o)]]
          BY <1>1, <3>3 DEF IsReq, ReqFields
        <4> QED
          BY <4>1
      <3> QED
        BY <3>1, <3>2, <3>3 DEF EnsureBundle
    <2>3. PICK queue, fresh, bundles :
             req' = [req EXCEPT ![r] = [q EXCEPT !.queue = queue, !.fresh = fresh, !.bundles = bundles]]
      BY <2>2
    <2> DEFINE p == [q EXCEPT !.queue = queue, !.fresh = fresh, !.bundles = bundles]
    <2>4. SameWork(q, p)
      BY <1>1, <2>1 DEF IsReq, ReqFields, SameWork
    <2> QED
      BY <2>3, <2>4
  <1>10. CASE \E res \in {"ok", "download", "notfound"} : FetchArtifact(r, res)
    <2>1. q.pc # "done" /\ \E e : req' = [req EXCEPT ![r] = Found(q, e)]
      BY <1>10, Zenon DEF FetchArtifact
    <2> QED
      BY <1>2, <2>1
  <1> QED
    BY <1>4, <1>5, <1>6, <1>7, <1>8, <1>9, <1>10

LEMMA FramesSearch ==
    ASSUME NEW r \in Requests, FramesInv, BudgetInv',
           \E q : req' = [req EXCEPT ![r] = q] /\ SameWork(req[r], q)
    PROVE  FramesInv'
  <1>1. PICK q : req' = [req EXCEPT ![r] = q] /\ SameWork(req[r], q)
    OBVIOUS
  <1>2. FramesReq(q)
    BY <1>1, FramesSame DEF FramesInv
  <1> QED
    BY <1>1, <1>2, FramesOneRequest

\* The module of a frame is done: no frame before was resolved with it.
LEMMA FramesModuleDone ==
    ASSUME NEW p, NEW min, NEW sm, FramesReq(p), IsReq(p), p.pc # "done",
           FrameUrl(p) \in DOMAIN p.modules, ~p.modules[FrameUrl(p)].fetched,
           IsModule(p.modules[FrameUrl(p)]), sm.res = "ok" => sm.map \in DOMAIN Tokens
    PROVE  FramesReq(ModuleDone(p, min, sm))
  <1> DEFINE q == ModuleDone(p, min, sm)
             w == FrameUrl(p)
             base == IF min.res = "ok" /\ min.ref \notin {NoRef, DataRef} THEN min.ref ELSE w
             done == [p.modules[w] EXCEPT !.fetched = TRUE, !.min = min, !.sm = sm, !.base = base]
             modules == [p.modules EXCEPT ![w] = done]
  <1>1. q = [p EXCEPT !.pc = "frame", !.modules = modules]
    BY DEF ModuleDone, IsReq, ReqFields
  <1>2. done.fetched /\ done.sm = sm
    <2> HIDE DEF base, w
    <2> QED
      BY DEF IsModule, w
  <1> HIDE DEF done
  <1>3. /\ DOMAIN modules = DOMAIN p.modules /\ modules[w] = done
        /\ \A u \in DOMAIN p.modules \ {w} : modules[u] = p.modules[u]
    OBVIOUS
  <1> HIDE DEF modules
  <1>4. /\ q.pc = "frame" /\ q.modules = modules /\ q.job = p.job /\ q.frames = p.frames
        /\ q.pos = p.pos /\ q.out = p.out /\ q.callsite = p.callsite
    BY <1>1 DEF IsReq, ReqFields
  <1> HIDE DEF q
  <1>5. Sent(q) /\ InWork(p) /\ MapsKnown(p)
    BY <1>4 DEF FramesReq, Sent
  <1>6. MapsKnown(q)
    <2> HIDE DEF w
    <2> QED
      BY <1>2, <1>3, <1>4, <1>5 DEF MapsKnown
  <1>7. \A i \in DOMAIN p.out : p.out[i].symbolicated => TokenOf(q, p.out[i]) = TokenOf(p, p.out[i])
    <2> SUFFICES ASSUME NEW i \in DOMAIN p.out, p.out[i].symbolicated
                 PROVE  modules[p.out[i].of.url] = p.modules[p.out[i].of.url]
      BY <1>4 DEF TokenOf
    <2>1. p.out[i].of.url \in DOMAIN p.modules /\ p.modules[p.out[i].of.url].fetched
      BY <1>5 DEF InWork
    <2>2. p.out[i].of.url # w
      BY <2>1
    <2> QED
      BY <1>3, <2>1, <2>2
  <1>8. \A i : NameAt(q, i) = NameAt(p, i)
    BY <1>4, <1>7 DEF NameAt
  <1>9. \A i \in DOMAIN p.out : \A c : NamedBy(p, i, c) => NamedBy(q, i, c)
    BY <1>4, <1>7, <1>8 DEF NamedBy
  <1>10. \A i \in DOMAIN p.out : p.out[i].symbolicated =>
              p.frames[i].url \in DOMAIN modules /\ modules[p.frames[i].url].fetched
    <2> SUFFICES ASSUME NEW i \in DOMAIN p.out, p.out[i].symbolicated
                 PROVE  p.frames[i].url \in DOMAIN modules /\ modules[p.frames[i].url].fetched
      OBVIOUS
    <2>1. p.frames[i].url \in DOMAIN p.modules /\ p.modules[p.frames[i].url].fetched
      BY <1>5 DEF InWork
    <2> HIDE DEF w
    <2> QED
      BY <1>2, <1>3, <2>1
  <1>11. InWork(q)
    BY <1>4, <1>5, <1>8, <1>9, <1>10 DEF InWork
  <1>12. FramesReq(q)
    BY <1>4, <1>5, <1>6, <1>11 DEF FramesReq
  <1> QED
    BY <1>12 DEF q

LEMMA FramesGotMinified ==
    ASSUME NEW r \in Requests, FramesInv, BudgetInv', GotMinified(r)
    PROVE  FramesInv'
  <1> DEFINE q == req[r]
             min == Budgeted(q, q.got)
             left == BudgetLeft(q, q.got)
             spent == [q EXCEPT !.budget = left]
             ref == IF min.res = "ok" THEN min.ref ELSE NoRef
             id == IF q.key.id # None THEN q.key.id ELSE min.id
             embedded == Entry(<<"embedded">>, "ok", min.ver, NoRef, id)
             key == Key("map", ref, id)
             inline == [spent EXCEPT !.pc = "smcache", !.min = min, !.got = embedded]
             further == [spent EXCEPT !.pc = "file", !.min = min, !.key = key]
  <1>1. /\ FramesReq(q) /\ IsReq(q) /\ q.pc = "got" /\ q.key.ty = "min" /\ BudgetReq(q)
        /\ \A u \in DOMAIN q.modules : IsModule(q.modules[u])
    BY DEF GotMinified, FramesInv, BudgetInv, Inv, ReqInv, ModuleInv
  <1>2. FrameUrl(q) \in DOMAIN q.modules /\ ~q.modules[FrameUrl(q)].fetched
    BY <1>1 DEF BudgetReq, Missing, Searching
  <1> HIDE DEF min, left, ref, id, embedded, key
  <1>3. /\ IsReq(spent) /\ spent.pc = q.pc /\ spent.modules = q.modules /\ SameWork(q, spent)
        /\ FrameUrl(spent) = FrameUrl(q)
    BY <1>1 DEF IsReq, ReqFields, SameWork, FrameUrl
  <1> HIDE DEF spent
  <1>4. CASE req' = [req EXCEPT ![r] = ModuleDone(spent, min, NoSourceMap)]
    <2>1. NoSourceMap.res # "ok"
      BY DEF NoSourceMap, None
    <2>2. FramesReq(spent)
      BY <1>1, <1>3, FramesSame
    <2>3. FramesReq(ModuleDone(spent, min, NoSourceMap))
      BY <1>1, <1>2, <1>3, <2>1, <2>2, FramesModuleDone
    <2> QED
      BY <1>4, <2>3, FramesOneRequest
  <1>5. CASE req' = [req EXCEPT ![r] = inline]
    <2>1. SameWork(q, inline)
      BY <1>1, <1>3 DEF IsReq, ReqFields, SameWork
    <2> HIDE DEF inline
    <2> QED
      BY <1>5, <2>1, FramesSearch
  <1>6. CASE req' = [req EXCEPT ![r] = further]
    <2>1. SameWork(q, further)
      BY <1>1, <1>3 DEF IsReq, ReqFields, SameWork
    <2> HIDE DEF further
    <2> QED
      BY <1>6, <2>1, FramesSearch
  <1> QED
    <2>1. GotMinified(r) =>
            req' = [req EXCEPT ![r] =
                IF min.res = "notfound" \/ (ref = NoRef /\ id = None) THEN ModuleDone(spent, min, NoSourceMap)
                ELSE IF ref = DataRef THEN inline ELSE further]
      BY DEF GotMinified, min, left, ref, id, embedded, key, spent
    <2> HIDE DEF inline, further
    <2> QED
      BY <1>4, <1>5, <1>6, <2>1

LEMMA FramesFetchCache ==
    ASSUME NEW r \in Requests, FramesInv, BudgetInv', FetchSourceMapCache(r)
    PROVE  FramesInv'
  <1> DEFINE q == req[r]
             min == q.min
             k == SmcacheKey(min, q.got)
             contents == SourceMapContents(q, q.got)
             c == IF k \in DOMAIN smcaches THEN smcaches[k] ELSE Converted(min, contents)
             failed == IF min.res # "ok" THEN min.res ELSE q.got.res
             found == [c EXCEPT !.found = q.got.origin]
             none == [NoSourceMap EXCEPT !.res = failed]
  <1>1. /\ FramesReq(q) /\ IsReq(q) /\ q.pc = "smcache" /\ BudgetReq(q) /\ SharedInv
        /\ \A u \in DOMAIN q.modules : IsModule(q.modules[u])
    BY DEF FetchSourceMapCache, FramesInv, BudgetInv, Inv, ReqInv, ModuleInv
  <1>2. FrameUrl(q) \in DOMAIN q.modules /\ ~q.modules[FrameUrl(q)].fetched
    BY <1>1 DEF BudgetReq, Missing
  <1>3. IsCache(c) /\ (c.res = "ok" => c.map \in DOMAIN Tokens)
    <2>1. CASE k \in DOMAIN smcaches
      <3>1. k = <<KeyPart(min), KeyPart(q.got)>> /\ c = smcaches[k]
        BY <2>1 DEF SmcacheKey
      <3> HIDE DEF c, k
      <3> QED
        BY <1>1, <2>1, <3>1 DEF SharedInv
    <2>2. CASE k \notin DOMAIN smcaches
      <3>1. c = Converted(min, contents)
        BY <2>2
      <3> HIDE DEF c, contents
      <3> QED
        BY <3>1 DEF Converted, IsCache, NoSourceMap
    <2> QED
      BY <2>1, <2>2
  <1>4. found.res = "ok" => found.map \in DOMAIN Tokens
    <2> HIDE DEF c
    <2> QED
      BY <1>3 DEF IsCache
  <1>5. failed # "ok" => none.res # "ok"
    <2> HIDE DEF failed
    <2> QED
      BY DEF NoSourceMap
  <1>6. \/ req' = [req EXCEPT ![r] = ModuleDone(q, min, found)]
        \/ failed # "ok" /\ req' = [req EXCEPT ![r] = ModuleDone(q, min, none)]
    BY DEF FetchSourceMapCache
  <1> HIDE DEF found, none, failed
  <1>7. FramesReq(ModuleDone(q, min, found))
    BY <1>1, <1>2, <1>4, FramesModuleDone
  <1>8. failed # "ok" => FramesReq(ModuleDone(q, min, none))
    BY <1>1, <1>2, <1>5, FramesModuleDone
  <1> QED
    BY <1>6, <1>7, <1>8, FramesOneRequest

\* What was sent: a sequence of frames with line numbers, processed from the caller on.
LEMMA SentFrames ==
    ASSUME NEW q, Sent(q)
    PROVE  LET n == Len(q.job.frames)
               place(i) == IF q.job.order = "callee_first" THEN (n - i) + 1 ELSE i
           IN  /\ n \in Nat /\ Len(q.frames) = n /\ DOMAIN q.frames = 1 .. n
               /\ \A i \in 1 .. n : /\ q.frames[i] = q.job.frames[place(i)]
                                    /\ q.frames[i].line \in Nat
                                    /\ q.frames[i].function = NoName \/ IsName(q.frames[i].function)
  <1> DEFINE sent == q.job.frames
             n == Len(sent)
             place(i) == IF q.job.order = "callee_first" THEN (n - i) + 1 ELSE i
  <1>1. /\ n \in Nat /\ DOMAIN sent = 1 .. n
        /\ \A i \in 1 .. n : sent[i].line \in Nat /\ (sent[i].function = NoName \/ IsName(sent[i].function))
    <2>1. PICK job \in Jobs, r \in Requests : q.job = job[r]
      BY DEF Sent
    <2>2. IsSeq(job[r].frames)
      BY JsSizes
    <2>3. \A i \in DOMAIN job[r].frames :
              job[r].frames[i].line \in Nat /\ (job[r].frames[i].function = NoName \/ IsName(job[r].frames[i].function))
      BY JsTexts
    <2> QED
      BY <2>1, <2>2, <2>3 DEF IsSeq
  <1>2. \A i \in 1 .. n : place(i) \in 1 .. n
    BY <1>1
  <1>3. Len(q.frames) = n /\ DOMAIN q.frames = 1 .. n /\ \A i \in 1 .. n : q.frames[i] = sent[place(i)]
    <2>1. CASE q.job.order = "callee_first"
      <3>1. q.frames = [i \in 1 .. n |-> sent[(n - i) + 1]]
        BY <2>1 DEF Sent, InCallerFirst, Reverse
      <3>2. Len(q.frames) = n
        BY <1>1, <3>1, ReverseLength
      <3> HIDE DEF n
      <3> QED
        BY <2>1, <3>1, <3>2
    <2>2. CASE q.job.order # "callee_first"
      BY <1>1, <2>2 DEF Sent, InCallerFirst
    <2> QED
      BY <2>1, <2>2
  <1> HIDE DEF place
  <1>4. \A i \in 1 .. n : q.frames[i].line \in Nat /\ (q.frames[i].function = NoName \/ IsName(q.frames[i].function))
    BY <1>1, <1>2, <1>3
  <1> QED
    BY <1>1, <1>3, <1>4 DEF place

\* A frame that is resolved is called by a name.
LEMMA NameOfFrame ==
    ASSUME NEW frame, NEW token, NEW site, IsName(token),
           frame = NoName \/ IsName(frame), site = NoName \/ IsName(site)
    PROVE  IsName(get_function_for_token(frame, token, site))
  BY DEF get_function_for_token

LEMMA FramesSymbolicate ==
    ASSUME NEW r \in Requests, FramesInv, BudgetInv', SymbolicateFrame(r)
    PROVE  FramesInv'
  <1> DEFINE q == req[r]
             n == Len(q.out)
             frame == q.frames[q.pos]
             m == q.modules[frame.url]
             error == FrameError(frame, m)
             mapped == error = None /\ m.sm.res = "ok"
             token == Tokens[m.sm.map][frame.line]
             answer == IF mapped THEN Symbolicated(q, frame, token) ELSE Raw(frame)
             site == IF mapped THEN token.name ELSE NoName
  <1>1. /\ FramesReq(q) /\ IsReq(q) /\ q.pc = "frame" /\ q.pos <= Len(q.frames) /\ BudgetReq(q)
        /\ frame.line = 0 \/ m.fetched
    BY DEF SymbolicateFrame, FramesInv, BudgetInv, Inv, ReqInv
  <1>2. Sent(q) /\ MapsKnown(q) /\ InWork(q)
    BY <1>1 DEF FramesReq
  <1>3. PICK S : q.out \in Seq(S)
    BY <1>2 DEF InWork
  <1>4. n \in Nat /\ q.pos = n + 1 /\ DOMAIN q.out = 1 .. n
    BY <1>2, <1>3 DEF InWork
  <1>5. /\ frame.line \in Nat /\ (frame.function = NoName \/ IsName(frame.function))
        /\ q.pos \in DOMAIN q.frames
    <2> DEFINE sent == q.job.frames
               total == Len(sent)
    <2>1. /\ total \in Nat /\ Len(q.frames) = total /\ DOMAIN q.frames = 1 .. total
          /\ \A i \in 1 .. total : /\ q.frames[i].line \in Nat
                                   /\ q.frames[i].function = NoName \/ IsName(q.frames[i].function)
      BY <1>2, SentFrames
    <2> HIDE DEF total
    <2>2. q.pos \in 1 .. total
      BY <1>1, <1>4, <2>1
    <2> QED
      BY <2>1, <2>2
  <1>6. mapped => /\ frame.url \in DOMAIN q.modules /\ m.fetched /\ m.sm.map \in DOMAIN Tokens /\ frame.line \in DOMAIN Tokens[m.sm.map]
                  /\ IsName(token.scope) /\ (token.name = NoName \/ IsName(token.name))
    <2> SUFFICES ASSUME mapped
                 PROVE  /\ frame.url \in DOMAIN q.modules /\ m.fetched
                        /\ m.sm.map \in DOMAIN Tokens /\ frame.line \in DOMAIN Tokens[m.sm.map]
      BY JsTexts
    <2>1. frame.url \in DOMAIN q.modules
      BY <1>1, <1>5 DEF BudgetReq, Stock
    <2>2. m.sm.map \in DOMAIN Tokens
      BY <1>2, <2>1 DEF MapsKnown
    <2>3. frame.line # 0 /\ m.min.res = "ok" /\ frame.line \in DOMAIN Tokens[m.sm.map]
      <3> HIDE DEF frame, m
      <3>1. frame.line \in Nat /\ FrameError(frame, m) = None /\ m.sm.res = "ok"
        BY <1>5
      <3>2. frame.line # 0
        BY <3>1 DEF FrameError, None
      <3>3. m.min.res = "ok"
        BY <3>1, <3>2 DEF FrameError, None
      <3>4. frame.line \in DOMAIN Tokens[m.sm.map]
        BY <3>1, <3>2, <3>3 DEF FrameError, None
      <3> QED
        BY <3>2, <3>3, <3>4
    <2> QED
      BY <1>1, <2>1, <2>2, <2>3
  <1> HIDE DEF error, mapped
  <1>7. /\ answer.of = frame /\ answer.symbolicated = mapped
        /\ mapped => Unfolded(answer.function) = get_function_for_token(frame.function, token.scope, q.callsite)
    <2>1. CASE mapped
      <3> DEFINE name == get_function_for_token(frame.function, token.scope, q.callsite)
      <3>1. IsName(name)
        BY <1>2, <1>5, <1>6, <2>1, NameOfFrame DEF InWork
      <3>2. Unfolded(fold_function_name(name)) = name
        <4> HIDE DEF name
        <4> QED
          BY <3>1, FoldedUnfolds
      <3>3. /\ answer.of = frame /\ answer.symbolicated = TRUE
            /\ answer.function = fold_function_name(name)
        <4> HIDE DEF frame, token
        <4> QED
          BY <2>1 DEF Symbolicated, frame, token
      <3> QED
        BY <2>1, <3>2, <3>3
    <2>2. CASE ~mapped
      BY <2>2 DEF Raw, mapped
    <2> QED
      BY <2>1, <2>2
  <1>8. PICK errors : req' = [req EXCEPT ![r] =
              [q EXCEPT !.pos = @ + 1, !.out = Append(@, answer), !.callsite = site, !.errors = errors]]
    BY DEF SymbolicateFrame, mapped, error
  <1> DEFINE out == Append(q.out, answer)
             p == [q EXCEPT !.pos = q.pos + 1, !.out = out, !.callsite = site, !.errors = errors]
  <1>9. req' = [req EXCEPT ![r] = p]
    BY <1>8
  <1> HIDE DEF answer, site, token, m, frame
  <1>10. /\ out \in Seq(S \cup {answer}) /\ Len(out) = n + 1 /\ DOMAIN out = 1 .. n + 1
         /\ out[n + 1] = answer /\ \A i \in 1 .. n : out[i] = q.out[i]
    <2>1. q.out \in Seq(S \cup {answer})
      BY <1>3, SeqMonotonic
    <2> QED
      BY <1>4, <2>1
  <1> HIDE DEF out
  <1>11. /\ p.pc = "frame" /\ p.job = q.job /\ p.frames = q.frames /\ p.modules = q.modules
         /\ p.pos = q.pos + 1 /\ p.out = out /\ p.callsite = site
    BY <1>1 DEF IsReq, ReqFields
  <1> HIDE DEF p
  <1>12. Sent(p) /\ MapsKnown(p)
    BY <1>2, <1>11 DEF Sent, MapsKnown
  <1>13. \A a : TokenOf(p, a) = TokenOf(q, a)
    BY <1>11 DEF TokenOf
  <1>14. TokenOf(p, answer) = token
    BY <1>7, <1>11 DEF TokenOf, token, m
  <1>15. /\ \A i \in 0 .. n : NameAt(p, i) = NameAt(q, i)
         /\ NameAt(p, n + 1) = site
    <2>1. ASSUME NEW i \in 0 .. n PROVE NameAt(p, i) = NameAt(q, i)
      <3>1. CASE i = 0
        BY <1>4, <1>10, <1>11, <3>1 DEF NameAt
      <3>2. CASE i \in 1 .. n
        BY <1>4, <1>10, <1>11, <1>13, <3>2 DEF NameAt
      <3> QED
        BY <1>4, <3>1, <3>2
    <2>2. NameAt(p, n + 1) = site
      BY <1>4, <1>7, <1>10, <1>11, <1>14 DEF NameAt, site
    <2> QED
      BY <2>1, <2>2
  <1>16. ASSUME NEW i \in 1 .. n + 1
         PROVE  /\ p.out[i].of = p.frames[i]
                /\ p.out[i].symbolicated =>
                      p.frames[i].url \in DOMAIN p.modules /\ p.modules[p.frames[i].url].fetched
                /\ NamedBy(p, i, i - 1)
    <2>1. CASE i \in 1 .. n
      <3>1. /\ q.out[i].of = q.frames[i] /\ NamedBy(q, i, i - 1)
            /\ q.out[i].symbolicated =>
                  q.frames[i].url \in DOMAIN q.modules /\ q.modules[q.frames[i].url].fetched
        BY <1>2, <1>4, <2>1 DEF InWork
      <3>2. p.out[i] = q.out[i] /\ i - 1 \in 0 .. n
        BY <1>4, <1>10, <1>11, <2>1
      <3>3. NameAt(p, i - 1) = NameAt(q, i - 1)
        BY <1>15, <3>2
      <3>4. NamedBy(p, i, i - 1)
        BY <1>13, <3>1, <3>2, <3>3 DEF NamedBy
      <3> QED
        BY <1>11, <3>1, <3>2, <3>4
    <2>2. CASE i = n + 1
      <3>1. p.out[i] = answer /\ i = q.pos /\ i - 1 = n
        BY <1>4, <1>10, <1>11, <2>2
      <3>2. p.frames[i] = frame
        BY <1>11, <3>1 DEF frame
      <3>3. q.callsite = NameAt(p, n)
        <4>1. q.callsite = NameAt(q, q.pos - 1) /\ q.pos - 1 = n
          BY <1>2, <1>4 DEF InWork
        <4>2. n \in 0 .. n
          BY <1>4
        <4> QED
          BY <1>15, <4>1, <4>2
      <3>4. NamedBy(p, i, i - 1)
        BY <1>7, <1>14, <3>1, <3>3 DEF NamedBy
      <3>5. mapped => p.frames[i].url \in DOMAIN p.modules /\ p.modules[p.frames[i].url].fetched
        BY <1>6, <1>11, <3>2 DEF m
      <3> QED
        BY <1>7, <3>1, <3>2, <3>4, <3>5
    <2> QED
      BY <1>4, <2>1, <2>2
  <1>17. InWork(p)
    <2>1. p.out \in Seq(S \cup {answer}) /\ DOMAIN p.out = 1 .. n + 1
      BY <1>10, <1>11
    <2>2. p.pos = Len(p.out) + 1 /\ p.pos <= Len(p.frames) + 1 /\ p.pos - 1 = n + 1
      <3>1. Len(q.frames) \in Nat
        BY <1>2, SentFrames
      <3> QED
        BY <1>1, <1>4, <1>10, <1>11, <3>1
    <2>3. p.callsite = NameAt(p, p.pos - 1) /\ (p.callsite = NoName \/ IsName(p.callsite))
      BY <1>6, <1>11, <1>15, <2>2 DEF site
    <2> QED
      BY <1>16, <2>1, <2>2, <2>3 DEF InWork
  <1>18. FramesReq(p)
    BY <1>11, <1>12, <1>17 DEF FramesReq
  <1> QED
    BY <1>9, <1>18, FramesOneRequest

\* The answer as it was sent: the caller of a frame in the trace is the frame processed
\* before it.
LEMMA FramesRespond ==
    ASSUME NEW r \in Requests, FramesInv, BudgetInv', Respond(r)
    PROVE  FramesInv'
  <1> DEFINE q == req[r]
             n == Len(q.out)
             reversed == q.job.order = "callee_first"
             place(i) == IF reversed THEN (n - i) + 1 ELSE i
             caller(i) == IF reversed THEN i + 1 ELSE i - 1
             out == IF reversed THEN Reverse(q.out) ELSE q.out
             p == [q EXCEPT !.pc = "done", !.out = out]
  <1>1. FramesReq(q) /\ IsReq(q) /\ q.pc = "frame" /\ q.pos > Len(q.frames)
    BY DEF Respond, FramesInv, BudgetInv, Inv, ReqInv
  <1>2. Sent(q) /\ MapsKnown(q) /\ InWork(q)
    BY <1>1 DEF FramesReq
  <1>3. req' = [req EXCEPT ![r] = p]
    BY <1>1 DEF Respond, FramesInv, BudgetInv, Inv, IsReq, ReqFields
  <1>4. n \in Nat /\ DOMAIN q.out = 1 .. n /\ q.pos = n + 1 /\ q.pos <= Len(q.frames) + 1
    <2>1. PICK S : q.out \in Seq(S)
      BY <1>2 DEF InWork
    <2> QED
      BY <1>2, <2>1 DEF InWork
  <1>5. /\ Len(q.job.frames) = n /\ Len(q.frames) = n
        /\ \A i \in 1 .. n : q.frames[i] = q.job.frames[place(i)]
    <2> DEFINE total == Len(q.job.frames)
               from(i) == IF reversed THEN (total - i) + 1 ELSE i
    <2>1. /\ total \in Nat /\ Len(q.frames) = total
          /\ \A i \in 1 .. total : q.frames[i] = q.job.frames[from(i)]
      BY <1>2, SentFrames
    <2> HIDE DEF total, n
    <2>2. total = n
      BY <1>1, <1>4, <2>1
    <2> QED
      BY <2>1, <2>2 DEF total
  <1>6. \A i \in 1 .. n : place(i) \in 1 .. n /\ place(place(i)) = i
    BY <1>4
  <1>7. Len(out) = n /\ DOMAIN out = 1 .. n /\ \A i \in 1 .. n : out[i] = q.out[place(i)]
    <2>1. CASE reversed
      <3>1. out = [i \in 1 .. n |-> q.out[(n - i) + 1]]
        BY <2>1 DEF Reverse
      <3>2. Len(out) = n
        BY <1>4, <3>1, ReverseLength
      <3> HIDE DEF n, out
      <3> QED
        BY <2>1, <3>1, <3>2
    <2>2. CASE ~reversed
      BY <1>4, <2>2
    <2> QED
      BY <2>1, <2>2
  <1> HIDE DEF out
  <1>8. /\ p.pc = "done" /\ p.job = q.job /\ p.frames = q.frames /\ p.modules = q.modules /\ p.out = out
    BY <1>1 DEF IsReq, ReqFields
  <1> HIDE DEF p, n
  <1>9. Sent(p) /\ MapsKnown(p)
    BY <1>2, <1>8 DEF Sent, MapsKnown
  <1>10. \A a : TokenOf(p, a) = TokenOf(q, a)
    BY <1>8 DEF TokenOf
  <1>11. \A i \in 1 .. n : NameAt(p, caller(i)) = NameAt(q, place(i) - 1)
    <2> SUFFICES ASSUME NEW i \in 1 .. n PROVE NameAt(p, caller(i)) = NameAt(q, place(i) - 1)
      OBVIOUS
    <2>1. /\ caller(i) \in 1 .. n <=> place(i) - 1 \in 1 .. n
          /\ caller(i) \in 1 .. n => place(caller(i)) = place(i) - 1
      BY <1>4
    <2> HIDE DEF place, caller
    <2>2. CASE caller(i) \in 1 .. n
      <3>1. p.out[caller(i)] = q.out[place(i) - 1]
        BY <1>7, <1>8, <2>1, <2>2
      <3> QED
        BY <1>4, <1>7, <1>8, <1>10, <2>1, <2>2, <3>1 DEF NameAt
    <2>3. CASE caller(i) \notin 1 .. n
      BY <1>4, <1>7, <1>8, <2>1, <2>3 DEF NameAt
    <2> QED
      BY <2>2, <2>3
  <1>12. ASSUME NEW i \in 1 .. n
         PROVE  p.out[i].of = p.job.frames[i] /\ NamedBy(p, i, caller(i))
    <2>1. p.out[i] = q.out[place(i)] /\ place(i) \in 1 .. n /\ place(place(i)) = i
      BY <1>6, <1>7, <1>8
    <2>2. NameAt(p, caller(i)) = NameAt(q, place(i) - 1)
      BY <1>11
    <2> HIDE DEF place, caller
    <2>3. q.out[place(i)].of = q.frames[place(i)] /\ NamedBy(q, place(i), place(i) - 1)
      BY <1>2, <1>4, <2>1 DEF InWork
    <2>4. q.frames[place(i)] = q.job.frames[i]
      BY <1>5, <2>1
    <2>5. NamedBy(p, i, caller(i))
      BY <1>10, <2>1, <2>2, <2>3 DEF NamedBy
    <2> QED
      BY <1>8, <2>1, <2>3, <2>4, <2>5
  <1>13. InOrder(p)
    BY <1>5, <1>7, <1>8, <1>12 DEF InOrder
  <1>14. FramesReq(p)
    BY <1>8, <1>9, <1>13 DEF FramesReq
  <1> QED
    BY <1>3, <1>14, FramesOneRequest

LEMMA FramesInit ==
    ASSUME JsInit
    PROVE  FramesInv
  <1>1. BudgetInv
    BY BudgetInit
  <1>2. ASSUME NEW r \in Requests PROVE FramesReq(req[r])
    <2> DEFINE q == req[r]
               modules(job) == [u \in {job.frames[i].url : i \in DOMAIN job.frames} |->
                                   Module(IF u \in DOMAIN job.ids THEN job.ids[u] ELSE None)]
    <2>1. PICK jobs \in Jobs : req = [x \in Requests |->
             [job |-> jobs[x], pc |-> "frame", pos |-> 1, frames |-> InCallerFirst(jobs[x]), out |-> <<>>,
              errors |-> {}, callsite |-> NoName, modules |-> modules(jobs[x]),
              files |-> <<>>, bundles |-> <<>>, artifacts |-> {}, queue |-> {}, fresh |-> FALSE,
              key |-> Key("min", NoUrl, None), got |-> Invalid, min |-> Invalid,
              budget |-> Budget, attempts |-> <<>>]]
      BY DEF JsInit
    <2> DEFINE job == jobs[r]
    <2>2. /\ q.pc = "frame" /\ q.pos = 1 /\ q.job = job /\ q.frames = InCallerFirst(job)
          /\ q.modules = modules(job) /\ q.out = <<>> /\ q.callsite = NoName
      <3> HIDE DEF modules
      <3> QED
        BY <2>1
    <2> HIDE DEF q
    <2>3. Sent(q)
      BY <2>2 DEF Sent
    <2>4. MapsKnown(q)
      BY <2>2 DEF MapsKnown, Module, NoSourceMap, None
    <2>5. InWork(q)
      <3>1. Len(q.frames) \in Nat
        <4> DEFINE total == Len(q.job.frames)
        <4>1. total \in Nat /\ Len(q.frames) = total
          BY <2>3, SentFrames
        <4> QED
          BY <4>1
      <3>2. q.out \in Seq({}) /\ Len(q.out) = 0 /\ DOMAIN q.out = {}
        BY <2>2
      <3>3. NameAt(q, 0) = NoName
        BY <3>2 DEF NameAt
      <3> QED
        BY <2>2, <3>1, <3>2, <3>3 DEF InWork
    <2>6. FramesReq(q)
      BY <2>2, <2>3, <2>4, <2>5 DEF FramesReq
    <2> QED
      BY <2>6 DEF q
  <1> QED
    BY <1>1, <1>2 DEF FramesInv

LEMMA FramesNext ==
    ASSUME FramesInv, [JsNext]_vars
    PROVE  FramesInv'
  <1>1. BudgetInv' /\ Inv
    BY BudgetNext DEF FramesInv, BudgetInv
  <1>2. CASE UNCHANGED req
    BY <1>1, <1>2 DEF FramesInv
  <1>3. ASSUME NEW r \in Requests, JsStep(r)
        PROVE  FramesInv'
    <2>1. CASE GotMinified(r)
      BY <1>1, <2>1, FramesGotMinified
    <2>2. CASE FetchSourceMapCache(r)
      BY <1>1, <2>2, FramesFetchCache
    <2>3. CASE SymbolicateFrame(r)
      BY <1>1, <2>3, FramesSymbolicate
    <2>4. CASE Respond(r)
      BY <1>1, <2>4, FramesRespond
    <2>5. CASE \/ StartModule(r) \/ StartSource(r) \/ GetFile(r) \/ QueryDone(r) \/ Retry(r) \/ ScrapeRefused(r)
               \/ GotSourceMap(r) \/ GotSource(r)
               \/ \E fail \in BOOLEAN : QuerySentry(r, fail) \/ Scrape(r, fail)
               \/ \E b \in req[r].queue, fail \in BOOLEAN : EnsureBundle(r, b, fail)
               \/ \E res \in {"ok", "download", "notfound"} : FetchArtifact(r, res)
      <3>1. \E q : req' = [req EXCEPT ![r] = q] /\ SameWork(req[r], q)
        BY <1>1, <2>5, SearchWork
      <3> QED
        BY <1>1, <3>1, FramesSearch
    <2> QED
      BY <1>3, <2>1, <2>2, <2>3, <2>4, <2>5 DEF JsStep
  <1> QED
    BY <1>2, <1>3 DEF JsNext, Fault, Finished, vars

\* symbolicate_js: however many requests share the caches and whatever a search finds or
\* fails to find, an answer has the frames that were sent, in their order, each resolved
\* frame is named after its own scope or the token of its own caller, and folding its
\* name loses nothing.
THEOREM FramesKeepOrder == JsSpec => []FramesInOrder
  <1>1. JsInit => FramesInv
    BY FramesInit
  <1>2. FramesInv /\ [JsNext]_vars => FramesInv'
    BY FramesNext
  <1>3. FramesInv => FramesInOrder
    <2> SUFFICES ASSUME FramesInv
                 PROVE  FramesInOrder
      OBVIOUS
    <2>1. \A r \in Requests : req[r].pc = "done" => InOrder(req[r])
      BY DEF FramesInv, FramesReq
    <2> QED
      BY <2>1 DEF FramesInOrder, InOrder, NamedBy, NameAt, TokenOf
  <1> QED
    BY <1>1, <1>2, <1>3, PTL DEF JsSpec
=============================================================================
