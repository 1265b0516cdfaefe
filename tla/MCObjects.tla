------------------------------ MODULE MCObjects ------------------------------
(* A small instance of ObjectLookup: three sources, one of each kind. *)
EXTENDS ObjectLookup

CONSTANTS r1, r2

MCRequests == {r1, r2}
MCSourceKind == [s \in {"sentry", "symstore", "plain"} |-> IF s = "symstore" THEN "indexed" ELSE s]
MCPublic   == {"symstore", "plain"}
MCScope    == [r \in MCRequests |-> IF r = r1 THEN "one" ELSE "two"]

Entry(name, source, kind, segment) == [name |-> name, source |-> source, kind |-> kind, segment |-> segment]

MCCatalog == << Entry("private", "sentry", "dif", 0), Entry("indexed", "symstore", "dif", 2),
                Entry("public", "plain", "dif", 0),
                Entry("plist", "sentry", "plist", 0), Entry("map", "sentry", "map", 0),
                Entry("lines", "plain", "il2cpp", 0) >>

World(sources, private, indexed, public, one, two) ==
    [content |-> [f \in {"private", "indexed", "public", "plist", "map", "lines"} |->
                    CASE f = "private" -> private [] f = "indexed" -> indexed
                      [] f = "public" -> public   [] OTHER -> "debug"],
     sources |-> sources,
     purpose |-> [r \in MCRequests |-> IF r = r1 THEN one ELSE two]]

MCWorlds == { World(<<"sentry", "plain">>, "missing", "missing", "debug", "symcache", "symcache"),
              World(<<"symstore", "plain">>, "missing", "fat_broken", "symbols", "cfi", "symcache"),
              World(<<"sentry", "symstore", "plain">>, "forbidden", "fat_other", "missing", "cfi", "cfi"),
              World(<<"sentry", "symstore", "plain">>, "torn", "symbols", "unwind", "ppdb", "cfi") }
=============================================================================
