-------------------------------- MODULE MCJs --------------------------------
(* A small instance of JsLookup: two versions of one script in two bundles, *)
(* a script on the web that changes, and individual artifacts.               *)
EXTENDS JsLookup, TLC

CONSTANTS r1, r2

Path(scheme, host, file) == [scheme |-> scheme, host |-> host, path |-> <<"js", file>>, query |-> FALSE, fragment |-> FALSE]
Web(file) == Path("https", "h", file)
Stored(file) == Path("", "~", file)
Relative(file) == [NoUrl EXCEPT !.path = <<file>>]

InBundle(ty, file, id, ver, ref) == [ty |-> ty, url |-> Stored(file), id |-> id, ver |-> ver, ref |-> ref]

MCBundles == <<
    { InBundle("min", "app", "d1", "min1", Relative("app.map")), InBundle("map", "app.map", "d1", "map1", NoRef),
      InBundle("src", "source", None, "src1", NoRef) },
    { InBundle("min", "app", "d2", "min2", Relative("app.map")), InBundle("map", "other.map", "d2", "map2", NoRef),
      InBundle("map", "app.map", None, "map1", NoRef) } >>

OnWeb(ver, ref) == [ver |-> ver, ref |-> ref, id |-> None]

MCWebsite == (Web("page") :> <<OnWeb("page1", Relative("page.map")), OnWeb("page2", Relative("page.map"))>>)
          @@ (Web("page.map") :> <<OnWeb("map1", NoRef), OnWeb("map2", NoRef)>>)

MCArtifacts ==
       (Stored("single") :> [ver |-> "single1", ref |-> DataRef, id |-> None, headers |-> TRUE])
    @@ (Stored("apart") :> [ver |-> "page1", ref |-> Relative("apart.map"), id |-> None, headers |-> TRUE])
    @@ (Stored("apart.map") :> [ver |-> "map1", ref |-> NoRef, id |-> None, headers |-> TRUE])

Token(name, scope, content) == [name |-> name, scope |-> scope, content |-> content, file |-> Relative("source")]
Anonymous == <<"<anonymous>">>
MCTokens == [ map1    |-> (1 :> Token(<<"f", "g", "g", "f", "h">>, <<"main">>, FALSE)) @@ (2 :> Token(<<"k">>, Anonymous, TRUE)),
              map2    |-> (1 :> Token(NoName, <<"e", "e", "e">>, TRUE)) @@ (2 :> Token(<<"q">>, Anonymous, TRUE)),
              single1 |-> (1 :> Token(<<"s">>, Anonymous, TRUE)) ]

MCSize == [v \in {"min1", "min2", "map1", "map2", "src1", "page1", "page2", "single1", "empty"} |->
              CASE v = "empty" -> 0 [] v \in {"min1", "page1"} -> 2 [] OTHER -> 1]

Frame(file, line) == [url |-> Web(file), line |-> line, function |-> <<"minified">>]
Origin(scheme, path) == [kind |-> "pattern", scheme |-> scheme, hosts |-> {"h"}, path |-> path]

Job(order, frames, ids, release, scraping) ==
    [order |-> order, frames |-> frames, ids |-> ids, release |-> release, scraping |-> scraping,
     origins |-> IF Len(frames) = 3 THEN {Origin("http", <<"js">>), Origin("*", <<"other">>)}
                 ELSE {Origin("https", <<"js">>)},
     context |-> scraping]

Pair(a, b) == [r \in {r1, r2} |-> IF r = r1 THEN a ELSE b]
MCJobs == {
    Pair(Job("caller_first", <<Frame("apart", 1)>>, <<>>, TRUE, TRUE),
         Job("callee_first", <<Frame("apart", 2)>>, <<>>, TRUE, FALSE)),
    Pair(Job("callee_first", <<Frame("app", 2), Frame("app", 1)>>, Web("app") :> "d2", FALSE, FALSE),
         Job("caller_first", <<Frame("app", 1), Frame("single", 1), Frame("app", 2)>>, Web("app") :> "d2", TRUE, TRUE)),
    Pair(Job("caller_first", <<Frame("app", 1), Frame("app", 2), Frame("app", 0)>>, <<>>, TRUE, TRUE),
         Job("callee_first", <<Frame("app", 3), Frame("single", 1)>>, Web("app") :> "d1", TRUE, FALSE)),
    Pair(Job("callee_first", <<Frame("page", 2), Frame("page", 1)>>, <<>>, FALSE, TRUE),
         Job("caller_first", <<Frame("page", 1), Frame("app", 1)>>, <<>>, TRUE, TRUE)) }
MCRequests == {r1, r2}
=============================================================================
