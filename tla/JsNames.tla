------------------------------- MODULE JsNames -------------------------------
(***************************************************************************)
(* URLs, paths and function names of JavaScript events                     *)
(* (symbolicator-js/src/utils.rs).  A URL is split into the parts the code *)
(* looks at: scheme, host, the segments of its path, and whether a query   *)
(* and a fragment follow.  A function name is the sequence of its parts.   *)
(***************************************************************************)
EXTENDS Integers, Sequences, SequencesExt

\* A path without scheme and host is written with a tilde.
strip_hostname(url) == [url EXCEPT !.scheme = "", !.host = "~"]

\* The names a file may be stored under, from the most to the least
\* specific: with its host and without, with its query and without.
get_release_file_candidate_urls(url) ==
    LET plain == [url EXCEPT !.fragment = FALSE]
        both(u) == IF u.query THEN <<u, [u EXCEPT !.query = FALSE]>> ELSE <<u>>
    IN  both(plain) \o both(strip_hostname(plain))

\* Whether one of the allowed patterns admits the url: the wildcard, the url
\* itself, or a scheme, the hosts a domain stands for (a host, a domain with
\* its subdomains) and the beginning of a path, any of which may be "*".
is_valid_origin(url, allowed) ==
    \E p \in allowed :
        \/ p.kind = "any"
        \/ p.kind = "url" /\ p.url = url
        \/ /\ p.kind = "pattern"
           /\ p.scheme \in {"*", url.scheme}
           /\ p.hosts = {"*"} \/ url.host \in p.hosts
           /\ p.path = <<"*">> \/ IsPrefix(p.path, url.path)

\* The stem Sentry is asked for has neither host, query nor fragment; that
\* suffixes are trimmed makes the search wider, never narrower.
extract_file_stem(url) == url.path

\* The segments of a relative path are appended to the directory of the
\* base: `..` removes a segment if there is one, and is dropped at the root
\* of a web URL.
JoinSegments(scheme, base, right) ==
    LET http == scheme \in {"http", "https"}
        Step(acc, seg) ==
            IF seg = ".." /\ acc.path # <<>> THEN [acc EXCEPT !.path = Front(@)]
            ELSE IF (seg = ".." /\ http) \/ (seg = "." /\ (http \/ acc.first)) THEN acc
            ELSE [path |-> Append(acc.path, seg), first |-> FALSE]
        start == [path |-> IF base = <<>> THEN <<>> ELSE Front(base), first |-> TRUE]
    IN  SelectSeq(FoldLeft(Step, start, right).path, LAMBDA seg : seg # "")

\* A right side with a scheme replaces the base, one that is absolute (a
\* leading tilde counts as such) keeps scheme and host of the base.
join_paths(base, right) ==
    IF right.scheme # "" THEN right
    ELSE [base EXCEPT !.query = FALSE, !.fragment = FALSE,
                      !.path = IF right.host = "~" THEN right.path
                               ELSE JoinSegments(base.scheme, base.path, right.path)]

-----------------------------------------------------------------------------
(* Names of functions *)

NoName  == <<>>
IsName(parts) == Len(parts) \in Nat \ {0} /\ parts = [i \in 1 .. Len(parts) |-> parts[i]]
Useless == {<<"<anonymous>">>, <<"__webpack_require__">>, <<"__webpack_modules__">>}

get_function_for_token(frame, token, callsite) ==
    IF token \notin Useless THEN token
    ELSE IF callsite # NoName THEN callsite
    ELSE IF frame = NoName THEN token
    ELSE frame

\* The groups of equal consecutive parts, each with its length.
Grouped(parts) ==
    LET Step(groups, part) ==
            IF groups # <<>> /\ Last(groups).part = part
            THEN [groups EXCEPT ![Len(groups)].count = @ + 1]
            ELSE Append(groups, [part |-> part, count |-> 1])
    IN  FoldLeft(Step, <<>>, parts)

\* The last part of a dotted name is never folded.
fold_function_name(parts) ==
    Append(Grouped(Front(parts)), [part |-> Last(parts), count |-> 1])

\* What a folded name stands for
Unfolded(groups) == FoldLeft(LAMBDA acc, g : acc \o [i \in 1 .. g.count |-> g.part], <<>>, groups)
=============================================================================
