---------------------------- MODULE MCDownloader ----------------------------
(***************************************************************************)
(* The download service for TLC: the deny list under concurrent downloads, *)
(* calls of fetch_file, and an attempt in ranges.  Their states are        *)
(* disjoint, so a behaviour has one kind of activity at a time; fetches    *)
(* that share no token run alone.                                          *)
(***************************************************************************)
EXTENDS Downloader, SourceFetch, RangeDownload

Http  == [type |-> "http", usable |-> TRUE]
OfType(t) == [type |-> t, usable |-> TRUE]

\* A file of n bytes in the given layers; the sizes are with no, one and two more.
File(layers, sizes) == [layers |-> layers, size |-> sizes, damaged |-> 0]
Damaged(f, n)      == [f EXCEPT !.damaged = n]

Plain == File(<<>>, <<5, 4, 9>>)
Zip   == File(<<"zip">>, <<6, 4, 5>>)

Job(s, f, c) == [source |-> s, file |-> f, coding |-> c]

\* With MaxSize 6: all layerings, sizes at and over the limit, small files, damage.
MCJobs ==
    {Job(Http, f, "identity") : f \in
        {Plain, Zip, Damaged(Zip, 1), File(<<>>, <<0, 1, 1>>), File(<<>>, <<7, 4, 4>>),
         File(<<"zip">>, <<7, 4, 4>>), File(<<"cab">>, <<3, 3, 3>>), File(<<"many">>, <<5, 5, 5>>),
         File(<<"gzip", "gzip">>, <<6, 5, 4, 4>>)}}
    \union {Job(Http, f, "gzip") : f \in
        {Plain, Damaged(Plain, 1), Zip, Damaged(Zip, 1), Damaged(Zip, 2),
         File(<<>>, <<7, 4, 4>>), File(<<>>, <<6, 7, 7>>)}}
    \union {Job(Http, Plain, c) : c \in {"br", "several", "odd"}}
    \union {Job(OfType(t), Zip, "identity") : t \in Types}
    \union {Job(OfType("filesystem"), File(<<>>, <<7, 7, 7>>), "identity")}
    \union {Job([type |-> t, usable |-> FALSE], Plain, "identity") : t \in {"http", "s3", "filesystem"}}
-----------------------------------------------------------------------------
FetchesQuiet ==
    /\ clock = 0 /\ tokens = [t \in TokenTypes |-> NoToken]
    /\ \A x \in Fetchers : fetch[x] = NotFetched

DownloadsQuiet ==
    /\ now = TimeWindow /\ failed = [h \in Hosts |-> [t \in Times |-> 0]]
    /\ \A d \in Downloads : download[d] = Idle

\* A fetch without a token runs alone.
Separate ==
    \A x \in Fetchers :
        fetch[x].pc # "idle" /\ fetch[x].source.type \notin TokenTypes =>
            /\ clock = 0 /\ tokens = [t \in TokenTypes |-> NoToken]
            /\ \A y \in Fetchers \ {x} : fetch[y] = NotFetched

\* The attempt has not begun; other activity is next to an empty resource.
RangeQuiet == size = 0 /\ pc = "initial"

MCInit == Init /\ FetchInit /\ RangeInit

MCNext ==
    \/ FetchesQuiet /\ RangeQuiet /\ Next /\ UNCHANGED <<fetchVars, rangeVars>>
    \/ /\ DownloadsQuiet /\ RangeQuiet /\ FetchNext /\ Separate'
       /\ UNCHANGED <<vars, rangeVars>>
    \/ DownloadsQuiet /\ FetchesQuiet /\ RangeNext /\ UNCHANGED <<vars, fetchVars>>

MCSpec == MCInit /\ [][MCNext]_<<vars, fetchVars, rangeVars>> /\ Fairness
=============================================================================
