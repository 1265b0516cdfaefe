----------------------------- MODULE SourceFetch -----------------------------
(***************************************************************************)
(* Fetching one file from a source: dispatch_download for every type of    *)
(* source with its credentials and its reading of error responses          *)
(* (symbolicator-service/src/download/{sentry,http,s3,gcs,azure,           *)
(* filesystem}.rs), the transfer, and what fetch_file does with the        *)
(* downloaded file (stream.rs, compression.rs, fetch_file.rs).             *)
(*                                                                         *)
(* Bytes are abstracted to the layers of compression around the contents,  *)
(* outermost first, and to the size with each number of layers.  How a     *)
(* transfer in ranges proceeds is in RangeDownload, also what becomes of   *)
(* parts that are shorter than asked for; how attempts are repeated is in  *)
(* Downloader.                                                             *)
(***************************************************************************)
EXTENDS SourceErrors, PartialRanges, Sequences

CONSTANTS
    Fetchers,    \* concurrent calls of fetch_file
    Jobs,        \* what is fetched: the source (its type, whether its URL, key or
                 \* account is usable), the file it publishes (layers, size with each
                 \* number of layers, damaged layer) and the content coding of its server
    MaxSize,     \* max_download_size
    TokenLife,   \* how long the issuer accepts a token
    Margin,      \* TOKEN_EXPIRY_MARGIN, and 60 minutes less the 58 of GCS
    TokenDelay,  \* bound: an answer of the token issuer takes this long
    LastTime     \* bound: the clock stops here

ASSUME SourceFetchConstants ==
    /\ {TokenLife, Margin, TokenDelay, LastTime, MaxSize} \subseteq Nat
    /\ TokenDelay <= Margin /\ Margin < TokenLife
    /\ \A j \in Jobs : j.source.type = "filesystem" => j.coding = "identity"

\* A job has the sizes it can be asked for; a coded body is never empty.
ASSUME JobsWellFormed ==
    \A j \in Jobs :
        /\ j.file.layers \in Seq(STRING \ {"malformed"})
        /\ j.file.size \in Seq(Nat) /\ Len(j.file.size) >= Len(j.file.layers) + 2
        /\ j.file.damaged \in Nat
        /\ j.coding \in STRING
        /\ j.coding # "identity" => j.file.size[Len(j.file.layers) + 2] > 0

VARIABLES
    clock,   \* Utc::now
    tokens,  \* token_cache of the GCS and Azure downloaders
    fetch    \* the state of each call

fetchVars == <<clock, tokens, fetch>>
-----------------------------------------------------------------------------
TokenTypes == {"gcs", "azure"}
Tiny       == 4    \* bytes of the magic number

Clock      == 0 .. LastTime
NoToken    == [state |-> "none", expires |-> 0, issued |-> 0]
NotFetched == [pc |-> "idle"]

FetchInit ==
    /\ clock = 0
    /\ tokens = [t \in TokenTypes |-> NoToken]
    /\ fetch = [x \in Fetchers |-> NotFetched]

Set(x, s) == fetch' = [fetch EXCEPT ![x] = s]

Ends(x, r) == Set(x, [fetch[x] EXCEPT !.pc = "done", !.token = NoToken, !.result = r])
-----------------------------------------------------------------------------
(* Tokens: or_insert_with_if of the cache replaces errors and expired      *)
(* tokens; of concurrent callers one asks and the others wait for it.      *)

Usable_Cached(e) == e.state = "token"

\* is_expired and replace_if
Usable(e) == e.state = "token" /\ ~ (e.expires < clock)

Asking(t) == {x \in Fetchers : fetch[x].pc = "asks" /\ fetch[x].source.type = t}

Sends(x, e) == Set(x, [fetch[x] EXCEPT !.pc = "request", !.token = e])

GetToken(x) ==
    /\ fetch[x].pc = "token"
    /\ LET t == fetch[x].source.type
       IN  \/ t \notin TokenTypes /\ Sends(x, NoToken)
           \/ t \in TokenTypes /\ Usable(tokens[t]) /\ Sends(x, tokens[t])
           \/ /\ t \in TokenTypes /\ ~ Usable(tokens[t]) /\ Asking(t) = {}
              /\ Set(x, [fetch[x] EXCEPT !.pc = "asks", !.asked = clock])
    /\ UNCHANGED <<clock, tokens>>

\* request_new_token: GCS counts from the request, Azure from the answer.
NewToken(t, asked, issued) ==
    [state |-> "token", issued |-> issued,
     expires |-> (IF t = "gcs" THEN asked ELSE clock) + TokenLife - Margin]

\* The waiting callers get the answer as well, whatever it is.
TokenAnswered(x, e) ==
    LET t       == fetch[x].source.type
        waiting == {y \in Fetchers : fetch[y].pc = "token" /\ fetch[y].source.type = t}
    IN  /\ fetch[x].pc = "asks"
        /\ tokens' = [tokens EXCEPT ![t] = e]
        /\ fetch' = [y \in Fetchers |->
              IF y \notin waiting \union {x} THEN fetch[y]
              ELSE IF e.state = "token"
              THEN [fetch[y] EXCEPT !.pc = "request", !.token = e, !.asked = 0]
              ELSE [fetch[y] EXCEPT !.pc = "done", !.result = "download_error", !.asked = 0]]
        /\ UNCHANGED clock

\* The caller is dropped while it asks; a waiting caller asks next.
AskerDropped(x) ==
    /\ fetch[x].pc = "asks"
    /\ Set(x, NotFetched)
    /\ UNCHANGED <<clock, tokens>>
-----------------------------------------------------------------------------
(* Sizes and layers. *)

\* The file in a transfer, with the coding the server applied.
OnWire(f, coding) == IF coding = "identity" THEN f.layers ELSE <<coding>> \o f.layers

SizeOf(f, layers) == f.size[Len(layers) + 1]

Broken(f, layers) == layers # <<>> /\ f.damaged = Len(layers)

\* Compression::from_headers
FromHeaders(coding) == IF coding \in {"several", "odd"} THEN "download_error" ELSE "ok"

\* The decoder of a response or a download, under the size limit.
Decoded(f, layers) ==
    IF Broken(f, layers) THEN "download_error"
    ELSE IF SizeOf(f, Tail(layers)) > MaxSize THEN "malformed"
    ELSE "ok"

TempFile(x, layers, compression) ==
    Set(x, [fetch[x] EXCEPT !.pc = "materialize", !.token = NoToken, !.layers = layers,
                            !.compression = compression])

Into(x, r, layers, compression) == IF r = "ok" THEN TempFile(x, layers, compression) ELSE Ends(x, r)
-----------------------------------------------------------------------------
(* One attempt. *)

StartFetch(x, j) ==
    /\ fetch[x].pc = "idle"
    /\ Set(x, [pc |-> "token", source |-> j.source, file |-> j.file, coding |-> j.coding,
               token |-> NoToken, asked |-> 0, layers |-> <<>>, compression |-> "identity",
               counted |-> "once", disk |-> TRUE, result |-> "none"])
    /\ UNCHANGED <<clock, tokens>>

Requesting(x) ==
    /\ fetch[x].pc = "request"
    /\ UNCHANGED <<clock, tokens>>

\* The temporary file cannot be made or written.
TempFails(x) ==
    /\ Requesting(x)
    /\ Ends(x, "internal")

NotRequested(x) ==
    /\ Requesting(x) /\ fetch[x].source.type # "filesystem" /\ ~ fetch[x].source.usable
    /\ Ends(x, Unusable(fetch[x].source.type))

Responding(x) == Requesting(x) /\ fetch[x].source.type # "filesystem" /\ fetch[x].source.usable

\* execute: no connection, or no headers before the timeout.
NoResponse(x) ==
    /\ Responding(x)
    /\ Ends(x, "download_error") \/ Ends(x, "timeout")

ErrorResponse(x, status, code) ==
    /\ Responding(x)
    /\ Ends(x, HandleError(fetch[x].source.type, status, code))

\* The whole file in one response: decoded while it is written.
WholeResponse(x) ==
    LET q == fetch[x]
        w == OnWire(q.file, q.coding)
        r == IF FromHeaders(q.coding) # "ok" THEN FromHeaders(q.coding)
             ELSE IF q.coding # "identity" THEN Decoded(q.file, w)
             ELSE IF SizeOf(q.file, w) > MaxSize THEN "malformed" ELSE "ok"
    IN  Responding(x) /\ Into(x, r, q.file.layers, "identity")

\* The bytes counted against max_download_size are more than that.
CountedTooMany(x, counted) ==
    Set(x, [fetch[x] EXCEPT !.pc = "done", !.token = NoToken, !.counted = counted,
                            !.result = "malformed"])

(***************************************************************************)
(* The file in ranges: the first answer has all but r bytes of it and is   *)
(* refused if the whole is too large; the others are written as they come, *)
(* to be decoded later.  Each range shares a byte with the next one, which *)
(* is counted for both, and a server that ignores a request for a range    *)
(* sends the whole file again.                                             *)
(***************************************************************************)
RangeResponses(x) ==
    LET q == fetch[x]
        w == OnWire(q.file, q.coding)
        n == SizeOf(q.file, w)
    IN  /\ Responding(x)
        /\ \/ n = 0 /\ TempFile(x, w, "identity")
           \/ n > MaxSize /\ Ends(x, "malformed")
           \/ /\ n \in 1 .. MaxSize /\ FromHeaders(q.coding) # "ok"
              /\ Ends(x, FromHeaders(q.coding))
           \/ /\ n \in 1 .. MaxSize /\ FromHeaders(q.coding) = "ok"
              /\ \E r \in 1 .. n - 1 :
                    /\ n - r <= SplitSize
                    /\ \/ n + Parts(r) - 1 <= MaxSize /\ TempFile(x, w, q.coding)
                       \/ n + Parts(r) - 1 > MaxSize /\ CountedTooMany(x, "shared")
                       \/ n - r + Parts(r) * n > MaxSize /\ CountedTooMany(x, "ignored")

\* The connection breaks in the middle of a body.
TransferFails(x) ==
    /\ Responding(x)
    /\ Ends(x, "download_error")

CopyFile(x) ==
    /\ Requesting(x) /\ fetch[x].source.type = "filesystem"
    /\ \/ fetch[x].source.usable /\ TempFile(x, fetch[x].file.layers, "identity")
       \/ ~ fetch[x].source.usable /\ Ends(x, "not_found")
-----------------------------------------------------------------------------
(* fetch_file: materialize_into and maybe_decompress_file. *)

Materialized(x, layers) ==
    Set(x, [fetch[x] EXCEPT !.pc = "unpack", !.layers = layers, !.compression = "identity"])

Materialize_Swaps(x) ==
    /\ fetch[x].pc = "materialize"
    /\ Materialized(x, fetch[x].layers)
    /\ UNCHANGED <<clock, tokens>>

Materialize(x) ==
    LET q == fetch[x]
        r == Decoded(q.file, q.layers)
    IN  /\ q.pc = "materialize"
        /\ \/ q.compression = "identity" /\ Materialized(x, q.layers)
           \/ q.compression # "identity" /\ r = "ok" /\ Materialized(x, Tail(q.layers))
           \/ q.compression # "identity" /\ r # "ok" /\ Ends(x, r)
           \/ q.compression # "identity" /\ Ends(x, "internal")
        /\ UNCHANGED <<clock, tokens>>

\* The archives known by their magic bytes; several files in one are refused.
Archives == {"zstd", "gzip", "zlib", "zip", "cab", "many"}

\* maybe_decompress_file removes one layer, or fails.
MaybeDecompress(f, layers) ==
    LET packed == layers # <<>> /\ Head(layers) \in Archives
        out    == IF packed THEN Tail(layers) ELSE layers
    IN  IF SizeOf(f, layers) < Tiny THEN layers
        ELSE IF packed /\ (Head(layers) = "many" \/ Broken(f, layers)) THEN <<"malformed">>
        ELSE IF SizeOf(f, out) > MaxSize THEN <<"malformed">>
        ELSE out

\* Every error of it is a malformed file, those of the disk too.
Unpack(x) ==
    LET q   == fetch[x]
        out == MaybeDecompress(q.file, q.layers)
    IN  /\ q.pc = "unpack"
        /\ \/ out = <<"malformed">> /\ Ends(x, "malformed")
           \/ out # <<"malformed">> /\ Set(x, [q EXCEPT !.pc = "done", !.layers = out, !.result = "ok"])
           \/ Set(x, [q EXCEPT !.pc = "done", !.disk = FALSE, !.result = "malformed"])
        /\ UNCHANGED <<clock, tokens>>

\* The caller has its answer and calls again.
Answered(x) ==
    /\ fetch[x].pc = "done"
    /\ Set(x, NotFetched)
    /\ UNCHANGED <<clock, tokens>>
-----------------------------------------------------------------------------
\* Issuers of tokens answer within TokenDelay.
FetchTick ==
    /\ clock < LastTime
    /\ \A x \in Fetchers : fetch[x].pc = "asks" => clock < fetch[x].asked + TokenDelay
    /\ clock' = clock + 1
    /\ UNCHANGED <<tokens, fetch>>

Attempt(x) ==
    \/ \E j \in Jobs : StartFetch(x, j)
    \/ GetToken(x) \/ AskerDropped(x)
    \/ TokenAnswered(x, [NoToken EXCEPT !.state = "error"])
    \/ \E i \in Clock :
          /\ fetch[x].pc = "asks" /\ i \in fetch[x].asked .. clock
          /\ TokenAnswered(x, NewToken(fetch[x].source.type, fetch[x].asked, i))
    \/ TempFails(x) \/ NotRequested(x) \/ NoResponse(x) \/ TransferFails(x)
    \/ \E s \in ErrorStatuses, c \in ErrorCodes : ErrorResponse(x, s, c)
    \/ WholeResponse(x) \/ RangeResponses(x) \/ CopyFile(x)

FetchNext ==
    \/ \E x \in Fetchers : Attempt(x) \/ Materialize(x) \/ Unpack(x) \/ Answered(x)
    \/ FetchTick

FetchSpec == FetchInit /\ [][FetchNext]_fetchVars
-----------------------------------------------------------------------------
(* Properties.  (Definitions named X_Y are variants of X with a bug, which *)
(* the properties are checked to catch; they are not part of FetchNext.)   *)

\* The published file without the archive around it.
Contents(f) ==
    IF f.layers # <<>> /\ Head(f.layers) \in Archives /\ SizeOf(f, f.layers) >= Tiny
    THEN Tail(f.layers) ELSE f.layers

\* What the answer q to a call may be.
Published(q) ==
    LET f     == q.file
        forms == {OnWire(f, q.coding), f.layers, Contents(f)}
        tiny  == SizeOf(f, f.layers) < Tiny
    IN  /\ q.result = "ok" =>
              /\ q.layers = Contents(f)
              /\ SizeOf(f, q.layers) <= MaxSize \/ tiny
              /\ \A l \in forms \ {Contents(f)} : ~ Broken(f, l)
        /\ q.result = "malformed" =>
              \/ \E l \in forms : SizeOf(f, l) > MaxSize
              \/ f.layers # <<>> /\ (Broken(f, f.layers) \/ Head(f.layers) = "many")
              \/ ~ q.disk
              \/ /\ q.counted = "shared"
                 /\ SizeOf(f, OnWire(f, q.coding)) + MaxPartialRanges - 1 > MaxSize
              \/ q.counted = "ignored"

(***************************************************************************)
(* Whatever the source and the way of transfer (one response that is       *)
(* decoded on the way, ranges that are decoded afterwards, a copy), a      *)
(* fetched file is the published one without the server's coding and       *)
(* without exactly one archive around it, undamaged and within             *)
(* max_download_size; and a file is only called malformed, which is        *)
(* cached, if it is damaged, holds several files or is over the limit in   *)
(* some form; if the disk failed; if it came in ranges and is within       *)
(* MaxPartialRanges - 1 bytes of the limit, which the ranges share; or if  *)
(* the server ignored a request for a range (fetch_file, materialize_into, *)
(* maybe_decompress_file, split, add_bytes_transferred).                   *)
(***************************************************************************)
FileAsPublished == \A x \in Fetchers : fetch[x].pc = "done" => Published(fetch[x])

\* A request carries a token its issuer still accepts, although tokens are cached
\* and shared, the cache only knows when they were asked for (GCS) or answered
\* (Azure), and several downloads wait for one token (get_token, replace_if).
TokenFresh ==
    [][\A x \in Fetchers :
          fetch'[x].pc = "request" /\ fetch[x].pc # "request" /\ fetch'[x].source.type \in TokenTypes
              => clock <= fetch'[x].token.issued + TokenLife]_fetchVars
=============================================================================
