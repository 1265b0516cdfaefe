--------------------------- MODULE RangeDownload ---------------------------
(***************************************************************************)
(* One download attempt over HTTP                                          *)
(* (symbolicator-service/src/download/mod.rs, partial.rs, destination.rs): *)
(* an initial range request, from whose answer the download is done with   *)
(* one response or with several range requests that write to the same file *)
(* concurrently, each at its own offset.                                   *)
(*                                                                         *)
(* A byte of the resource is its offset, so that a file is correct when    *)
(* every offset holds itself.                                              *)
(***************************************************************************)
EXTENDS PartialRanges

CONSTANTS
    MaxDownloadSize,  \* max_download_size
    MaxResource,      \* bound: the largest resource
    ServerFaults      \* how answers to range requests may deviate from the request

\* "ignore": the whole resource is sent; "short": fewer bytes than requested are.
FaultKinds == {"ignore", "short"}

ASSUME RangeConstants ==
    /\ MaxDownloadSize \in Nat
    /\ MaxResource \in Nat
    /\ ServerFaults \subseteq FaultKinds

VARIABLES
    size,         \* the size of the resource
    pc,           \* what the attempt waits for
    stream,       \* the response bodies, by number; 0 is the initial response
    file,         \* the temporary file
    transferred,  \* MeasureSourceDownloadGuard::bytes_transferred
    result,       \* the result of the attempt
    honest        \* no answer has deviated from its request (history)

rangeVars == <<size, pc, stream, file, transferred, result, honest>>

-----------------------------------------------------------------------------
Hole    == -1
Bytes   == 0 .. MaxResource - 1
Offsets == 0 .. 2 * MaxResource
Streams == 0 .. MaxPartialRanges

NoStream == [pc |-> "none", offset |-> 0, end |-> 0, src |-> 0, left |-> 0]

StreamSet == [pc : {"none", "request", "body", "done"}, offset : Nat, end : Nat,
              src : Nat, left : Nat]

\* The type of every variable; a stream has not passed its end.
RangeTypeOK ==
    /\ size \in 0 .. MaxResource
    /\ pc \in {"initial", "plain", "streams", "done"}
    /\ stream \in [Streams -> StreamSet]
    /\ \A i \in Streams : stream[i].offset <= stream[i].end
    /\ file \in [Offsets -> Bytes \union {Hole}]
    /\ transferred \in Nat
    /\ result \in {"none", "ok", "error", "too_large"}
    /\ honest \in BOOLEAN

RangeInit ==
    /\ size \in 0 .. MaxResource
    /\ pc = "initial"
    /\ stream = [i \in Streams |-> NoStream]
    /\ file = [o \in Offsets |-> Hole]
    /\ transferred = 0
    /\ result = "none"
    /\ honest = TRUE
-----------------------------------------------------------------------------
(* The initial request. *)

Finishes(r) ==
    /\ result' = r
    /\ pc' = "done"
    /\ stream' = [i \in Streams |-> NoStream]

\* A body of `left` bytes of the resource from src on, written from offset on.
Body(offset, end, src, left) ==
    [pc |-> "body", offset |-> offset, end |-> end, src |-> src, left |-> left]

\* MultiStreamDestination::stream: end is one past what may be written.
Destination(offset, n) ==
    [pc |-> "request", offset |-> offset, end |-> offset + n + 1, src |-> offset, left |-> 0]

\* The whole resource in one response, written without bounds.
WholeBody == [i \in Streams |-> IF i = 0 THEN Body(0, MaxResource + 1, 0, size) ELSE NoStream]

\* A success without a usable content range, or with the full range.
RespondsFull ==
    /\ pc = "initial"
    /\ pc' = "streams"
    /\ stream' = WholeBody
    /\ UNCHANGED <<size, file, transferred, result, honest>>

\* 416, or a content range that does not parse: ask again without a range.
RespondsUnusable ==
    /\ pc = "initial"
    /\ pc' = "plain"
    /\ UNCHANGED <<size, stream, file, transferred, result, honest>>

PlainRequest ==
    /\ pc = "plain"
    /\ pc' = "streams"
    /\ stream' = WholeBody
    /\ UNCHANGED <<size, file, transferred, result, honest>>

\* An error status, a broken connection or the head timeout.
RequestFails ==
    /\ pc \in {"initial", "plain"}
    /\ Finishes("error")
    /\ UNCHANGED <<size, file, transferred, honest>>

\* The range 0-0/0: there is nothing to download.
RespondsEmpty ==
    /\ pc = "initial" /\ size = 0
    /\ Finishes("ok")
    /\ UNCHANGED <<size, file, transferred, honest>>

(***************************************************************************)
(* A content range 0-end/size, not beyond what was requested: reject a     *)
(* resource that is too large, otherwise size the file, stream this        *)
(* response and request the remainder.                                     *)
(***************************************************************************)
RespondsRange(end) ==
    LET parts == Split(end, size)
    IN  /\ pc = "initial"
        /\ end < SplitSize /\ end + 1 < size
        /\ IF size > MaxDownloadSize
           THEN Finishes("too_large")
           ELSE /\ pc' = "streams"
                /\ stream' =
                     [i \in Streams |->
                        IF i = 0 THEN Body(0, end + 2, 0, end + 1)
                        ELSE IF i \in DOMAIN parts
                             THEN Destination(parts[i].start,
                                              RangeSize(parts[i].start, parts[i].end))
                             ELSE NoStream]
                /\ UNCHANGED result
        /\ UNCHANGED <<size, file, transferred, honest>>
-----------------------------------------------------------------------------
(* The streams. *)

\* The answer to range request i.
OpenPart(i) ==
    LET s    == stream[i]
        n    == s.end - s.offset - 1
        Opens(src, left) ==
            /\ stream' = [stream EXCEPT ![i] = Body(s.offset, s.end, src, left)]
            /\ honest' = (honest /\ src = s.offset /\ left = n)
    IN  /\ s.pc = "request"
        /\ \/ Opens(s.offset, n)
           \/ "ignore" \in ServerFaults /\ Opens(0, size)
           \/ "short" \in ServerFaults /\ \E left \in 0 .. n : Opens(s.offset, left)
        /\ UNCHANGED <<size, pc, file, transferred, result>>

\* n bytes of the resource from src on are in the file from offset on.
Written(offset, src, n) ==
    [o \in Offsets |-> IF o \in offset .. offset + n - 1 THEN src + (o - offset) ELSE file[o]]

\* Stream s when n bytes have been written.
Advanced(s, n) == [s EXCEPT !.offset = s.offset + n, !.src = s.src + n, !.left = s.left - n]

\* add_bytes_transferred: all streams of an attempt count together.
SizeExceeded(n) == transferred + n > MaxDownloadSize

Chunk_NoLimit(i, n) ==
    LET s == stream[i]
    IN  /\ s.pc = "body" /\ n <= s.left
        /\ transferred' = transferred + n
        /\ IF s.offset + n >= s.end
           THEN Finishes("error") /\ UNCHANGED file
           ELSE /\ file' = Written(s.offset, s.src, n)
                /\ stream' = [stream EXCEPT ![i] = Advanced(s, n)]
                /\ UNCHANGED <<pc, result>>
        /\ UNCHANGED <<size, honest>>

Chunk_CountsTwice(i, n) ==
    LET s == stream[i]
    IN  /\ s.pc = "body" /\ n <= s.left
        /\ transferred' = transferred + n + n
        /\ IF transferred' > MaxDownloadSize
           THEN Finishes("too_large") /\ UNCHANGED file
           ELSE IF s.offset + n >= s.end
                THEN Finishes("error") /\ UNCHANGED file
                ELSE /\ file' = Written(s.offset, s.src, n)
                     /\ stream' = [stream EXCEPT ![i] = Advanced(s, n)]
                     /\ UNCHANGED <<pc, result>>
        /\ UNCHANGED <<size, honest>>

(***************************************************************************)
(* SymResponse::download, one chunk of n bytes: count it against the size  *)
(* limit, then write it unless it would pass the end of the stream.        *)
(***************************************************************************)
Chunk(i, n) ==
    LET s == stream[i]
    IN  /\ s.pc = "body" /\ n <= s.left
        /\ transferred' = transferred + n
        /\ IF SizeExceeded(n)
           THEN Finishes("too_large") /\ UNCHANGED file
           ELSE IF s.offset + n >= s.end
                THEN Finishes("error") /\ UNCHANGED file
                ELSE /\ file' = Written(s.offset, s.src, n)
                     /\ stream' = [stream EXCEPT ![i] = Advanced(s, n)]
                     /\ UNCHANGED <<pc, result>>
        /\ UNCHANGED <<size, honest>>

BodyEnds(i) ==
    /\ stream[i].pc = "body" /\ stream[i].left = 0
    /\ stream' = [stream EXCEPT ![i] = [@ EXCEPT !.pc = "done"]]
    /\ UNCHANGED <<size, pc, file, transferred, result, honest>>

\* An error on one stream ends the attempt and drops the others.
StreamFails(i) ==
    /\ stream[i].pc \in {"request", "body"}
    /\ Finishes("error")
    /\ UNCHANGED <<size, file, transferred, honest>>

AllStreamsEnd ==
    /\ pc = "streams"
    /\ \A i \in Streams : stream[i].pc \in {"none", "done"}
    /\ Finishes("ok")
    /\ UNCHANGED <<size, file, transferred, honest>>

\* The attempt is over.
Terminated == pc = "done" /\ UNCHANGED rangeVars

RangeNext ==
    \/ RespondsFull \/ RespondsUnusable \/ PlainRequest \/ RequestFails \/ RespondsEmpty
    \/ \E end \in Bytes : RespondsRange(end)
    \/ \E i \in Streams : OpenPart(i) \/ BodyEnds(i) \/ StreamFails(i)
    \/ \E i \in Streams, n \in 1 .. MaxResource : Chunk(i, n)
    \/ AllStreamsEnd
    \/ Terminated

RangeSpec == RangeInit /\ [][RangeNext]_rangeVars
-----------------------------------------------------------------------------
(* Properties.  (Definitions named X_Y are variants of X with a bug, which *)
(* the properties are checked to catch; they are not part of RangeNext.)        *)

(***************************************************************************)
(* A download that succeeds left every byte of the resource in its place,  *)
(* in whatever order the concurrent streams wrote (split, stream,          *)
(* write_all): no gap between the ranges and no byte of the wrong range.   *)
(***************************************************************************)
CompleteOnSuccess == result = "ok" => \A o \in 0 .. size - 1 : file[o] = o

\* What is accepted is within max_download_size, on every path, and no stream
\* writes beyond the resource, even when a server sends more than it was asked for
\* (do_download_reqwest_range, add_bytes_transferred, OffsetFileWriteStream::write_all).
LimitEnforced ==
    /\ result = "ok" => size <= MaxDownloadSize
    /\ \A o \in Offsets : o >= size => file[o] = Hole

(***************************************************************************)
(* A resource is refused as too large only if it is larger than            *)
(* max_download_size less the bytes that are transferred twice because     *)
(* consecutive ranges share one: the limit of a split download is that     *)
(* much lower (split, add_bytes_transferred).                              *)
(***************************************************************************)
RefusedNearLimit ==
    result = "too_large" /\ honest => size + MaxPartialRanges - 1 > MaxDownloadSize
=============================================================================
