--------------------------- MODULE DownloadProofs ---------------------------
(***************************************************************************)
(* Theorems about how files are downloaded.  RangeDownload, for resources  *)
(* and limits of any size and any number of ranges; SourceFetch, for any   *)
(* callers and sources, files of any size with any layers of compression,  *)
(* and any lifetime of tokens; and the deny list of Downloader, for any    *)
(* downloads, hosts, windows and thresholds.                               *)
(***************************************************************************)
EXTENDS Downloader, SourceFetch, RangeDownload, Recursion, SequenceTheorems, TLAPS

(* RangeDownload *)

\* Between requests there are no streams, and nothing has been transferred yet
\* when the initial answer comes.
PhaseInv ==
    /\ pc # "streams" => \A i \in Streams : stream[i] = NoStream
    /\ pc \in {"initial", "plain"} => /\ transferred = 0 /\ result = "none" /\ honest
                                      /\ \A o \in Offsets : file[o] = Hole
    /\ pc = "streams" => result = "none"

\* A stream stays before its end and reads and writes within the resource.
StreamInv ==
    \A i \in Streams :
        /\ stream[i].pc \in {"request", "body"} => stream[i].offset < stream[i].end
        /\ stream[i].pc = "request" => stream[i].end <= size + 1 /\ i # 0
        /\ stream[i].pc = "body" =>
             /\ stream[i].src + stream[i].left <= size
             /\ stream[i].end <= size + 1 \/ stream[i].offset + stream[i].left <= size

\* The whole resource in one response of unknown size: all of what is written is
\* counted, and nothing else is.
WholeInv ==
    /\ stream[0].pc \in {"body", "done"}
    /\ stream[0].offset + stream[0].left = size
    /\ stream[0].pc = "done" => stream[0].left = 0
    /\ transferred = stream[0].offset
    /\ transferred <= MaxDownloadSize
    /\ \A i \in Streams \ {0} : stream[i].pc = "none"

\* The size is known to be within the limit, or the transfer is.
LimitInv ==
    /\ pc = "streams" => size <= MaxDownloadSize \/ WholeInv
    /\ result = "ok" => size <= MaxDownloadSize

NothingBeyond == \A o \in Offsets : o >= size => file[o] = Hole

SafeInv == RangeTypeOK /\ PhaseInv /\ StreamInv /\ LimitInv /\ NothingBeyond

\* Where stream i is going to stop.
Until(i) ==
    IF stream[i].pc = "request" THEN stream[i].end - 1 ELSE stream[i].offset + stream[i].left

\* Byte o is going to be written by some stream.
Expected(o) ==
    \E i \in Streams : /\ stream[i].pc \in {"request", "body"}
                       /\ stream[i].offset <= o /\ o < Until(i)

(***************************************************************************)
(* Every byte of the resource is in its place or going to be written.  A   *)
(* body that is not what was asked for ends the attempt: it is too long    *)
(* for its range.                                                          *)
(***************************************************************************)
BytesInv ==
    /\ pc = "streams" /\ honest =>
         /\ \A i \in Streams : stream[i].pc = "body" => /\ stream[i].src = stream[i].offset
                                                        /\ Until(i) < stream[i].end
         /\ \A o \in 0 .. size - 1 : file[o] = o \/ Expected(o)
    /\ pc = "streams" /\ ~ honest =>
         \E i \in Streams : stream[i].pc = "body" /\ Until(i) >= stream[i].end
    /\ result = "ok" => \A o \in 0 .. size - 1 : file[o] = o

\* Servers that send less than they were asked for are not noticed.
RangeInv == SafeInv /\ ("short" \notin ServerFaults => BytesInv)

\* The bytes that are still going to be counted for a stream.
Ahead(s) ==
    IF s.pc = "request" THEN s.end - 1 - s.offset ELSE IF s.pc = "body" THEN s.left ELSE 0

(***************************************************************************)
(* acc runs through the streams and adds up what has been counted and what *)
(* is ahead of each: it ends at the size of the resource and one byte for  *)
(* each boundary between ranges.                                           *)
(***************************************************************************)
Totals == 0 .. MaxPartialRanges + 1

Accounts(acc) ==
    /\ acc \in [Totals -> Nat]
    /\ acc[0] = transferred
    /\ \A i \in Streams : acc[i + 1] = acc[i] + Ahead(stream[i])
    /\ \A j, k \in Totals : j <= k => acc[j] <= acc[k]
    /\ acc[MaxPartialRanges + 1] <= size + MaxPartialRanges - 1

\* While all answers are what was asked for, what will be counted is accounted for.
CountInv ==
    /\ pc = "streams" /\ honest => \E acc : Accounts(acc)
    /\ RefusedNearLimit

-----------------------------------------------------------------------------
(* Lemmas on the split of the remainder *)

\* There are between one and MaxPartialRanges ranges, none of them empty.
LEMMA PartsBounds ==
    ASSUME NEW n \in Nat \ {0}
    PROVE  Parts(n) \in 1 .. MaxPartialRanges /\ Parts(n) <= n
  <1>1. DivCeil(n, SplitSize) \in Int /\ 1 <= DivCeil(n, SplitSize) /\ DivCeil(n, SplitSize) <= n
    BY RangeConstants, PartialConstants DEF DivCeil
  <1> QED
    BY <1>1, RangeConstants, PartialConstants DEF Parts

\* Equal parts of n, rounded down, leave a remainder less than one for each.
LEMMA PartSize ==
    ASSUME NEW n \in Nat \ {0}, NEW p \in Nat \ {0}, p <= n
    PROVE  /\ n \div p \in Nat \ {0}
           /\ p * (n \div p) <= n
           /\ \A i \in 1 .. p : /\ (i - 1) * (n \div p) \in Nat
                                /\ (i - 1) * (n \div p) + (n \div p) <= n
  <1>1. n \div p \in Nat \ {0} /\ p * (n \div p) <= n
    OBVIOUS
  <1>2. ASSUME NEW q \in Nat \ {0}, p * q <= n, NEW i \in 1 .. p
        PROVE  (i - 1) * q \in Nat /\ (i - 1) * q + q <= n
    <2>1. (i - 1) * q \in Nat /\ (i - 1) * q + q = i * q
      OBVIOUS
    <2>2. i * q <= p * q
      OBVIOUS
    <2> QED
      BY <1>2, <2>1, <2>2
  <1> QED
    BY <1>1, <1>2

\* Each range of a split lies in the remainder, and together they cover it.
LEMMA SplitCovers ==
    ASSUME NEW end \in Nat, NEW total \in Nat, end + 1 < total
    PROVE  /\ DOMAIN Split(end, total) \subseteq Streams \ {0}
           /\ \A i \in DOMAIN Split(end, total) :
                 LET r == Split(end, total)[i]
                 IN  r.start \in Nat /\ r.end \in Nat /\ end < r.start /\ r.start <= r.end
                     /\ r.end < total
           /\ \A o \in end + 1 .. total - 1 :
                 \E i \in DOMAIN Split(end, total) :
                    Split(end, total)[i].start <= o /\ o <= Split(end, total)[i].end
  <1> DEFINE n == RangeSize(end + 1, total - 1)
             p == Parts(n)
             q == n \div p
             start(i) == end + 1 + (i - 1) * q
             stop(i) == IF i = p THEN total - 1 ELSE end + 1 + (i - 1) * q + q
  <1>1. n \in Nat \ {0} /\ n = total - (end + 1)
    BY DEF RangeSize
  <1>2. p \in 1 .. MaxPartialRanges /\ p <= n
    BY <1>1, PartsBounds
  <1>3. q \in Nat \ {0}
        /\ \A i \in 1 .. p : (i - 1) * q \in Nat /\ (i - 1) * q + q <= n
    BY <1>1, <1>2, PartSize, RangeConstants, PartialConstants
  <1>4. Split(end, total) = [i \in 1 .. p |-> [start |-> start(i), end |-> stop(i)]]
    BY <1>1 DEF Split
  <1> HIDE DEF n, p, q
  <1>5. ASSUME NEW i \in 1 .. p
        PROVE  start(i) \in Nat /\ stop(i) \in Nat /\ end < start(i) /\ start(i) <= stop(i)
               /\ stop(i) < total
    <2>1. PICK m \in Nat : m = (i - 1) * q /\ m + q <= n
      BY <1>3
    <2>2. start(i) = end + 1 + m /\ stop(i) = IF i = p THEN total - 1 ELSE end + 1 + m + q
      BY <2>1
    <2>3. i # p => m + q + q <= n
      <3>1. CASE i + 1 \in 1 .. p
        <4>1. (i + 1 - 1) * q + q <= n
          BY <1>3, <3>1
        <4>2. (i + 1 - 1) * q = (i - 1) * q + q
          BY <1>3
        <4> QED
          BY <2>1, <4>1, <4>2
      <3> QED
        BY <1>2, <3>1, RangeConstants, PartialConstants
    <2> QED
      BY <1>1, <1>3, <2>1, <2>2, <2>3
  <1>6. ASSUME NEW o \in end + 1 .. total - 1
        PROVE  \E i \in 1 .. p : start(i) <= o /\ o <= stop(i)
    <2> DEFINE d == (o - (end + 1)) \div q
    <2>1. d \in Nat /\ d * q <= o - (end + 1) /\ o - (end + 1) < d * q + q
      BY <1>3
    <2> HIDE DEF d
    <2>2. CASE d < p - 1
      <3>1. PICK m \in Nat : m = d * q /\ m = (d + 1 - 1) * q
        BY <1>3, <2>1
      <3>2. start(d + 1) = end + 1 + m /\ stop(d + 1) = end + 1 + m + q /\ d + 1 \in 1 .. p
        BY <1>2, <2>1, <2>2, <3>1, RangeConstants, PartialConstants
      <3>3. start(d + 1) <= o /\ o <= stop(d + 1)
        BY <1>3, <2>1, <3>1, <3>2
      <3> QED
        BY <3>2, <3>3
    <2>3. CASE d >= p - 1
      <3>1. (p - 1) * q <= d * q
        BY <1>2, <1>3, <2>1, <2>3, RangeConstants, PartialConstants
      <3>2. p \in 1 .. p /\ start(p) <= o /\ o <= stop(p)
        BY <1>2, <1>3, <2>1, <3>1, RangeConstants, PartialConstants
      <3> QED
        BY <3>2
    <2> QED
      BY <1>2, <2>1, <2>2, <2>3, RangeConstants, PartialConstants
  <1>7. DOMAIN Split(end, total) = 1 .. p
    BY <1>4
  <1>8. \A i \in 1 .. p : Split(end, total)[i].start = start(i) /\ Split(end, total)[i].end = stop(i)
    BY <1>4
  <1>9. 1 .. p \subseteq Streams \ {0}
    BY <1>2, RangeConstants, PartialConstants DEF Streams
  <1> HIDE DEF start, stop
  <1> QED
    BY <1>5, <1>6, <1>7, <1>8, <1>9

\* The ranges of a split follow each other and share their boundaries.
LEMMA SplitAdjacent ==
    ASSUME NEW end \in Nat, NEW total \in Nat, end + 1 < total
    PROVE  \E p \in 1 .. MaxPartialRanges :
              /\ DOMAIN Split(end, total) = 1 .. p
              /\ Split(end, total)[1].start = end + 1
              /\ Split(end, total)[p].end = total - 1
              /\ \A i \in 1 .. p - 1 : Split(end, total)[i + 1].start = Split(end, total)[i].end
              /\ \A j, k \in 1 .. p : j <= k => Split(end, total)[j].start
                                                  <= Split(end, total)[k].start
  <1> DEFINE n == RangeSize(end + 1, total - 1)
             p == Parts(n)
             q == n \div p
             start(i) == end + 1 + (i - 1) * q
             stop(i) == IF i = p THEN total - 1 ELSE end + 1 + (i - 1) * q + q
  <1>1. n \in Nat \ {0} /\ n = total - (end + 1)
    BY DEF RangeSize
  <1>2. p \in 1 .. MaxPartialRanges /\ p <= n
    BY <1>1, PartsBounds
  <1>3. q \in Nat \ {0}
    BY <1>1, <1>2, PartSize, RangeConstants, PartialConstants
  <1>4. Split(end, total) = [i \in 1 .. p |-> [start |-> start(i), end |-> stop(i)]]
    BY <1>1 DEF Split
  <1> HIDE DEF n, p, q
  <1>5. start(1) = end + 1 /\ stop(p) = total - 1
    BY <1>3
  <1>6. ASSUME NEW i \in 1 .. p - 1 PROVE start(i + 1) = stop(i)
    <2>1. i \in Nat /\ i # p /\ (i + 1 - 1) * q = (i - 1) * q + q
      BY <1>2, <1>3, <1>6, RangeConstants, PartialConstants
    <2> QED
      BY <1>3, <2>1
  <1>7. ASSUME NEW j \in 1 .. p, NEW k \in 1 .. p, j <= k PROVE start(j) <= start(k)
    <2>1. PICK a \in Nat, b \in Nat : a = j - 1 /\ b = k - 1 /\ a <= b
      BY <1>2, <1>7, RangeConstants, PartialConstants
    <2>2. a * q <= b * q /\ a * q \in Nat /\ b * q \in Nat
      BY <1>3, <2>1
    <2> QED
      BY <2>1, <2>2
  <1>8. /\ DOMAIN Split(end, total) = 1 .. p
        /\ \A i \in 1 .. p : /\ Split(end, total)[i].start = start(i)
                             /\ Split(end, total)[i].end = stop(i)
    BY <1>4
  <1>9. 1 \in 1 .. p /\ p \in 1 .. p /\ \A i \in 1 .. p - 1 : i \in 1 .. p /\ i + 1 \in 1 .. p
    BY <1>2, RangeConstants, PartialConstants
  <1> HIDE DEF start, stop
  <1>10. /\ Split(end, total)[1].start = end + 1
         /\ Split(end, total)[p].end = total - 1
    BY <1>5, <1>8, <1>9
  <1>11. \A i \in 1 .. p - 1 : Split(end, total)[i + 1].start = Split(end, total)[i].end
    BY <1>6, <1>8, <1>9
  <1>12. \A j, k \in 1 .. p : j <= k => Split(end, total)[j].start <= Split(end, total)[k].start
    BY <1>7, <1>8
  <1> QED
    BY <1>2, <1>8, <1>10, <1>11, <1>12

-----------------------------------------------------------------------------
(* The invariant. *)

\* An attempt begins with an empty file and no streams.
LEMMA RangeInitInv == RangeInit => RangeInv
  <1> SUFFICES ASSUME RangeInit PROVE RangeInv
    OBVIOUS
  <1>1. NoStream \in StreamSet /\ NoStream.offset = 0 /\ NoStream.end = 0
    BY DEF NoStream, StreamSet
  <1>2. RangeTypeOK
    BY <1>1 DEF RangeInit, RangeTypeOK
  <1>3. PhaseInv /\ StreamInv /\ LimitInv /\ NothingBeyond /\ BytesInv
    BY DEF RangeInit, PhaseInv, StreamInv, LimitInv, NothingBeyond, BytesInv, NoStream
  <1> QED
    BY <1>2, <1>3 DEF RangeInv, SafeInv

\* The end of an attempt that writes nothing, given what its result promises.
LEMMA RangeEndsInv ==
    ASSUME RangeInv,
           NEW r \in {"ok", "error", "too_large"}, Finishes(r),
           transferred' \in Nat, UNCHANGED <<size, file, honest>>,
           r = "ok" => size <= MaxDownloadSize,
           r = "ok" /\ "short" \notin ServerFaults => \A o \in 0 .. size - 1 : file[o] = o
    PROVE  RangeInv'
  <1>1. /\ pc' = "done" /\ result' = r /\ \A i \in Streams : stream'[i] = NoStream
        /\ NoStream \in StreamSet /\ NoStream.offset = 0 /\ NoStream.end = 0
        /\ NoStream.pc = "none"
    BY DEF Finishes, NoStream, StreamSet
  <1>2. RangeTypeOK'
    BY <1>1 DEF RangeInv, SafeInv, RangeTypeOK, Finishes
  <1>3. PhaseInv' /\ StreamInv' /\ NothingBeyond'
    BY <1>1 DEF RangeInv, SafeInv, PhaseInv, StreamInv, NothingBeyond
  <1>4. LimitInv' /\ ("short" \notin ServerFaults => BytesInv')
    BY <1>1 DEF RangeInv, SafeInv, LimitInv, BytesInv
  <1> QED
    BY <1>2, <1>3, <1>4 DEF RangeInv, SafeInv

\* The whole resource in one response: all bytes are expected from stream 0.
LEMMA WholeBodyInv ==
    ASSUME RangeInv, pc \in {"initial", "plain"}, pc' = "streams",
           stream' = WholeBody, UNCHANGED <<size, file, transferred, result, honest>>
    PROVE  RangeInv'
  <1>1. /\ size \in 0 .. MaxResource /\ transferred = 0 /\ result = "none" /\ honest
        /\ \A o \in Offsets : file[o] = Hole
    BY DEF RangeInv, SafeInv, RangeTypeOK, PhaseInv
  <1>2. /\ stream'[0] = [pc |-> "body", offset |-> 0, end |-> MaxResource + 1, src |-> 0,
                         left |-> size]
        /\ \A i \in Streams \ {0} : stream'[i] = NoStream
        /\ 0 \in Streams
    BY RangeConstants, PartialConstants DEF WholeBody, Body, Streams
  <1>3. stream' \in [Streams -> StreamSet]
    BY <1>1, RangeConstants, PartialConstants DEF WholeBody, Body, NoStream, StreamSet
  <1>4. \A i \in Streams : i # 0 => stream'[i].pc = "none" /\ stream'[i].offset <= stream'[i].end
    BY <1>2 DEF NoStream
  <1>5. RangeTypeOK'
    BY <1>2, <1>3, <1>4, RangeConstants, PartialConstants DEF RangeInv, SafeInv, RangeTypeOK
  <1>6. PhaseInv' /\ StreamInv' /\ NothingBeyond'
    BY <1>1, <1>2, <1>4, RangeConstants, PartialConstants DEF RangeInv, SafeInv, PhaseInv, StreamInv, NothingBeyond
  <1>7. WholeInv'
    BY <1>1, <1>2, <1>4, RangeConstants, PartialConstants DEF WholeInv
  <1>8. LimitInv'
    BY <1>1, <1>7 DEF LimitInv
  <1>9. BytesInv'
    <2>1. \A i \in Streams : stream'[i].pc = "body" => i = 0
      BY <1>4
    <2>2. \A o \in 0 .. size - 1 : Expected(o)'
      BY <1>1, <1>2 DEF Expected, Until
    <2> QED
      BY <1>1, <1>2, <2>1, <2>2, RangeConstants, PartialConstants DEF BytesInv, Until
  <1> QED
    BY <1>5, <1>6, <1>8, <1>9 DEF RangeInv, SafeInv

\* A partial first response: the ranges of the remainder are requested.
LEMMA RespondsRangeInv ==
    ASSUME RangeInv, NEW end \in Bytes, RespondsRange(end)
    PROVE  RangeInv'
  <1> DEFINE parts == Split(end, size)
             n(i) == RangeSize(parts[i].start, parts[i].end)
  <1>1. /\ pc = "initial" /\ end + 1 < size /\ UNCHANGED <<size, file, transferred, honest>>
        /\ size \in 0 .. MaxResource /\ transferred = 0 /\ result = "none" /\ honest
        /\ \A o \in Offsets : file[o] = Hole
    BY DEF RespondsRange, RangeInv, SafeInv, RangeTypeOK, PhaseInv
  <1>2. end \in Nat /\ size \in Nat
    BY <1>1, RangeConstants, PartialConstants DEF Bytes
  <1>3. CASE size > MaxDownloadSize
    <2>1. Finishes("too_large")
      BY <1>3 DEF RespondsRange
    <2> QED
      BY <1>1, <2>1, RangeEndsInv
  <1>4. CASE ~ (size > MaxDownloadSize)
    <2>1. /\ pc' = "streams" /\ result' = result
          /\ stream' = [i \in Streams |->
                          IF i = 0 THEN Body(0, end + 2, 0, end + 1)
                          ELSE IF i \in DOMAIN parts THEN Destination(parts[i].start, n(i))
                          ELSE NoStream]
      BY <1>4 DEF RespondsRange
    <2>2. /\ DOMAIN parts \subseteq Streams \ {0}
          /\ \A i \in DOMAIN parts : /\ parts[i].start \in Nat /\ parts[i].end \in Nat
                                     /\ end < parts[i].start /\ parts[i].start <= parts[i].end
                                     /\ parts[i].end < size
          /\ \A o \in end + 1 .. size - 1 :
                \E i \in DOMAIN parts : parts[i].start <= o /\ o <= parts[i].end
      BY <1>1, <1>2, SplitCovers
    <2> HIDE DEF parts
    <2>3. /\ 0 \in Streams
          /\ stream'[0] = [pc |-> "body", offset |-> 0, end |-> end + 2, src |-> 0,
                           left |-> end + 1]
      BY <2>1, RangeConstants, PartialConstants DEF Streams, Body
    <2>4. ASSUME NEW i \in DOMAIN parts
          PROVE  /\ stream'[i] \in StreamSet
                 /\ stream'[i].pc = "request" /\ stream'[i].offset = parts[i].start
                 /\ stream'[i].end = parts[i].end + 2
                 /\ stream'[i].offset < stream'[i].end /\ stream'[i].end <= size + 1
      <3>1. PICK a \in Nat, b \in Nat : /\ a = parts[i].start /\ b = parts[i].end
                                       /\ a <= b /\ b < size
        BY <2>2
      <3>2. i \in Streams \ {0} /\ a + n(i) + 1 = b + 2
        BY <2>2, <3>1 DEF RangeSize
      <3>3. stream'[i] = [pc |-> "request", offset |-> a, end |-> b + 2, src |-> a, left |-> 0]
        BY <2>1, <3>1, <3>2 DEF Destination
      <3> QED
        BY <1>2, <3>1, <3>3 DEF StreamSet
    <2>5. \A i \in Streams : i \notin DOMAIN parts /\ i # 0 => stream'[i] = NoStream
      BY <2>1
    <2>6. ASSUME NEW i \in Streams
          PROVE  /\ stream'[i] \in StreamSet /\ stream'[i].offset <= stream'[i].end
                 /\ i # 0 => stream'[i].pc \in {"request", "none"}
                 /\ stream'[i].pc = "request" => i \in DOMAIN parts
      <3>1. CASE i = 0
        BY <1>2, <2>3, <3>1 DEF StreamSet
      <3>2. CASE i \in DOMAIN parts
        <4>1. /\ stream'[i] \in StreamSet /\ stream'[i].pc = "request"
              /\ stream'[i].offset < stream'[i].end
          BY <2>4, <3>2
        <4> QED
          BY <2>2, <3>2, <4>1 DEF StreamSet
      <3>3. CASE i \notin DOMAIN parts /\ i # 0
        BY <2>5, <3>3 DEF StreamSet, NoStream
      <3> QED
        BY <3>1, <3>2, <3>3
    <2>7. stream' \in [Streams -> StreamSet]
      BY <2>1, <2>6
    <2>8. RangeTypeOK'
      BY <1>1, <2>1, <2>6, <2>7 DEF RangeInv, SafeInv, RangeTypeOK
    <2>9. PhaseInv' /\ NothingBeyond'
      BY <1>1, <2>1 DEF RangeInv, SafeInv, PhaseInv, NothingBeyond
    <2>10. StreamInv'
      <3>1. ASSUME NEW i \in Streams, i # 0, stream'[i].pc \in {"request", "body"}
            PROVE  /\ stream'[i].pc = "request" /\ stream'[i].offset < stream'[i].end
                   /\ stream'[i].end <= size + 1
        BY <2>4, <2>6, <3>1
      <3> QED
        BY <1>1, <1>2, <2>3, <3>1 DEF StreamInv
    <2>11. LimitInv'
      BY <1>1, <1>2, <1>4, <2>1, RangeConstants, PartialConstants DEF LimitInv
    <2>12. BytesInv'
      <3>1. ASSUME NEW o \in 0 .. size - 1 PROVE Expected(o)'
        <4>1. CASE o <= end
          BY <1>2, <2>3, <4>1 DEF Expected, Until
        <4>2. CASE o > end
          <5>1. PICK i \in DOMAIN parts : parts[i].start <= o /\ o <= parts[i].end
            BY <1>2, <2>2, <4>2
          <5>2. i \in Streams /\ stream'[i].pc = "request" /\ stream'[i].offset <= o
                /\ o < stream'[i].end - 1
            <6>1. PICK b \in Nat : b = parts[i].end /\ o <= b
              BY <2>2, <5>1
            <6> QED
              BY <2>2, <2>4, <5>1, <6>1
          <5> QED
            BY <5>2 DEF Expected, Until
        <4> QED
          BY <1>2, <4>1, <4>2
      <3>2. \A i \in Streams : stream'[i].pc = "body" => i = 0
        BY <2>6
      <3>3. stream'[0].src = stream'[0].offset /\ Until(0)' < stream'[0].end
        BY <1>2, <2>3 DEF Until
      <3> QED
        BY <1>1, <2>1, <3>1, <3>2, <3>3 DEF BytesInv
    <2> QED
      BY <2>8, <2>9, <2>10, <2>11, <2>12 DEF RangeInv, SafeInv
  <1> QED
    BY <1>3, <1>4

\* The answer to a range request, which may be the whole resource instead.
LEMMA OpenPartInv ==
    ASSUME RangeInv, NEW i \in Streams, OpenPart(i)
    PROVE  RangeInv'
  <1> DEFINE s == stream[i]
             n == s.end - s.offset - 1
  <1>1. /\ s.pc = "request" /\ UNCHANGED <<size, pc, file, transferred, result>>
        /\ s \in StreamSet /\ s.offset \in Nat /\ s.end \in Nat /\ size \in Nat
        /\ s.offset < s.end /\ s.end <= size + 1 /\ i # 0
        /\ n \in Nat
    BY RangeConstants, PartialConstants DEF OpenPart, RangeInv, SafeInv, RangeTypeOK, StreamInv, StreamSet
  <1>2. PICK src \in Nat, left \in Nat :
            /\ stream' = [stream EXCEPT ![i] = Body(s.offset, s.end, src, left)]
            /\ honest' = (honest /\ src = s.offset /\ left = n)
            /\ \/ src = s.offset /\ left = n
               \/ src = 0 /\ left = size
               \/ "short" \in ServerFaults /\ src = s.offset /\ left \in 0 .. n
    BY <1>1 DEF OpenPart
  <1>3. /\ stream'[i] \in StreamSet /\ stream'[i].pc = "body" /\ stream'[i].offset = s.offset
        /\ stream'[i].end = s.end /\ stream'[i].src = src /\ stream'[i].left = left
        /\ \A j \in Streams \ {i} : stream'[j] = stream[j]
        /\ stream' \in [Streams -> StreamSet]
    BY <1>1, <1>2 DEF Body, StreamSet, RangeInv, SafeInv, RangeTypeOK
  <1>4. pc = "streams" /\ honest' \in BOOLEAN
    BY <1>1, <1>2 DEF RangeInv, SafeInv, RangeTypeOK, PhaseInv, NoStream
  <1>5. src + left <= size
    BY <1>1, <1>2
  <1> HIDE DEF s, n
  <1>6. RangeTypeOK'
    <2>1. \A j \in Streams : stream'[j].offset <= stream'[j].end
      BY <1>1, <1>3 DEF RangeInv, SafeInv, RangeTypeOK
    <2> QED
      BY <1>1, <1>3, <1>4, <2>1 DEF RangeInv, SafeInv, RangeTypeOK
  <1>7. PhaseInv' /\ NothingBeyond'
    BY <1>1, <1>4 DEF RangeInv, SafeInv, PhaseInv, NothingBeyond
  <1>8. StreamInv'
    BY <1>1, <1>3, <1>5 DEF RangeInv, SafeInv, StreamInv
  <1>9. LimitInv'
    <2>1. ~ WholeInv
      BY <1>1 DEF WholeInv, s
    <2> QED
      BY <1>1, <1>4, <2>1 DEF RangeInv, SafeInv, LimitInv
  <1>10. ASSUME "short" \notin ServerFaults PROVE BytesInv'
    <2>1. BytesInv
      BY <1>10 DEF RangeInv
    <2>2. CASE honest'
      <3>1. honest /\ src = s.offset /\ left = n /\ s.offset + n = s.end - 1
        <4>1. honest /\ src = s.offset /\ left = n
          BY <1>2, <2>2
        <4>2. s.offset + n = s.end - 1
          BY <1>1 DEF n
        <4> QED
          BY <4>1, <4>2
      <3>2. \A j \in Streams : stream'[j].pc = "body" => /\ stream'[j].src = stream'[j].offset
                                                         /\ Until(j)' < stream'[j].end
        BY <1>1, <1>3, <1>4, <2>1, <3>1 DEF BytesInv, Until
      <3>3. \A o \in 0 .. size - 1 : Expected(o) => Expected(o)'
        BY <1>1, <1>3, <3>1 DEF Expected, Until, s
      <3> QED
        BY <1>1, <1>4, <2>1, <2>2, <3>1, <3>2, <3>3 DEF BytesInv
    <2>3. CASE ~ honest' /\ honest
      <3>1. src = 0 /\ left = size /\ ~ (src = s.offset /\ left = n)
        BY <1>2, <1>10, <2>3
      <3>2. s.offset + left >= s.end
        BY <1>1, <3>1 DEF n
      <3> QED
        BY <1>1, <1>3, <1>4, <2>1, <2>3, <3>2 DEF BytesInv, Until
    <2>4. CASE ~ honest
      <3>1. PICK j \in Streams : stream[j].pc = "body" /\ Until(j) >= stream[j].end
        BY <1>4, <2>1, <2>4 DEF BytesInv
      <3>2. j # i /\ stream'[j].pc = "body" /\ Until(j)' >= stream'[j].end
        BY <1>1, <1>3, <3>1 DEF Until, s
      <3> QED
        BY <1>1, <1>2, <1>4, <2>1, <2>4, <3>2 DEF BytesInv
    <2> QED
      BY <2>2, <2>3, <2>4
  <1> QED
    BY <1>6, <1>7, <1>8, <1>9, <1>10 DEF RangeInv, SafeInv

(***************************************************************************)
(* One chunk: a byte that was expected from this stream is now in its      *)
(* place, and one that was in its place still is, because what this stream *)
(* writes is right.                                                        *)
(***************************************************************************)
LEMMA ChunkInv ==
    ASSUME RangeInv,
           NEW i \in Streams, NEW n \in 1 .. MaxResource, Chunk(i, n)
    PROVE  RangeInv'
  <1> DEFINE s == stream[i]
  <1>1. /\ s.pc = "body" /\ n <= s.left /\ transferred' = transferred + n
        /\ UNCHANGED <<size, honest>>
        /\ s \in StreamSet /\ s.offset \in Nat /\ s.end \in Nat /\ s.src \in Nat
        /\ s.left \in Nat /\ size \in Nat /\ size <= MaxResource /\ n \in Nat \ {0}
        /\ s.src + s.left <= size
        /\ s.end <= size + 1 \/ s.offset + s.left <= size
    BY RangeConstants, PartialConstants DEF Chunk, RangeInv, SafeInv, RangeTypeOK, StreamInv, StreamSet
  <1>2. pc = "streams" /\ transferred' \in Nat
    BY <1>1 DEF RangeInv, SafeInv, RangeTypeOK, PhaseInv, NoStream
  <1>3. ASSUME NEW r \in {"error", "too_large"}, Finishes(r), UNCHANGED file
        PROVE  RangeInv'
    BY <1>1, <1>2, <1>3, RangeEndsInv
  <1>4. CASE /\ ~ SizeExceeded(n) /\ ~ (s.offset + n >= s.end)
             /\ file' = Written(s.offset, s.src, n)
             /\ stream' = [stream EXCEPT ![i] = Advanced(s, n)]
             /\ UNCHANGED <<pc, result>>
    <2>1. /\ stream' \in [Streams -> StreamSet]
          /\ stream'[i].pc = "body" /\ stream'[i].end = s.end
          /\ stream'[i].offset = s.offset + n /\ stream'[i].src = s.src + n
          /\ stream'[i].left = s.left - n
          /\ \A j \in Streams \ {i} : stream'[j] = stream[j]
      <3>1. /\ Advanced(s, n) \in StreamSet
            /\ Advanced(s, n).pc = "body" /\ Advanced(s, n).end = s.end
            /\ Advanced(s, n).offset = s.offset + n /\ Advanced(s, n).src = s.src + n
            /\ Advanced(s, n).left = s.left - n
        <4>1. s.offset + n \in Nat /\ s.src + n \in Nat /\ s.left - n \in Nat
          BY <1>1
        <4> HIDE DEF s
        <4> QED
          BY <1>1, <4>1 DEF Advanced, StreamSet
      <3> QED
        BY <1>4, <3>1 DEF RangeInv, SafeInv, RangeTypeOK
    <2>2. s.offset + n < s.end /\ s.offset + n <= size
      BY <1>1, <1>4
    <2>3. /\ \A o \in Offsets : /\ s.offset <= o /\ o < s.offset + n
                                     => file'[o] = s.src + (o - s.offset)
                                /\ ~ (s.offset <= o /\ o < s.offset + n) => file'[o] = file[o]
          /\ DOMAIN file' = Offsets
      <3>1. \A o \in Offsets : o \in s.offset .. s.offset + n - 1
                                  <=> s.offset <= o /\ o < s.offset + n
        BY <1>1, RangeConstants, PartialConstants DEF Offsets
      <3> HIDE DEF s
      <3> QED
        BY <1>4, <3>1 DEF Written
    <2>4. file' \in [Offsets -> Bytes \union {Hole}]
      <3>1. ASSUME NEW o \in Offsets PROVE file'[o] \in Bytes \union {Hole}
        <4>1. CASE s.offset <= o /\ o < s.offset + n
          <5>1. s.src + (o - s.offset) \in Bytes
            BY <1>1, <4>1, RangeConstants, PartialConstants DEF Bytes, Offsets
          <5> QED
            BY <2>3, <4>1, <5>1
        <4>2. CASE ~ (s.offset <= o /\ o < s.offset + n)
          BY <2>3, <4>2 DEF RangeInv, SafeInv, RangeTypeOK
        <4> QED
          BY <4>1, <4>2
      <3> HIDE DEF s
      <3> QED
        BY <1>4, <3>1 DEF Written
    <2> HIDE DEF s
    <2>5. RangeTypeOK'
      <3>1. \A j \in Streams : stream'[j].offset <= stream'[j].end
        BY <1>1, <2>1, <2>2 DEF RangeInv, SafeInv, RangeTypeOK
      <3> QED
        BY <1>1, <1>2, <1>4, <2>1, <2>4, <3>1 DEF RangeInv, SafeInv, RangeTypeOK
    <2>6. PhaseInv'
      BY <1>1, <1>2, <1>4 DEF RangeInv, SafeInv, PhaseInv
    <2>7. StreamInv'
      <3>1. /\ stream'[i].src + stream'[i].left <= size
            /\ stream'[i].end <= size + 1 \/ stream'[i].offset + stream'[i].left <= size
        BY <1>1, <2>1
      <3> QED
        BY <1>1, <2>1, <2>2, <3>1 DEF RangeInv, SafeInv, StreamInv
    <2>8. LimitInv'
      <3>1. ASSUME WholeInv PROVE WholeInv'
        <4>1. i = 0
          BY <1>1, <3>1 DEF WholeInv, s
        <4>2. transferred + n <= MaxDownloadSize
          BY <1>1, <1>4, RangeConstants, PartialConstants DEF SizeExceeded, RangeInv, SafeInv, RangeTypeOK
        <4>3. s.offset + s.left = size /\ transferred = s.offset
          BY <3>1, <4>1 DEF WholeInv, s
        <4>4. /\ stream'[0].offset + stream'[0].left = size
              /\ transferred' = stream'[0].offset /\ transferred' <= MaxDownloadSize
          <5>1. stream'[0].offset = s.offset + n /\ stream'[0].left = s.left - n
            BY <2>1, <4>1
          <5> QED
            BY <1>1, <4>2, <4>3, <5>1
        <4>5. stream'[0].pc = "body" /\ \A j \in Streams \ {0} : stream'[j].pc = "none"
          BY <2>1, <3>1, <4>1 DEF WholeInv
        <4> QED
          BY <1>1, <4>4, <4>5 DEF WholeInv
      <3> QED
        BY <1>1, <1>2, <1>4, <3>1 DEF RangeInv, SafeInv, LimitInv
    <2>9. NothingBeyond'
      <3>1. ASSUME NEW o \in Offsets, o >= size PROVE file'[o] = file[o]
        BY <1>1, <2>2, <2>3, <3>1, RangeConstants, PartialConstants DEF Offsets
      <3> QED
        BY <1>1, <3>1 DEF RangeInv, SafeInv, NothingBeyond
    <2>10. ASSUME "short" \notin ServerFaults PROVE BytesInv'
      <3>1. BytesInv /\ result' # "ok"
        BY <1>2, <1>4, <2>10 DEF RangeInv, SafeInv, PhaseInv
      <3>2. \A j \in Streams : stream'[j].pc = stream[j].pc /\ stream'[j].end = stream[j].end
                               /\ (stream[j].pc = "body" => Until(j)' = Until(j))
        BY <1>1, <2>1 DEF Until, s
      <3>3. CASE honest
        <4>1. s.src = s.offset
          BY <1>1, <1>2, <3>1, <3>3 DEF BytesInv, s
        <4>2. \A j \in Streams : stream'[j].pc = "body" => stream'[j].src = stream'[j].offset
                                                           /\ Until(j)' < stream'[j].end
          BY <1>1, <1>2, <2>1, <3>1, <3>2, <3>3, <4>1 DEF BytesInv
        <4>3. ASSUME NEW o \in 0 .. size - 1 PROVE file'[o] = o \/ Expected(o)'
          <5>1. o \in Offsets /\ o \in Nat
            BY <1>1, RangeConstants, PartialConstants DEF Offsets
          <5>2. CASE s.offset <= o /\ o < s.offset + n
            BY <1>1, <2>3, <4>1, <5>1, <5>2
          <5>3. CASE ~ (s.offset <= o /\ o < s.offset + n) /\ file[o] = o
            BY <2>3, <5>1, <5>3
          <5>4. CASE ~ (s.offset <= o /\ o < s.offset + n) /\ Expected(o)
            <6>1. PICK j \in Streams : /\ stream[j].pc \in {"request", "body"}
                                       /\ stream[j].offset <= o /\ o < Until(j)
              BY <5>4 DEF Expected
            <6>2. stream'[j].offset <= o
              BY <1>1, <2>1, <5>1, <5>4, <6>1 DEF s
            <6>3. Until(j)' = Until(j)
              BY <1>1, <2>1, <3>2, <6>1 DEF Until, s
            <6> QED
              BY <3>2, <6>1, <6>2, <6>3 DEF Expected
          <5> QED
            BY <1>2, <3>1, <3>3, <5>2, <5>3, <5>4 DEF BytesInv
        <4> QED
          BY <1>1, <3>1, <3>3, <4>2, <4>3 DEF BytesInv
      <3>4. CASE ~ honest
        BY <1>1, <1>2, <3>1, <3>2, <3>4 DEF BytesInv
      <3> QED
        BY <3>3, <3>4
    <2> QED
      BY <2>5, <2>6, <2>7, <2>8, <2>9, <2>10 DEF RangeInv, SafeInv
  <1> QED
    BY <1>3, <1>4 DEF Chunk

\* A stream that has written all of its body expects nothing more.
LEMMA BodyEndsInv ==
    ASSUME RangeInv, NEW i \in Streams, BodyEnds(i)
    PROVE  RangeInv'
  <1>1. /\ stream[i].pc = "body" /\ stream[i].left = 0 /\ stream[i] \in StreamSet
        /\ stream[i].offset \in Nat /\ stream[i].end \in Nat
        /\ stream[i].offset < stream[i].end
        /\ stream' = [stream EXCEPT ![i] = [@ EXCEPT !.pc = "done"]]
        /\ UNCHANGED <<size, pc, file, transferred, result, honest>>
    BY DEF BodyEnds, RangeInv, SafeInv, RangeTypeOK, StreamInv, StreamSet
  <1>2. /\ stream' \in [Streams -> StreamSet] /\ stream'[i].pc = "done"
        /\ stream'[i].offset = stream[i].offset /\ stream'[i].end = stream[i].end
        /\ stream'[i].left = stream[i].left
        /\ \A j \in Streams \ {i} : stream'[j] = stream[j]
    BY <1>1 DEF RangeInv, SafeInv, RangeTypeOK, StreamSet
  <1>3. pc = "streams"
    BY <1>1 DEF RangeInv, SafeInv, RangeTypeOK, PhaseInv, NoStream
  <1>4. RangeTypeOK'
    <2>1. \A j \in Streams : stream'[j].offset <= stream'[j].end
      BY <1>1, <1>2 DEF RangeInv, SafeInv, RangeTypeOK
    <2> QED
      BY <1>1, <1>2, <2>1 DEF RangeInv, SafeInv, RangeTypeOK
  <1>5. PhaseInv' /\ NothingBeyond'
    BY <1>1, <1>3 DEF RangeInv, SafeInv, PhaseInv, NothingBeyond
  <1>6. StreamInv'
    BY <1>1, <1>2 DEF RangeInv, SafeInv, StreamInv
  <1>7. LimitInv'
    <2>1. ASSUME WholeInv PROVE WholeInv'
      <3>1. i = 0
        BY <1>1, <2>1 DEF WholeInv
      <3> QED
        BY <1>1, <1>2, <2>1, <3>1 DEF WholeInv
    <2> QED
      BY <1>1, <1>3, <2>1 DEF RangeInv, SafeInv, LimitInv
  <1>8. ASSUME "short" \notin ServerFaults PROVE BytesInv'
    <2>1. BytesInv /\ result' # "ok"
      BY <1>1, <1>3, <1>8 DEF RangeInv, SafeInv, PhaseInv
    <2>2. \A j \in Streams \ {i} : Until(j)' = Until(j)
      BY <1>2 DEF Until
    <2>3. Until(i) = stream[i].offset
      BY <1>1 DEF Until
    <2>4. CASE honest
      <3>1. \A j \in Streams : stream'[j].pc = "body" => stream'[j].src = stream'[j].offset
                                                         /\ Until(j)' < stream'[j].end
        BY <1>2, <1>3, <2>1, <2>2, <2>4 DEF BytesInv
      <3>2. ASSUME NEW o \in 0 .. size - 1, Expected(o) PROVE Expected(o)'
        <4>1. PICK j \in Streams : /\ stream[j].pc \in {"request", "body"}
                                   /\ stream[j].offset <= o /\ o < Until(j)
          BY <3>2 DEF Expected
        <4>2. j # i
          BY <1>1, <2>3, <4>1
        <4> QED
          BY <1>2, <2>2, <4>1, <4>2 DEF Expected
      <3> QED
        BY <1>1, <1>3, <2>1, <2>4, <3>1, <3>2 DEF BytesInv
    <2>5. CASE ~ honest
      <3>1. PICK j \in Streams : stream[j].pc = "body" /\ Until(j) >= stream[j].end
        BY <1>3, <2>1, <2>5 DEF BytesInv
      <3>2. j # i
        BY <1>1, <2>3, <3>1
      <3> QED
        BY <1>1, <1>2, <1>3, <2>1, <2>2, <2>5, <3>1, <3>2 DEF BytesInv
    <2> QED
      BY <2>4, <2>5
  <1> QED
    BY <1>4, <1>5, <1>6, <1>7, <1>8 DEF RangeInv, SafeInv

\* All bodies have ended: nothing is expected, so every byte is in its place.
LEMMA AllStreamsEndInv ==
    ASSUME RangeInv, AllStreamsEnd
    PROVE  RangeInv'
  <1>1. /\ pc = "streams" /\ \A i \in Streams : stream[i].pc \in {"none", "done"}
        /\ Finishes("ok") /\ UNCHANGED <<size, file, transferred, honest>>
        /\ transferred' \in Nat
    BY DEF AllStreamsEnd, RangeInv, SafeInv, RangeTypeOK
  <1>2. size <= MaxDownloadSize
    <2>1. ASSUME WholeInv PROVE size <= MaxDownloadSize
      <3>1. 0 \in Streams /\ stream[0].offset \in Nat /\ size \in Nat
        BY RangeConstants, PartialConstants DEF Streams, RangeInv, SafeInv, RangeTypeOK, StreamSet
      <3> QED
        BY <1>1, <2>1, <3>1 DEF WholeInv
    <2> QED
      BY <1>1, <2>1 DEF RangeInv, SafeInv, LimitInv
  <1>3. ASSUME "short" \notin ServerFaults PROVE \A o \in 0 .. size - 1 : file[o] = o
    BY <1>1, <1>3 DEF RangeInv, BytesInv, Expected
  <1> QED
    BY <1>1, <1>2, <1>3, RangeEndsInv

\* RangeInv is inductive.
LEMMA RangeNextInv == RangeInv /\ [RangeNext]_rangeVars => RangeInv'
  <1> SUFFICES ASSUME RangeInv, [RangeNext]_rangeVars PROVE RangeInv'
    OBVIOUS
  <1>1. transferred \in Nat
    BY DEF RangeInv, SafeInv, RangeTypeOK
  <1>2. CASE RespondsFull \/ PlainRequest
    BY <1>2, WholeBodyInv DEF RespondsFull, PlainRequest
  <1>3. CASE RespondsUnusable
    <2>1. RangeTypeOK'
      BY <1>3 DEF RespondsUnusable, RangeInv, SafeInv, RangeTypeOK
    <2>2. PhaseInv' /\ StreamInv' /\ LimitInv' /\ NothingBeyond' /\ BytesInv'
      BY <1>3 DEF RespondsUnusable, RangeInv, SafeInv, PhaseInv, StreamInv, LimitInv, NothingBeyond,
         BytesInv
    <2> QED
      BY <2>1, <2>2 DEF RangeInv, SafeInv
  <1>4. CASE RequestFails
    BY <1>1, <1>4, RangeEndsInv DEF RequestFails
  <1>5. CASE RespondsEmpty
    BY <1>1, <1>5, RangeEndsInv, RangeConstants, PartialConstants DEF RespondsEmpty
  <1>6. ASSUME NEW end \in Bytes, RespondsRange(end) PROVE RangeInv'
    BY <1>6, RespondsRangeInv
  <1>7. ASSUME NEW i \in Streams, OpenPart(i) \/ BodyEnds(i) PROVE RangeInv'
    BY <1>7, OpenPartInv, BodyEndsInv
  <1>8. ASSUME NEW i \in Streams, StreamFails(i) PROVE RangeInv'
    BY <1>1, <1>8, RangeEndsInv DEF StreamFails
  <1>9. ASSUME NEW i \in Streams, NEW n \in 1 .. MaxResource, Chunk(i, n) PROVE RangeInv'
    BY <1>9, ChunkInv
  <1>10. CASE AllStreamsEnd
    BY <1>10, AllStreamsEndInv
  <1>11. CASE UNCHANGED rangeVars
    BY <1>11 DEF rangeVars, RangeInv, SafeInv, RangeTypeOK, PhaseInv, StreamInv, LimitInv, WholeInv,
       NothingBeyond, BytesInv, Expected, Until
  <1> QED
    BY <1>2, <1>3, <1>4, <1>5, <1>6, <1>7, <1>8, <1>9, <1>10, <1>11 DEF RangeNext, Terminated

\* The invariant holds of every attempt.
LEMMA AlwaysRangeInv == RangeSpec => []RangeInv
  BY RangeInitInv, RangeNextInv, PTL DEF RangeSpec

-----------------------------------------------------------------------------
(* The bytes that are counted. *)

\* The streams index the sums.
LEMMA TotalsFacts ==
    /\ 0 \in Totals /\ MaxPartialRanges + 1 \in Totals
    /\ \A k \in Totals : k \in Nat
    /\ \A i \in Streams : i \in Nat /\ i \in Totals /\ i + 1 \in Totals
  BY RangeConstants, PartialConstants DEF Streams, Totals

\* Bytes of one stream are counted: they move from ahead of it to the transferred ones.
LEMMA CountingKept ==
    ASSUME RangeInv, NEW acc, Accounts(acc), NEW i \in Streams, NEW n \in Nat,
           n <= Ahead(stream[i]),
           transferred' = transferred + n, size' = size,
           Ahead(stream'[i]) = Ahead(stream[i]) - n,
           \A j \in Streams \ {i} : stream'[j] = stream[j]
    PROVE  \E a : Accounts(a)'
  <1> DEFINE a == [k \in Totals |-> IF k <= i THEN acc[k] + n ELSE acc[k]]
  <1>1. /\ i \in Nat /\ i + 1 \in Totals /\ i \in Totals /\ 0 \in Totals
        /\ MaxPartialRanges + 1 \in Totals
        /\ \A j \in Streams : j \in Totals /\ j + 1 \in Totals /\ j \in Nat
        /\ \A k \in Totals : k \in Nat /\ acc[k] \in Nat
    BY TotalsFacts DEF Accounts
  <1>2. acc[i + 1] = acc[i] + Ahead(stream[i]) /\ Ahead(stream[i]) \in Int
    <2>1. Ahead(stream[i]) \in Int
      BY DEF Ahead, RangeInv, SafeInv, RangeTypeOK, StreamSet
    <2> QED
      BY <2>1 DEF Accounts
  <1>3. a \in [Totals -> Nat]
    BY <1>1
  <1>4. a[0] = transferred'
    BY <1>1 DEF Accounts
  <1>5. ASSUME NEW j \in Streams PROVE a[j + 1] = a[j] + Ahead(stream'[j])
    <2>1. acc[j + 1] = acc[j] + Ahead(stream[j])
      BY DEF Accounts
    <2>2. Ahead(stream[j]) \in Int
      BY DEF Ahead, RangeInv, SafeInv, RangeTypeOK, StreamSet
    <2>3. CASE j = i
      BY <1>1, <1>2, <2>1, <2>3
    <2>4. CASE j # i
      <3>1. Ahead(stream'[j]) = Ahead(stream[j])
        BY <2>4
      <3>2. j \in Nat /\ i \in Nat
        BY <1>1
      <3>3. j + 1 <= i <=> j <= i
        BY <2>4, <3>2
      <3>4. j \in Totals /\ j + 1 \in Totals /\ acc[j] \in Nat /\ acc[j + 1] \in Nat
        BY <1>1
      <3>5. /\ a[j] = IF j <= i THEN acc[j] + n ELSE acc[j]
            /\ a[j + 1] = IF j <= i THEN acc[j + 1] + n ELSE acc[j + 1]
        BY <3>3, <3>4
      <3> HIDE DEF a
      <3> QED
        BY <2>1, <2>2, <3>1, <3>4, <3>5
    <2> QED
      BY <2>3, <2>4
  <1>6. ASSUME NEW j \in Totals, NEW k \in Totals, j <= k PROVE a[j] <= a[k]
    <2>1. acc[j] <= acc[k]
      BY <1>6 DEF Accounts
    <2>2. CASE j <= i /\ ~ (k <= i)
      <3>1. acc[j] <= acc[i]
        BY <1>1, <2>2 DEF Accounts
      <3>2. acc[i + 1] <= acc[k]
        <4>1. i + 1 <= k
          BY <1>1, <2>2
        <4> QED
          BY <1>1, <4>1 DEF Accounts
      <3> QED
        BY <1>1, <1>2, <2>2, <3>1, <3>2
    <2>3. CASE ~ (j <= i /\ ~ (k <= i))
      BY <1>1, <1>6, <2>1, <2>3
    <2> QED
      BY <2>2, <2>3
  <1>7. a[MaxPartialRanges + 1] <= size' + MaxPartialRanges - 1
    <2>1. ~ (MaxPartialRanges + 1 <= i)
      BY RangeConstants, PartialConstants DEF Streams
    <2> QED
      BY <1>1, <2>1 DEF Accounts
  <1> HIDE DEF a
  <1> QED
    BY <1>3, <1>4, <1>5, <1>6, <1>7 DEF Accounts

\* All bytes of a resource in one response are ahead of the first stream.
LEMMA WholeCounted ==
    ASSUME RangeInv, pc \in {"initial", "plain"},
           stream' = WholeBody, UNCHANGED <<size, transferred>>
    PROVE  \E a : Accounts(a)'
  <1> DEFINE a == [k \in Totals |-> IF k = 0 THEN 0 ELSE size]
  <1>1. size \in Nat /\ transferred = 0
    BY DEF RangeInv, SafeInv, RangeTypeOK, PhaseInv
  <1>2. \A i \in Streams : /\ Ahead(stream'[i]) = IF i = 0 THEN size ELSE 0
                           /\ i \in Totals /\ i + 1 \in Totals /\ i + 1 # 0
    BY RangeConstants, PartialConstants DEF WholeBody, Body, NoStream, Ahead, Streams, Totals
  <1>3. a \in [Totals -> Nat] /\ a[0] = transferred'
    BY <1>1, RangeConstants, PartialConstants DEF Totals
  <1>4. \A i \in Streams : a[i + 1] = a[i] + Ahead(stream'[i])
    BY <1>1, <1>2
  <1>5. \A j, k \in Totals : j <= k => a[j] <= a[k]
    BY <1>1, RangeConstants, PartialConstants DEF Totals
  <1>6. a[MaxPartialRanges + 1] <= size' + MaxPartialRanges - 1
    BY <1>1, RangeConstants, PartialConstants DEF Totals
  <1> HIDE DEF a
  <1> QED
    BY <1>3, <1>4, <1>5, <1>6 DEF Accounts

\* A split resource counts one byte more for each boundary between ranges.
LEMMA RangesCounted ==
    ASSUME RangeInv, NEW end \in Bytes, RespondsRange(end), pc' = "streams"
    PROVE  \E a : Accounts(a)'
  <1> DEFINE parts == Split(end, size)
  <1>1. /\ size \in Nat /\ transferred' = 0 /\ size' = size /\ end \in Nat /\ end + 1 < size
    BY RangeConstants, PartialConstants DEF RespondsRange, RangeInv, SafeInv, RangeTypeOK, PhaseInv, Bytes
  <1>2. stream' = [i \in Streams |->
                     IF i = 0 THEN Body(0, end + 2, 0, end + 1)
                     ELSE IF i \in DOMAIN parts
                          THEN Destination(parts[i].start,
                                           RangeSize(parts[i].start, parts[i].end))
                          ELSE NoStream]
    BY DEF RespondsRange, Finishes
  <1>3. PICK p \in 1 .. MaxPartialRanges :
              /\ DOMAIN parts = 1 .. p
              /\ parts[1].start = end + 1
              /\ parts[p].end = size - 1
              /\ \A i \in 1 .. p - 1 : parts[i + 1].start = parts[i].end
              /\ \A j, k \in 1 .. p : j <= k => parts[j].start <= parts[k].start
    BY <1>1, SplitAdjacent
  <1>4. \A i \in 1 .. p : /\ parts[i].start \in Nat /\ parts[i].end \in Nat
                          /\ parts[i].start <= parts[i].end /\ parts[i].end < size
    BY <1>1, <1>3, SplitCovers
  <1> HIDE DEF parts
  <1> DEFINE a == [k \in Totals |-> IF k = 0 THEN 0
                                  ELSE IF k <= p THEN parts[k].start + (k - 1)
                                  ELSE size - 1 + p]
  <1>5. p \in Nat \ {0} /\ p <= MaxPartialRanges /\ \A k \in Totals : k \in Nat
    BY <1>3, RangeConstants, PartialConstants DEF Totals
  <1>6. ASSUME NEW i \in Streams
        PROVE  /\ Ahead(stream'[i]) = IF i = 0 THEN end + 1
                                      ELSE IF i <= p THEN parts[i].end - parts[i].start + 1 ELSE 0
               /\ i \in Nat /\ i \in Totals /\ i + 1 \in Totals
    <2>1. i \in Nat /\ i \in Totals /\ i + 1 \in Totals
      BY <1>6, RangeConstants, PartialConstants DEF Streams, Totals
    <2>2. CASE i = 0
      BY <1>2, <2>1, <2>2 DEF Body, Ahead
    <2>3. CASE i # 0 /\ i <= p
      <3>1. PICK s \in Nat, e \in Nat : s = parts[i].start /\ e = parts[i].end /\ s <= e
        BY <1>4, <1>5, <2>1, <2>3
      <3>2. stream'[i] = Destination(s, RangeSize(s, e))
        BY <1>2, <1>3, <1>5, <2>1, <2>3, <3>1
      <3>3. Ahead(Destination(s, RangeSize(s, e))) = e - s + 1
        BY <3>1 DEF Destination, RangeSize, Ahead
      <3> QED
        BY <2>1, <2>3, <3>1, <3>2, <3>3
    <2>4. CASE i # 0 /\ ~ (i <= p)
      <3>1. stream'[i] = NoStream
        BY <1>2, <1>3, <1>5, <2>1, <2>4
      <3> QED
        BY <2>1, <2>4, <3>1 DEF NoStream, Ahead
    <2> QED
      BY <2>2, <2>3, <2>4
  <1>7. a \in [Totals -> Nat]
    <2>1. ASSUME NEW k \in Totals PROVE a[k] \in Nat
      <3>1. k # 0 /\ k <= p => parts[k].start \in Nat
        BY <1>4, <1>5
      <3> QED
        BY <1>1, <1>5, <3>1
    <2> QED
      BY <2>1
  <1>8. a[0] = transferred'
    BY <1>1, RangeConstants, PartialConstants DEF Totals
  <1>9. ASSUME NEW i \in Streams PROVE a[i + 1] = a[i] + Ahead(stream'[i])
    <2>1. i + 1 # 0 /\ i + 1 \in Nat
      BY <1>6
    <2>2. CASE i = 0
      BY <1>1, <1>3, <1>5, <1>6, <2>1, <2>2
    <2>3. CASE i # 0 /\ i + 1 <= p
      <3>1. i \in 1 .. p - 1 /\ i \in 1 .. p /\ i <= p
        BY <1>5, <1>6, <2>3
      <3>2. parts[i + 1].start = parts[i].end /\ parts[i].start \in Nat /\ parts[i].end \in Nat
        BY <1>3, <1>4, <3>1
      <3>3. a[i + 1] = parts[i + 1].start + i /\ a[i] = parts[i].start + (i - 1)
        BY <1>6, <2>1, <2>3, <3>1
      <3> HIDE DEF a
      <3> QED
        BY <1>6, <2>3, <3>1, <3>2, <3>3
    <2>4. CASE i # 0 /\ i = p
      <3>1. parts[i].end = size - 1 /\ parts[i].start \in Nat
        BY <1>3, <1>4, <1>5, <2>4
      <3>2. a[i + 1] = size - 1 + p /\ a[i] = parts[i].start + (i - 1)
        BY <1>5, <1>6, <2>1, <2>4
      <3> HIDE DEF a
      <3> QED
        BY <1>1, <1>5, <1>6, <2>4, <3>1, <3>2
    <2>5. CASE i # 0 /\ i > p
      BY <1>1, <1>5, <1>6, <2>1, <2>5
    <2> QED
      BY <1>5, <1>6, <2>2, <2>3, <2>4, <2>5
  <1>10. ASSUME NEW j \in Totals, NEW k \in Totals, j <= k PROVE a[j] <= a[k]
    <2>1. CASE j = 0
      BY <1>7, <2>1
    <2>2. CASE j # 0 /\ k <= p
      <3>1. j \in 1 .. p /\ k \in 1 .. p
        BY <1>5, <1>10, <2>2
      <3>2. /\ parts[j].start <= parts[k].start
            /\ parts[j].start \in Nat /\ parts[k].start \in Nat
        BY <1>3, <1>4, <1>10, <3>1
      <3> QED
        BY <1>5, <1>10, <2>2, <3>1, <3>2
    <2>3. CASE j # 0 /\ j <= p /\ ~ (k <= p)
      <3>1. j \in 1 .. p
        BY <1>5, <2>3
      <3>2. parts[j].start \in Nat /\ parts[j].start <= size - 1
        BY <1>1, <1>4, <3>1
      <3>3. a[j] = parts[j].start + (j - 1) /\ a[k] = size - 1 + p
        BY <1>5, <2>3, <3>1
      <3> HIDE DEF a
      <3> QED
        BY <1>1, <1>5, <2>3, <3>2, <3>3
    <2>4. CASE ~ (j <= p)
      BY <1>1, <1>5, <1>10, <2>4
    <2> QED
      BY <1>5, <2>1, <2>2, <2>3, <2>4
  <1>11. a[MaxPartialRanges + 1] <= size' + MaxPartialRanges - 1
    BY <1>1, <1>5, RangeConstants, PartialConstants DEF Totals
  <1> HIDE DEF a
  <1> QED
    BY <1>7, <1>8, <1>9, <1>10, <1>11 DEF Accounts

\* An attempt that ends otherwise than because it is too large claims nothing.
LEMMA CountEnds ==
    ASSUME NEW r \in {"ok", "error", "too_large"}, Finishes(r), UNCHANGED <<size, honest>>,
           r = "too_large" /\ honest => size + MaxPartialRanges - 1 > MaxDownloadSize
    PROVE  CountInv'
  BY DEF Finishes, CountInv, RefusedNearLimit

\* CountInv is inductive, relative to RangeInv.
LEMMA NextCount == RangeInv /\ CountInv /\ [RangeNext]_rangeVars => CountInv'
  <1> SUFFICES ASSUME RangeInv, CountInv, [RangeNext]_rangeVars PROVE CountInv'
    OBVIOUS
  <1>1. CASE RespondsFull \/ PlainRequest
    <2>1. pc \in {"initial", "plain"} /\ stream' = WholeBody /\ UNCHANGED <<size, transferred>>
          /\ result' = "none"
      BY <1>1 DEF RespondsFull, PlainRequest, RangeInv, SafeInv, PhaseInv
    <2> QED
      BY <2>1, WholeCounted DEF CountInv, RefusedNearLimit
  <1>2. CASE RespondsUnusable
    BY <1>2 DEF RespondsUnusable, RangeInv, SafeInv, PhaseInv, CountInv, RefusedNearLimit
  <1>3. CASE RequestFails \/ RespondsEmpty \/ AllStreamsEnd
    BY <1>3, CountEnds DEF RequestFails, RespondsEmpty, AllStreamsEnd
  <1>4. ASSUME NEW end \in Bytes, RespondsRange(end) PROVE CountInv'
    <2>1. CASE size > MaxDownloadSize
      <3>1. Finishes("too_large") /\ UNCHANGED <<size, honest>> /\ size \in Nat
        BY <1>4, <2>1 DEF RespondsRange, RangeInv, SafeInv, RangeTypeOK
      <3>2. size + MaxPartialRanges - 1 > MaxDownloadSize
        BY <2>1, <3>1, RangeConstants, PartialConstants
      <3> QED
        BY <3>1, <3>2, CountEnds
    <2>2. CASE ~ (size > MaxDownloadSize)
      <3>1. pc' = "streams" /\ result' = "none"
        BY <1>4, <2>2 DEF RespondsRange, RangeInv, SafeInv, PhaseInv
      <3> QED
        BY <1>4, <3>1, RangesCounted DEF CountInv, RefusedNearLimit
    <2> QED
      BY <2>1, <2>2
  <1>5. ASSUME NEW i \in Streams, OpenPart(i) PROVE CountInv'
    <2> DEFINE s == stream[i]
    <2>1. s.pc = "request" /\ UNCHANGED <<size, pc, transferred, result>> /\ s \in StreamSet
          /\ transferred \in Nat
      BY <1>5 DEF OpenPart, RangeInv, SafeInv, RangeTypeOK
    <2>2. PICK src, left : /\ stream' = [stream EXCEPT ![i] = Body(s.offset, s.end, src, left)]
                           /\ honest' = (honest /\ src = s.offset
                                           /\ left = s.end - s.offset - 1)
      BY <1>5 DEF OpenPart
    <2>3. pc = "streams" /\ result' = "none"
      BY <2>1 DEF RangeInv, SafeInv, RangeTypeOK, PhaseInv, NoStream
    <2>4. CASE honest'
      <3>1. PICK acc : Accounts(acc)
        BY <2>1, <2>2, <2>3, <2>4 DEF CountInv
      <3>2. /\ stream'[i] = Body(s.offset, s.end, src, left)
            /\ \A j \in Streams \ {i} : stream'[j] = stream[j]
        BY <2>2 DEF RangeInv, SafeInv, RangeTypeOK
      <3>3. Ahead(stream'[i]) = Ahead(s) /\ Ahead(s) \in Nat
        <4>1. s.offset \in Nat /\ s.end \in Nat /\ s.offset < s.end
          BY <2>1 DEF StreamSet, RangeInv, SafeInv, StreamInv
        <4>2. PICK a \in Nat, b \in Nat : a = s.offset /\ b = s.end /\ a < b
          BY <4>1
        <4>3. left = b - a - 1
          BY <2>2, <2>4, <4>2
        <4>4. Ahead(stream'[i]) = left
          BY <3>2 DEF Body, Ahead
        <4>5. Ahead(s) = b - 1 - a
          BY <2>1, <4>2 DEF Ahead
        <4>6. b - a - 1 = b - 1 - a /\ b - 1 - a \in Nat
          BY <4>2
        <4> QED
          BY <4>3, <4>4, <4>5, <4>6
      <3>4. \E a : Accounts(a)'
        <4>1. /\ 0 \in Nat /\ 0 <= Ahead(stream[i]) /\ transferred' = transferred + 0
              /\ Ahead(stream'[i]) = Ahead(stream[i]) - 0 /\ size' = size
          BY <2>1, <3>3
        <4> QED
          BY <3>1, <3>2, <4>1, CountingKept
      <3> QED
        BY <2>3, <3>4 DEF CountInv, RefusedNearLimit
    <2>5. CASE ~ honest'
      BY <2>5 DEF CountInv, RefusedNearLimit
    <2> QED
      BY <2>4, <2>5
  <1>6. ASSUME NEW i \in Streams, BodyEnds(i) PROVE CountInv'
    <2>1. /\ stream[i].pc = "body" /\ stream[i].left = 0
          /\ stream' = [stream EXCEPT ![i] = [@ EXCEPT !.pc = "done"]]
          /\ UNCHANGED <<size, pc, transferred, result, honest>>
          /\ stream[i] \in StreamSet /\ transferred \in Nat
      BY <1>6 DEF BodyEnds, RangeInv, SafeInv, RangeTypeOK
    <2>2. stream'[i].pc = "done" /\ \A j \in Streams \ {i} : stream'[j] = stream[j]
      BY <2>1 DEF RangeInv, SafeInv, RangeTypeOK, StreamSet
    <2>3. Ahead(stream[i]) = 0 /\ Ahead(stream'[i]) = 0
      BY <2>1, <2>2 DEF Ahead
    <2>4. pc = "streams" /\ result' = "none"
      BY <2>1 DEF RangeInv, SafeInv, RangeTypeOK, PhaseInv, NoStream
    <2>5. honest => \E a : Accounts(a)'
      BY <2>1, <2>2, <2>3, <2>4, CountingKept DEF CountInv
    <2> QED
      BY <2>1, <2>4, <2>5 DEF CountInv, RefusedNearLimit
  <1>7. ASSUME NEW i \in Streams, StreamFails(i) PROVE CountInv'
    BY <1>7, CountEnds DEF StreamFails
  <1>8. ASSUME NEW i \in Streams, NEW n \in 1 .. MaxResource, Chunk(i, n) PROVE CountInv'
    <2> DEFINE s == stream[i]
    <2>1. /\ s.pc = "body" /\ n <= s.left /\ transferred' = transferred + n
          /\ UNCHANGED <<size, honest>> /\ s \in StreamSet /\ s.left \in Nat
          /\ transferred \in Nat /\ n \in Nat /\ size \in Nat
      BY <1>8, RangeConstants, PartialConstants DEF Chunk, RangeInv, SafeInv, RangeTypeOK, StreamSet
    <2>2. pc = "streams" /\ result = "none"
      BY <2>1 DEF RangeInv, SafeInv, RangeTypeOK, PhaseInv, NoStream
    <2>3. Ahead(s) = s.left
      BY <2>1 DEF Ahead
    <2>4. CASE SizeExceeded(n)
      <3>1. ASSUME honest PROVE size + MaxPartialRanges - 1 > MaxDownloadSize
        <4>1. PICK acc : Accounts(acc)
          BY <2>2, <3>1 DEF CountInv
        <4>2. /\ i \in Nat /\ i \in Totals /\ i + 1 \in Totals /\ 0 \in Totals
              /\ i + 1 <= MaxPartialRanges + 1 /\ 0 <= i /\ MaxPartialRanges + 1 \in Totals
          BY RangeConstants, PartialConstants DEF Totals, Streams
        <4>3. /\ acc[0] = transferred /\ acc[0] <= acc[i]
              /\ acc[i + 1] = acc[i] + s.left /\ acc[i + 1] <= acc[MaxPartialRanges + 1]
              /\ acc[MaxPartialRanges + 1] <= size + MaxPartialRanges - 1
              /\ acc[i] \in Nat /\ acc[i + 1] \in Nat /\ acc[MaxPartialRanges + 1] \in Nat
          BY <2>3, <4>1, <4>2 DEF Accounts
        <4>4. transferred + n > MaxDownloadSize
          BY <2>4 DEF SizeExceeded
        <4> HIDE DEF s
        <4> QED
          BY <2>1, <4>3, <4>4, RangeConstants, PartialConstants
      <3> QED
        BY <1>8, <2>1, <2>4, <3>1, CountEnds DEF Chunk
    <2>5. CASE ~ SizeExceeded(n) /\ s.offset + n >= s.end
      BY <1>8, <2>1, <2>5, CountEnds DEF Chunk
    <2>6. CASE ~ SizeExceeded(n) /\ ~ (s.offset + n >= s.end)
      <3>1. /\ stream' = [stream EXCEPT ![i] = Advanced(s, n)] /\ UNCHANGED <<pc, result>>
        BY <1>8, <2>6 DEF Chunk
      <3>2. /\ stream'[i] = Advanced(s, n)
            /\ \A j \in Streams \ {i} : stream'[j] = stream[j]
        BY <3>1 DEF RangeInv, SafeInv, RangeTypeOK
      <3>3. Ahead(stream'[i]) = Ahead(s) - n
        <4>1. Advanced(s, n).pc = "body" /\ Advanced(s, n).left = s.left - n
          BY <2>1 DEF Advanced, StreamSet
        <4> QED
          BY <2>3, <3>2, <4>1 DEF Ahead
      <3>4. honest => \E a : Accounts(a)'
        BY <2>1, <2>2, <2>3, <3>2, <3>3, CountingKept DEF CountInv
      <3> QED
        BY <2>1, <2>2, <3>1, <3>4 DEF CountInv, RefusedNearLimit
    <2> QED
      BY <2>4, <2>5, <2>6
  <1>9. CASE UNCHANGED rangeVars
    BY <1>9 DEF rangeVars, CountInv, Accounts, RefusedNearLimit
  <1> QED
    BY <1>1, <1>2, <1>3, <1>4, <1>5, <1>6, <1>7, <1>8, <1>9 DEF RangeNext, Terminated

-----------------------------------------------------------------------------
(* Theorems *)

\* Every variable keeps its type, and no stream passes its end.
THEOREM RangeTypeCorrect == RangeSpec => []RangeTypeOK
  <1>1. RangeInv => RangeTypeOK
    BY DEF RangeInv, SafeInv
  <1> QED
    BY <1>1, AlwaysRangeInv, PTL

\* What is accepted is within max_download_size, and nothing is written beyond the
\* resource, whatever servers answer to range requests.
THEOREM NeverTooLarge == RangeSpec => []LimitEnforced
  <1>1. RangeInv => LimitEnforced
    BY DEF RangeInv, SafeInv, LimitInv, NothingBeyond, LimitEnforced
  <1> QED
    BY <1>1, AlwaysRangeInv, PTL

\* Unless a server sends less than it was asked for, a download that succeeds is
\* the resource, in whatever order its ranges arrive and however they are cut.
THEOREM NothingMissing ==
    ASSUME "short" \notin ServerFaults
    PROVE  RangeSpec => []CompleteOnSuccess
  <1>1. RangeInv => CompleteOnSuccess
    BY DEF RangeInv, BytesInv, CompleteOnSuccess
  <1> QED
    BY <1>1, AlwaysRangeInv, PTL

\* However a resource is split and in whatever order its ranges arrive, it is only
\* refused as too large if it is larger than the limit less one byte for each
\* boundary between ranges, as long as servers send what they were asked for.
THEOREM RefusedForSize == RangeSpec => []RefusedNearLimit
  <1>1. RangeInit => CountInv
    BY DEF RangeInit, CountInv, RefusedNearLimit
  <1>2. CountInv => RefusedNearLimit
    BY DEF CountInv
  <1> QED
    BY <1>1, <1>2, AlwaysRangeInv, NextCount, PTL DEF RangeSpec

-----------------------------------------------------------------------------
(* SourceFetch *)

FetchResults == {"none", "ok", "malformed", "internal", "not_found", "download_error", "timeout",
            "denied"}

TokenSet == [state : {"none", "token", "error"}, expires : Nat, issued : Nat]

\* A call of fetch_file under way or answered, for one of the jobs.
FetchSet ==
    [pc : {"token", "asks", "request", "materialize", "unpack", "done"},
     source : {j.source : j \in Jobs}, file : {j.file : j \in Jobs},
     coding : {j.coding : j \in Jobs}, token : TokenSet, asked : Nat,
     layers : Seq(STRING), compression : {"identity"} \union {j.coding : j \in Jobs},
     counted : {"once", "shared", "ignored"}, disk : BOOLEAN, result : FetchResults]

Calls == {q \in FetchSet : \E j \in Jobs : q.source = j.source /\ q.file = j.file
                                           /\ q.coding = j.coding}

FetchTypeInv ==
    /\ clock \in Nat
    /\ tokens \in [TokenTypes -> TokenSet]
    /\ fetch \in [Fetchers -> Calls \union {NotFetched}]

\* The server's coding, if any, can be removed.
CodingWhole(q) == q.coding # "identity" => ~ Broken(q.file, OnWire(q.file, q.coding))

\* What is on disk at each stage: the file as published, or as it was sent with
\* the coding that is still to be removed.
StageInv(q) ==
    /\ q.pc = "materialize" =>
         \/ q.compression = "identity" /\ q.layers = q.file.layers /\ CodingWhole(q)
         \/ /\ q.compression # "identity" /\ q.compression = q.coding
            /\ q.layers = OnWire(q.file, q.coding)
    /\ q.pc = "unpack" => q.layers = q.file.layers /\ CodingWhole(q)
    /\ q.pc = "done" => Published(q)

\* The reasons to call a file malformed, but for a failing disk.
BadFile(q) ==
    \/ \E l \in {OnWire(q.file, q.coding), q.file.layers, Contents(q.file)} :
          SizeOf(q.file, l) > MaxSize
    \/ /\ q.file.layers # <<>>
       /\ Broken(q.file, q.file.layers) \/ Head(q.file.layers) = "many"

\* Who asks for a token has asked within the delay of the issuer.
AskInv(q) ==
    q.pc = "asks" => /\ q.source.type \in TokenTypes
                     /\ q.asked <= clock /\ clock <= q.asked + TokenDelay

\* The cache lets go of a token before its issuer does.
TokenInv ==
    \A t \in TokenTypes :
        tokens[t].state = "token" => tokens[t].expires <= tokens[t].issued + TokenLife

FetchInv == FetchTypeInv /\ TokenInv /\ \A x \in Fetchers : StageInv(fetch[x]) /\ AskInv(fetch[x])

\* TokenFresh, of one step.
FreshStep ==
    \A x \in Fetchers :
        fetch'[x].pc = "request" /\ fetch[x].pc # "request" /\ fetch'[x].source.type \in TokenTypes
            => clock <= fetch'[x].token.issued + TokenLife

-----------------------------------------------------------------------------
(* Lemmas about files *)

\* What the constants say of the job of a call.
LEMMA JobFacts ==
    ASSUME NEW q \in Calls
    PROVE  /\ q \in FetchSet
           /\ q.file.layers \in Seq(STRING \ {"malformed"}) /\ q.file.layers \in Seq(STRING)
           /\ q.file.size \in Seq(Nat) /\ Len(q.file.size) >= Len(q.file.layers) + 2
           /\ q.file.damaged \in Nat /\ q.coding \in STRING
           /\ q.coding # "identity" => q.file.size[Len(q.file.layers) + 2] > 0
           /\ q.source.type = "filesystem" => q.coding = "identity"
  <1>1. PICK j \in Jobs : q.source = j.source /\ q.file = j.file /\ q.coding = j.coding
    BY DEF Calls
  <1>2. q \in FetchSet
    BY DEF Calls
  <1>3. Seq(STRING \ {"malformed"}) \subseteq Seq(STRING)
    OBVIOUS
  <1> QED
    BY <1>1, <1>2, <1>3, JobsWellFormed, SourceFetchConstants

\* A server's coding is one more layer, which is not empty.
LEMMA CodedFacts ==
    ASSUME NEW q \in Calls, q.coding # "identity"
    PROVE  /\ OnWire(q.file, q.coding) \in Seq(STRING)
           /\ OnWire(q.file, q.coding) # <<>>
           /\ Tail(OnWire(q.file, q.coding)) = q.file.layers
           /\ SizeOf(q.file, OnWire(q.file, q.coding)) > 0
  <1> DEFINE l == q.file.layers
             w == <<q.coding>> \o l
  <1>1. l \in Seq(STRING) /\ q.coding \in STRING
    BY JobFacts
  <1> HIDE DEF l
  <1>2. /\ w \in Seq(STRING) /\ w # <<>> /\ Len(w) = Len(l) + 1
    BY <1>1
  <1>3. Tail(w) = l
    BY <1>1
  <1> HIDE DEF w
  <1>4. Len(w) + 1 = Len(l) + 2
    BY <1>1, <1>2
  <1>5. SizeOf(q.file, w) > 0
    BY <1>4, JobFacts DEF SizeOf, l
  <1> QED
    BY <1>2, <1>3, <1>5 DEF OnWire, w, l

\* An answer other than a file claims nothing, unless it is that the file is bad.
LEMMA OtherAnswers ==
    ASSUME NEW q, q.result # "ok", q.result = "malformed" => BadFile(q) \/ ~ q.disk
    PROVE  Published(q)
  BY DEF Published, BadFile

\* What has to be shown of a file: the forms it had on the way were undamaged.
LEMMA FileAnswer ==
    ASSUME NEW q, q.result = "ok", q.layers = Contents(q.file),
           SizeOf(q.file, q.file.layers) < Tiny \/ SizeOf(q.file, q.layers) <= MaxSize,
           q.coding = "identity" => OnWire(q.file, q.coding) = q.file.layers,
           q.coding # "identity" => ~ Broken(q.file, OnWire(q.file, q.coding)),
           q.file.layers # Contents(q.file) => ~ Broken(q.file, q.file.layers)
    PROVE  Published(q)
  <1>1. ASSUME NEW l \in {OnWire(q.file, q.coding), q.file.layers, Contents(q.file)}
                          \ {Contents(q.file)}
        PROVE  ~ Broken(q.file, l)
    <2>1. CASE l = q.file.layers
      BY <1>1, <2>1
    <2>2. CASE l = OnWire(q.file, q.coding)
      BY <1>1, <2>2
    <2> QED
      BY <1>1, <2>1, <2>2
  <1>2. q.result # "malformed"
    OBVIOUS
  <1> QED
    BY <1>1, <1>2 DEF Published

\* maybe_decompress_file removes exactly one archive from the published file, and
\* fails only for a reason.
LEMMA MaybeDecompressFacts ==
    ASSUME NEW q \in Calls,
           NEW out, out = MaybeDecompress(q.file, q.file.layers)
    PROVE  /\ out = <<"malformed">> =>
                \/ SizeOf(q.file, Contents(q.file)) > MaxSize
                \/ /\ q.file.layers # <<>>
                   /\ Broken(q.file, q.file.layers) \/ Head(q.file.layers) = "many"
           /\ out # <<"malformed">> =>
                /\ out = Contents(q.file) /\ out \in Seq(STRING)
                /\ \/ SizeOf(q.file, q.file.layers) < Tiny
                   \/ SizeOf(q.file, out) <= MaxSize
                /\ q.file.layers # Contents(q.file) => ~ Broken(q.file, q.file.layers)
  <1> DEFINE f == q.file
             l == f.layers
             packed == l # <<>> /\ Head(l) \in Archives
  <1>1. l \in Seq(STRING \ {"malformed"}) /\ l \in Seq(STRING)
    BY JobFacts
  <1>2. l # <<>> => /\ Tail(l) \in Seq(STRING \ {"malformed"}) /\ Tail(l) \in Seq(STRING)
                    /\ Len(l) \in Nat \ {0} /\ Len(Tail(l)) = Len(l) - 1
    BY <1>1, HeadTailProperties, EmptySeq
  <1>3. \A s \in Seq(STRING \ {"malformed"}) : s # <<"malformed">>
    OBVIOUS
  <1>4. SizeOf(f, l) \in Nat /\ (packed => SizeOf(f, Tail(l)) \in Nat)
    <2>1. f.size \in Seq(Nat) /\ Len(f.size) >= Len(l) + 2
      BY JobFacts
    <2>2. Len(l) \in Nat /\ Len(l) + 1 \in 1 .. Len(f.size)
      BY <1>1, <2>1
    <2>3. l # <<>> => Len(Tail(l)) + 1 \in 1 .. Len(f.size)
      BY <1>2, <2>1, <2>2
    <2> HIDE DEF f, l
    <2>4. \A i \in 1 .. Len(f.size) : f.size[i] \in Nat
      BY <2>1, ElementOfSeq DEF f
    <2> QED
      BY <2>2, <2>3, <2>4 DEF SizeOf
  <1>5. out = IF SizeOf(f, l) < Tiny THEN l
              ELSE IF packed /\ (Head(l) = "many" \/ Broken(f, l)) THEN <<"malformed">>
              ELSE IF SizeOf(f, IF packed THEN Tail(l) ELSE l) > MaxSize THEN <<"malformed">>
              ELSE IF packed THEN Tail(l) ELSE l
    BY DEF MaybeDecompress
  <1>6. Contents(f) = IF packed /\ SizeOf(f, l) >= Tiny THEN Tail(l) ELSE l
    BY DEF Contents
  <1>7. MaxSize \in Nat /\ Tiny = 4
    BY SourceFetchConstants DEF Tiny
  <1> HIDE DEF l, f
  <1>8. CASE SizeOf(f, l) < Tiny
    <2>1. out = l /\ Contents(f) = l
      BY <1>4, <1>5, <1>6, <1>7, <1>8
    <2> QED
      BY <1>1, <1>3, <1>8, <2>1 DEF l, f
  <1>9. CASE ~ (SizeOf(f, l) < Tiny) /\ packed
    <2>1. Contents(f) = Tail(l)
      BY <1>4, <1>6, <1>7, <1>9
    <2>2. CASE Head(l) = "many" \/ Broken(f, l)
      BY <1>5, <1>9, <2>2 DEF l, f
    <2>3. CASE ~ (Head(l) = "many" \/ Broken(f, l))
      <3>1. out = IF SizeOf(f, Tail(l)) > MaxSize THEN <<"malformed">> ELSE Tail(l)
        BY <1>5, <1>9, <2>3
      <3>2. Tail(l) \in Seq(STRING) /\ Tail(l) # <<"malformed">>
        BY <1>2, <1>3, <1>9
      <3> QED
        BY <1>4, <1>7, <1>9, <2>1, <2>3, <3>1, <3>2 DEF l, f
    <2> QED
      BY <2>2, <2>3
  <1>10. CASE ~ (SizeOf(f, l) < Tiny) /\ ~ packed
    <2>1. Contents(f) = l
      BY <1>6, <1>10
    <2>2. out = IF SizeOf(f, l) > MaxSize THEN <<"malformed">> ELSE l
      BY <1>5, <1>10
    <2> QED
      BY <1>1, <1>3, <1>4, <1>7, <2>1, <2>2 DEF l, f
  <1> QED
    BY <1>8, <1>9, <1>10

-----------------------------------------------------------------------------
(* Lemmas about steps *)

\* Who is not fetching claims nothing.
LEMMA NotFetchedInv == StageInv(NotFetched) /\ AskInv(NotFetched) /\ NotFetched.pc = "idle"
  BY DEF NotFetched, StageInv, AskInv

LEMMA FetchInitInv == FetchInit => FetchInv
  <1> SUFFICES ASSUME FetchInit PROVE FetchInv
    OBVIOUS
  <1>1. NoToken \in TokenSet
    BY DEF NoToken, TokenSet
  <1>2. FetchTypeInv
    BY <1>1 DEF FetchInit, FetchTypeInv
  <1>3. TokenInv
    BY DEF FetchInit, TokenInv, NoToken
  <1>4. \A x \in Fetchers : StageInv(fetch[x]) /\ AskInv(fetch[x])
    BY NotFetchedInv DEF FetchInit
  <1> QED
    BY <1>2, <1>3, <1>4 DEF FetchInv

\* A call that does more than idle is one for a job.
LEMMA CallType ==
    ASSUME FetchInv, NEW x \in Fetchers, fetch[x].pc # "idle"
    PROVE  fetch[x] \in Calls /\ fetch[x] \in FetchSet
  BY NotFetchedInv DEF FetchInv, FetchTypeInv, Calls

\* A step of one call that leaves tokens and clock alone.
LEMMA OneCall ==
    ASSUME FetchInv, NEW x \in Fetchers, NEW q \in Calls \union {NotFetched},
           Set(x, q), StageInv(q), AskInv(q), UNCHANGED <<clock, tokens>>,
           q.pc = "request" /\ q.source.type \in TokenTypes
               => clock <= q.token.issued + TokenLife
    PROVE  FetchInv' /\ FreshStep
  <1>1. FetchTypeInv'
    BY DEF FetchInv, FetchTypeInv, Set
  <1>2. TokenInv'
    BY DEF FetchInv, TokenInv
  <1>3. \A y \in Fetchers : fetch'[y] = IF y = x THEN q ELSE fetch[y]
    BY DEF FetchInv, FetchTypeInv, Set
  <1>4. \A y \in Fetchers : StageInv(fetch'[y]) /\ AskInv(fetch'[y])
    BY <1>3 DEF FetchInv
  <1>5. \A y \in Fetchers : AskInv(fetch[y])'
    BY <1>4 DEF AskInv
  <1>6. \A y \in Fetchers : StageInv(fetch[y])'
    BY <1>4 DEF StageInv
  <1>7. FreshStep
    BY <1>3 DEF FreshStep
  <1> QED
    BY <1>1, <1>2, <1>5, <1>6, <1>7 DEF FetchInv

\* A call ends with an answer that may be given.
LEMMA FetchEndsInv ==
    ASSUME FetchInv, NEW x \in Fetchers, fetch[x].pc # "idle", NEW r \in FetchResults,
           Ends(x, r), UNCHANGED <<clock, tokens>>,
           r # "ok", r = "malformed" => BadFile(fetch[x])
    PROVE  FetchInv' /\ FreshStep
  <1> DEFINE q == [fetch[x] EXCEPT !.pc = "done", !.token = NoToken, !.result = r]
  <1>1. fetch[x] \in Calls /\ fetch[x] \in FetchSet
    BY CallType
  <1>2. NoToken \in TokenSet
    BY DEF NoToken, TokenSet
  <1>3. /\ q \in FetchSet /\ q.pc = "done" /\ q.result = r
        /\ q.source = fetch[x].source /\ q.file = fetch[x].file /\ q.coding = fetch[x].coding
    BY <1>1, <1>2 DEF FetchSet
  <1>4. Published(q)
    <2> HIDE DEF q
    <2>1. r = "malformed" => BadFile(q)
      BY <1>3 DEF BadFile
    <2> QED
      BY <1>3, <2>1, OtherAnswers
  <1>5. Set(x, q)
    BY DEF Ends
  <1> HIDE DEF q
  <1>6. q \in Calls
    BY <1>1, <1>3 DEF Calls
  <1>7. StageInv(q) /\ AskInv(q)
    BY <1>3, <1>4 DEF StageInv, AskInv
  <1> QED
    BY <1>3, <1>5, <1>6, <1>7, OneCall

\* A call ends because too many bytes were counted for ranges.
LEMMA OverCountedInv ==
    ASSUME FetchInv, NEW x \in Fetchers, fetch[x].pc # "idle",
           NEW c \in {"shared", "ignored"}, CountedTooMany(x, c), UNCHANGED <<clock, tokens>>,
           c = "shared" => SizeOf(fetch[x].file, OnWire(fetch[x].file, fetch[x].coding))
                               + MaxPartialRanges - 1 > MaxSize
    PROVE  FetchInv' /\ FreshStep
  <1> DEFINE q == [fetch[x] EXCEPT !.pc = "done", !.token = NoToken, !.counted = c,
                                   !.result = "malformed"]
  <1>1. fetch[x] \in Calls /\ fetch[x] \in FetchSet
    BY CallType
  <1>2. NoToken \in TokenSet
    BY DEF NoToken, TokenSet
  <1>3. /\ q \in FetchSet /\ q.pc = "done" /\ q.result = "malformed" /\ q.counted = c
        /\ q.source = fetch[x].source /\ q.file = fetch[x].file /\ q.coding = fetch[x].coding
    BY <1>1, <1>2 DEF FetchSet, FetchResults
  <1>4. Set(x, q)
    BY DEF CountedTooMany
  <1> HIDE DEF q
  <1>5. Published(q)
    BY <1>3 DEF Published
  <1>6. q \in Calls
    BY <1>1, <1>3 DEF Calls
  <1>7. StageInv(q) /\ AskInv(q)
    BY <1>3, <1>5 DEF StageInv, AskInv
  <1> QED
    BY <1>3, <1>4, <1>6, <1>7, OneCall

\* A file is on disk: the published one, or as it was sent.
LEMMA TempFileInv ==
    ASSUME FetchInv, NEW x \in Fetchers, fetch[x].pc # "idle",
           NEW layers, NEW compression,
           TempFile(x, layers, compression), UNCHANGED <<clock, tokens>>,
           \/ compression = "identity" /\ layers = fetch[x].file.layers /\ CodingWhole(fetch[x])
           \/ /\ compression # "identity" /\ compression = fetch[x].coding
              /\ layers = OnWire(fetch[x].file, fetch[x].coding)
    PROVE  FetchInv' /\ FreshStep
  <1> DEFINE q == [fetch[x] EXCEPT !.pc = "materialize", !.token = NoToken, !.layers = layers,
                                   !.compression = compression]
  <1>1. fetch[x] \in Calls /\ fetch[x] \in FetchSet
    BY CallType
  <1>2. NoToken \in TokenSet
    BY DEF NoToken, TokenSet
  <1>3. layers \in Seq(STRING) /\ compression \in {"identity"} \union {j.coding : j \in Jobs}
    <2>1. fetch[x].coding \in {j.coding : j \in Jobs} /\ fetch[x].file.layers \in Seq(STRING)
      BY <1>1, JobFacts DEF FetchSet
    <2>2. fetch[x].coding # "identity" => OnWire(fetch[x].file, fetch[x].coding) \in Seq(STRING)
      BY <1>1, CodedFacts
    <2> HIDE DEF q
    <2> QED
      BY <2>1, <2>2
  <1>4. /\ q \in FetchSet /\ q.pc = "materialize" /\ q.layers = layers
        /\ q.compression = compression
        /\ q.source = fetch[x].source /\ q.file = fetch[x].file /\ q.coding = fetch[x].coding
    BY <1>1, <1>2, <1>3 DEF FetchSet
  <1>5. Set(x, q)
    BY DEF TempFile
  <1> HIDE DEF q
  <1>6. q \in Calls
    BY <1>1, <1>4 DEF Calls
  <1>7. StageInv(q) /\ AskInv(q)
    BY <1>4 DEF StageInv, AskInv, CodingWhole
  <1> QED
    BY <1>4, <1>5, <1>6, <1>7, OneCall

-----------------------------------------------------------------------------
(* One lemma per group of actions *)

LEMMA StartFetchInv ==
    ASSUME FetchInv, NEW x \in Fetchers, NEW j \in Jobs, StartFetch(x, j)
    PROVE  FetchInv' /\ FreshStep
  <1> DEFINE q == [pc |-> "token", source |-> j.source, file |-> j.file, coding |-> j.coding,
                   token |-> NoToken, asked |-> 0, layers |-> <<>>, compression |-> "identity",
                   counted |-> "once", disk |-> TRUE, result |-> "none"]
  <1>1. NoToken \in TokenSet /\ <<>> \in Seq(STRING)
    BY DEF NoToken, TokenSet
  <1>2. q \in FetchSet /\ q.pc = "token"
        /\ q.source = j.source /\ q.file = j.file /\ q.coding = j.coding
    BY <1>1 DEF FetchSet, FetchResults
  <1>3. Set(x, q) /\ UNCHANGED <<clock, tokens>>
    BY DEF StartFetch
  <1> HIDE DEF q
  <1>4. q \in Calls
    BY <1>2 DEF Calls
  <1>5. StageInv(q) /\ AskInv(q)
    BY <1>2 DEF StageInv, AskInv
  <1> QED
    BY <1>2, <1>3, <1>4, <1>5, OneCall

\* A call goes back to idle.
LEMMA BackInv ==
    ASSUME FetchInv, NEW x \in Fetchers, AskerDropped(x) \/ Answered(x)
    PROVE  FetchInv' /\ FreshStep
  BY NotFetchedInv, OneCall DEF AskerDropped, Answered

\* The results of attempts: none of them is "ok", and "malformed" only comes from
\* the transfer.
LEMMA FailInv ==
    ASSUME FetchInv, NEW x \in Fetchers,
           \/ TempFails(x) \/ NotRequested(x) \/ NoResponse(x) \/ TransferFails(x)
           \/ \E s \in ErrorStatuses, c \in ErrorCodes : ErrorResponse(x, s, c)
    PROVE  FetchInv' /\ FreshStep
  <1>1. fetch[x].pc # "idle" /\ UNCHANGED <<clock, tokens>>
    BY DEF TempFails, NotRequested, NoResponse, TransferFails, ErrorResponse, Responding,
       Requesting
  <1>2. PICK r \in {"internal", "not_found", "download_error", "timeout", "denied"} : Ends(x, r)
    <2>1. CASE TempFails(x)
      BY <2>1 DEF TempFails
    <2>2. CASE NotRequested(x)
      BY <2>2 DEF NotRequested, Unusable
    <2>3. CASE NoResponse(x)
      BY <2>3 DEF NoResponse
    <2>4. CASE TransferFails(x)
      BY <2>4 DEF TransferFails
    <2>5. ASSUME NEW s \in ErrorStatuses, NEW c \in ErrorCodes, ErrorResponse(x, s, c)
          PROVE  \E r \in {"internal", "not_found", "download_error", "timeout", "denied"} :
                     Ends(x, r)
      <3>1. HandleStatus(s) \in {"denied", "not_found", "download_error"}
        BY <2>5 DEF HandleStatus, ErrorStatuses
      <3>2. HandleS3(s, c) \in {"denied", "not_found", "download_error"}
        BY <2>5 DEF HandleS3, ErrorFromMetadata, ErrorCodes
      <3>3. HandleError(fetch[x].source.type, s, c) \in {"denied", "not_found", "download_error"}
        BY <3>1, <3>2 DEF HandleError
      <3> QED
        BY <2>5, <3>3 DEF ErrorResponse
    <2> QED
      BY <2>1, <2>2, <2>3, <2>4, <2>5
  <1> QED
    BY <1>1, <1>2, FetchEndsInv DEF FetchResults

\* The transfer of a whole file, decoded on the way, or copied.
LEMMA DownloadWholeInv ==
    ASSUME FetchInv, NEW x \in Fetchers, WholeResponse(x) \/ CopyFile(x)
    PROVE  FetchInv' /\ FreshStep
  <1> DEFINE q == fetch[x]
             w == OnWire(q.file, q.coding)
  <1>1. q.pc # "idle" /\ UNCHANGED <<clock, tokens>>
    BY DEF WholeResponse, CopyFile, Responding, Requesting
  <1>2. q \in Calls
    BY <1>1, CallType
  <1>3. CASE CopyFile(x)
    <2>1. CASE q.source.type = "filesystem" /\ TempFile(x, q.file.layers, "identity")
      <3>1. CodingWhole(q)
        BY <1>2, <2>1, JobFacts DEF CodingWhole
      <3> QED
        BY <1>1, <2>1, <3>1, TempFileInv
    <2>2. CASE Ends(x, "not_found")
      BY <1>1, <2>2, FetchEndsInv DEF FetchResults
    <2> QED
      BY <1>3, <2>1, <2>2 DEF CopyFile
  <1>4. CASE WholeResponse(x)
    <2>1. CASE FromHeaders(q.coding) # "ok"
      <3>1. FromHeaders(q.coding) = "download_error"
        BY <2>1 DEF FromHeaders
      <3>2. Ends(x, "download_error")
        BY <1>4, <3>1 DEF WholeResponse, Into
      <3> QED
        BY <1>1, <3>2, FetchEndsInv DEF FetchResults
    <2>2. CASE FromHeaders(q.coding) = "ok" /\ q.coding # "identity"
      <3>1. Into(x, Decoded(q.file, w), q.file.layers, "identity")
        BY <1>4, <2>2 DEF WholeResponse
      <3>2. w # <<>> /\ Tail(w) = q.file.layers
        BY <1>2, <2>2, CodedFacts
      <3>3. CASE Decoded(q.file, w) = "ok"
        <4>1. CodingWhole(q)
          BY <3>3 DEF Decoded, CodingWhole
        <4> QED
          BY <1>1, <3>1, <3>3, <4>1, TempFileInv DEF Into
      <3>4. CASE Decoded(q.file, w) = "malformed"
        <4>1. BadFile(q)
          BY <3>2, <3>4 DEF Decoded, BadFile
        <4>2. Ends(x, "malformed")
          BY <3>1, <3>4 DEF Into
        <4> QED
          BY <1>1, <4>1, <4>2, FetchEndsInv DEF FetchResults
      <3>5. CASE Decoded(q.file, w) = "download_error"
        <4>1. Ends(x, "download_error")
          BY <3>1, <3>5 DEF Into
        <4> QED
          BY <1>1, <4>1, FetchEndsInv DEF FetchResults
      <3> QED
        BY <3>3, <3>4, <3>5 DEF Decoded
    <2>3. CASE FromHeaders(q.coding) = "ok" /\ q.coding = "identity"
      <3>1. CASE SizeOf(q.file, w) > MaxSize
        <4>1. BadFile(q)
          BY <3>1 DEF BadFile
        <4>2. Ends(x, "malformed")
          BY <1>4, <2>3, <3>1 DEF WholeResponse, Into
        <4> QED
          BY <1>1, <4>1, <4>2, FetchEndsInv DEF FetchResults
      <3>2. CASE ~ (SizeOf(q.file, w) > MaxSize)
        <4>1. TempFile(x, q.file.layers, "identity")
          BY <1>4, <2>3, <3>2 DEF WholeResponse, Into
        <4> QED
          BY <1>1, <2>3, <4>1, TempFileInv DEF CodingWhole
      <3> QED
        BY <3>1, <3>2
    <2> QED
      BY <2>1, <2>2, <2>3
  <1> QED
    BY <1>3, <1>4

\* The transfer in ranges, with the coding as it came.
LEMMA DownloadRangesInv ==
    ASSUME FetchInv, NEW x \in Fetchers, RangeResponses(x)
    PROVE  FetchInv' /\ FreshStep
  <1> DEFINE q == fetch[x]
             w == OnWire(q.file, q.coding)
  <1>1. q.pc # "idle" /\ UNCHANGED <<clock, tokens>>
    BY DEF RangeResponses, Responding, Requesting
  <1>2. q \in Calls
    BY <1>1, CallType
  <1>3. q.coding = "identity" => w = q.file.layers /\ CodingWhole(q)
    BY DEF OnWire, CodingWhole
  <1>4. CASE SizeOf(q.file, w) = 0 /\ TempFile(x, w, "identity")
    <2>1. q.coding = "identity"
      BY <1>2, <1>4, CodedFacts
    <2> QED
      BY <1>1, <1>3, <1>4, <2>1, TempFileInv
  <1>5. CASE SizeOf(q.file, w) > MaxSize /\ Ends(x, "malformed")
    <2>1. BadFile(q)
      BY <1>5 DEF BadFile
    <2> QED
      BY <1>1, <1>5, <2>1, FetchEndsInv DEF FetchResults
  <1>6. CASE FromHeaders(q.coding) # "ok" /\ Ends(x, FromHeaders(q.coding))
    <2>1. FromHeaders(q.coding) = "download_error"
      BY <1>6 DEF FromHeaders
    <2>2. Ends(x, "download_error")
      BY <1>6, <2>1
    <2> QED
      BY <1>1, <2>2, FetchEndsInv DEF FetchResults
  <1>7. ASSUME SizeOf(q.file, w) \in 1 .. MaxSize, NEW r \in 1 .. SizeOf(q.file, w) - 1,
               \/ TempFile(x, w, q.coding)
               \/ SizeOf(q.file, w) + Parts(r) - 1 > MaxSize /\ CountedTooMany(x, "shared")
               \/ CountedTooMany(x, "ignored")
        PROVE  FetchInv' /\ FreshStep
    <2>1. CASE TempFile(x, w, q.coding)
      BY <1>1, <1>3, <2>1, TempFileInv
    <2>2. CASE SizeOf(q.file, w) + Parts(r) - 1 > MaxSize /\ CountedTooMany(x, "shared")
      <3>1. r \in Nat \ {0} /\ MaxSize \in Nat /\ SizeOf(q.file, w) \in Nat
        BY <1>7, SourceFetchConstants
      <3>2. Parts(r) \in 1 .. MaxPartialRanges
        BY <3>1, PartsBounds
      <3>3. SizeOf(q.file, w) + MaxPartialRanges - 1 > MaxSize
        BY <2>2, <3>1, <3>2, PartialConstants
      <3> QED
        BY <1>1, <2>2, <3>3, OverCountedInv
    <2>3. CASE CountedTooMany(x, "ignored")
      BY <1>1, <2>3, OverCountedInv
    <2> QED
      BY <1>7, <2>1, <2>2, <2>3
  <1> QED
    BY <1>4, <1>5, <1>6, <1>7 DEF RangeResponses

\* materialize_into: the server's coding is removed, if it is still there.
LEMMA MaterializeInv ==
    ASSUME FetchInv, NEW x \in Fetchers, Materialize(x)
    PROVE  FetchInv' /\ FreshStep
  <1> DEFINE q == fetch[x]
             w == OnWire(q.file, q.coding)
  <1>1. q.pc = "materialize" /\ UNCHANGED <<clock, tokens>>
    BY DEF Materialize
  <1>2. q \in Calls /\ q \in FetchSet /\ StageInv(q)
    BY <1>1, CallType DEF FetchInv
  <1>3. ASSUME Materialized(x, q.file.layers), CodingWhole(q)
        PROVE  FetchInv' /\ FreshStep
    <2> DEFINE p == [q EXCEPT !.pc = "unpack", !.layers = q.file.layers,
                              !.compression = "identity"]
    <2>1. q.file.layers \in Seq(STRING)
      BY <1>2, JobFacts
    <2>2. /\ p \in FetchSet /\ p.pc = "unpack" /\ p.layers = q.file.layers
          /\ p.source = q.source /\ p.file = q.file /\ p.coding = q.coding
      BY <1>2, <2>1 DEF FetchSet
    <2>3. Set(x, p)
      BY <1>3 DEF Materialized
    <2> HIDE DEF p
    <2>4. p \in Calls
      BY <1>2, <2>2 DEF Calls
    <2>5. StageInv(p) /\ AskInv(p)
      BY <1>3, <2>2 DEF StageInv, AskInv, CodingWhole
    <2> QED
      BY <1>1, <2>2, <2>3, <2>4, <2>5, OneCall
  <1>4. CASE q.compression = "identity" /\ Materialized(x, q.layers)
    BY <1>1, <1>2, <1>3, <1>4 DEF StageInv
  <1>5. CASE q.compression # "identity"
    <2>1. q.coding # "identity" /\ q.layers = w /\ w # <<>> /\ Tail(w) = q.file.layers
      BY <1>1, <1>2, <1>5, CodedFacts DEF StageInv
    <2>2. CASE Decoded(q.file, w) = "ok" /\ Materialized(x, Tail(w))
      <3>1. CodingWhole(q)
        BY <2>2 DEF Decoded, CodingWhole
      <3> QED
        BY <1>3, <2>1, <2>2, <3>1
    <2>3. CASE Decoded(q.file, w) # "ok" /\ Ends(x, Decoded(q.file, w))
      <3>1. CASE Decoded(q.file, w) = "malformed"
        <4>1. BadFile(q)
          BY <2>1, <3>1 DEF Decoded, BadFile
        <4> QED
          BY <1>1, <2>3, <3>1, <4>1, FetchEndsInv DEF FetchResults
      <3>2. CASE Decoded(q.file, w) = "download_error"
        BY <1>1, <2>3, <3>2, FetchEndsInv DEF FetchResults
      <3> QED
        BY <2>3, <3>1, <3>2 DEF Decoded
    <2>4. CASE Ends(x, "internal")
      BY <1>1, <2>4, FetchEndsInv DEF FetchResults
    <2> QED
      BY <1>5, <2>1, <2>2, <2>3, <2>4 DEF Materialize
  <1> QED
    BY <1>4, <1>5 DEF Materialize

\* maybe_decompress_file gives the contents, or a reason.
LEMMA UnpackInv ==
    ASSUME FetchInv, NEW x \in Fetchers, Unpack(x)
    PROVE  FetchInv' /\ FreshStep
  <1> DEFINE q   == fetch[x]
             out == MaybeDecompress(q.file, q.file.layers)
  <1>1. q.pc = "unpack" /\ UNCHANGED <<clock, tokens>>
    BY DEF Unpack
  <1>2. q \in Calls /\ q \in FetchSet /\ q.layers = q.file.layers /\ CodingWhole(q)
    BY <1>1, CallType DEF FetchInv, StageInv
  <1>3. /\ out = <<"malformed">> => BadFile(q)
        /\ out # <<"malformed">> =>
             /\ out = Contents(q.file) /\ out \in Seq(STRING)
             /\ \/ SizeOf(q.file, q.file.layers) < Tiny
                \/ SizeOf(q.file, out) <= MaxSize
             /\ q.file.layers # Contents(q.file) => ~ Broken(q.file, q.file.layers)
    BY <1>2, MaybeDecompressFacts DEF BadFile
  <1> HIDE DEF out
  <1>4. CASE out = <<"malformed">> /\ Ends(x, "malformed")
    BY <1>1, <1>3, <1>4, FetchEndsInv DEF FetchResults
  <1>5. CASE /\ out # <<"malformed">>
             /\ Set(x, [q EXCEPT !.pc = "done", !.layers = out, !.result = "ok"])
    <2> DEFINE p == [q EXCEPT !.pc = "done", !.layers = out, !.result = "ok"]
    <2>1. /\ p \in FetchSet /\ p.pc = "done" /\ p.layers = out /\ p.result = "ok"
          /\ p.source = q.source /\ p.file = q.file /\ p.coding = q.coding
      BY <1>2, <1>3, <1>5 DEF FetchSet, FetchResults
    <2>2. Set(x, p)
      BY <1>5
    <2> HIDE DEF p
    <2>3. p \in Calls
      BY <1>2, <2>1 DEF Calls
    <2>4. Published(p)
      <3>1. p.coding = "identity" => OnWire(p.file, p.coding) = p.file.layers
        BY DEF OnWire
      <3>2. p.coding # "identity" => ~ Broken(p.file, OnWire(p.file, p.coding))
        BY <1>2, <2>1 DEF CodingWhole
      <3>3. /\ p.layers = Contents(p.file)
            /\ \/ SizeOf(p.file, p.file.layers) < Tiny
               \/ SizeOf(p.file, p.layers) <= MaxSize
            /\ p.file.layers # Contents(p.file) => ~ Broken(p.file, p.file.layers)
        BY <1>3, <1>5, <2>1
      <3> QED
        BY <2>1, <3>1, <3>2, <3>3, FileAnswer
    <2>5. StageInv(p) /\ AskInv(p)
      BY <2>1, <2>4 DEF StageInv, AskInv
    <2> QED
      BY <1>1, <2>1, <2>2, <2>3, <2>5, OneCall
  <1>6. CASE Set(x, [q EXCEPT !.pc = "done", !.disk = FALSE, !.result = "malformed"])
    <2> DEFINE p == [q EXCEPT !.pc = "done", !.disk = FALSE, !.result = "malformed"]
    <2>1. /\ p \in FetchSet /\ p.pc = "done" /\ p.disk = FALSE /\ p.result = "malformed"
          /\ p.source = q.source /\ p.file = q.file /\ p.coding = q.coding
      BY <1>2 DEF FetchSet, FetchResults
    <2>2. Set(x, p)
      BY <1>6
    <2> HIDE DEF p
    <2>3. p \in Calls
      BY <1>2, <2>1 DEF Calls
    <2>4. StageInv(p) /\ AskInv(p)
      BY <2>1, OtherAnswers DEF StageInv, AskInv
    <2> QED
      BY <1>1, <2>1, <2>2, <2>3, <2>4, OneCall
  <1> QED
    BY <1>2, <1>4, <1>5, <1>6 DEF Unpack, out

\* A token that is usable, or that was just issued, is accepted by its issuer.
LEMMA GetTokenInv ==
    ASSUME FetchInv, NEW x \in Fetchers, GetToken(x)
    PROVE  FetchInv' /\ FreshStep
  <1> DEFINE q == fetch[x]
             t == q.source.type
  <1>1. q.pc = "token" /\ UNCHANGED <<clock, tokens>>
    BY DEF GetToken
  <1>2. q \in Calls /\ q \in FetchSet
    BY <1>1, CallType
  <1>3. NoToken \in TokenSet /\ clock \in Nat
    BY DEF NoToken, TokenSet, FetchInv, FetchTypeInv
  <1>4. ASSUME NEW e \in TokenSet, Sends(x, e),
               t \in TokenTypes => clock <= e.issued + TokenLife
        PROVE  FetchInv' /\ FreshStep
    <2> DEFINE p == [q EXCEPT !.pc = "request", !.token = e]
    <2>1. /\ p \in FetchSet /\ p.pc = "request" /\ p.token = e
          /\ p.source = q.source /\ p.file = q.file /\ p.coding = q.coding
      BY <1>2 DEF FetchSet
    <2>2. Set(x, p)
      BY <1>4 DEF Sends
    <2> HIDE DEF p
    <2>3. p \in Calls
      BY <1>2, <2>1 DEF Calls
    <2>4. StageInv(p) /\ AskInv(p)
      BY <2>1 DEF StageInv, AskInv
    <2> QED
      BY <1>1, <1>4, <2>1, <2>2, <2>3, <2>4, OneCall
  <1>5. CASE t \notin TokenTypes /\ Sends(x, NoToken)
    BY <1>3, <1>4, <1>5
  <1>6. CASE t \in TokenTypes /\ Usable(tokens[t]) /\ Sends(x, tokens[t])
    <2>1. tokens[t] \in TokenSet /\ tokens[t].expires <= tokens[t].issued + TokenLife
      BY <1>6 DEF Usable, FetchInv, FetchTypeInv, TokenInv
    <2>2. clock <= tokens[t].issued + TokenLife
      <3>1. tokens[t].expires \in Nat /\ tokens[t].issued \in Nat /\ TokenLife \in Nat
        BY <2>1, SourceFetchConstants DEF TokenSet
      <3>2. ~ (tokens[t].expires < clock)
        BY <1>6 DEF Usable
      <3> QED
        BY <1>3, <2>1, <3>1, <3>2
    <2> QED
      BY <1>4, <1>6, <2>1, <2>2
  <1>7. CASE t \in TokenTypes /\ Set(x, [q EXCEPT !.pc = "asks", !.asked = clock])
    <2> DEFINE p == [q EXCEPT !.pc = "asks", !.asked = clock]
    <2>1. /\ p \in FetchSet /\ p.pc = "asks" /\ p.asked = clock
          /\ p.source = q.source /\ p.file = q.file /\ p.coding = q.coding
      BY <1>2, <1>3 DEF FetchSet
    <2>2. Set(x, p)
      BY <1>7
    <2> HIDE DEF p
    <2>3. p \in Calls
      BY <1>2, <2>1 DEF Calls
    <2>4. StageInv(p) /\ AskInv(p)
      BY <1>3, <1>7, <2>1, SourceFetchConstants DEF StageInv, AskInv
    <2> QED
      BY <1>1, <2>1, <2>2, <2>3, <2>4, OneCall
  <1> QED
    BY <1>5, <1>6, <1>7 DEF GetToken

\* The issuer answers: the new token is cached and given to who waits.
LEMMA TokenAnsweredInv ==
    ASSUME FetchInv, NEW x \in Fetchers, NEW e \in TokenSet, TokenAnswered(x, e),
           e.state = "token" => /\ e.expires <= e.issued + TokenLife
                                /\ clock <= e.issued + TokenLife
    PROVE  FetchInv' /\ FreshStep
  <1> DEFINE t       == fetch[x].source.type
             waiting == {y \in Fetchers : fetch[y].pc = "token" /\ fetch[y].source.type = t}
             Sent(q) == [q EXCEPT !.pc = "request", !.token = e, !.asked = 0]
             Lost(q) == [q EXCEPT !.pc = "done", !.result = "download_error", !.asked = 0]
  <1>1. fetch[x].pc = "asks" /\ t \in TokenTypes /\ clock' = clock
        /\ tokens' = [tokens EXCEPT ![t] = e]
    BY DEF TokenAnswered, FetchInv, AskInv
  <1>2. \A y \in Fetchers :
            fetch'[y] = IF y \notin waiting \union {x} THEN fetch[y]
                        ELSE IF e.state = "token" THEN Sent(fetch[y]) ELSE Lost(fetch[y])
    BY DEF TokenAnswered
  <1>3. DOMAIN fetch' = Fetchers
    BY DEF TokenAnswered
  <1>4. \A y \in waiting \union {x} : fetch[y] \in Calls /\ fetch[y] \in FetchSet
    BY <1>1, CallType
  <1>5. ASSUME NEW q \in Calls, q \in FetchSet
        PROVE  /\ Sent(q) \in Calls /\ Sent(q).pc = "request" /\ Sent(q).token = e
               /\ StageInv(Sent(q))
               /\ Lost(q) \in Calls /\ Lost(q).pc = "done" /\ StageInv(Lost(q))
    <2>1. /\ Sent(q) \in FetchSet /\ Sent(q).pc = "request" /\ Sent(q).token = e
          /\ Sent(q).source = q.source /\ Sent(q).file = q.file /\ Sent(q).coding = q.coding
      BY <1>5 DEF FetchSet
    <2>2. /\ Lost(q) \in FetchSet /\ Lost(q).pc = "done" /\ Lost(q).result = "download_error"
          /\ Lost(q).source = q.source /\ Lost(q).file = q.file /\ Lost(q).coding = q.coding
      BY <1>5 DEF FetchSet, FetchResults
    <2> HIDE DEF Sent, Lost
    <2>3. Sent(q) \in Calls /\ Lost(q) \in Calls
      BY <1>5, <2>1, <2>2 DEF Calls
    <2>4. StageInv(Sent(q)) /\ StageInv(Lost(q))
      BY <2>1, <2>2, OtherAnswers DEF StageInv
    <2> QED
      BY <2>1, <2>2, <2>3, <2>4
  <1> HIDE DEF Sent, Lost, waiting
  <1>6. ASSUME NEW y \in Fetchers
        PROVE  /\ fetch'[y] \in Calls \union {NotFetched}
               /\ StageInv(fetch'[y]) /\ AskInv(fetch[y])'
               /\ fetch'[y].pc = "request" /\ fetch[y].pc # "request"
                      => fetch'[y].token = e /\ e.state = "token"
    <2>1. CASE y \notin waiting \union {x}
      BY <1>1, <1>2, <2>1 DEF FetchInv, FetchTypeInv, AskInv
    <2>2. CASE y \in waiting \union {x}
      <3>1. fetch'[y] = IF e.state = "token" THEN Sent(fetch[y]) ELSE Lost(fetch[y])
        BY <1>2, <2>2
      <3>2. fetch[y] \in Calls /\ fetch[y] \in FetchSet
        BY <1>4, <2>2
      <3> QED
        BY <1>5, <3>1, <3>2 DEF AskInv
    <2> QED
      BY <2>1, <2>2
  <1>7. FetchTypeInv'
    BY <1>1, <1>3, <1>6 DEF FetchInv, FetchTypeInv, TokenAnswered
  <1>8. TokenInv'
    BY <1>1 DEF FetchInv, FetchTypeInv, TokenInv
  <1>9. FreshStep
    BY <1>6 DEF FreshStep
  <1>10. \A y \in Fetchers : StageInv(fetch[y])' /\ AskInv(fetch[y])'
    BY <1>6 DEF StageInv
  <1> QED
    BY <1>7, <1>8, <1>9, <1>10 DEF FetchInv

\* Time passes no further than the issuer's delay for who asks.
LEMMA TickInv ==
    ASSUME FetchInv, FetchTick
    PROVE  FetchInv' /\ FreshStep
  <1>1. clock' = clock + 1 /\ UNCHANGED <<tokens, fetch>> /\ clock \in Nat
    BY DEF FetchTick, FetchInv, FetchTypeInv
  <1>2. ASSUME NEW x \in Fetchers PROVE AskInv(fetch[x])'
    <2>1. CASE fetch[x].pc = "asks"
      <3>1. fetch[x].asked \in Nat
        BY <2>1, CallType DEF FetchSet
      <3> QED
        BY <1>1, <2>1, <3>1, SourceFetchConstants DEF FetchTick, FetchInv, AskInv
    <2> QED
      BY <1>1, <2>1 DEF AskInv
  <1>3. FetchTypeInv' /\ TokenInv' /\ FreshStep
    BY <1>1 DEF FetchInv, FetchTypeInv, TokenInv, FreshStep
  <1>4. \A x \in Fetchers : StageInv(fetch[x])'
    BY <1>1 DEF FetchInv, StageInv
  <1> QED
    BY <1>2, <1>3, <1>4 DEF FetchInv

\* A new token, counted from the request or from the answer, expires before the
\* issuer stops accepting it.
LEMMA NewTokenFacts ==
    ASSUME NEW t, NEW asked \in Nat, NEW i \in Nat, clock \in Nat,
           asked <= i, i <= clock, clock <= asked + TokenDelay
    PROVE  /\ NewToken(t, asked, i) \in TokenSet
           /\ NewToken(t, asked, i).expires <= NewToken(t, asked, i).issued + TokenLife
           /\ clock <= NewToken(t, asked, i).issued + TokenLife
  <1> DEFINE from == IF t = "gcs" THEN asked ELSE clock
             e    == from + TokenLife - Margin
  <1>1. /\ TokenDelay \in Nat /\ Margin \in Nat /\ TokenLife \in Nat
        /\ TokenDelay <= Margin /\ Margin < TokenLife
    BY SourceFetchConstants
  <1>2. from \in Nat /\ from <= clock
    BY <1>1
  <1>3. NewToken(t, asked, i) = [state |-> "token", issued |-> i, expires |-> e]
    BY DEF NewToken
  <1> HIDE DEF from
  <1>4. e \in Nat /\ e <= i + TokenLife /\ clock <= i + TokenLife
    BY <1>1, <1>2
  <1> HIDE DEF e
  <1> QED
    BY <1>3, <1>4 DEF TokenSet

\* FetchInv is inductive, and no step sends a stale token.
LEMMA FetchNextInv == FetchInv /\ [FetchNext]_fetchVars => FetchInv' /\ (FreshStep \/ UNCHANGED fetchVars)
  <1> SUFFICES ASSUME FetchInv, [FetchNext]_fetchVars
               PROVE  FetchInv' /\ (FreshStep \/ UNCHANGED fetchVars)
    OBVIOUS
  <1>1. ASSUME NEW x \in Fetchers, Materialize(x) \/ Unpack(x) \/ Answered(x) \/ AskerDropped(x)
        PROVE  FetchInv' /\ FreshStep
    BY <1>1, MaterializeInv, UnpackInv, BackInv
  <1>2. CASE FetchTick
    BY <1>2, TickInv
  <1>3. ASSUME NEW x \in Fetchers, GetToken(x)
        PROVE  FetchInv' /\ FreshStep
    BY <1>3, GetTokenInv
  <1>4. ASSUME NEW x \in Fetchers, TokenAnswered(x, [NoToken EXCEPT !.state = "error"])
        PROVE  FetchInv' /\ FreshStep
    <2>1. [NoToken EXCEPT !.state = "error"] \in TokenSet
          /\ [NoToken EXCEPT !.state = "error"].state = "error"
      BY DEF NoToken, TokenSet
    <2> QED
      BY <1>4, <2>1, TokenAnsweredInv
  <1>5. ASSUME NEW x \in Fetchers, NEW i \in Clock, fetch[x].pc = "asks",
               i \in fetch[x].asked .. clock,
               TokenAnswered(x, NewToken(fetch[x].source.type, fetch[x].asked, i))
        PROVE  FetchInv' /\ FreshStep
    <2> DEFINE asked == fetch[x].asked
               e     == NewToken(fetch[x].source.type, asked, i)
    <2>1. asked \in Nat /\ clock \in Nat /\ clock <= asked + TokenDelay /\ i \in Nat
          /\ asked <= i /\ i <= clock
      BY <1>5, CallType DEF FetchSet, FetchInv, FetchTypeInv, AskInv
    <2> HIDE DEF asked
    <2>2. /\ e \in TokenSet /\ e.expires <= e.issued + TokenLife
          /\ clock <= e.issued + TokenLife
      BY <2>1, NewTokenFacts
    <2>3. TokenAnswered(x, e)
      BY <1>5 DEF asked
    <2> HIDE DEF e
    <2> QED
      BY <2>2, <2>3, TokenAnsweredInv
  <1>6. ASSUME NEW x \in Fetchers, NEW j \in Jobs, StartFetch(x, j)
        PROVE  FetchInv' /\ FreshStep
    BY <1>6, StartFetchInv
  <1>7. ASSUME NEW x \in Fetchers,
               \/ TempFails(x) \/ NotRequested(x) \/ NoResponse(x) \/ TransferFails(x)
               \/ \E s \in ErrorStatuses, c \in ErrorCodes : ErrorResponse(x, s, c)
        PROVE  FetchInv' /\ FreshStep
    BY <1>7, FailInv
  <1>8. ASSUME NEW x \in Fetchers, WholeResponse(x) \/ RangeResponses(x) \/ CopyFile(x)
        PROVE  FetchInv' /\ FreshStep
    BY <1>8, DownloadWholeInv, DownloadRangesInv
  <1>9. CASE UNCHANGED fetchVars
    <2>1. FetchTypeInv' /\ TokenInv'
      BY <1>9 DEF fetchVars, FetchInv, FetchTypeInv, TokenInv
    <2>2. \A x \in Fetchers : StageInv(fetch[x])' /\ AskInv(fetch[x])'
      BY <1>9 DEF fetchVars, FetchInv, StageInv, AskInv
    <2> QED
      BY <1>9, <2>1, <2>2 DEF FetchInv
  <1> QED
    BY <1>1, <1>2, <1>3, <1>4, <1>5, <1>6, <1>7, <1>8, <1>9 DEF FetchNext, Attempt

\* The invariant holds of every behaviour.
LEMMA AlwaysFetchInv == FetchSpec => []FetchInv
  BY FetchInitInv, FetchNextInv, PTL DEF FetchSpec

-----------------------------------------------------------------------------
(* Theorems *)

\* Whatever the source, the way of transfer and the sizes, a fetched file is the
\* published one without exactly one archive around it, undamaged and within the
\* limit, and a file is only called malformed for a reason.
THEOREM FilesAreWhole == FetchSpec => []FileAsPublished
  <1>1. FetchInv => FileAsPublished
    BY DEF FetchInv, StageInv, FileAsPublished
  <1> QED
    BY <1>1, AlwaysFetchInv, PTL

\* A request carries a token its issuer still accepts, for every lifetime of
\* tokens, and any delay of the issuer within the margin.
THEOREM TokensAccepted == FetchSpec => TokenFresh
  <1>1. FetchInv /\ [FetchNext]_fetchVars => [FreshStep]_fetchVars
    BY FetchNextInv
  <1> QED
    BY <1>1, AlwaysFetchInv, PTL DEF FetchSpec, TokenFresh, FreshStep

-----------------------------------------------------------------------------
(* Downloader: the deny list *)

\* The buckets of the queue of a host
BucketSet == [timestamp : Times, failures : 1 .. Threshold]

\* The failures in each bucket of q
InBuckets(q) == [i \in 1 .. Len(q) |-> q[i].failures]

\* The failures of a host at time t or later
Since(f, t) == Total(f, {u \in Times : u >= t})

\* Who sleeps will try again; a failure is counted within Stall of its time.
DownloadInv(s) ==
    /\ s.pc = "sleep" => s.tries < MaxTries
    /\ s.pc \in {"register", "count"} => s.ts <= now /\ now <= s.ts + Stall

\* Nothing is from the future.
TimesInv ==
    /\ queue \in [Hosts -> Seq(BucketSet)]
    /\ \A d \in Downloads : DownloadInv(download[d])
    /\ \A h \in Hosts :
          /\ lastUsed[h] <= now
          /\ \A i \in 1 .. Len(queue[h]) : queue[h][i].timestamp <= now
          /\ \A u \in Times : u > lastUsed[h] => failed[h][u] = 0

\* What the queue counts from a bucket on was registered for times from Stall
\* before that bucket on.
Caused(q, f) ==
    \A i \in 1 .. Len(q) :
        UpTo(Total(InBuckets(q), i .. Len(q))) <= Since(f, q[i].timestamp - Stall)

CauseInv == \A h \in Hosts : Caused(queue[h], failed[h])

\* The number of the bucket of a time
Bucket(t) == t \div BucketSize

\* Buckets that were added in order are at different times, all of them rounded.
Rounded(q) ==
    /\ \A i \in 1 .. Len(q) : q[i].timestamp = BucketSize * Bucket(q[i].timestamp)
    /\ \A i, j \in 1 .. Len(q) :
          i <= j => Bucket(q[i].timestamp) + (j - i) <= Bucket(q[j].timestamp)

\* The buckets of q with failures at c or later
Reaching(q, c) == {i \in 1 .. Len(q) : q[i].timestamp + BucketSize > c}

\* What failed within the window is in the queue.
Kept(q, f) ==
    \A c \in Int : c > now - TimeWindow =>
        UpTo(Since(f, c)) <= Total(InBuckets(q), Reaching(q, c))

OrderInv ==
    \A h \in Hosts :
        /\ queue[h] = <<>> => ordered[h]
        /\ ordered[h] => Rounded(queue[h]) /\ Kept(queue[h], failed[h])

DenyInv == TypeOK /\ TimesInv /\ CauseInv /\ (TimeWindow % BucketSize = 0 => OrderInv)

-----------------------------------------------------------------------------
LEMMA Windows ==
    /\ MaxQueueLen \in Nat /\ MaxQueueLen >= 1
    /\ TimeWindow % BucketSize = 0 => BucketSize * (MaxQueueLen - 1) = TimeWindow
  <1>1. ASSUME NEW t \in Nat, NEW b \in Nat \ {0}
        PROVE  t \div b \in Nat /\ (t % b = 0 => b * (t \div b) = t)
    OBVIOUS
  <1>2. TimeWindow \in Nat /\ BucketSize \in Nat \ {0}
    BY DownloaderConstants
  <1> DEFINE n == TimeWindow \div BucketSize
  <1>3. n \in Nat /\ (TimeWindow % BucketSize = 0 => BucketSize * n = TimeWindow)
    BY <1>1, <1>2
  <1>4. MaxQueueLen = n + 1
    BY DEF MaxQueueLen
  <1> HIDE DEF n
  <1>5. MaxQueueLen - 1 = n /\ MaxQueueLen \in Nat /\ MaxQueueLen >= 1
    BY <1>3, <1>4
  <1> QED
    BY <1>3, <1>5

\* What round_duration does
LEMMA Rounding ==
    ASSUME NEW t \in Nat
    PROVE  /\ RoundDuration(t) \in 0 .. t /\ t < RoundDuration(t) + BucketSize
           /\ RoundDuration(t) = BucketSize * Bucket(RoundDuration(t))
           /\ Bucket(RoundDuration(t)) \in Nat
  <1>1. ASSUME NEW b \in Nat \ {0}
        PROVE  /\ t - (t % b) = b * (t \div b) /\ t \div b \in Nat
               /\ t - (t % b) \in 0 .. t /\ t < (t - (t % b)) + b
    OBVIOUS
  <1>2. ASSUME NEW b \in Nat \ {0}, NEW k \in Nat PROVE (b * k) \div b = k
    OBVIOUS
  <1>3. BucketSize \in Nat \ {0}
    BY DownloaderConstants
  <1> DEFINE k == t \div BucketSize
  <1>4. /\ RoundDuration(t) = BucketSize * k /\ k \in Nat
        /\ RoundDuration(t) \in 0 .. t /\ t < RoundDuration(t) + BucketSize
    BY <1>1, <1>3 DEF RoundDuration
  <1> HIDE DEF k
  <1>5. Bucket(RoundDuration(t)) = k
    BY <1>2, <1>3, <1>4 DEF Bucket
  <1> QED
    BY <1>4, <1>5

LEMMA UpToFacts ==
    ASSUME NEW n \in Nat
    PROVE  /\ UpTo(n) \in 0 .. Threshold /\ UpTo(n) <= n
           /\ \A m \in Nat : /\ n <= m => UpTo(n) <= UpTo(m)
                             /\ UpTo(m + UpTo(n)) = UpTo(m + n)
           /\ n >= 1 => UpTo(n) >= 1
           /\ UpTo(n) = n \/ UpTo(n) = Threshold
  BY DownloaderConstants DEF UpTo

LEMMA TimesFinite ==
    ASSUME NEW t
    PROVE  IsFiniteSet({u \in Times : u >= t})
  <1>1. IsFiniteSet(Times)
    BY DownloaderConstants, FS_Interval DEF Times
  <1> QED
    BY <1>1, FS_Subset

\* The queue with a failure added, before the limit applies
Added(q, ts) ==
    LET n == Len(q)
    IN  IF n > 0 /\ q[n].timestamp = ts
        THEN [q EXCEPT ![n].failures = UpTo(@ + 1)]
        ELSE Append(q, [timestamp |-> ts, failures |-> 1])

LEMMA AddedFacts ==
    ASSUME NEW q \in Seq(BucketSet), NEW ts \in Times
    PROVE  LET r == Added(q, ts)
               m == Len(r)
           IN  /\ r \in Seq(BucketSet) /\ m \in Nat \ {0} /\ m \in {Len(q), Len(q) + 1}
               /\ r[m].timestamp = ts
               /\ \A i \in 1 .. m - 1 : i <= Len(q) /\ r[i] = q[i]
               /\ m = Len(q) => /\ q[m].timestamp = ts
                                /\ r[m].failures = UpTo(q[m].failures + 1)
               /\ m = Len(q) + 1 => r[m].failures = 1
  <1> DEFINE n == Len(q)
             b == [timestamp |-> ts, failures |-> 1]
             c == [q[n] EXCEPT !.failures = UpTo(@ + 1)]
  <1>1. CASE n > 0 /\ q[n].timestamp = ts
    <2>1. Added(q, ts) = [q EXCEPT ![n] = c]
      BY <1>1 DEF Added
    <2>2. q[n] \in BucketSet /\ n \in Nat /\ n \in 1 .. Len(q)
      BY <1>1
    <2>3. q[n].failures \in 1 .. Threshold /\ q[n].timestamp \in Times
      BY <2>2 DEF BucketSet
    <2>4. UpTo(q[n].failures + 1) \in 1 .. Threshold
      BY <2>3, DownloaderConstants DEF UpTo
    <2>5. c \in BucketSet /\ c.timestamp = ts /\ c.failures = UpTo(q[n].failures + 1)
      BY <1>1, <2>2, <2>3, <2>4 DEF BucketSet
    <2> HIDE DEF c
    <2> DEFINE r == [q EXCEPT ![n] = c]
    <2>6. r \in Seq(BucketSet) /\ Len(r) = n /\ r[n] = c /\ \A i \in 1 .. n - 1 : r[i] = q[i]
      BY <2>2, <2>5
    <2>7. n - 1 < n /\ n # n + 1 /\ \A i \in 1 .. n - 1 : i <= n
      BY <2>2
    <2> HIDE DEF r, n
    <2>8. Added(q, ts) = r
      BY <2>1 DEF r
    <2> QED
      BY <1>1, <2>2, <2>5, <2>6, <2>7, <2>8 DEF n
  <1>2. CASE ~ (n > 0 /\ q[n].timestamp = ts)
    <2>1. Added(q, ts) = Append(q, b)
      BY <1>2 DEF Added
    <2>2. b \in BucketSet /\ b.timestamp = ts /\ b.failures = 1
      BY DownloaderConstants DEF BucketSet
    <2> HIDE DEF b
    <2> DEFINE r == Append(q, b)
    <2>3. r \in Seq(BucketSet) /\ Len(r) = n + 1 /\ r[n + 1] = b /\ \A i \in 1 .. n : r[i] = q[i]
      BY <2>2
    <2>4. n \in Nat
      OBVIOUS
    <2> HIDE DEF r, n
    <2> QED
      BY <1>2, <2>1, <2>2, <2>3, <2>4 DEF r, n
  <1> QED
    BY <1>1, <1>2

\* Totals are bounded in the same way before and after, and grow with the last bucket.
LEMMA AddedTotal ==
    ASSUME NEW q \in Seq(BucketSet), NEW ts \in Times,
           NEW D \in SUBSET (1 .. Len(Added(q, ts)))
    PROVE  LET r == Added(q, ts)
               E == D \cap (1 .. Len(q))
           IN  /\ Total(InBuckets(r), D) \in Nat /\ Total(InBuckets(q), E) \in Nat
               /\ Len(r) \in D => UpTo(Total(InBuckets(r), D)) = UpTo(Total(InBuckets(q), E) + 1)
               /\ Len(r) \notin D => Total(InBuckets(r), D) = Total(InBuckets(q), E)
  <1> DEFINE r == Added(q, ts)
             m == Len(r)
             n == Len(q)
             f == InBuckets(q)
             g == InBuckets(r)
             E == D \cap (1 .. n)
             R == D \ {m}
  <1>1. /\ r \in Seq(BucketSet) /\ m \in Nat \ {0} /\ m \in {n, n + 1} /\ n \in Nat
        /\ \A i \in 1 .. m - 1 : i <= n /\ r[i] = q[i]
        /\ m = n => r[m].failures = UpTo(q[m].failures + 1)
        /\ m = n + 1 => r[m].failures = 1
    <2> HIDE DEF r
    <2>1. n \in Nat
      OBVIOUS
    <2> QED
      BY <2>1, AddedFacts DEF r
  <1>2. \A i \in 1 .. n : f[i] = q[i].failures /\ f[i] \in Nat
    <2>1. \A i \in 1 .. n : q[i] \in BucketSet
      OBVIOUS
    <2> QED
      BY <2>1, DownloaderConstants DEF InBuckets, BucketSet
  <1>3. \A i \in 1 .. m : g[i] = r[i].failures /\ g[i] \in Nat
    <2> HIDE DEF r
    <2>1. \A i \in 1 .. m : r[i] \in BucketSet
      BY <1>1
    <2> QED
      BY <1>1, <2>1, DownloaderConstants DEF InBuckets, BucketSet
  <1>4. IsFiniteSet(D) /\ IsFiniteSet(E) /\ IsFiniteSet(R)
    <2>1. IsFiniteSet(1 .. m)
      <3> HIDE DEF r
      <3>1. m \in Int
        BY <1>1
      <3> HIDE DEF m
      <3> QED
        BY <3>1, FS_Interval
    <2> QED
      BY <2>1, FS_Subset
  <1> HIDE DEF r, m, n, f, g
  <1>5. D \in SUBSET (1 .. m)
    BY DEF m, r
  <1>6. R \in SUBSET (1 .. n) /\ \A i \in R : f[i] = g[i] /\ f[i] \in Nat
    <2>1. \A i \in R : i \in 1 .. m - 1
      <3>1. m \in Nat
        BY <1>1
      <3> QED
        BY <1>5, <3>1
    <2>2. \A i \in R : i \in 1 .. n /\ i \in 1 .. m /\ r[i] = q[i]
      BY <1>1, <2>1
    <2> QED
      BY <1>2, <1>3, <2>2
  <1>7. Total(f, R) = Total(g, R) /\ Total(f, R) \in Nat
    BY <1>4, <1>6, TotalSame, TotalIsNat
  <1>8. Total(f, E) \in Nat /\ Total(g, D) \in Nat
    BY <1>2, <1>3, <1>4, <1>5, TotalIsNat
  <1>9. CASE m \notin D
    <2>1. R = D /\ E = D
      BY <1>6, <1>9
    <2> QED
      BY <1>7, <1>8, <1>9, <2>1 DEF r, m, n, f, g
  <1>10. CASE m \in D
    <2>1. D = R \cup {m} /\ m \notin R /\ m \in 1 .. m
      BY <1>1, <1>10
    <2>2. Total(g, D) = Total(g, R) + g[m] /\ g[m] \in Nat /\ g[m] = r[m].failures
      <3>1. g[m] \in Nat /\ (\A i \in R : g[i] \in Nat) /\ g[m] = r[m].failures
        BY <1>3, <1>6, <2>1
      <3>2. Total(g, R \cup {m}) = Total(g, R) + g[m]
        BY <1>4, <2>1, <3>1, TotalAdd
      <3> QED
        BY <2>1, <3>1, <3>2
    <2>3. CASE m = n + 1
      <3>1. E = R
        BY <1>1, <1>5, <1>6, <2>1, <2>3
      <3>2. Total(g, D) = Total(f, E) + 1
        BY <1>1, <1>7, <2>2, <2>3, <3>1
      <3> QED
        BY <1>8, <1>10, <3>2 DEF r, m, n, f, g
    <2>4. CASE m = n
      <3>1. E = R \cup {m} /\ m \in 1 .. n
        BY <1>1, <1>5, <1>6, <2>1, <2>4
      <3>2. Total(f, E) = Total(f, R) + f[m] /\ f[m] \in Nat /\ f[m] = q[m].failures
        <4>1. f[m] \in Nat /\ (\A i \in R : f[i] \in Nat) /\ f[m] = q[m].failures
          BY <1>2, <1>6, <3>1
        <4>2. Total(f, R \cup {m}) = Total(f, R) + f[m]
          BY <1>4, <2>1, <4>1, TotalAdd
        <4> QED
          BY <3>1, <4>1, <4>2
      <3>3. Total(g, D) = Total(f, R) + UpTo(f[m] + 1)
        BY <1>1, <1>7, <2>2, <2>4, <3>2
      <3>4. UpTo(Total(f, R) + UpTo(f[m] + 1)) = UpTo(Total(f, R) + (f[m] + 1))
        <4>1. f[m] + 1 \in Nat
          BY <3>2
        <4> QED
          BY <1>7, <4>1, UpToFacts
      <3>5. UpTo(Total(g, D)) = UpTo(Total(f, E) + 1)
        BY <1>7, <3>2, <3>3, <3>4
      <3> QED
        BY <1>8, <1>10, <3>5 DEF r, m, n, f, g
    <2> QED
      BY <1>1, <2>3, <2>4
  <1> QED
    BY <1>9, <1>10

LEMMA FailureAdded ==
    ASSUME NEW f \in [Times -> 0 .. Threshold], NEW u \in Times
    PROVE  LET g == [f EXCEPT ![u] = UpTo(@ + 1)]
           IN  /\ g \in [Times -> 0 .. Threshold] /\ g[u] = UpTo(f[u] + 1)
               /\ \A v \in Times \ {u} : g[v] = f[v]
  <1>1. UpTo(f[u] + 1) \in 0 .. Threshold
    BY DownloaderConstants DEF UpTo
  <1> QED
    BY <1>1

\* The same of the failures of a host
LEMMA SinceAdds ==
    ASSUME NEW f \in [Times -> 0 .. Threshold], NEW u \in Times, NEW t \in Int,
           NEW g \in [Times -> 0 .. Threshold], g[u] = UpTo(f[u] + 1),
           \A v \in Times \ {u} : g[v] = f[v]
    PROVE  /\ Since(f, t) \in Nat /\ Since(g, t) \in Nat
           /\ u >= t => UpTo(Since(g, t)) = UpTo(Since(f, t) + 1)
           /\ u < t => Since(g, t) = Since(f, t)
  <1> DEFINE D == {v \in Times : v >= t}
             R == D \ {u}
  <1>1. u \in Int /\ Times \subseteq Int /\ \A v \in Times : f[v] \in Nat
    BY DownloaderConstants DEF Times
  <1>3. /\ g[u] = UpTo(f[u] + 1)
        /\ \A v \in Times \ {u} : g[v] = f[v]
        /\ \A v \in Times : g[v] \in Nat
    BY DownloaderConstants
  <1>4. IsFiniteSet(D) /\ IsFiniteSet(R) /\ D \subseteq Times
    BY TimesFinite, FS_Subset
  <1>5. Total(f, R) = Total(g, R) /\ Total(f, R) \in Nat
    <2>1. \A v \in R : f[v] = g[v] /\ f[v] \in Nat
      BY <1>1, <1>3
    <2> HIDE DEF R
    <2> QED
      BY <1>4, <2>1, TotalSame, TotalIsNat
  <1>6. Total(f, D) \in Nat /\ Total(g, D) \in Nat
    BY <1>1, <1>3, <1>4, TotalIsNat
  <1>7. CASE u < t
    <2>1. R = D
      BY <1>1, <1>7
    <2> QED
      BY <1>1, <1>3, <1>5, <1>6, <1>7, <2>1 DEF Since
  <1>8. CASE u >= t
    <2>1. D = R \cup {u} /\ u \notin R
      BY <1>8
    <2> HIDE DEF D, R
    <2>2. Total(f, R \cup {u}) = Total(f, R) + f[u]
      BY <1>1, <1>4, <2>1, TotalAdd
    <2>3. Total(g, R \cup {u}) = Total(g, R) + g[u]
      BY <1>3, <1>4, <2>1, TotalAdd
    <2>4. f[u] \in Nat /\ f[u] + 1 \in Nat
      BY <1>1
    <2>5. UpTo(Total(f, R) + UpTo(f[u] + 1)) = UpTo(Total(f, R) + (f[u] + 1))
      BY <1>5, <2>4, UpToFacts
    <2>6. UpTo(Total(g, D)) = UpTo(Total(f, D) + 1)
      BY <1>3, <1>5, <2>1, <2>2, <2>3, <2>4, <2>5
    <2> QED
      BY <1>1, <1>3, <1>6, <1>8, <2>6 DEF Since, D
  <1> QED
    BY <1>1, <1>7, <1>8

LEMMA SinceFacts ==
    ASSUME NEW f \in [Times -> 0 .. Threshold], NEW s \in Int, NEW t \in Int, s <= t
    PROVE  /\ Since(f, t) <= Since(f, s) /\ Since(f, t) \in Nat /\ Since(f, s) \in Nat
           /\ (\A u \in Times : u >= t => f[u] = 0) => Since(f, t) = 0
  <1> DEFINE D == {v \in Times : v >= s}
             E == {v \in Times : v >= t}
  <1>1. Times \subseteq Int /\ \A v \in Times : f[v] \in Nat
    BY DownloaderConstants DEF Times
  <1>2. IsFiniteSet(D) /\ E \in SUBSET D /\ IsFiniteSet(E)
    <2>1. ASSUME NEW v \in Times, v >= t PROVE v >= s
      <3>1. v \in Int
        BY <1>1
      <3> QED
        BY <2>1, <3>1
    <2> QED
      BY <2>1, TimesFinite
  <1>3. Total(f, E) <= Total(f, D) /\ Total(f, D) \in Nat /\ Total(f, E) \in Nat
    BY <1>1, <1>2, TotalGrows
  <1>4. ASSUME \A u \in Times : u >= t => f[u] = 0 PROVE Total(f, E) = 0
    <2> DEFINE e == [v \in E |-> f[v]]
    <2>1. DOMAIN e = E /\ \A v \in DOMAIN e : e[v] = 0
      BY <1>4
    <2> HIDE DEF e
    <2>2. SumFunction(e) = 0
      BY <1>2, <2>1, SumOfZeros
    <2> QED
      BY <2>2 DEF Total, e
  <1> QED
    BY <1>3, <1>4 DEF Since

LEMMA TailFacts ==
    ASSUME NEW r \in Seq(BucketSet), r # <<>>
    PROVE  /\ Tail(r) \in Seq(BucketSet) /\ Len(Tail(r)) = Len(r) - 1 /\ Len(r) \in Nat \ {0}
           /\ \A i \in 1 .. Len(r) - 1 : Tail(r)[i] = r[i + 1]
  OBVIOUS

\* The buckets that stay count what they counted.
LEMMA TailTotal ==
    ASSUME NEW r \in Seq(BucketSet), r # <<>>, NEW D \in SUBSET (1 .. Len(r) - 1)
    PROVE  Total(InBuckets(Tail(r)), D) = Total(InBuckets(r), {i + 1 : i \in D})
  <1> DEFINE n == Len(r) - 1
             q == Tail(r)
             f == InBuckets(q)
             g == InBuckets(r)
  <1>1. /\ q \in Seq(BucketSet) /\ Len(q) = n /\ n \in Nat /\ Len(r) = n + 1
        /\ \A i \in 1 .. n : q[i] = r[i + 1]
    BY TailFacts
  <1>2. \A i \in 1 .. n : q[i] \in BucketSet
    <2> HIDE DEF q, n
    <2> QED
      BY <1>1
  <1>3. ASSUME NEW i \in 1 .. n
        PROVE  f[i] = g[i + 1] /\ f[i] \in Nat
    <2>1. q[i].failures \in Nat
      BY <1>2, DownloaderConstants DEF BucketSet
    <2> HIDE DEF q, n
    <2>2. f[i] = q[i].failures
      BY <1>1 DEF InBuckets
    <2>3. i + 1 \in 1 .. Len(r)
      BY <1>1
    <2>4. g[i + 1] = r[i + 1].failures
      BY <2>3 DEF InBuckets
    <2> QED
      BY <1>1, <2>1, <2>2, <2>4
  <1> HIDE DEF q, f, g
  <1>4. IsFiniteSet(D) /\ D \in SUBSET Nat
    <2>1. IsFiniteSet(1 .. n)
      BY <1>1, FS_Interval
    <2>2. IsFiniteSet(D)
      BY <2>1, FS_Subset
    <2>3. D \in SUBSET Nat
      BY <1>1
    <2> QED
      BY <2>2, <2>3
  <1>5. \A x \in D : f[x] = g[x + 1] /\ f[x] \in Nat
    BY <1>3
  <1>6. Total(f, D) = Total(g, {x + 1 : x \in D})
    BY <1>4, <1>5, TotalShifted
  <1> QED
    BY <1>6 DEF f, g, q

LEMMA Positions ==
    ASSUME NEW q \in Seq(BucketSet)
    PROVE  /\ Len(q) \in Nat
           /\ \A i \in 1 .. Len(q) : /\ q[i] \in BucketSet /\ q[i].timestamp \in Int
                                     /\ q[i].timestamp \in Times
                                     /\ InBuckets(q)[i] \in Nat /\ InBuckets(q)[i] = q[i].failures
  <1>1. Len(q) \in Nat /\ \A i \in 1 .. Len(q) : q[i] \in BucketSet
    OBVIOUS
  <1> QED
    BY <1>1, DownloaderConstants DEF BucketSet, InBuckets, Times

\* A failure that is counted late is not older than Stall before any bucket.
LEMMA CausedAdded ==
    ASSUME NEW q \in Seq(BucketSet), NEW f \in [Times -> 0 .. Threshold], NEW u \in Times,
           NEW ts \in Times, ts <= u,
           \A i \in 1 .. Len(q) : q[i].timestamp - Stall <= u,
           Caused(q, f)
    PROVE  Caused(Added(q, ts), [f EXCEPT ![u] = UpTo(@ + 1)])
  <1> DEFINE r == Added(q, ts)
             m == Len(r)
             n == Len(q)
             g == [f EXCEPT ![u] = UpTo(@ + 1)]
  <1>1. /\ r \in Seq(BucketSet) /\ m \in Nat \ {0} /\ m \in {n, n + 1} /\ n \in Nat
        /\ r[m].timestamp = ts
        /\ \A i \in 1 .. m - 1 : i <= n /\ r[i] = q[i]
        /\ m = n => q[m].timestamp = ts
    <2> HIDE DEF r
    <2>1. n \in Nat
      OBVIOUS
    <2> QED
      BY <2>1, AddedFacts DEF r
  <1> HIDE DEF r, g
  <1> SUFFICES ASSUME NEW i \in 1 .. m
               PROVE  UpTo(Total(InBuckets(r), i .. m)) <= Since(g, r[i].timestamp - Stall)
    BY DEF Caused, r, g
  <1> DEFINE t == r[i].timestamp - Stall
             D == i .. m
             E == D \cap (1 .. n)
  <1>2. t \in Int /\ t <= u /\ u \in Int /\ Stall \in Nat /\ ts \in Int
    <2>1. Stall \in Nat /\ u \in Int /\ ts \in Int
      BY DownloaderConstants DEF Times
    <2>2. CASE i = m
      BY <1>1, <2>1, <2>2
    <2>3. CASE i # m
      <3>1. i \in 1 .. m - 1 /\ i \in 1 .. n
        BY <1>1, <2>3
      <3>2. r[i] = q[i] /\ q[i].timestamp \in Int
        BY <1>1, <3>1, Positions
      <3> QED
        BY <2>1, <3>1, <3>2
    <2> QED
      BY <2>2, <2>3
  <1>3. Total(InBuckets(q), E) \in Nat
        /\ UpTo(Total(InBuckets(r), D)) = UpTo(Total(InBuckets(q), E) + 1)
    <2>1. D \in SUBSET (1 .. m) /\ m \in D
      BY <1>1
    <2> HIDE DEF D
    <2> QED
      BY <2>1, AddedTotal DEF r
  <1>4. UpTo(Since(g, t)) = UpTo(Since(f, t) + 1) /\ Since(f, t) \in Nat /\ Since(g, t) \in Nat
    <2> HIDE DEF t
    <2>1. u >= t
      BY <1>2
    <2>2. /\ Since(f, t) \in Nat /\ Since(g, t) \in Nat
          /\ u >= t => UpTo(Since(g, t)) = UpTo(Since(f, t) + 1)
      <3>1. /\ g \in [Times -> 0 .. Threshold] /\ g[u] = UpTo(f[u] + 1)
            /\ \A v \in Times \ {u} : g[v] = f[v]
        BY FailureAdded DEF g
      <3> QED
        BY <1>2, <3>1, SinceAdds
    <2> QED
      BY <2>1, <2>2
  <1>5. UpTo(Total(InBuckets(q), E)) <= Since(f, t)
    <2>1. CASE i \in 1 .. n
      <3>1. E = i .. n
        BY <1>1, <2>1
      <3>2. r[i].timestamp = q[i].timestamp
        BY <1>1, <2>1
      <3> QED
        BY <2>1, <3>1, <3>2 DEF Caused
    <2>2. CASE i \notin 1 .. n
      <3>1. E = {}
        BY <1>1, <2>2
      <3>2. Total(InBuckets(q), E) = 0
        BY <3>1, TotalOfNone
      <3>3. UpTo(0) = 0
        BY DownloaderConstants DEF UpTo
      <3> QED
        BY <1>4, <3>2, <3>3
    <2> QED
      BY <2>1, <2>2
  <1> HIDE DEF t, D, E
  <1>6. ASSUME NEW a \in Nat, NEW b \in Nat, NEW c \in Nat,
               UpTo(a) <= b, UpTo(c) = UpTo(b + 1)
        PROVE  UpTo(a + 1) <= c
    BY <1>6, DownloaderConstants DEF UpTo
  <1>7. UpTo(Total(InBuckets(q), E) + 1) <= Since(g, t)
    BY <1>3, <1>4, <1>5, <1>6
  <1> QED
    BY <1>3, <1>7 DEF t, D

LEMMA CausedTail ==
    ASSUME NEW r \in Seq(BucketSet), r # <<>>, NEW g, Caused(r, g)
    PROVE  Caused(Tail(r), g)
  <1> DEFINE q == Tail(r)
  <1>1. /\ q \in Seq(BucketSet) /\ Len(q) = Len(r) - 1 /\ Len(r) \in Nat \ {0}
        /\ \A i \in 1 .. Len(r) - 1 : q[i] = r[i + 1]
    BY TailFacts
  <1> HIDE DEF q
  <1> SUFFICES ASSUME NEW i \in 1 .. Len(q)
               PROVE  UpTo(Total(InBuckets(q), i .. Len(q))) <= Since(g, q[i].timestamp - Stall)
    BY DEF Caused, q
  <1> DEFINE D == i .. Len(q)
  <1>2. D \in SUBSET (1 .. Len(r) - 1)
    BY <1>1
  <1>3. {k + 1 : k \in D} = i + 1 .. Len(r)
    <2>1. ASSUME NEW k \in i + 1 .. Len(r) PROVE k - 1 \in D /\ k = (k - 1) + 1
      BY <1>1
    <2>2. ASSUME NEW k \in D PROVE k + 1 \in i + 1 .. Len(r)
      BY <1>1
    <2> QED
      BY <2>1, <2>2
  <1> HIDE DEF D
  <1>4. Total(InBuckets(q), D) = Total(InBuckets(r), i + 1 .. Len(r))
    BY <1>2, <1>3, TailTotal DEF q
  <1>5. i + 1 \in 1 .. Len(r) /\ q[i] = r[i + 1]
    BY <1>1
  <1>6. UpTo(Total(InBuckets(r), i + 1 .. Len(r))) <= Since(g, r[i + 1].timestamp - Stall)
    BY <1>5 DEF Caused
  <1> QED
    BY <1>4, <1>5, <1>6 DEF D

\* In order of their times, buckets stay rounded and keep what is in the window.
LEMMA RoundedAdded ==
    ASSUME NEW q \in Seq(BucketSet), NEW u \in Times, Rounded(q),
           q = <<>> \/ q[Len(q)].timestamp <= RoundDuration(u)
    PROVE  Rounded(Added(q, RoundDuration(u)))
  <1> DEFINE ts == RoundDuration(u)
             r == Added(q, ts)
             m == Len(r)
             n == Len(q)
  <1>1. ts \in Times /\ ts \in Nat /\ ts = BucketSize * Bucket(ts) /\ Bucket(ts) \in Nat
    <2>1. u \in Nat /\ u <= MaxTime /\ MaxTime \in Nat
      BY DownloaderConstants DEF Times
    <2>2. ts \in 0 .. u /\ ts = BucketSize * Bucket(ts) /\ Bucket(ts) \in Nat
      BY <2>1, Rounding
    <2> HIDE DEF ts
    <2>3. ts \in Nat /\ ts <= MaxTime
      BY <2>1, <2>2
    <2> QED
      BY <2>2, <2>3 DEF Times
  <1> HIDE DEF ts
  <1>2. /\ r \in Seq(BucketSet) /\ m \in Nat \ {0} /\ m \in {n, n + 1} /\ n \in Nat
        /\ r[m].timestamp = ts
        /\ \A i \in 1 .. m - 1 : i <= n /\ r[i] = q[i]
        /\ m = n => q[m].timestamp = ts
    <2> HIDE DEF r
    <2>1. n \in Nat
      OBVIOUS
    <2> QED
      BY <1>1, <2>1, AddedFacts DEF r
  <1> HIDE DEF r
  <1>3. \A i \in 1 .. n : /\ q[i].timestamp = BucketSize * Bucket(q[i].timestamp)
                           /\ q[i].timestamp \in Nat /\ Bucket(q[i].timestamp) \in Nat
    <2>1. ASSUME NEW t \in Nat, NEW b \in Nat \ {0} PROVE t \div b \in Nat
      OBVIOUS
    <2>2. \A i \in 1 .. n : q[i].timestamp \in Nat
      BY Positions, DownloaderConstants DEF Times
    <2> QED
      BY <2>1, <2>2, DownloaderConstants DEF Rounded, Bucket
  <1>4. \A i \in 1 .. m : r[i].timestamp = BucketSize * Bucket(r[i].timestamp)
    <2>1. ASSUME NEW i \in 1 .. m, i # m PROVE i \in 1 .. m - 1 /\ i \in 1 .. n
      BY <1>2, <2>1
    <2> QED
      BY <1>1, <1>2, <1>3, <2>1
  <1>5. ASSUME m = n + 1, n # 0 PROVE Bucket(q[n].timestamp) + 1 <= Bucket(ts)
    <2>1. n \in 1 .. n /\ q # <<>>
      BY <1>2, <1>5
    <2>2. q[n].timestamp <= ts
      BY <2>1 DEF ts
    <2>3. q[n].timestamp # ts
      <3>1. Len(Append(q, [timestamp |-> ts, failures |-> 1])) = n + 1
        OBVIOUS
      <3>2. ASSUME q[n].timestamp = ts PROVE FALSE
        <4>1. r = [q EXCEPT ![n].failures = UpTo(@ + 1)]
          BY <1>2, <1>5, <3>2 DEF Added, r
        <4>2. Len(r) = n
          BY <2>1, <4>1
        <4> QED
          BY <1>2, <1>5, <4>2
      <3> QED
        BY <3>2
    <2>4. ASSUME NEW x \in Nat, NEW y \in Nat, NEW b \in Nat \ {0}, b * x < b * y
          PROVE  x + 1 <= y
      BY <2>4
    <2>5. q[n].timestamp < ts /\ q[n].timestamp = BucketSize * Bucket(q[n].timestamp)
          /\ Bucket(q[n].timestamp) \in Nat
      BY <1>1, <1>3, <2>1, <2>2, <2>3
    <2> QED
      BY <1>1, <2>4, <2>5, DownloaderConstants
  <1>6. ASSUME NEW i \in 1 .. m, NEW j \in 1 .. m, i <= j
        PROVE  Bucket(r[i].timestamp) + (j - i) <= Bucket(r[j].timestamp)
    <2>1. CASE j # m \/ m = n
      <3>1. i \in 1 .. n /\ j \in 1 .. n /\ r[i].timestamp = q[i].timestamp
            /\ r[j].timestamp = q[j].timestamp
        <4>1. ASSUME NEW k \in 1 .. m, m = n \/ k # m
              PROVE  k \in 1 .. n /\ r[k].timestamp = q[k].timestamp
          <5>1. CASE k = m
            BY <1>2, <4>1, <5>1
          <5>2. CASE k # m
            <6>1. k \in 1 .. m - 1
              BY <1>2, <5>2
            <6> QED
              BY <1>2, <6>1
          <5> QED
            BY <5>1, <5>2
        <4>2. m = n \/ i # m
          BY <1>2, <1>6, <2>1
        <4> QED
          BY <2>1, <4>1, <4>2
      <3> QED
        BY <1>6, <3>1 DEF Rounded
    <2>2. CASE j = m /\ m = n + 1
      <3>1. CASE i = m
        BY <1>1, <1>2, <2>2, <3>1
      <3>2. CASE i # m
        <4>1. i \in 1 .. n /\ n \in 1 .. n /\ n # 0 /\ r[i].timestamp = q[i].timestamp
          <5>1. i \in 1 .. m - 1
            BY <1>2, <3>2
          <5> QED
            BY <1>2, <2>2, <5>1
        <4>2. Bucket(q[i].timestamp) + (n - i) <= Bucket(q[n].timestamp)
          BY <4>1 DEF Rounded
        <4>3. /\ Bucket(q[i].timestamp) \in Nat /\ Bucket(q[n].timestamp) \in Nat
              /\ Bucket(q[n].timestamp) + 1 <= Bucket(ts)
          BY <1>3, <1>5, <2>2, <4>1
        <4>4. Bucket(q[i].timestamp) + ((n + 1) - i) <= Bucket(ts)
          BY <1>1, <1>2, <4>2, <4>3
        <4> QED
          BY <1>2, <2>2, <4>1, <4>4
      <3> QED
        BY <3>1, <3>2
    <2> QED
      BY <1>2, <2>1, <2>2
  <1> QED
    BY <1>4, <1>6 DEF Rounded, r, ts

LEMMA RoundedTail ==
    ASSUME NEW r \in Seq(BucketSet), r # <<>>, Rounded(r)
    PROVE  Rounded(Tail(r))
  <1> DEFINE q == Tail(r)
             m == Len(r)
  <1>1. /\ q \in Seq(BucketSet) /\ Len(q) = m - 1 /\ m \in Nat \ {0}
        /\ \A i \in 1 .. m - 1 : q[i] = r[i + 1]
    BY TailFacts
  <1> HIDE DEF q, m
  <1>2. \A i \in 1 .. m - 1 : i + 1 \in 1 .. m
    BY <1>1
  <1>3. \A i \in 1 .. m - 1 : q[i].timestamp = BucketSize * Bucket(q[i].timestamp)
    BY <1>1, <1>2 DEF Rounded, m
  <1>4. ASSUME NEW i \in 1 .. m - 1, NEW j \in 1 .. m - 1, i <= j
        PROVE  Bucket(q[i].timestamp) + (j - i) <= Bucket(q[j].timestamp)
    <2>1. i + 1 \in 1 .. m /\ j + 1 \in 1 .. m /\ i + 1 <= j + 1 /\ (j + 1) - (i + 1) = j - i
      BY <1>1, <1>4
    <2>2. Bucket(r[i + 1].timestamp) + ((j + 1) - (i + 1)) <= Bucket(r[j + 1].timestamp)
      BY <2>1 DEF Rounded, m
    <2> QED
      BY <1>1, <2>1, <2>2
  <1> QED
    BY <1>1, <1>3, <1>4 DEF Rounded, q

\* A bucket that falls out of a full queue ended before the window.
LEMMA OldestBucket ==
    ASSUME NEW r \in Seq(BucketSet), Rounded(r), TimeWindow % BucketSize = 0,
           Len(r) > MaxQueueLen
    PROVE  r[1].timestamp + BucketSize + TimeWindow <= r[Len(r)].timestamp
  <1> DEFINE m == Len(r)
             w == MaxQueueLen - 1
             x == Bucket(r[1].timestamp)
             y == Bucket(r[m].timestamp)
  <1>1. MaxQueueLen \in Nat /\ w \in Nat /\ BucketSize * w = TimeWindow /\ m \in Nat
        /\ BucketSize \in Nat \ {0} /\ m >= w + 2
    BY Windows, DownloaderConstants
  <1>2. 1 \in 1 .. m /\ m \in 1 .. m /\ 1 <= m
    BY <1>1
  <1>3. /\ r[1].timestamp = BucketSize * x /\ r[m].timestamp = BucketSize * y
        /\ x + (m - 1) <= y
    BY <1>2 DEF Rounded
  <1>4. x \in Nat /\ y \in Nat
    <2>1. ASSUME NEW t \in Nat, NEW b \in Nat \ {0} PROVE t \div b \in Nat
      OBVIOUS
    <2>2. r[1].timestamp \in Nat /\ r[m].timestamp \in Nat
      BY <1>2, Positions, DownloaderConstants DEF Times
    <2> QED
      BY <1>1, <2>1, <2>2 DEF Bucket
  <1> HIDE DEF x, y, w
  <1>5. ASSUME NEW b \in Nat \ {0}, NEW k \in Nat, NEW i \in Nat, NEW j \in Nat, i + (k + 1) <= j
        PROVE  b * i + b + b * k <= b * j
    <2>1. PICK e \in Nat : j = i + k + 1 + e
      <3>1. j - (i + k + 1) \in Nat /\ j = i + k + 1 + (j - (i + k + 1))
        BY <1>5
      <3> QED
        BY <3>1
    <2>2. b * j = b * i + b * k + b + b * e /\ b * e \in Nat /\ b * i \in Nat /\ b * k \in Nat
      BY <2>1
    <2> QED
      BY <2>2
  <1>6. x + (w + 1) <= y
    BY <1>1, <1>3, <1>4
  <1>7. BucketSize * x + BucketSize + BucketSize * w <= BucketSize * y
    BY <1>1, <1>4, <1>5, <1>6
  <1> QED
    BY <1>1, <1>3, <1>7

LEMMA KeptAdded ==
    ASSUME NEW q \in Seq(BucketSet), NEW f \in [Times -> 0 .. Threshold], NEW u \in Times,
           NEW g \in [Times -> 0 .. Threshold], g[u] = UpTo(f[u] + 1),
           \A v \in Times \ {u} : g[v] = f[v],
           now \in Times, Kept(q, f)
    PROVE  Kept(Added(q, RoundDuration(u)), g)
  <1> DEFINE ts == RoundDuration(u)
             r == Added(q, ts)
             m == Len(r)
             n == Len(q)
  <1>1. ts \in Times /\ ts \in Nat /\ u \in Nat /\ u < ts + BucketSize
    <2>1. u \in Nat /\ u <= MaxTime /\ MaxTime \in Nat
      BY DownloaderConstants DEF Times
    <2>2. ts \in 0 .. u /\ u < ts + BucketSize
      BY <2>1, Rounding
    <2> HIDE DEF ts
    <2>3. ts \in Nat /\ ts <= MaxTime
      BY <2>1, <2>2
    <2> QED
      BY <2>1, <2>2, <2>3 DEF Times
  <1> HIDE DEF ts
  <1>2. /\ r \in Seq(BucketSet) /\ m \in Nat \ {0} /\ m \in {n, n + 1} /\ n \in Nat
        /\ r[m].timestamp = ts
        /\ \A i \in 1 .. m - 1 : i <= n /\ r[i] = q[i]
        /\ m = n => q[m].timestamp = ts
    <2> HIDE DEF r
    <2>1. n \in Nat
      OBVIOUS
    <2> QED
      BY <1>1, <2>1, AddedFacts DEF r
  <1> HIDE DEF r
  <1> SUFFICES ASSUME NEW c \in Int, c > now - TimeWindow
               PROVE  UpTo(Since(g, c)) <= Total(InBuckets(r), Reaching(r, c))
    BY DEF Kept, r, ts
  <1> DEFINE D == Reaching(r, c)
             E == D \cap (1 .. n)
             R == Total(InBuckets(r), D)
             Q == Total(InBuckets(q), E)
             G == Since(g, c)
             F == Since(f, c)
  <1>3. E = Reaching(q, c)
    <2>1. ASSUME NEW i \in 1 .. n PROVE i \in 1 .. m /\ r[i].timestamp = q[i].timestamp
      <3>1. CASE i = m
        BY <1>2, <3>1
      <3>2. CASE i # m
        <4>1. i \in 1 .. m - 1
          BY <1>2, <3>2
        <4> QED
          BY <1>2, <4>1
      <3> QED
        BY <3>1, <3>2
    <2> QED
      BY <2>1 DEF Reaching
  <1>4. UpTo(F) <= Q
    BY <1>3 DEF Kept
  <1>5. D \in SUBSET (1 .. m) /\ (u >= c => m \in D)
    <2>1. D \in SUBSET (1 .. m)
      BY DEF Reaching
    <2>2. ASSUME u >= c PROVE m \in D
      <3>1. m \in 1 .. m
        BY <1>2
      <3>2. BucketSize \in Nat
        BY DownloaderConstants
      <3>3. ts + BucketSize > c
        BY <1>1, <2>2, <3>2
      <3> QED
        BY <1>2, <3>1, <3>3 DEF Reaching
    <2> QED
      BY <2>1, <2>2
  <1>6. /\ R \in Nat /\ Q \in Nat
        /\ m \in D => UpTo(R) = UpTo(Q + 1)
        /\ m \notin D => R = Q
    <2> HIDE DEF D
    <2> QED
      BY <1>1, <1>5, AddedTotal DEF r
  <1>7. /\ F \in Nat /\ G \in Nat
        /\ u >= c => UpTo(G) = UpTo(F + 1)
        /\ u < c => G = F
    BY SinceAdds
  <1> HIDE DEF D, E, R, Q, F, G
  <1>8. UpTo(G) <= R
    BY <1>1, <1>4, <1>5, <1>6, <1>7, DownloaderConstants DEF UpTo
  <1> QED
    BY <1>8 DEF G, R, D

LEMMA KeptTail ==
    ASSUME NEW r \in Seq(BucketSet), r # <<>>, NEW g, now \in Times, Kept(r, g),
           r[1].timestamp + BucketSize + TimeWindow <= now
    PROVE  Kept(Tail(r), g)
  <1> DEFINE q == Tail(r)
             m == Len(r)
  <1>1. /\ q \in Seq(BucketSet) /\ Len(q) = m - 1 /\ m \in Nat \ {0}
        /\ \A i \in 1 .. m - 1 : q[i] = r[i + 1]
    BY TailFacts
  <1>2. r[1].timestamp \in Int /\ now \in Int /\ TimeWindow \in Nat /\ BucketSize \in Nat
    BY <1>1, Positions, DownloaderConstants DEF Times
  <1> HIDE DEF q, m
  <1> SUFFICES ASSUME NEW c \in Int, c > now - TimeWindow
               PROVE  UpTo(Since(g, c)) <= Total(InBuckets(q), Reaching(q, c))
    BY DEF Kept, q
  <1> DEFINE D == Reaching(q, c)
  <1>3. D \in SUBSET (1 .. Len(r) - 1)
    BY <1>1 DEF Reaching, m
  <1>4. {i + 1 : i \in D} = Reaching(r, c)
    <2>1. ASSUME NEW i \in D PROVE i + 1 \in Reaching(r, c)
      <3>1. i \in 1 .. m - 1 /\ q[i].timestamp + BucketSize > c
        BY <1>1 DEF Reaching
      <3>2. i + 1 \in 1 .. m /\ r[i + 1] = q[i]
        BY <1>1, <3>1
      <3> QED
        BY <3>1, <3>2 DEF Reaching, m
    <2>2. ASSUME NEW k \in Reaching(r, c) PROVE k - 1 \in D /\ k = (k - 1) + 1
      <3>1. k \in 1 .. m /\ r[k].timestamp + BucketSize > c
        BY DEF Reaching, m
      <3>2. k # 1
        BY <1>2, <3>1
      <3>3. k - 1 \in 1 .. m - 1 /\ k = (k - 1) + 1
        BY <1>1, <3>1, <3>2
      <3>4. q[k - 1] = r[k]
        BY <1>1, <3>3
      <3> QED
        BY <1>1, <3>1, <3>3, <3>4 DEF Reaching
    <2> QED
      BY <2>1, <2>2
  <1> HIDE DEF D
  <1>5. Total(InBuckets(q), D) = Total(InBuckets(r), Reaching(r, c))
    BY <1>3, <1>4, TailTotal DEF q
  <1> QED
    BY <1>5 DEF Kept, D

\* A host whose queue was evicted had no failures in the window.
LEMMA KeptEvicted ==
    ASSUME NEW f \in [Times -> 0 .. Threshold], now \in Times, NEW l \in Times,
           now >= l + TimeWindow, \A u \in Times : u > l => f[u] = 0
    PROVE  Rounded(<<>>) /\ Kept(<<>>, f)
  <1>1. Rounded(<<>>)
    BY DEF Rounded
  <1>2. ASSUME NEW c \in Int, c > now - TimeWindow
        PROVE  UpTo(Since(f, c)) <= Total(InBuckets(<<>>), Reaching(<<>>, c))
    <2>1. c > l /\ l \in Int /\ Times \subseteq Int
      BY <1>2, DownloaderConstants DEF Times
    <2>2. ASSUME NEW u \in Times, u >= c PROVE f[u] = 0
      <3>1. u \in Int
        BY <2>1
      <3>2. u > l
        BY <2>1, <2>2, <3>1
      <3> QED
        BY <3>2
    <2>3. Since(f, c) = 0
      BY <2>2, SinceFacts
    <2>4. Reaching(<<>>, c) = {}
      BY DEF Reaching
    <2>5. Total(InBuckets(<<>>), {}) = 0
      BY TotalOfNone
    <2>6. UpTo(0) = 0
      BY DownloaderConstants DEF UpTo
    <2>7. Total(InBuckets(<<>>), Reaching(<<>>, c)) = 0 /\ UpTo(Since(f, c)) = 0
      BY <2>3, <2>4, <2>5, <2>6, Zenon
    <2> QED
      BY <2>7
  <1> QED
    BY <1>1, <1>2 DEF Kept

\* What register_failure compares with the threshold: the failures from the first
\* bucket on that is within the window.
LEMMA RecentFacts ==
    ASSUME NEW q \in Seq(BucketSet), NEW cutoff \in Int
    PROVE  \E k \in 1 .. Len(q) + 1 :
              /\ k <= Len(q) => q[k].timestamp >= cutoff
              /\ \A j \in 1 .. k - 1 : q[j].timestamp < cutoff
              /\ RecentFailures(q, cutoff) = Total(InBuckets(q), k .. Len(q))
              /\ RecentFailures(q, cutoff) \in Nat
  <1> DEFINE n == Len(q)
             First(i) == /\ i <= n => q[i].timestamp >= cutoff
                         /\ \A j \in 1 .. i - 1 : q[j].timestamp < cutoff
             first == CHOOSE i \in 1 .. n + 1 : First(i)
             D == first .. n
             g == InBuckets(q)
  <1>1. n \in Nat /\ \A i \in 1 .. n : q[i].timestamp \in Int /\ g[i] \in Nat /\ g[i] = q[i].failures
    BY Positions
  <1>2. \E i \in 1 .. n + 1 : First(i)
    <2> DEFINE S == {i \in 1 .. n + 1 : i <= n => q[i].timestamp >= cutoff}
    <2>1. S \in SUBSET Nat /\ n + 1 \in S
      BY <1>1
    <2>2. PICK i \in S : \A j \in S : i <= j
      BY <2>1, LeastNat
    <2>3. ASSUME NEW j \in 1 .. i - 1 PROVE q[j].timestamp < cutoff
      <3>1. j \in 1 .. n /\ j \in 1 .. n + 1 /\ ~ (i <= j)
        BY <1>1, <2>2
      <3>2. j \notin S
        BY <2>2, <3>1
      <3>3. ~ (q[j].timestamp >= cutoff)
        BY <3>1, <3>2
      <3> QED
        BY <1>1, <3>1, <3>3
    <2> QED
      BY <2>2, <2>3
  <1>3. first \in 1 .. n + 1 /\ First(first)
    BY <1>2
  <1>4. RecentFailures(q, cutoff)
          = LET iter == CHOOSE iter : iter = [s \in SUBSET D |->
                            IF s = {} THEN 0 ELSE q[Pick(s)].failures + iter[s \ {Pick(s)}]]
            IN  iter[D]
    BY DEF RecentFailures, MapThenSumSet, MapThenFoldSet, Pick
  <1> HIDE DEF first, g
  <1>5. D \subseteq 1 .. n /\ IsFiniteSet(D)
    BY <1>1, <1>3, FS_Interval
  <1> HIDE DEF D
  <1>6. ASSUME NEW h
        PROVE  Sums(h, g, D) <=> h = [s \in SUBSET D |->
                            IF s = {} THEN 0 ELSE q[Pick(s)].failures + h[s \ {Pick(s)}]]
    <2>1. ASSUME NEW s \in SUBSET D, s # {} PROVE g[Pick(s)] = q[Pick(s)].failures
      BY <1>1, <1>5, <2>1, Picked
    <2>2. [s \in SUBSET D |-> IF s = {} THEN 0 ELSE g[Pick(s)] + h[s \ {Pick(s)}]]
          = [s \in SUBSET D |-> IF s = {} THEN 0 ELSE q[Pick(s)].failures + h[s \ {Pick(s)}]]
      BY <2>1
    <2> QED
      BY <2>2 DEF Sums
  <1>7. \E h : Sums(h, g, D)
    BY <1>5, SumsExist
  <1>8. PICK h : Sums(h, g, D) /\ RecentFailures(q, cutoff) = h[D]
    BY <1>4, <1>6, <1>7
  <1>9. \A x \in D : g[x] \in Nat
    BY <1>1, <1>5
  <1>10. RecentFailures(q, cutoff) = Total(g, D) /\ Total(g, D) \in Nat
    BY <1>5, <1>8, <1>9, SumsTotal, TotalIsNat
  <1> QED
    BY <1>3, <1>10 DEF D, g

LEMMA FailedSinceFacts ==
    ASSUME NEW h \in Hosts, NEW t \in Int, failed'[h] \in [Times -> 0 .. Threshold]
    PROVE  FailedSince(h, t) = Since(failed'[h], t)
  <1> DEFINE D == {u \in Times : u >= t}
             g == failed'[h]
  <1>1. IsFiniteSet(D) /\ \A x \in D : g[x] \in Nat
    BY TimesFinite
  <1>2. FailedSince(h, t)
          = LET iter == CHOOSE iter : iter = [s \in SUBSET D |->
                            IF s = {} THEN 0 ELSE g[Pick(s)] + iter[s \ {Pick(s)}]]
            IN  iter[D]
    BY DEF FailedSince, MapThenSumSet, MapThenFoldSet, Pick
  <1> HIDE DEF D, g
  <1>3. \E k : Sums(k, g, D)
    BY <1>1, SumsExist
  <1>4. PICK k : Sums(k, g, D) /\ FailedSince(h, t) = k[D]
    BY <1>2, <1>3 DEF Sums
  <1> QED
    BY <1>1, <1>4, SumsTotal DEF Since, D, g

-----------------------------------------------------------------------------
LEMMA IdleType == Idle \in DownloadSet /\ Idle.pc = "idle"
  <1>1. (CHOOSE x \in Hosts : TRUE) \in Hosts
    BY DownloaderConstants
  <1> QED
    BY <1>1, DownloaderConstants DEF Idle, DownloadSet, Times

LEMMA DenyInitInv == Init => DenyInv
  <1> SUFFICES ASSUME Init PROVE DenyInv
    OBVIOUS
  <1>1. /\ now = TimeWindow /\ now \in Times /\ 0 \in Times
        /\ \A h \in Hosts : queue[h] = <<>> /\ lastUsed[h] = 0 /\ ordered[h]
    BY DownloaderConstants DEF Init, Times
  <1>2. \A h \in Hosts : failed[h] \in [Times -> 0 .. Threshold] /\ \A u \in Times : failed[h][u] = 0
    BY DownloaderConstants DEF Init
  <1>3. TypeOK
    <2>1. download \in [Downloads -> DownloadSet]
      BY IdleType DEF Init
    <2>2. \A h \in Hosts : /\ queue[h] \in Seq([timestamp : Times, failures : 1 .. Threshold])
                           /\ Len(queue[h]) <= MaxQueueLen
      <3>1. \A S : <<>> \in Seq(S) /\ Len(<<>>) = 0
        OBVIOUS
      <3>2. 0 <= MaxQueueLen
        BY Windows
      <3> QED
        BY <1>1, <3>1, <3>2
    <2>3. lastUsed \in [Hosts -> Times] /\ blocked \in [Hosts -> Nat]
          /\ ordered \in [Hosts -> BOOLEAN]
      BY <1>1 DEF Init
    <2>4. failed \in [Hosts -> [Times -> 0 .. Threshold]]
      BY DownloaderConstants DEF Init
    <2> QED
      BY <1>1, <2>1, <2>2, <2>3, <2>4 DEF TypeOK
  <1>4. TimesInv
    <2>1. queue \in [Hosts -> Seq(BucketSet)]
      BY DEF Init
    <2>2. \A d \in Downloads : download[d].pc = "idle"
      BY IdleType DEF Init
    <2>3. \A h \in Hosts : /\ lastUsed[h] <= now
                           /\ \A i \in 1 .. Len(queue[h]) : queue[h][i].timestamp <= now
      BY <1>1, DownloaderConstants
    <2> QED
      BY <1>2, <2>1, <2>2, <2>3 DEF TimesInv, DownloadInv
  <1>5. CauseInv
    BY <1>1 DEF CauseInv, Caused
  <1>6. OrderInv
    <2>1. ASSUME NEW h \in Hosts PROVE Rounded(<<>>) /\ Kept(<<>>, failed[h])
      <3>1. now >= 0 + TimeWindow
        BY <1>1, DownloaderConstants
      <3> QED
        BY <1>1, <1>2, <3>1, KeptEvicted
    <2> QED
      BY <1>1, <2>1 DEF OrderInv
  <1> QED
    BY <1>3, <1>4, <1>5, <1>6 DEF DenyInv

\* Nothing but the state of one download changes.
LEMMA BecomesInv ==
    ASSUME DenyInv, NEW d \in Downloads, NEW s \in DownloadSet, Becomes(d, s), DownloadInv(s)
    PROVE  DenyInv'
  <1>1. /\ download' = [download EXCEPT ![d] = s]
        /\ UNCHANGED <<now, queue, lastUsed, blocked, failed, ordered>>
    BY DEF Becomes
  <1>2. TypeOK /\ download \in [Downloads -> DownloadSet]
    BY DEF DenyInv, TypeOK
  <1>3. TypeOK'
    BY <1>1, <1>2 DEF TypeOK
  <1>4. TimesInv'
    <2>1. \A c \in Downloads : download'[c] = IF c = d THEN s ELSE download[c]
      BY <1>1, <1>2
    <2> QED
      BY <1>1, <2>1 DEF DenyInv, TimesInv, DownloadInv
  <1>5. CauseInv'
    BY <1>1 DEF DenyInv, CauseInv
  <1>6. OrderInv => OrderInv'
    BY <1>1 DEF OrderInv, Kept
  <1> QED
    BY <1>3, <1>4, <1>5, <1>6 DEF DenyInv

\* The time of the call of register_failure is the current one.
LEMMA DoneInv ==
    ASSUME DenyInv, NEW d \in Downloads, NEW r, Done(d, r)
    PROVE  DenyInv'
  <1> DEFINE s == [Idle EXCEPT !.pc = "register", !.host = download[d].host, !.ts = now]
  <1>1. download[d].host \in Hosts /\ now \in Times /\ now \in Int /\ Stall \in Nat
    BY DownloaderConstants DEF DenyInv, TypeOK, DownloadSet, Times
  <1>2. s \in DownloadSet /\ s.ts = now /\ s.pc = "register"
    BY <1>1, IdleType DEF DownloadSet
  <1> HIDE DEF s
  <1>3. CASE r \in Failures /\ download[d].http
    <2>1. Becomes(d, s)
      BY <1>3 DEF Done, s
    <2>2. DownloadInv(s)
      BY <1>1, <1>2 DEF DownloadInv
    <2> QED
      BY <1>2, <2>1, <2>2, BecomesInv
  <1>4. CASE ~ (r \in Failures /\ download[d].http)
    <2>1. Becomes(d, Idle)
      BY <1>4 DEF Done
    <2>2. DownloadInv(Idle)
      BY IdleType DEF DownloadInv
    <2> QED
      BY <2>1, <2>2, IdleType, BecomesInv
  <1> QED
    BY <1>3, <1>4

LEMMA DenyTickInv ==
    ASSUME DenyInv, Tick
    PROVE  DenyInv'
  <1>1. /\ UNCHANGED <<queue, lastUsed, blocked, failed, ordered>>
        /\ now \in Times /\ now' \in Times /\ now \in Int /\ now' \in Int /\ now <= now'
        /\ TimeWindow \in Nat
    BY DownloaderConstants DEF DenyInv, TypeOK, Tick, Times
  <1>2. download \in [Downloads -> DownloadSet]
    BY DEF DenyInv, TypeOK
  <1>3. \A c \in Downloads : /\ download'[c] \in DownloadSet /\ download'[c].pc = download[c].pc
                             /\ download'[c].ts = download[c].ts
                             /\ download'[c].tries = download[c].tries
    <2> SUFFICES ASSUME NEW c \in Downloads
                 PROVE  /\ download'[c] \in DownloadSet /\ download'[c].pc = download[c].pc
                        /\ download'[c].ts = download[c].ts
                        /\ download'[c].tries = download[c].tries
      OBVIOUS
    <2>1. download'[c] = [download[c] EXCEPT !.left = IF @ > 0 THEN @ - 1 ELSE 0]
      BY DEF Tick
    <2>2. download[c] \in DownloadSet
      BY <1>2
    <2>3. download[c].left \in 0 .. MaxDownload
      BY <2>2 DEF DownloadSet
    <2>4. (IF download[c].left > 0 THEN download[c].left - 1 ELSE 0) \in 0 .. MaxDownload
      BY <2>3, DownloaderConstants
    <2> QED
      BY <2>1, <2>2, <2>4 DEF DownloadSet
  <1>4. download' \in [Downloads -> DownloadSet]
    <2>1. DOMAIN download' = Downloads /\ download' = [c \in Downloads |-> download'[c]]
      BY DEF Tick
    <2> QED
      BY <1>3, <2>1
  <1>5. TypeOK'
    BY <1>1, <1>4 DEF DenyInv, TypeOK
  <1>6. TimesInv'
    <2>1. ASSUME NEW c \in Downloads, download'[c].pc \in {"register", "count"}
          PROVE  download'[c].ts <= now' /\ now' <= download'[c].ts + Stall
      <3>1. /\ download[c].pc \in {"register", "count"} /\ download'[c].ts = download[c].ts
            /\ download[c].ts \in Int /\ Stall \in Nat /\ MaxTime \in Nat
        BY <1>2, <1>3, <2>1, DownloaderConstants DEF DownloadSet, Times
      <3>2. download[c].ts <= now /\ now <= download[c].ts + Stall
        BY <3>1 DEF DenyInv, TimesInv, DownloadInv
      <3>3. now' = now \/ (now' = now + 1 /\ now < download[c].ts + Stall)
        BY <3>1 DEF Tick
      <3> QED
        BY <1>1, <3>1, <3>2, <3>3
    <2>2. ASSUME NEW h \in Hosts
          PROVE  /\ lastUsed'[h] <= now'
                 /\ \A i \in 1 .. Len(queue'[h]) : queue'[h][i].timestamp <= now'
                 /\ \A u \in Times : u > lastUsed'[h] => failed'[h][u] = 0
      <3>1. /\ lastUsed[h] <= now /\ lastUsed[h] \in Int /\ queue[h] \in Seq(BucketSet)
            /\ \A i \in 1 .. Len(queue[h]) : queue[h][i].timestamp <= now
            /\ \A u \in Times : u > lastUsed[h] => failed[h][u] = 0
        <4>1. lastUsed[h] \in Times
          BY DEF DenyInv, TypeOK
        <4>2. lastUsed[h] \in Int
          BY <4>1 DEF Times
        <4> QED
          BY <4>2 DEF DenyInv, TimesInv
      <3>2. \A i \in 1 .. Len(queue[h]) : queue[h][i].timestamp \in Int
        BY <3>1, Positions
      <3> QED
        BY <1>1, <3>1, <3>2
    <2>3. ASSUME NEW c \in Downloads PROVE DownloadInv(download[c])'
      BY <1>3, <2>1 DEF DenyInv, TimesInv, DownloadInv
    <2> QED
      BY <1>1, <2>2, <2>3 DEF DenyInv, TimesInv
  <1>7. CauseInv'
    BY <1>1 DEF DenyInv, CauseInv
  <1>8. \A c \in Int : c > now' - TimeWindow => c > now - TimeWindow
    <2>1. ASSUME NEW a \in Int, NEW b \in Int, NEW w \in Int, NEW c \in Int, a <= b, c > b - w
          PROVE  c > a - w
      BY <2>1
    <2>2. now \in Int /\ now' \in Int /\ now <= now' /\ TimeWindow \in Int
      BY <1>1
    <2> QED
      BY <2>1, <2>2
  <1>9. ASSUME OrderInv PROVE OrderInv'
    <2>1. ASSUME NEW h \in Hosts, Kept(queue[h], failed[h]) PROVE Kept(queue[h], failed[h])'
      BY <1>1, <1>8, <2>1 DEF Kept
    <2> QED
      BY <1>1, <1>9, <2>1 DEF OrderInv
  <1> QED
    BY <1>5, <1>6, <1>7, <1>9 DEF DenyInv

\* The steps of the two properties
CauseStep ==
    \A h \in Hosts :
        blocked'[h] # blocked[h] =>
            /\ h \notin NeverBlock
            /\ FailedSince(h, now - TimeWindow - BucketSize - 2 * Stall + 1) >= Threshold

BlockStep ==
    \A h \in Hosts \ NeverBlock :
        TimeWindow % BucketSize = 0 /\ ordered'[h] /\ ThresholdReached(h)
            => blocked'[h] = now + BlockTime

LEMMA QuietStep ==
    ASSUME UNCHANGED <<blocked, failed>>
    PROVE  CauseStep /\ BlockStep
  BY DEF CauseStep, BlockStep, ThresholdReached

\* What CountFailure makes of one queue, which may have been evicted
LEMMA CountedInv ==
    ASSUME NEW old \in Seq(BucketSet), Len(old) <= MaxQueueLen,
           NEW f \in [Times -> 0 .. Threshold], NEW u \in Times,
           now \in Times, u <= now, now <= u + Stall,
           \A i \in 1 .. Len(old) : old[i].timestamp <= now,
           Caused(old, f)
    PROVE  LET q == Counted(old, RoundDuration(u))
               g == [f EXCEPT ![u] = UpTo(@ + 1)]
           IN  /\ q \in Seq(BucketSet) /\ q # <<>> /\ Len(q) <= MaxQueueLen
               /\ \A i \in 1 .. Len(q) : q[i].timestamp <= now
               /\ Caused(q, g)
               /\ ( /\ TimeWindow % BucketSize = 0 /\ Rounded(old) /\ Kept(old, f)
                    /\ old = <<>> \/ old[Len(old)].timestamp <= RoundDuration(u) )
                  => Rounded(q) /\ Kept(q, g)
  <1> DEFINE ts == RoundDuration(u)
             r == Added(old, ts)
             q == Counted(old, ts)
             g == [f EXCEPT ![u] = UpTo(@ + 1)]
             m == Len(r)
             n == Len(old)
             Order == /\ TimeWindow % BucketSize = 0 /\ Rounded(old) /\ Kept(old, f)
                      /\ old = <<>> \/ old[Len(old)].timestamp <= ts
  <1>1. ts \in Times /\ ts \in Nat /\ ts <= u /\ u \in Nat /\ now \in Nat /\ Stall \in Nat
    <2>1. u \in Nat /\ u <= MaxTime /\ MaxTime \in Nat /\ now \in Nat /\ Stall \in Nat
      BY DownloaderConstants DEF Times
    <2>2. ts \in 0 .. u
      BY <2>1, Rounding
    <2> HIDE DEF ts
    <2>3. ts \in Nat /\ ts <= MaxTime /\ ts <= u
      BY <2>1, <2>2
    <2> QED
      BY <2>1, <2>3 DEF Times
  <1>2. q = IF m > MaxQueueLen THEN Tail(r) ELSE r
    BY DEF Counted, Added
  <1>3. /\ g \in [Times -> 0 .. Threshold] /\ g[u] = UpTo(f[u] + 1)
        /\ \A v \in Times \ {u} : g[v] = f[v]
    BY FailureAdded
  <1> HIDE DEF ts, r, q, g
  <1>4. /\ r \in Seq(BucketSet) /\ m \in Nat \ {0} /\ m \in {n, n + 1} /\ n \in Nat
        /\ r[m].timestamp = ts
        /\ \A i \in 1 .. m - 1 : i <= n /\ r[i] = old[i]
    <2>1. n \in Nat
      OBVIOUS
    <2> QED
      BY <1>1, <2>1, AddedFacts DEF r
  <1>5. \A i \in 1 .. n : old[i].timestamp \in Int /\ old[i].timestamp <= now
    BY Positions
  <1>6. \A i \in 1 .. m : r[i].timestamp <= now
    <2>1. ASSUME NEW i \in 1 .. m PROVE r[i].timestamp <= now
      <3>1. CASE i = m
        BY <1>1, <1>4, <3>1
      <3>2. CASE i # m
        <4>1. i \in 1 .. m - 1
          BY <1>4, <3>2
        <4>2. i \in 1 .. n /\ r[i] = old[i]
          BY <1>4, <4>1
        <4> QED
          BY <1>5, <4>2
      <3> QED
        BY <3>1, <3>2
    <2> QED
      BY <2>1
  <1>7. Caused(r, g)
    <2>1. \A i \in 1 .. n : old[i].timestamp - Stall <= u
      BY <1>1, <1>5
    <2> QED
      BY <1>1, <2>1, CausedAdded DEF r, g
  <1>8. ASSUME Order PROVE Rounded(r) /\ Kept(r, g)
    BY <1>3, <1>8, RoundedAdded, KeptAdded DEF r, ts
  <1>9. r # <<>>
    BY <1>4
  <1>10. CASE ~ (m > MaxQueueLen)
    <2>1. q = r
      BY <1>2, <1>10
    <2>2. m <= MaxQueueLen
      BY <1>4, <1>10, Windows
    <2> QED
      BY <1>4, <1>6, <1>7, <1>8, <1>9, <2>1, <2>2 DEF q, g, ts
  <1>11. CASE m > MaxQueueLen
    <2>1. q = Tail(r)
      BY <1>2, <1>11
    <2>2. /\ q \in Seq(BucketSet) /\ Len(q) = m - 1
          /\ \A i \in 1 .. m - 1 : q[i] = r[i + 1]
      BY <1>4, <1>9, <2>1, TailFacts
    <2>3. Len(q) <= MaxQueueLen /\ q # <<>>
      <3>1. MaxQueueLen \in Nat /\ MaxQueueLen >= 1
        BY Windows
      <3>2. m = n + 1 /\ m - 1 = n /\ n >= 1
        BY <1>4, <1>11, <3>1
      <3> QED
        BY <1>4, <2>2, <3>2
    <2>4. \A i \in 1 .. Len(q) : q[i].timestamp <= now
      <3>1. \A i \in 1 .. m - 1 : i + 1 \in 1 .. m
        BY <1>4
      <3> QED
        BY <1>6, <2>2, <3>1
    <2>5. Caused(q, g)
      BY <1>4, <1>7, <1>9, <2>1, CausedTail
    <2>6. ASSUME Order PROVE Rounded(q) /\ Kept(q, g)
      <3>1. Rounded(r) /\ Kept(r, g)
        BY <1>8, <2>6
      <3>2. r[1].timestamp + BucketSize + TimeWindow <= r[m].timestamp
        BY <1>4, <1>11, <2>6, <3>1, OldestBucket
      <3>3. r[1].timestamp \in Int /\ BucketSize \in Nat /\ TimeWindow \in Nat
        BY <1>4, Positions, DownloaderConstants
      <3>4. r[1].timestamp + BucketSize + TimeWindow <= now
        BY <1>1, <1>4, <3>2, <3>3
      <3>5. Rounded(Tail(r))
        BY <1>4, <1>9, <3>1, RoundedTail
      <3>6. Kept(Tail(r), g)
        BY <1>4, <1>9, <3>1, <3>4, KeptTail
      <3> QED
        BY <2>1, <3>5, <3>6
    <2> QED
      BY <2>2, <2>3, <2>4, <2>5, <2>6 DEF q, g, ts
  <1> QED
    BY <1>10, <1>11

\* Who is blocked has failed, in the order of buckets or not.
LEMMA BlockedCause ==
    ASSUME NEW q \in Seq(BucketSet), NEW g \in [Times -> 0 .. Threshold], Caused(q, g),
           NEW u \in Times, now \in Times, u <= now, now <= u + Stall,
           RecentFailures(q, RoundDuration(u) - TimeWindow) >= Threshold
    PROVE  Since(g, now - TimeWindow - BucketSize - 2 * Stall + 1) >= Threshold
  <1> DEFINE ts == RoundDuration(u)
             n == Len(q)
             s == now - TimeWindow - BucketSize - 2 * Stall + 1
  <1>1. /\ u \in Nat /\ now \in Nat /\ Stall \in Nat /\ TimeWindow \in Nat /\ BucketSize \in Nat
        /\ Threshold \in Nat \ {0} /\ n \in Nat
    BY DownloaderConstants DEF Times
  <1>2. ts \in Int /\ u < ts + BucketSize
    BY <1>1, Rounding
  <1> HIDE DEF ts
  <1>3. PICK k \in 1 .. n + 1 :
              /\ k <= n => q[k].timestamp >= ts - TimeWindow
              /\ RecentFailures(q, ts - TimeWindow) = Total(InBuckets(q), k .. n)
              /\ RecentFailures(q, ts - TimeWindow) \in Nat
    <2>1. ts - TimeWindow \in Int
      BY <1>1, <1>2
    <2> QED
      BY <2>1, RecentFacts
  <1>4. Total(InBuckets(q), k .. n) >= Threshold /\ Total(InBuckets(q), k .. n) \in Nat
    BY <1>3 DEF ts
  <1>5. k \in 1 .. n
    <2>1. ASSUME k = n + 1 PROVE FALSE
      <3>1. k .. n = {}
        BY <1>1, <2>1
      <3>2. Total(InBuckets(q), k .. n) = 0
        BY <3>1, TotalOfNone
      <3> QED
        BY <1>1, <1>4, <3>2
    <2> QED
      BY <1>1, <2>1
  <1> DEFINE t == q[k].timestamp - Stall
  <1>6. UpTo(Total(InBuckets(q), k .. n)) = Threshold
    BY <1>1, <1>4 DEF UpTo
  <1>7. Threshold <= Since(g, t)
    BY <1>5, <1>6 DEF Caused
  <1>8. t \in Int /\ s \in Int /\ s <= t
    <2>1. q[k].timestamp \in Int
      BY <1>5, Positions
    <2>2. q[k].timestamp >= ts - TimeWindow
      BY <1>1, <1>3, <1>5
    <2> DEFINE a == q[k].timestamp
    <2>3. a \in Int /\ a >= ts - TimeWindow /\ t = a - Stall
      BY <2>1, <2>2
    <2> HIDE DEF a, t
    <2>4. now <= u + Stall /\ u < ts + BucketSize
      BY <1>2
    <2>5. now - BucketSize - Stall + 1 <= ts
      BY <1>1, <1>2, <2>4
    <2>6. s <= a - Stall /\ a - Stall \in Int /\ s \in Int
      BY <1>1, <1>2, <2>3, <2>5
    <2> QED
      BY <2>3, <2>6
  <1> HIDE DEF t, s
  <1>9. Since(g, t) <= Since(g, s) /\ Since(g, t) \in Nat /\ Since(g, s) \in Nat
    BY <1>8, SinceFacts
  <1>10. Since(g, s) >= Threshold
    BY <1>1, <1>7, <1>9
  <1> QED
    BY <1>10 DEF s

\* Who has failed is blocked, if the failures came in order.
LEMMA FailedBlocked ==
    ASSUME NEW q \in Seq(BucketSet), NEW g \in [Times -> 0 .. Threshold],
           Rounded(q), Kept(q, g), TimeWindow % BucketSize = 0,
           NEW u \in Times, now \in Times, u <= now,
           Since(g, now - TimeWindow + 1) >= Threshold
    PROVE  RecentFailures(q, RoundDuration(u) - TimeWindow) >= Threshold
  <1> DEFINE ts == RoundDuration(u)
             n == Len(q)
             c == now - TimeWindow + 1
             f == InBuckets(q)
             w == MaxQueueLen - 1
  <1>1. /\ u \in Nat /\ now \in Nat /\ TimeWindow \in Nat /\ BucketSize \in Nat \ {0}
        /\ Threshold \in Nat \ {0} /\ n \in Nat
    BY DownloaderConstants DEF Times
  <1>2. /\ ts \in Nat /\ ts <= now /\ ts = BucketSize * Bucket(ts) /\ Bucket(ts) \in Nat
        /\ BucketSize * w = TimeWindow /\ w \in Nat
    <2>1. ts \in 0 .. u /\ ts = BucketSize * Bucket(ts) /\ Bucket(ts) \in Nat
      BY <1>1, Rounding
    <2>2. BucketSize * w = TimeWindow /\ w \in Nat
      BY Windows
    <2> HIDE DEF ts
    <2> QED
      BY <1>1, <2>1, <2>2
  <1> HIDE DEF ts, w
  <1>3. PICK k \in 1 .. n + 1 :
              /\ \A j \in 1 .. k - 1 : q[j].timestamp < ts - TimeWindow
              /\ RecentFailures(q, ts - TimeWindow) = Total(f, k .. n)
              /\ RecentFailures(q, ts - TimeWindow) \in Nat
    <2>1. ts - TimeWindow \in Int
      BY <1>1, <1>2
    <2> QED
      BY <2>1, RecentFacts
  <1>4. ASSUME NEW i \in Reaching(q, c) PROVE i \in k .. n
    <2>1. i \in 1 .. n /\ q[i].timestamp + BucketSize > c
      BY DEF Reaching
    <2>2. /\ q[i].timestamp = BucketSize * Bucket(q[i].timestamp) /\ Bucket(q[i].timestamp) \in Nat
          /\ q[i].timestamp \in Nat
      <3>1. ASSUME NEW t \in Nat, NEW b \in Nat \ {0} PROVE t \div b \in Nat
        OBVIOUS
      <3>2. q[i].timestamp \in Nat
        <4>1. q[i].timestamp \in Times
          BY <2>1, Positions
        <4> QED
          BY <4>1, DownloaderConstants DEF Times
      <3> QED
        BY <1>1, <2>1, <3>1, <3>2 DEF Rounded, Bucket
    <2>3. ASSUME NEW b \in Nat \ {0}, NEW x \in Nat, NEW y \in Nat, NEW z \in Nat,
                 b * x + b > b * y - b * z
          PROVE  b * x >= b * y - b * z
      <3>1. b * (x + 1 + z) = b * x + b + b * z /\ b * x \in Nat /\ b * y \in Nat /\ b * z \in Nat
        OBVIOUS
      <3>2. b * (x + 1 + z) > b * y
        BY <2>3, <3>1
      <3>3. x + 1 + z > y
        <4>1. ASSUME NEW p \in Nat, NEW o \in Nat, p <= o PROVE b * p <= b * o
          BY <4>1
        <4> QED
          BY <3>1, <3>2, <4>1
      <3>4. x + z >= y
        BY <3>3
      <3>5. b * (x + z) >= b * y /\ b * (x + z) = b * x + b * z
        BY <3>4
      <3> QED
        BY <3>1, <3>5
    <2> DEFINE x == Bucket(q[i].timestamp)
               y == Bucket(ts)
    <2>4. BucketSize * x + BucketSize > BucketSize * y - BucketSize * w
      <3>1. q[i].timestamp + BucketSize > ts - TimeWindow
        <4>1. ASSUME NEW a \in Nat, NEW b \in Nat, NEW d \in Nat, NEW e \in Nat, NEW o \in Nat,
                     a + b > d - o + 1, e <= d
              PROVE  a + b > e - o
          BY <4>1
        <4>2. q[i].timestamp \in Nat /\ ts \in Nat /\ ts <= now /\ BucketSize \in Nat
          BY <1>1, <1>2, <2>2
        <4> QED
          BY <1>1, <2>1, <4>1, <4>2
      <3> QED
        BY <1>2, <2>2, <3>1
    <2>5. BucketSize * x >= BucketSize * y - BucketSize * w
      <3> HIDE DEF x, y
      <3>1. x \in Nat /\ y \in Nat
        BY <1>2, <2>2 DEF x, y
      <3> QED
        BY <1>1, <1>2, <2>3, <2>4, <3>1
    <2>6. q[i].timestamp >= ts - TimeWindow
      BY <1>2, <2>2, <2>5
    <2>7. i \notin 1 .. k - 1
      <3>1. q[i].timestamp \in Nat /\ ts - TimeWindow \in Int
        BY <1>1, <1>2, <2>2
      <3>2. ~ (q[i].timestamp < ts - TimeWindow)
        BY <2>6, <3>1
      <3> QED
        BY <1>3, <3>2
    <2> QED
      BY <1>1, <2>1, <2>7
  <1>5. UpTo(Since(g, c)) <= Total(f, Reaching(q, c))
    <2>1. c \in Int /\ c > now - TimeWindow
      BY <1>1
    <2> QED
      BY <2>1 DEF Kept
  <1>6. UpTo(Since(g, c)) = Threshold
    <2>1. c \in Int /\ c <= c
      BY <1>1
    <2>2. Since(g, c) \in Nat
      BY <2>1, SinceFacts
    <2> QED
      BY <1>1, <2>2 DEF UpTo
  <1>7. Total(f, Reaching(q, c)) <= Total(f, k .. n) /\ Total(f, Reaching(q, c)) \in Nat
    <2>1. IsFiniteSet(k .. n) /\ Reaching(q, c) \in SUBSET (k .. n)
      BY <1>1, <1>4, FS_Interval
    <2>2. \A x \in k .. n : f[x] \in Nat
      <3>1. \A x \in k .. n : x \in 1 .. n
        BY <1>1
      <3> QED
        BY <3>1, Positions
    <2> HIDE DEF f
    <2> QED
      BY <2>1, <2>2, TotalGrows
  <1> QED
    BY <1>1, <1>3, <1>5, <1>6, <1>7 DEF ts

LEMMA CountFailureInv ==
    ASSUME DenyInv, NEW d \in Downloads, CountFailure(d)
    PROVE  DenyInv' /\ CauseStep /\ BlockStep
  <1> DEFINE h == download[d].host
             u == download[d].ts
             ts == RoundDuration(u)
             old == IF now >= lastUsed[h] + TimeWindow THEN <<>> ELSE queue[h]
             q == Counted(old, ts)
             over == RecentFailures(q, ts - TimeWindow) >= Threshold
             f == failed[h]
             g == [f EXCEPT ![u] = UpTo(@ + 1)]
             Order == TimeWindow % BucketSize = 0 /\ InOrder(h, old, ts)
  <1>1. /\ download[d].pc = "count"
        /\ queue' = [queue EXCEPT ![h] = q]
        /\ lastUsed' = [lastUsed EXCEPT ![h] = now]
        /\ blocked' = IF over /\ h \notin NeverBlock
                      THEN [blocked EXCEPT ![h] = now + BlockTime] ELSE blocked
        /\ ordered' = [ordered EXCEPT ![h] = InOrder(h, old, ts)]
        /\ download' = [download EXCEPT ![d] = Idle]
        /\ now' = now
    BY DEF CountFailure
  <1>2. failed' = [failed EXCEPT ![h] = g]
    BY DEF CountFailure
  <1>3. /\ download \in [Downloads -> DownloadSet] /\ h \in Hosts /\ u \in Times
        /\ now \in Times /\ now \in Nat /\ TimeWindow \in Nat /\ BlockTime \in Nat
        /\ queue \in [Hosts -> Seq(BucketSet)] /\ lastUsed \in [Hosts -> Times]
        /\ blocked \in [Hosts -> Nat] /\ failed \in [Hosts -> [Times -> 0 .. Threshold]]
        /\ ordered \in [Hosts -> BOOLEAN] /\ lastUsed[h] \in Times
        /\ f \in [Times -> 0 .. Threshold] /\ queue[h] \in Seq(BucketSet)
    <2>1. TypeOK /\ queue \in [Hosts -> Seq(BucketSet)]
      BY DEF DenyInv, TimesInv
    <2>2. h \in Hosts /\ u \in Times
      BY <2>1 DEF TypeOK, DownloadSet
    <2>3. now \in Nat /\ TimeWindow \in Nat /\ BlockTime \in Nat
      BY <2>1, DownloaderConstants DEF TypeOK, Times
    <2> QED
      BY <2>1, <2>2, <2>3 DEF TypeOK
  <1>4. u <= now /\ now <= u + Stall
    BY <1>1 DEF DenyInv, TimesInv, DownloadInv
  <1>5. /\ old \in Seq(BucketSet) /\ Len(old) <= MaxQueueLen
        /\ \A i \in 1 .. Len(old) : old[i].timestamp <= now
        /\ Caused(old, f)
    <2>1. CASE now >= lastUsed[h] + TimeWindow
      <3>1. old = <<>>
        BY <2>1
      <3> HIDE DEF old
      <3> QED
        BY <3>1, Windows DEF Caused
    <2>2. CASE ~ (now >= lastUsed[h] + TimeWindow)
      <3>1. old = queue[h]
        BY <2>2
      <3> HIDE DEF old
      <3> QED
        BY <1>3, <3>1 DEF DenyInv, TypeOK, TimesInv, CauseInv
    <2> QED
      BY <2>1, <2>2
  <1>6. ASSUME Order
        PROVE  /\ Rounded(old) /\ Kept(old, f)
               /\ old = <<>> \/ old[Len(old)].timestamp <= ts
    <2>1. TimeWindow % BucketSize = 0 /\ OrderInv
      BY <1>6 DEF DenyInv
    <2>2. CASE now >= lastUsed[h] + TimeWindow
      <3>1. old = <<>>
        BY <2>2
      <3>2. \A v \in Times : v > lastUsed[h] => f[v] = 0
        BY <1>3 DEF DenyInv, TimesInv
      <3>3. Rounded(<<>>) /\ Kept(<<>>, f)
        BY <1>3, <2>2, <3>2, KeptEvicted
      <3> HIDE DEF old
      <3> QED
        BY <3>1, <3>3
    <2>3. CASE ~ (now >= lastUsed[h] + TimeWindow)
      <3>1. old = queue[h]
        BY <2>3
      <3> HIDE DEF old
      <3>2. old = <<>> \/ (ordered[h] /\ old[Len(old)].timestamp <= ts)
        BY <1>6 DEF InOrder
      <3>3. ordered[h]
        BY <1>3, <2>1, <3>1, <3>2 DEF OrderInv
      <3>4. Rounded(queue[h]) /\ Kept(queue[h], failed[h])
        BY <1>3, <2>1, <3>3 DEF OrderInv
      <3> QED
        BY <3>1, <3>2, <3>4
    <2> QED
      BY <2>2, <2>3
  <1> HIDE DEF old
  <1>7. /\ q \in Seq(BucketSet) /\ q # <<>> /\ Len(q) <= MaxQueueLen
        /\ \A i \in 1 .. Len(q) : q[i].timestamp <= now
        /\ Caused(q, g)
    <2> HIDE DEF h, u, f
    <2> QED
      BY <1>3, <1>4, <1>5, CountedInv
  <1>8. ASSUME Order PROVE Rounded(q) /\ Kept(q, g)
    <2>1. /\ TimeWindow % BucketSize = 0 /\ Rounded(old) /\ Kept(old, f)
          /\ old = <<>> \/ old[Len(old)].timestamp <= ts
      BY <1>6, <1>8
    <2> HIDE DEF h, u, f
    <2> QED
      BY <1>3, <1>4, <1>5, <2>1, CountedInv
  <1> HIDE DEF q, f, u, h
  <1>9. /\ g \in [Times -> 0 .. Threshold] /\ g[u] = UpTo(f[u] + 1)
        /\ \A v \in Times \ {u} : g[v] = f[v]
    BY <1>3, FailureAdded
  <1> HIDE DEF g
  <1>10. /\ queue'[h] = q /\ lastUsed'[h] = now /\ failed'[h] = g
         /\ \A x \in Hosts \ {h} : /\ queue'[x] = queue[x]
                                   /\ lastUsed'[x] = lastUsed[x]
                                   /\ failed'[x] = failed[x]
    BY <1>1, <1>2, <1>3
  <1>11. \A c \in Downloads : download'[c] = IF c = d THEN Idle ELSE download[c]
    BY <1>1, <1>3
  <1>12. /\ \A x \in Hosts : x # h => (ordered'[x] <=> ordered[x])
         /\ ordered'[h] <=> InOrder(h, old, ts)
    BY <1>1, <1>3, Zenon
  <1>13. /\ queue' \in [Hosts -> Seq(BucketSet)] /\ lastUsed' \in [Hosts -> Times]
         /\ failed' \in [Hosts -> [Times -> 0 .. Threshold]]
         /\ ordered' \in [Hosts -> BOOLEAN] /\ blocked' \in [Hosts -> Nat]
         /\ download' \in [Downloads -> DownloadSet]
    <2>1. InOrder(h, old, ts) \in BOOLEAN
      BY <1>3, Zenon DEF InOrder
    <2>2. ordered' \in [Hosts -> BOOLEAN]
      BY <1>1, <1>3, <2>1, Zenon
    <2>3. blocked' \in [Hosts -> Nat]
      <3>1. now + BlockTime \in Nat
        BY <1>3
      <3> QED
        BY <1>1, <1>3, <3>1
    <2>4. queue' \in [Hosts -> Seq(BucketSet)] /\ lastUsed' \in [Hosts -> Times]
          /\ failed' \in [Hosts -> [Times -> 0 .. Threshold]]
      BY <1>1, <1>2, <1>3, <1>7, <1>9
    <2>5. download' \in [Downloads -> DownloadSet]
      BY <1>1, <1>3, IdleType
    <2> QED
      BY <2>2, <2>3, <2>4, <2>5
  <1>14. TypeOK'
    <2>1. ASSUME NEW x \in Hosts
          PROVE  /\ queue'[x] \in Seq([timestamp : Times, failures : 1 .. Threshold])
                 /\ Len(queue'[x]) <= MaxQueueLen
      BY <1>7, <1>10 DEF DenyInv, TypeOK, BucketSet
    <2> QED
      BY <1>1, <1>3, <1>13, <2>1 DEF TypeOK
  <1>15. TimesInv'
    <2>1. ASSUME NEW c \in Downloads
          PROVE  DownloadInv(download[c])'
      <3>1. download'[c] = Idle \/ download'[c] = download[c]
        BY <1>11
      <3> QED
        BY <1>1, <3>1, IdleType DEF DenyInv, TimesInv, DownloadInv
    <2>2. ASSUME NEW x \in Hosts
          PROVE  /\ lastUsed'[x] <= now'
                 /\ \A i \in 1 .. Len(queue'[x]) : queue'[x][i].timestamp <= now'
                 /\ \A v \in Times : v > lastUsed'[x] => failed'[x][v] = 0
      <3>1. /\ lastUsed[x] <= now /\ lastUsed[x] \in Times
            /\ \A i \in 1 .. Len(queue[x]) : queue[x][i].timestamp <= now
            /\ \A v \in Times : v > lastUsed[x] => failed[x][v] = 0
        BY <1>3 DEF DenyInv, TimesInv
      <3>2. CASE x # h
        BY <1>1, <1>10, <3>1, <3>2
      <3>3. CASE x = h
        <4>1. ASSUME NEW v \in Times, v > now PROVE g[v] = 0
          <5>1. v \in Int /\ lastUsed[x] \in Int /\ u \in Int /\ now \in Int
            BY <1>3, <3>1, DownloaderConstants DEF Times
          <5>2. v # u /\ v > lastUsed[x]
            BY <1>4, <3>1, <4>1, <5>1
          <5>3. f[v] = 0
            BY <3>1, <3>3, <5>2 DEF f
          <5> QED
            BY <1>9, <5>2, <5>3
        <4>2. now <= now
          BY <1>3
        <4> QED
          BY <1>1, <1>7, <1>10, <3>3, <4>1, <4>2
      <3> QED
        BY <3>2, <3>3
    <2> QED
      BY <1>13, <2>1, <2>2 DEF TimesInv
  <1>16. CauseInv'
    <2>1. ASSUME NEW x \in Hosts PROVE Caused(queue'[x], failed'[x])
      BY <1>7, <1>10 DEF DenyInv, CauseInv, f
    <2> QED
      BY <2>1 DEF CauseInv
  <1>17. ASSUME TimeWindow % BucketSize = 0 PROVE OrderInv'
    <2>1. ASSUME NEW x \in Hosts
          PROVE  /\ queue'[x] = <<>> => ordered'[x]
                 /\ ordered'[x] => Rounded(queue'[x]) /\ Kept(queue[x], failed[x])'
      <3>1. CASE x # h
        <4>1. OrderInv
          BY <1>17 DEF DenyInv
        <4>2. queue'[x] = queue[x] /\ failed'[x] = failed[x] /\ (ordered'[x] <=> ordered[x])
          BY <1>10, <1>12, <3>1
        <4>3. Kept(queue[x], failed[x]) => Kept(queue[x], failed[x])'
          BY <1>1, <4>2 DEF Kept
        <4> QED
          BY <4>1, <4>2, <4>3 DEF OrderInv
      <3>2. CASE x = h
        <4>1. queue'[x] = q /\ failed'[x] = g /\ (ordered'[x] <=> InOrder(h, old, ts))
          BY <1>10, <1>12, <3>2
        <4>2. Kept(q, g) => Kept(queue[x], failed[x])'
          BY <1>1, <4>1 DEF Kept
        <4> QED
          BY <1>7, <1>8, <1>17, <4>1, <4>2
      <3> QED
        BY <3>1, <3>2
    <2> QED
      BY <2>1 DEF OrderInv
  <1>18. DenyInv'
    BY <1>14, <1>15, <1>16, <1>17 DEF DenyInv
  <1>19. CauseStep
    <2> SUFFICES ASSUME NEW x \in Hosts, blocked'[x] # blocked[x]
                 PROVE  /\ x \notin NeverBlock
                        /\ FailedSince(x, now - TimeWindow - BucketSize - 2 * Stall + 1) >= Threshold
      BY DEF CauseStep
    <2>1. over /\ h \notin NeverBlock /\ x = h
      BY <1>1, <1>3
    <2>2. Since(g, now - TimeWindow - BucketSize - 2 * Stall + 1) >= Threshold
      BY <1>3, <1>4, <1>7, <1>9, <2>1, BlockedCause
    <2>3. failed'[x] = g
      BY <1>10, <2>1
    <2> DEFINE t == now - TimeWindow - BucketSize - 2 * Stall + 1
    <2>4. t \in Int
      BY <1>3, DownloaderConstants
    <2> HIDE DEF t
    <2>5. FailedSince(x, t) = Since(g, t)
      BY <1>9, <2>3, <2>4, FailedSinceFacts
    <2> QED
      BY <2>1, <2>2, <2>5 DEF t
  <1>20. BlockStep
    <2> SUFFICES ASSUME NEW x \in Hosts \ NeverBlock, TimeWindow % BucketSize = 0, ordered'[x],
                        ThresholdReached(x)
                 PROVE  blocked'[x] = now + BlockTime
      BY DEF BlockStep
    <2>1. x = h /\ failed'[x] = g /\ queue'[x] = q
      BY <1>10 DEF ThresholdReached
    <2>2. Order
      BY <1>12, <2>1
    <2> DEFINE t == now - TimeWindow + 1
    <2>3. t \in Int
      BY <1>3
    <2>4. FailedSince(x, t) >= Threshold
      BY DEF ThresholdReached
    <2> HIDE DEF t
    <2>5. FailedSince(x, t) = Since(g, t)
      BY <1>9, <2>1, <2>3, FailedSinceFacts
    <2>6. Since(g, now - TimeWindow + 1) >= Threshold
      BY <2>4, <2>5 DEF t
    <2>7. over
      BY <1>3, <1>4, <1>7, <1>8, <1>9, <2>2, <2>6, FailedBlocked
    <2> QED
      BY <1>1, <1>3, <2>1, <2>7
  <1> QED
    BY <1>18, <1>19, <1>20

LEMMA DenyNextInv == DenyInv /\ [Next]_vars => DenyInv' /\ CauseStep /\ BlockStep
  <1> SUFFICES ASSUME DenyInv, [Next]_vars PROVE DenyInv' /\ CauseStep /\ BlockStep
    OBVIOUS
  <1>0. DownloadInv(Idle)
    BY IdleType DEF DownloadInv
  <1>1. ASSUME NEW d \in Downloads, NEW s \in DownloadSet, Becomes(d, s), DownloadInv(s)
        PROVE  DenyInv' /\ CauseStep /\ BlockStep
    BY <1>1, BecomesInv, QuietStep DEF Becomes
  <1>2. ASSUME NEW d \in Downloads, NEW r, Done(d, r)
        PROVE  DenyInv' /\ CauseStep /\ BlockStep
    <2>1. UNCHANGED <<blocked, failed>>
      BY <1>2 DEF Done, Becomes
    <2> QED
      BY <1>2, <2>1, DoneInv, QuietStep
  <1>3. ASSUME NEW d \in Downloads
        PROVE  download[d] \in DownloadSet /\ DownloadInv(download[d])
    BY DEF DenyInv, TypeOK, TimesInv
  <1>4. ASSUME NEW d \in Downloads, NEW h \in Hosts, NEW http \in BOOLEAN, StartDownload(d, h, http)
        PROVE  DenyInv' /\ CauseStep /\ BlockStep
    <2> DEFINE s == [Idle EXCEPT !.pc = "attempt", !.host = h, !.http = http, !.tries = 1,
                                 !.left = MaxDownload]
    <2>2. 1 \in 0 .. MaxTries /\ MaxDownload \in 0 .. MaxDownload
      BY DownloaderConstants
    <2>3. s \in DownloadSet /\ s.pc = "attempt"
      BY <2>2, IdleType DEF DownloadSet
    <2> HIDE DEF s
    <2>4. Becomes(d, Idle) \/ Becomes(d, s)
      BY <1>4 DEF StartDownload, s
    <2>5. DownloadInv(s)
      BY <2>3 DEF DownloadInv
    <2> QED
      BY <1>0, <1>1, <2>3, <2>4, <2>5, IdleType
  <1>5. ASSUME NEW d \in Downloads, NEW r, AttemptEnds(d, r)
        PROVE  DenyInv' /\ CauseStep /\ BlockStep
    <2> DEFINE s == [download[d] EXCEPT !.pc = "sleep"]
    <2>1. s \in DownloadSet /\ s.pc = "sleep" /\ s.tries = download[d].tries
          /\ s.tries \in 0 .. MaxTries
      BY <1>3 DEF DownloadSet
    <2> HIDE DEF s
    <2>2. Done(d, r) \/ (Becomes(d, s) /\ DownloadInv(s))
      <3>1. CASE r \in Final \/ download[d].tries >= MaxTries
        BY <1>5, <3>1 DEF AttemptEnds
      <3>2. CASE ~ (r \in Final \/ download[d].tries >= MaxTries)
        <4>1. Becomes(d, s)
          BY <1>5, <3>2 DEF AttemptEnds, s
        <4>2. s.tries < MaxTries
          BY <2>1, <3>2, DownloaderConstants
        <4> QED
          BY <2>1, <4>1, <4>2 DEF DownloadInv
      <3> QED
        BY <3>1, <3>2
    <2> QED
      BY <1>1, <1>2, <2>1, <2>2
  <1>6. ASSUME NEW d \in Downloads, DownloadStep(d)
        PROVE  DenyInv' /\ CauseStep /\ BlockStep
    <2>1. CASE NextAttempt(d)
      <3> DEFINE s == [download[d] EXCEPT !.pc = "attempt", !.tries = @ + 1]
      <3>1. download[d].tries + 1 \in 0 .. MaxTries
        <4>1. download[d].tries \in 0 .. MaxTries /\ download[d].tries < MaxTries
          BY <1>3, <2>1 DEF DownloadSet, DownloadInv, NextAttempt
        <4> QED
          BY <4>1, DownloaderConstants
      <3>2. s \in DownloadSet /\ s.pc = "attempt"
        BY <1>3, <3>1 DEF DownloadSet
      <3> HIDE DEF s
      <3>3. Becomes(d, s)
        BY <2>1 DEF NextAttempt, s
      <3>4. DownloadInv(s)
        BY <3>2 DEF DownloadInv
      <3> QED
        BY <1>1, <3>2, <3>3, <3>4
    <2>2. CASE JobTimesOut(d)
      BY <1>2, <2>2 DEF JobTimesOut
    <2>3. CASE RegisterFailure(d)
      <3> DEFINE s == [download[d] EXCEPT !.pc = "count"]
      <3>1. s \in DownloadSet /\ s.ts = download[d].ts /\ s.pc = "count"
        BY <1>3 DEF DownloadSet
      <3> HIDE DEF s
      <3>2. DownloadInv(s)
        BY <1>3, <2>3, <3>1 DEF RegisterFailure, DownloadInv
      <3>3. Becomes(d, Idle) \/ Becomes(d, s)
        BY <2>3 DEF RegisterFailure, s
      <3> QED
        BY <1>0, <1>1, <3>1, <3>2, <3>3, IdleType
    <2>4. CASE CountFailure(d)
      BY <2>4, CountFailureInv
    <2> QED
      BY <1>6, <2>1, <2>2, <2>3, <2>4 DEF DownloadStep
  <1>7. ASSUME NEW d \in Downloads, JobPanics(d) \/ CallerDropped(d)
        PROVE  DenyInv' /\ CauseStep /\ BlockStep
    <2>1. Done(d, "internal") \/ Becomes(d, Idle)
      BY <1>7 DEF JobPanics, CallerDropped
    <2> QED
      BY <1>0, <1>1, <1>2, <2>1, IdleType
  <1>8. CASE Tick
    <2>1. UNCHANGED <<blocked, failed>>
      BY <1>8 DEF Tick
    <2> QED
      BY <1>8, <2>1, DenyTickInv, QuietStep
  <1>9. CASE UNCHANGED vars
    <2>1. UNCHANGED <<now, download, queue, lastUsed, blocked, failed, ordered>>
      BY <1>9 DEF vars
    <2>2. DenyInv'
      BY <2>1 DEF DenyInv, TypeOK, TimesInv, DownloadInv, CauseInv, OrderInv, Kept
    <2> QED
      BY <2>1, <2>2, QuietStep
  <1>10. CASE Next
    <2>1. \/ \E d \in Downloads :
                \/ \E h \in Hosts, http \in BOOLEAN : StartDownload(d, h, http)
                \/ \E r \in Attempts(download[d].http) : AttemptEnds(d, r)
                \/ DownloadStep(d) \/ JobPanics(d) \/ CallerDropped(d)
          \/ Tick
      BY <1>10 DEF Next
    <2> QED
      BY <1>4, <1>5, <1>6, <1>7, <1>8, <2>1
  <1> QED
    BY <1>9, <1>10

LEMMA AlwaysDenyInv == Spec => []DenyInv
  BY DenyInitInv, DenyNextInv, PTL DEF Spec

-----------------------------------------------------------------------------
(***************************************************************************)
(* The types of the deny list's variables, and that no queue outgrows the  *)
(* limit of deny_list.rs.                                                  *)
(***************************************************************************)
THEOREM DenyListTypeCorrect == Spec => []TypeOK
  <1>1. DenyInv => TypeOK
    BY DEF DenyInv
  <1> QED
    BY <1>1, AlwaysDenyInv, PTL

(***************************************************************************)
(* BlockedForCause: register_failure blocks a host only after Threshold    *)
(* failures within the window, whatever the order of the registrations.    *)
(***************************************************************************)
THEOREM BlockedOnlyForCause == Spec => BlockedForCause
  <1>1. DenyInv /\ [Next]_vars
          => [\A h \in Hosts :
                blocked'[h] # blocked[h] =>
                  /\ h \notin NeverBlock
                  /\ FailedSince(h, now - TimeWindow - BucketSize - 2 * Stall + 1) >= Threshold]_vars
    BY DenyNextInv DEF CauseStep
  <1> QED
    BY <1>1, AlwaysDenyInv, PTL DEF Spec, BlockedForCause

(***************************************************************************)
(* FailingHostBlocked: Threshold failures within the window do block the   *)
(* host if they were registered in order and the window is a multiple of   *)
(* the buckets.                                                            *)
(***************************************************************************)
THEOREM FailingIsBlocked == Spec => FailingHostBlocked
  <1>1. DenyInv /\ [Next]_vars
          => [\A h \in Hosts \ NeverBlock :
                TimeWindow % BucketSize = 0 /\ ordered'[h] /\ ThresholdReached(h)
                  => blocked'[h] = now + BlockTime]_vars
    BY DenyNextInv DEF BlockStep
  <1> QED
    BY <1>1, AlwaysDenyInv, PTL DEF Spec, FailingHostBlocked
=============================================================================
