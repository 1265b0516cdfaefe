--------------------------- MODULE PartialRanges ---------------------------
(***************************************************************************)
(* How what is left of a download after the first answer is split into     *)
(* range requests (symbolicator-service/src/download/partial.rs).          *)
(***************************************************************************)
EXTENDS Integers

CONSTANTS
    SplitSize,         \* PARTIAL_SPLIT_SIZE
    MaxPartialRanges   \* MAX_PARTIAL_RANGES

ASSUME PartialConstants ==
    SplitSize \in Nat \ {0} /\ MaxPartialRanges \in Nat \ {0}

\* Range::size, of an inclusive range
RangeSize(start, end) == IF start > end THEN 0 ELSE end - start + 1

DivCeil(a, b) == (a + b - 1) \div b

\* How many requests the remainder of n bytes is split into.
Parts(n) ==
    IF DivCeil(n, SplitSize) <= MaxPartialRanges THEN DivCeil(n, SplitSize)
                                                 ELSE MaxPartialRanges

\* A variant of Split, with a bug, whose last range is as long as the others.
Split_NoRemainder(end, total) ==
    LET n    == RangeSize(end + 1, total - 1)
        part == n \div Parts(n)
    IN  IF total = 0 \/ n = 0 THEN <<>>
        ELSE [i \in 1 .. Parts(n) |->
                [start |-> end + 1 + (i - 1) * part, end |-> end + i * part]]

(***************************************************************************)
(* split: the ranges to request when 0..end of total bytes was answered.   *)
(* Ranges are inclusive; all but the last end on the byte the next one     *)
(* starts with.                                                            *)
(***************************************************************************)
Split(end, total) ==
    LET first == end + 1
        last  == total - 1
        n     == RangeSize(first, last)
        part  == n \div Parts(n)
    IN  IF total = 0 \/ n = 0 THEN <<>>
        ELSE [i \in 1 .. Parts(n) |->
                [start |-> first + (i - 1) * part,
                 end   |-> IF i = Parts(n) THEN last ELSE first + (i - 1) * part + part]]
=============================================================================
