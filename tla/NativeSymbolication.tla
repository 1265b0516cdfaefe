------------------------- MODULE NativeSymbolication -------------------------
(***************************************************************************)
(* Symbolication of native and .NET stack traces: the module lookup by     *)
(* address, the choice of the address a frame is looked up with, the       *)
(* frames that are expanded, kept or dropped, and the status reported for  *)
(* every module after the second pass that fetches sources.                *)
(*                                                                         *)
(* A request is a record: modules (a sequence in the order of the event),  *)
(* traces (a sequence of sequences of frames) and the flags of             *)
(* SymbolicateStacktraces.  A module carries what fetching its cache file  *)
(* gives (cache), for a usable file the number of inline levels at each    *)
(* relative address (symbols) and the address of `_start` (entry), and     *)
(* whether a source bundle is found for it (bundle).                       *)
(***************************************************************************)
EXTENDS Integers, Sequences, SequencesExt

CONSTANTS MaxAddr,   \* u64::MAX of the model
          NullPage   \* addresses below are practically null (4096)

ASSUME AddressAssumption == MaxAddr \in Nat

None == -1

\* The fields of r, and those of the other record it does not have.
Over(r, other) ==
    [f \in DOMAIN r \cup DOMAIN other |-> IF f \in DOMAIN r THEN r[f] ELSE other[f]]

-----------------------------------------------------------------------------
(* Addresses of one module *)

SupportsAbsolute(m) == m.start # 0

AbsToRel(m, addr) ==
    IF SupportsAbsolute(m) /\ addr >= m.start THEN addr - m.start ELSE None

RelToAbs(m, addr) ==
    IF SupportsAbsolute(m) /\ m.start + addr <= MaxAddr THEN m.start + addr ELSE None

PreferredMode(m) == IF SupportsAbsolute(m) THEN None ELSE m.index

\* unwrap_or(0) for an address that overflows
ExposePreferred(m, addr) ==
    IF ~SupportsAbsolute(m) THEN addr
    ELSE IF RelToAbs(m, addr) = None THEN 0 ELSE RelToAbs(m, addr)

-----------------------------------------------------------------------------
(* ModuleLookup: the modules sorted by address, missing sizes filled up to *)
(* the next module, and the lookup of an address                           *)

\* The sort is stable: modules at the same address keep their order.
Before(modules, i, k) ==
    modules[i].start < modules[k].start \/ (modules[i].start = modules[k].start /\ i < k)

\* Some of the modules by address: at each position the one that as many
\* come before as there are positions before it.
ByAddress(modules, some) ==
    [p \in 1 .. Cardinality(some) |->
        CHOOSE i \in some : Cardinality({k \in some : Before(modules, k, i)}) = p - 1]

SortedModules(request) ==
    LET order  == ByAddress(request.modules, DOMAIN request.modules)
        sorted == [p \in DOMAIN order |->
                     Over([index |-> order[p], status |-> "unused", sources |-> FALSE], request.modules[order[p]])]
        Filled(i) == IF sorted[i].size = 0 /\ i < Len(sorted)
                     THEN [sorted[i] EXCEPT !.size = sorted[i + 1].start - sorted[i].start]
                     ELSE sorted[i]
    IN  [i \in DOMAIN sorted |->
            IF i = 1 /\ request.rewrite /\ sorted[i].file # "none"
            THEN [Filled(i) EXCEPT !.file = "rewritten"] ELSE Filled(i)]

\* The position of the module in the sorted list, 0 if there is none.
ModuleByAddr(sorted, addr, mode) ==
    IF mode # None THEN SelectInSeq(sorted, LAMBDA m : m.index = mode)
    ELSE LET idx == Cardinality({i \in DOMAIN sorted : sorted[i].start <= addr})
             end == sorted[idx].start + sorted[idx].size
         IN  IF idx = 0 \/ end > MaxAddr \/ (end < addr /\ sorted[idx].size # 0) THEN 0 ELSE idx

\* into_inner: the first module gets its file name back before the modules
\* are put in their original order.
OriginalOrder(request, sorted) ==
    LET Original(m) == IF m.file = "rewritten" THEN [m EXCEPT !.file = request.modules[m.index].file] ELSE m
    IN  [i \in DOMAIN sorted |-> Original(sorted[SelectInSeq(sorted, LAMBDA m : m.index = i)])]

Referenced(sorted, traces) ==
    {ModuleByAddr(sorted, f.addr, f.mode) : f \in UNION {Range(traces[t]) : t \in DOMAIN traces}}

FileStatus(cache) ==
    CASE cache \in {"symcache", "ppdb"} -> "found"
      [] cache = "notfound"             -> "missing"
      [] cache = "malformed"            -> "malformed"
      [] cache \in {"denied", "error"}  -> "fetching_failed"
      [] cache = "timeout"              -> "timeout"
      [] cache = "unsupported"          -> "unsupported"
      [] cache = "internal"             -> "other"

FetchCaches(sorted, traces) ==
    [i \in DOMAIN sorted |->
        IF i \in Referenced(sorted, traces)
        THEN [sorted[i] EXCEPT !.status = FileStatus(sorted[i].cache)]
        ELSE [sorted[i] EXCEPT !.cache = "notfound", !.status = "unused"]]

\* Mutant of FetchSources: the status of the first pass stays.
FetchSources_Stays(sorted, traces) ==
    [i \in DOMAIN sorted |->
        IF i \in Referenced(sorted, traces) THEN [sorted[i] EXCEPT !.sources = sorted[i].bundle] ELSE sorted[i]]

\* Runs on the symbolicated frames; a module they do not refer to is unused.
FetchSources(sorted, traces) ==
    [i \in DOMAIN sorted |->
        IF i \in Referenced(sorted, traces)
        THEN [sorted[i] EXCEPT !.sources = sorted[i].bundle]
        ELSE [sorted[i] EXCEPT !.status = "unused"]]

-----------------------------------------------------------------------------
(* One frame *)

DefaultAdjustment(frames) ==
    IF \E i \in DOMAIN frames : frames[i].adjust # "auto" THEN "yes" ELSE "auto"

AdjustmentFor(frame, default) == IF frame.adjust = "auto" THEN default ELSE frame.adjust

\* symbolic's InstructionInfo with one-byte instructions: the heuristic
\* leaves the innermost frame alone and takes the call before any other.
CallerAddress(addr, index, adjustment) ==
    IF adjustment = "yes" \/ (adjustment = "auto" /\ index # 1)
    THEN IF addr = 0 THEN 0 ELSE addr - 1
    ELSE addr

\* The address of the frame in its module.
LookupCache(m, frame) == IF frame.mode = None THEN AbsToRel(m, frame.addr) ELSE frame.addr

RelativeCallerAddr(m, frame, index, adjustment) ==
    LET rel == LookupCache(m, frame)
    IN  IF rel = None THEN None
        ELSE IF RelToAbs(m, rel) = None THEN rel
        ELSE AbsToRel(m, CallerAddress(RelToAbs(m, rel), index, adjustment))

Unsymbolicated(frame, index, status) ==
    <<[status |-> status, orig |-> index, symAddr |-> None, base |-> frame.base, mode |-> frame.mode, addr |-> frame.addr]>>

\* The innermost inline level comes first; only the outermost function has
\* a symbol address.
NativeFrames(m, index, rel) ==
    LET depth == IF rel \in DOMAIN m.symbols THEN m.symbols[rel] ELSE 0
    IN  [k \in 1 .. depth |->
            [status |-> "symbolicated", orig |-> index,
             symAddr |-> IF k = depth THEN ExposePreferred(m, m.entry) ELSE None,
             base |-> k = depth /\ rel = m.entry,
             mode |-> PreferredMode(m), addr |-> ExposePreferred(m, rel)]]

SymbolicateFrame(sorted, frame, index, adjustment) ==
    LET pos == ModuleByAddr(sorted, frame.addr, frame.mode)
        m   == sorted[pos]
        rel == RelativeCallerAddr(m, frame, index, adjustment)
        fr  == IF m.cache = "ppdb" THEN Unsymbolicated(frame, index, "symbolicated")
               ELSE NativeFrames(m, index, rel)
    IN  IF pos = 0 THEN Unsymbolicated(frame, index, "unknown_image")
        ELSE IF m.cache = "malformed" THEN Unsymbolicated(frame, index, "malformed")
        ELSE IF m.cache \notin {"symcache", "ppdb"} THEN Unsymbolicated(frame, index, "missing")
        ELSE IF \/ m.cache = "symcache" /\ (rel = None \/ fr = <<>>)
                \/ m.cache = "ppdb" /\ frame.addr \notin DOMAIN m.symbols
             THEN Unsymbolicated(frame, index, "missing_symbol")
        ELSE fr

-----------------------------------------------------------------------------
(* One stack trace *)

\* The three reasons to drop a frame that could not be symbolicated.
ScannedInVain(frame, status) ==
    frame.trust = "scan" /\ status \in {"missing_symbol", "unknown_image"}

\* base: a frame of glibc without a return address, such as `_start`
AfterBaseFrame(done, status, last) ==
    status = "unknown_image" /\ last /\ done # <<>> /\ Last(done).base

\* Mutant of NullTerminator: the only frame may go too.
NullTerminator_Alone(done, frame, status, last) ==
    status = "unknown_image" /\ last /\ frame.mode = None /\ frame.addr < NullPage

NullTerminator(done, frame, status, last) ==
    status = "unknown_image" /\ last /\ done # <<>> /\ frame.mode = None /\ frame.addr < NullPage

Dropped(done, frame, status, last) ==
    \/ ScannedInVain(frame, status)
    \/ AfterBaseFrame(done, status, last)
    \/ NullTerminator(done, frame, status, last)

\* The frames done so far and those the next one expands to, if it is kept.
WithFrame(sorted, frames, done, i) ==
    LET new == SymbolicateFrame(sorted, frames[i], i, AdjustmentFor(frames[i], DefaultAdjustment(frames)))
    IN  IF new[1].status # "symbolicated" /\ Dropped(done, frames[i], new[1].status, i = Len(frames))
        THEN done ELSE done \o new

SymbolicateStacktrace(sorted, frames) ==
    LET upTo[i \in 0 .. Len(frames)] ==
            IF i = 0 THEN <<>> ELSE WithFrame(sorted, frames, upTo[i - 1], i)
    IN  upTo[Len(frames)]

\* Frames are processed callee first and returned in the order of the event.
InOrder(request, traces) ==
    [t \in DOMAIN traces |-> IF request.callerFirst THEN Reverse(traces[t]) ELSE traces[t]]
=============================================================================
