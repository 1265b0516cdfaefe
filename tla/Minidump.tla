------------------------------- MODULE Minidump -------------------------------
(***************************************************************************)
(* Processing of a minidump, an Apple crash report or a plain event with   *)
(* native stack traces.  The threads of a minidump are unwound             *)
(* concurrently; they share a table of unwind information in which the     *)
(* first thread to need a module fetches it and the others wait.  The      *)
(* unwound stack traces are merged with those the client recorded in the   *)
(* dump and then symbolicated like the frames of any other event.          *)
(*                                                                         *)
(* The unwinder polls the threads from a single task, so a thread runs     *)
(* undisturbed between two await points: that is one step.  A candidate is *)
(* a frame the unwinder considers next for a thread.                       *)
(***************************************************************************)
EXTENDS NativeSymbolication

CONSTANTS Requests,   \* the requests considered
          MaxFrames   \* frames kept of a stack trace (256)

RawFrame ==
    [addr : 0 .. MaxAddr, mode : Nat \cup {None}, adjust : {"auto", "yes", "no"}, base : BOOLEAN,
     trust : {"none", "scan", "cfiscan", "fp", "cfi", "prewalked", "context"}]

ModuleFields ==
    {"start", "size", "cache", "cfi", "ident", "symbols", "entry", "covered", "file", "backfill", "bundle"}

IsModule(m) ==
    /\ ModuleFields \subseteq DOMAIN m
    /\ m.start \in 0 .. MaxAddr /\ m.size \in 0 .. MaxAddr
    /\ \A addr \in DOMAIN m.symbols : m.symbols[addr] \in Nat

CacheErrors == {"notfound", "malformed", "denied", "error", "timeout", "unsupported", "internal"}

IsExtension(e) ==
    /\ e.threads \in Seq([id : Nat, first : Nat, count : Nat])
    /\ e.frames \in Seq([addr : 0 .. MaxAddr, offset : Nat, len : Nat])

\* The module list of a minidump leaves out modules that overlap others.
ASSUME RequestsAssumption ==
    /\ MaxFrames \in Nat
    /\ \A r \in Requests :
          /\ r.kind \in {"minidump", "apple", "event"}
          /\ r.threads \in Seq(Seq(RawFrame))
          /\ r.modules \in Seq(Range(r.modules)) /\ \A m \in Range(r.modules) : IsModule(m)
          /\ r.kind = "minidump" =>
                /\ r.extension # <<>> => IsExtension(r.extension[1])
                /\ \A m \in Range(r.modules) : m.cfi \in CacheErrors \cup {"ok"}
                /\ \A i, k \in DOMAIN r.modules : r.modules[i].start = r.modules[k].start => i = k

VARIABLES request, pc,
          walk, cficaches, fetches,   \* unwinding
          submitted, lookup, traces   \* symbolication: the request, the modules, the stack traces

walkVars == <<walk, cficaches, fetches>>
symVars  == <<submitted, lookup, traces>>
vars     == <<request, pc, walkVars, symVars>>

Threads == DOMAIN request.threads
Modules == DOMAIN request.modules

-----------------------------------------------------------------------------
(* Stack traces recorded by the client, a stream of the minidump *)

HeaderSize == 16

AlignToEight(n) == IF n % 8 = 0 THEN 0 ELSE 8 - (n % 8)

ExtensionSize(e) ==
    LET threads == 12 * Len(e.threads)
    IN  HeaderSize + threads + AlignToEight(threads) + 16 * Len(e.frames) + e.symbols

Parses(e) ==
    /\ e.size >= HeaderSize
    /\ e.version = 1
    /\ e.size = ExtensionSize(e)
    /\ \A t \in Range(e.threads) : t.first + t.count <= Len(e.frames)
    \* only the symbols of frames that belong to a thread are read
    /\ \A t \in Range(e.threads) : \A f \in t.first + 1 .. t.first + t.count :
          e.frames[f].offset + e.frames[f].len <= e.symbols

\* streams: the extension streams of the dump, at most one
ClientTraces(streams) ==
    LET e == streams[1]
    IN  IF streams = <<>> \/ ~Parses(e) THEN <<>>
        ELSE [t \in DOMAIN e.threads |->
                [id |-> e.threads[t].id,
                 frames |-> [f \in 1 .. e.threads[t].count |->
                    [addr |-> e.frames[e.threads[t].first + f].addr, mode |-> None,
                     trust |-> "prewalked", adjust |-> "auto", base |-> FALSE]]]]

\* A later trace of the same thread replaces an earlier one; an empty one
\* does not replace what was unwound.
MergeTraces(processed, client) ==
    [t \in DOMAIN processed |->
        LET i == SelectLastInSeq(client, LAMBDA c : c.id = t)
        IN  IF i = 0 THEN processed[t]
            ELSE IF client[i].frames = <<>> THEN processed[t] ELSE client[i].frames]

-----------------------------------------------------------------------------
(* Unwinding *)

Init ==
    /\ request \in Requests
    /\ pc = "start"
    /\ walk = [t \in Threads |-> [pos |-> 1, frames |-> <<>>, at |-> "ready"]]
    /\ cficaches = [m \in Modules |-> "absent"]
    /\ fetches = [m \in Modules |-> 0]
    /\ submitted = <<>>
    /\ lookup = <<>>
    /\ traces = <<>>

Candidate(t) == request.threads[t][walk[t].pos]

\* The module at an address, as the minidump's module list finds it.
ModuleAt(addr) ==
    {m \in Modules : addr >= request.modules[m].start
                     /\ addr < request.modules[m].start + request.modules[m].size}

CheckFrameByCfi(m, addr) ==
    ~(m.cfi = "ok" /\ m.covered # {} /\ addr - m.start \notin m.covered)

CheckFrameBySymbolInfo(m, addr) ==
    ~(m.cache = "symcache" /\ addr - m.start \notin DOMAIN m.symbols)

\* fill_symbol: the stack scanner disregards an address that both reject.
Disregarded(c) ==
    c.trust = "scan" /\ \E m \in ModuleAt(c.addr) :
        /\ ~CheckFrameByCfi(request.modules[m], c.addr)
        /\ ~CheckFrameBySymbolInfo(request.modules[m], c.addr)

\* The attachment is downloaded and parsed; either may fail.
Start(ok) ==
    /\ pc = "start"
    /\ pc' = IF ok THEN "walk" ELSE "failed"
    /\ UNCHANGED <<request, walkVars, symVars>>

Walking(t) == pc = "walk" /\ walk[t].at = "ready" /\ walk[t].pos <= Len(request.threads[t])

\* The frame is taken or disregarded once its module's CFI is there.
WalkFrame(t) ==
    /\ Walking(t)
    /\ \A m \in ModuleAt(Candidate(t).addr) : cficaches[m] = "fetched"
    /\ walk' = [walk EXCEPT ![t].pos = @ + 1,
                            ![t].frames = IF Disregarded(Candidate(t)) THEN @ ELSE Append(@, Candidate(t))]
    /\ UNCHANGED <<request, pc, cficaches, fetches, symVars>>

\* Mutant of FetchCfi: a fetch under way is not noticed.
FetchCfi_Again(t) ==
    /\ Walking(t)
    /\ \E m \in ModuleAt(Candidate(t).addr) :
          /\ cficaches[m] # "fetched"
          /\ cficaches' = [cficaches EXCEPT ![m] = "fetching"]
          /\ fetches' = [fetches EXCEPT ![m] = @ + 1]
    /\ walk' = [walk EXCEPT ![t].at = "fetching"]
    /\ UNCHANGED <<request, pc, symVars>>

FetchCfi(t) ==
    /\ Walking(t)
    /\ \E m \in ModuleAt(Candidate(t).addr) :
          /\ cficaches[m] = "absent"
          /\ cficaches' = [cficaches EXCEPT ![m] = "fetching"]
          /\ fetches' = [fetches EXCEPT ![m] = @ + 1]
    /\ walk' = [walk EXCEPT ![t].at = "fetching"]
    /\ UNCHANGED <<request, pc, symVars>>

AwaitCfi(t) ==
    /\ Walking(t)
    /\ \E m \in ModuleAt(Candidate(t).addr) : cficaches[m] = "fetching"
    /\ walk' = [walk EXCEPT ![t].at = "waiting"]
    /\ UNCHANGED <<request, pc, cficaches, fetches, symVars>>

\* The threads that notify_waiters wakes.
Woken(m) == {u \in Threads : walk[u].at = "waiting" /\ m \in ModuleAt(Candidate(u).addr)}

\* Mutant of CfiFetched: the waiting threads are not notified.
CfiFetched_Alone(t) ==
    /\ walk[t].at = "fetching"
    /\ \E m \in ModuleAt(Candidate(t).addr) : cficaches' = [cficaches EXCEPT ![m] = "fetched"]
    /\ walk' = [walk EXCEPT ![t].at = "ready"]
    /\ UNCHANGED <<request, pc, fetches, symVars>>

CfiFetched(t) ==
    /\ walk[t].at = "fetching"
    /\ \E m \in ModuleAt(Candidate(t).addr) :
          /\ cficaches' = [cficaches EXCEPT ![m] = "fetched"]
          /\ walk' = [u \in Threads |->
                        IF u \in Woken(m) \cup {t} THEN [walk[u] EXCEPT !.at = "ready"] ELSE walk[u]]
    /\ UNCHANGED <<request, pc, fetches, symVars>>

-----------------------------------------------------------------------------
(* The request for symbolication and the response *)

\* A module without any id is dropped unless its CFI was asked for; the CFI
\* may tell a missing debug id.
ModuleInfo(i) ==
    LET m == request.modules[i]
    IN  Over(
        [unwind |-> IF cficaches[i] = "fetched" THEN (IF m.cfi = "ok" THEN "found" ELSE FileStatus(m.cfi))
                    ELSE "unused",
         cache  |-> IF m.ident = "none" /\ ~(cficaches[i] = "fetched" /\ m.cfi = "ok" /\ m.backfill)
                    THEN "notfound" ELSE m.cache], m)

MinidumpRequest ==
    LET kept  == ByAddress(request.modules,
                           {i \in Modules : cficaches[i] # "absent" \/ request.modules[i].ident # "none"})
        taken == [t \in Threads |-> SubSeq(walk[t].frames, 1, Min({MaxFrames, Len(walk[t].frames)}))]
    IN  [modules |-> [k \in DOMAIN kept |-> ModuleInfo(kept[k])],
         traces  |-> MergeTraces(taken, ClientTraces(request.extension)),
         rewrite |-> request.rewrite, callerFirst |-> FALSE, sources |-> TRUE]

AppleRequest ==
    [modules |-> request.modules, traces |-> request.threads,
     rewrite |-> FALSE, callerFirst |-> FALSE, sources |-> TRUE]

EventRequest ==
    [modules |-> request.modules, traces |-> request.threads, rewrite |-> request.rewrite,
     callerFirst |-> request.callerFirst, sources |-> request.sources]

Submitted ==
    CASE request.kind = "minidump" -> MinidumpRequest
      [] request.kind = "apple"    -> AppleRequest
      [] request.kind = "event"    -> EventRequest

Submit ==
    /\ pc = "walk"
    /\ request.kind = "minidump" =>
          \A t \in Threads : walk[t].at = "ready" /\ walk[t].pos > Len(request.threads[t])
    /\ pc' = "prepare"
    /\ submitted' = Submitted
    /\ UNCHANGED <<request, walkVars, lookup, traces>>

\* The frames in callee-first order and the modules sorted by address.
Prepare ==
    /\ pc = "prepare"
    /\ pc' = "fetch"
    /\ traces' = InOrder(submitted, submitted.traces)
    /\ lookup' = SortedModules(submitted)
    /\ UNCHANGED <<request, walkVars, submitted>>

FetchDebugFiles ==
    /\ pc = "fetch"
    /\ pc' = "symbolicate"
    /\ lookup' = FetchCaches(lookup, traces)
    /\ UNCHANGED <<request, walkVars, submitted, traces>>

SymbolicateTraces ==
    /\ pc = "symbolicate"
    /\ pc' = IF submitted.sources THEN "sources" ELSE "respond"
    /\ traces' = [t \in DOMAIN traces |-> SymbolicateStacktrace(lookup, traces[t])]
    /\ UNCHANGED <<request, walkVars, submitted, lookup>>

ApplySourceContext ==
    /\ pc = "sources"
    /\ pc' = "respond"
    /\ lookup' = FetchSources(lookup, traces)
    /\ UNCHANGED <<request, walkVars, submitted, traces>>

Respond ==
    /\ pc = "respond"
    /\ pc' = "done"
    /\ lookup' = OriginalOrder(submitted, lookup)
    /\ traces' = InOrder(submitted, traces)
    /\ UNCHANGED <<request, walkVars, submitted>>

ThreadStep(t) == WalkFrame(t) \/ FetchCfi(t) \/ AwaitCfi(t) \/ CfiFetched(t)

Next ==
    \/ \E ok \in BOOLEAN : Start(ok)
    \/ request.kind = "minidump" /\ \E t \in Threads : ThreadStep(t)
    \/ Submit \/ Prepare \/ FetchDebugFiles \/ SymbolicateTraces \/ ApplySourceContext \/ Respond

Spec == Init /\ [][Next]_vars /\ WF_vars(Next)

-----------------------------------------------------------------------------
(* Properties *)

Answered == pc = "done"

\* The module a submitted frame lies in, by the definition of a debug image:
\* the module that starts last before the address and does not end before it.
Lies(req, f, i) ==
    LET m == req.modules[i]
        later == {k \in DOMAIN req.modules : /\ req.modules[k].start <= f.addr
                                            /\ <<req.modules[k].start, k>> # <<m.start, i>>
                                            /\ \/ req.modules[k].start > m.start
                                               \/ req.modules[k].start = m.start /\ k > i}
    IN  IF f.mode # None THEN f.mode = i
        ELSE m.start <= f.addr /\ later = {} /\ (m.size = 0 \/ f.addr <= m.start + m.size)

\* Modules end inside the address space and do not overlap, and relative addresses are inside their module.
WellFormed(req) ==
    /\ \A i \in DOMAIN req.modules : req.modules[i].start + req.modules[i].size <= MaxAddr
    /\ \A i, k \in DOMAIN req.modules :
          i # k => \/ req.modules[i].start > req.modules[k].start + req.modules[k].size
                  \/ req.modules[k].start > req.modules[i].start + req.modules[i].size
    /\ \A t \in DOMAIN req.traces : \A f \in Range(req.traces[t]) :
          f.mode # None => /\ f.mode \in DOMAIN req.modules
                           /\ f.addr <= req.modules[f.mode].size

\* Unwinding always comes to an end: no thread is left waiting for unwind
\* information another thread fetched (load_cfi_module).
WalkEnds == <>(pc \in {"done", "failed"})

\* stackwalk: unwind information is fetched at most once for a module, and
\* the unwind status reported for a module is the outcome of that one fetch
\* if a candidate frame of some thread was in it, and unused otherwise.
UnwindTruthful ==
    /\ \A m \in Modules : fetches[m] <= 1
    /\ Answered /\ request.kind = "minidump" =>
          \A m \in Modules :
             LET met  == \E t \in Threads : \E c \in Range(request.threads[t]) : m \in ModuleAt(c.addr)
                 info == {i \in Range(lookup) : i.start = request.modules[m].start}
             IN  /\ met => info # {}
                 /\ \A i \in info : i.unwind = IF ~met THEN "unused"
                                               ELSE IF request.modules[m].cfi = "ok" THEN "found"
                                               ELSE FileStatus(request.modules[m].cfi)

\* fetch_caches, fetch_sources: every frame of the response lies in a module
\* whose status is the outcome of its fetch, or in none; with source context
\* a module no frame of the response lies in is reported as unused; modules
\* come back in the order and under the names they were sent with.
StatusTruthful ==
    Answered =>
        LET req  == submitted
            sent == InOrder(req, req.traces)
            Met(i) == \E t \in DOMAIN traces : \E f \in Range(traces[t]) : Lies(req, sent[t][f.orig], i)
        IN  /\ \A i \in DOMAIN req.modules : /\ lookup[i].start = req.modules[i].start
                                             /\ lookup[i].file = req.modules[i].file
            /\ WellFormed(req) => \A i \in DOMAIN req.modules :
                  /\ Met(i) => lookup[i].status = FileStatus(req.modules[i].cache)
                  /\ req.sources /\ ~Met(i) => lookup[i].status = "unused"

\* symbolicate_stacktrace: frames keep their order, inlined functions stay
\* together with the symbol address on the outermost one only, a frame is
\* left out only if it was scanned or is the outermost one, and leaving out
\* the outermost one never empties a stack trace.
FramesAccounted ==
    Answered =>
        \A t \in DOMAIN traces :
            LET frames == InOrder(submitted, submitted.traces)[t]
                out    == InOrder(submitted, traces)[t]
                kept   == {out[k].orig : k \in DOMAIN out}
            IN  /\ \A k \in 1 .. Len(out) - 1 : out[k].orig <= out[k + 1].orig
                /\ \A k \in DOMAIN out : out[k].symAddr # None =>
                      k = Len(out) \/ out[k + 1].orig # out[k].orig
                /\ \A i \in DOMAIN frames \ kept :
                      \/ frames[i].trust = "scan"
                      \/ i = Len(frames) /\ out # <<>>
=============================================================================
