------------------------------- MODULE Proguard -------------------------------
(***************************************************************************)
(* Symbolication of JVM stack traces (symbolicator-proguard).  The mapping *)
(* files and source bundles of an event are fetched concurrently; then     *)
(* every frame is remapped by the first mapping file that knows it.  A     *)
(* frame may expand to several inlined ones, vanish because it is an       *)
(* outline, because a rewrite rule for the exception removes it or because *)
(* the compiler synthesized it, or stay as it is.                          *)
(*                                                                         *)
(* A mapping is a record of what the proguard library answers: the         *)
(* outlines, per method and way of asking the frames it stands for (remap),*)
(* per exception the methods whose frames a rewrite rule removes           *)
(* (rewrites), and the methods and classes it can rename.                  *)
(***************************************************************************)
EXTENDS Integers, Sequences, SequencesExt

CONSTANT JvmRequests   \* the events considered

\* A mapping file lists methods below their classes.
KnowsItsClasses(m, class, method) ==
    class \notin m.classes =>
        method \notin m.outlines \cup m.methods /\ \A ask \in DOMAIN m.remap : ask[1] # method

ASSUME JvmRequestsAssumption ==
    \A r \in JvmRequests :
        /\ r.modules \in Seq(Range(r.modules)) /\ r.traces \in Seq(Range(r.traces))
        /\ \A t \in Range(r.traces) : t.frames \in Seq(Range(t.frames))
        /\ \A i \in {k \in DOMAIN r.modules : r.modules[k].type = "proguard"} :
              LET m == r.modules[i].mapping IN
              /\ \A ask \in DOMAIN m.remap : m.remap[ask] \in Seq(Range(m.remap[ask]))
              /\ \A t \in Range(r.traces) : \A f \in Range(t.frames) : KnowsItsClasses(m, f.class, f.method)

VARIABLE jvm

NoLine  == -1
NoClass == "none"

\* The elements of s at some positions, in their order.
Only(s, positions) ==
    LET upTo[k \in 0 .. Len(s)] ==
            IF k = 0 THEN <<>>
            ELSE IF k \in positions THEN Append(upTo[k - 1], s[k])
            ELSE upTo[k - 1]
    IN  upTo[Len(s)]

\* idle is the state of the service without an event.
JvmIdle == [pc |-> "idle"]

JvmStarted(request) ==
    [pc |-> "fetch", request |-> request,
     fetched |-> [i \in DOMAIN request.modules |-> "pending"],
     mappers |-> <<>>, trace |-> 1, pos |-> 1, rewrite |-> FALSE, carried |-> <<>>, out |-> <<>>]

JvmInit == jvm \in {JvmStarted(r) : r \in JvmRequests}

-----------------------------------------------------------------------------
(* Mapping files and source bundles *)

\* Only the first file that the sources list is tried.
DownloadProguardFile(module) ==
    IF module.files = <<>> THEN "notfound"
    ELSE IF module.files[1] = "garbage" THEN "malformed"
    ELSE "ok"

\* An object lookup takes the first bundle that can be used.
DownloadSourceBundle(module) ==
    IF "sources" \in Range(module.files) THEN "ok" ELSE "notfound"

Downloaded(module) ==
    IF module.type = "proguard" THEN DownloadProguardFile(module) ELSE DownloadSourceBundle(module)

Usable(type) ==
    LET modules == jvm.request.modules
    IN  Only(modules, {i \in DOMAIN modules : modules[i].type = type /\ jvm.fetched[i] = "ok"})

Mappers == LET u == Usable("proguard") IN [k \in DOMAIN u |-> u[k].mapping]
Bundles == Usable("source")

ErrorKind(result) == IF result = "malformed" THEN "invalid" ELSE "missing"

Errors ==
    {<<i, ErrorKind(jvm.fetched[i])>> :
        i \in {j \in DOMAIN jvm.fetched : jvm.request.modules[j].type = "proguard" /\ jvm.fetched[j] # "ok"}}

\* The mapping files are downloaded together, then the source bundles; in
\* each group the downloads finish in any order.
FetchModule(i, fail) ==
    /\ jvm.pc = "fetch" /\ jvm.fetched[i] = "pending"
    /\ jvm.request.modules[i].type = "source" =>
          \A k \in DOMAIN jvm.fetched : jvm.request.modules[k].type = "proguard" => jvm.fetched[k] # "pending"
    /\ jvm' = [jvm EXCEPT !.fetched[i] = IF fail THEN "error" ELSE Downloaded(jvm.request.modules[i])]

-----------------------------------------------------------------------------
(* One frame *)

\* map_exception, also used for classes on their own
MapClass(mappers, class) ==
    LET i == SelectInSeq(mappers, LAMBDA m : class \in m.classes)
    IN  IF class = NoClass \/ i = 0 THEN class ELSE <<class, i>>

\* By line if there is one, otherwise by the parameters of a signature some
\* mapping can read, otherwise by line 0; a position carried over from an
\* outline comes first.
HowToAsk(mappers, frame, carried) ==
    IF carried # NoLine THEN "outline"
    ELSE IF frame.line # NoLine THEN "line"
    ELSE IF \E m \in Range(mappers) : frame.signature \in m.signatures THEN "parameters"
    ELSE "line 0"

Result(kind, frames) == [kind |-> kind, frames |-> frames]

MapFullFrame(mapper, frame, how, exception, rewrite) ==
    LET ask    == <<frame.method, how>>
        mapped == IF ask \in DOMAIN mapper.remap THEN mapper.remap[ask] ELSE <<>>
        cleared == rewrite /\ <<exception, frame.method>> \in mapper.rewrites
    IN  IF frame.method \in mapper.outlines THEN Result("outline", <<>>)
        ELSE IF mapped # <<>> /\ cleared THEN Result("cleared", <<>>)
        ELSE IF mapped # <<>> THEN Result("frames", mapped)
        ELSE Result("none", <<>>)

\* The frame itself, under another name
Renamed(name, frame) == <<[name |-> name, line |-> frame.line, synthesized |-> FALSE]>>

\* With the fallbacks map_class_method and map_class
MapFrameWith(mapper, frame, how, exception, rewrite) ==
    LET full == MapFullFrame(mapper, frame, how, exception, rewrite)
    IN  IF full.kind # "none" THEN full
        ELSE IF frame.method \in mapper.methods THEN Result("frames", Renamed("method", frame))
        ELSE IF frame.class \in mapper.classes THEN Result("frames", Renamed("class", frame))
        ELSE full

\* Synthesized frames go only if the frame had a line number.
WithoutSynthesized(frame, frames) ==
    IF frame.line = NoLine THEN frames ELSE Only(frames, {k \in DOMAIN frames : ~frames[k].synthesized})

\* Mutant of RewriteAfter: the first frame is not told from later ones.
RewriteAfter_Kept(kind, rewrite) == rewrite

\* Rewrite rules apply to the first frame that is not an outline.
RewriteAfter(kind, rewrite) == rewrite /\ kind = "outline"

-----------------------------------------------------------------------------
(* The stack traces, callee first *)

Trace  == jvm.request.traces[jvm.trace]
Frames == IF jvm.request.callerFirst THEN Reverse(Trace.frames) ELSE Trace.frames

StartTrace(i, mappers) ==
    [jvm EXCEPT !.mappers = mappers,
                !.pc = IF i <= Len(jvm.request.traces) THEN "map" ELSE "respond",
                !.trace = i, !.pos = 1,
                !.rewrite = i <= Len(jvm.request.traces) /\ jvm.request.traces[i].exception # NoClass,
                !.carried = [m \in DOMAIN mappers |-> NoLine],
                !.out = IF i <= Len(jvm.request.traces) THEN Append(jvm.out, <<>>) ELSE jvm.out]

StartMapping ==
    /\ jvm.pc = "fetch" /\ \A i \in DOMAIN jvm.fetched : jvm.fetched[i] # "pending"
    /\ jvm' = StartTrace(1, Mappers)

\* What each of the mapping files answers
Answers(frame) ==
    LET exception == MapClass(jvm.mappers, Trace.exception)
    IN  [i \in DOMAIN jvm.mappers |->
            MapFrameWith(jvm.mappers[i], frame, HowToAsk(jvm.mappers, frame, jvm.carried[i]), exception, jvm.rewrite)]

\* 0 if no mapping file knows the frame
FirstAnswer(answers) == SelectInSeq(answers, LAMBDA a : a.kind # "none")

\* A frame that is not known stays as it is.
Remapped(frame, pos, answers) ==
    LET used == FirstAnswer(answers)
        kept == IF used = 0 THEN Renamed("raw", frame)
                ELSE WithoutSynthesized(frame, answers[used].frames)
    IN  [k \in DOMAIN kept |-> [of |-> pos, by |-> used, context |-> 0, name |-> kept[k].name, line |-> kept[k].line]]

MapFrame ==
    LET frame == Frames[jvm.pos]
        answers == Answers(frame)
        used == FirstAnswer(answers)
    IN  /\ jvm.pc = "map" /\ jvm.pos <= Len(Frames)
        /\ jvm' = [jvm EXCEPT
              !.pos = jvm.pos + 1,
              !.rewrite = RewriteAfter(IF used = 0 THEN "none" ELSE answers[used].kind, jvm.rewrite),
              \* a mapping that was asked has used its position up
              !.carried = [i \in DOMAIN jvm.mappers |->
                              IF used # 0 /\ i > used THEN jvm.carried[i]
                              ELSE IF answers[i].kind = "outline" THEN frame.line ELSE NoLine],
              !.out = [jvm.out EXCEPT ![jvm.trace] = jvm.out[jvm.trace] \o Remapped(frame, jvm.pos, answers)]]

NextTrace ==
    /\ jvm.pc = "map" /\ jvm.pos > Len(Frames)
    /\ jvm' = StartTrace(jvm.trace + 1, jvm.mappers)

\* The first bundle that has the frame's file at that line
SourceContext(frame) ==
    IF ~jvm.request.context \/ frame.line <= 0 THEN 0
    ELSE SelectInSeq(Bundles, LAMBDA b : <<frame.name, frame.line>> \in b.lines)

\* Context is applied and the frames go back to the order they came in.
JvmRespond ==
    LET Ordered(s) == IF jvm.request.callerFirst THEN Reverse(s) ELSE s
    IN  /\ jvm.pc = "respond"
        /\ jvm' = [jvm EXCEPT !.pc = "done",
              !.out = [t \in DOMAIN jvm.out |->
                         [exception |-> MapClass(jvm.mappers, jvm.request.traces[t].exception),
                          frames |-> Ordered([k \in DOMAIN jvm.out[t] |->
                                        [jvm.out[t][k] EXCEPT !.context = SourceContext(jvm.out[t][k])]])]]]

JvmNext ==
    \/ jvm.pc = "fetch" /\ \E i \in DOMAIN jvm.fetched, fail \in BOOLEAN : FetchModule(i, fail)
    \/ StartMapping \/ MapFrame \/ NextTrace \/ JvmRespond

JvmSpec == JvmInit /\ [][JvmNext]_jvm

-----------------------------------------------------------------------------
(* Properties *)

\* The mapping file that answers for a frame, whatever the frames before it:
\* the first that knows its class, or 0.
Responsible(ms, frame) == SelectInSeq(ms, LAMBDA m : frame.class \in m.classes)

IsOutline(ms, frame) ==
    LET u == Responsible(ms, frame) IN u # 0 /\ frame.method \in ms[u].outlines

\* The position of an outline belongs to the next frame about which file u is
\* asked: those are answered by no earlier file.
IsCarried(ms, frames, u, i) ==
    \E j \in 1 .. i - 1 :
        /\ IsOutline(ms, frames[j]) /\ Responsible(ms, frames[j]) = u /\ frames[j].line # NoLine
        /\ \A h \in j + 1 .. i - 1 : Responsible(ms, frames[h]) \in 1 .. u - 1

\* A rule for the exception removes frame i: only outlines are before it.
IsRemoved(ms, frames, exception, i) ==
    /\ exception # NoClass /\ \A j \in 1 .. i - 1 : IsOutline(ms, frames[j])
    /\ <<MapClass(ms, exception), frames[i].method>> \in ms[Responsible(ms, frames[i])].rewrites

\* What frame i stands for
Meaning(ms, frames, exception, i) ==
    LET frame  == frames[i]
        u      == Responsible(ms, frame)
        m      == ms[u]
        ask    == <<frame.method, IF IsCarried(ms, frames, u, i) THEN "outline" ELSE HowToAsk(ms, frame, NoLine)>>
        listed == ask \in DOMAIN m.remap /\ m.remap[ask] # <<>>
    IN  IF u = 0 THEN Renamed("raw", frame)
        ELSE IF IsOutline(ms, frame) \/ (listed /\ IsRemoved(ms, frames, exception, i)) THEN <<>>
        ELSE WithoutSynthesized(frame,
                IF listed THEN m.remap[ask]
                ELSE Renamed(IF frame.method \in m.methods THEN "method" ELSE "class", frame))

\* The frames of got that come from frame i are a run of it, and they are
\* those that it stands for.
StandsIn(got, i, by, meaning) ==
    \E before \in 0 .. Len(got) - Len(meaning) : \A k \in DOMAIN got :
        /\ got[k].of = i <=> k \in before + 1 .. before + Len(meaning)
        /\ got[k].of = i => /\ got[k].by = by
                            /\ got[k].name = meaning[k - before].name
                            /\ got[k].line = meaning[k - before].line

\* map_stacktrace: the answer has the frames in the order they came in, and
\* for each of them all that it stands for, once and next to each other, as
\* told by the first of the mapping files, in the order of the event and not
\* of their arrival, that knows its class.  That is nothing for an outline,
\* for a frame of which everything was synthesized, and for the first one
\* that is no outline if a rule for the exception removes it.  Every mapping
\* file that could not be used is reported.
JvmFramesAccounted ==
    jvm.pc = "done" =>
        /\ {e[1] : e \in Errors} = {i \in DOMAIN jvm.fetched :
                                       jvm.request.modules[i].type = "proguard"} \ {i \in DOMAIN jvm.fetched : jvm.fetched[i] = "ok"}
        /\ \A t \in DOMAIN jvm.out :
              LET trace  == jvm.request.traces[t]
                  frames == IF jvm.request.callerFirst THEN Reverse(trace.frames) ELSE trace.frames
                  got    == IF jvm.request.callerFirst THEN Reverse(jvm.out[t].frames) ELSE jvm.out[t].frames
              IN  /\ \A k \in 1 .. Len(got) - 1 : got[k].of <= got[k + 1].of
                  /\ \A k \in DOMAIN got : got[k].of \in DOMAIN frames
                  /\ \A i \in DOMAIN frames :
                        StandsIn(got, i, Responsible(Mappers, frames[i]),
                                 Meaning(Mappers, frames, trace.exception, i))
=============================================================================
