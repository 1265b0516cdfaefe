--------------------------- MODULE MCSymbolication ---------------------------
(***************************************************************************)
(* Symbolication requests of the native and of the JVM platforms, files    *)
(* that are sorted and paths that are asked for.  Native requests have two *)
(* modules, absolute, relative and null addresses, scanned frames, and     *)
(* client-side stack traces that parse or do not.  JVM requests have two   *)
(* mapping files with outlines, inlined and synthesized frames and rewrite *)
(* rules, and source bundles.                                              *)
(***************************************************************************)
EXTENDS Minidump, Proguard, Symsorter

Mod(start, size, cache, cfi, ident) ==
    [start |-> start, size |-> size, cache |-> cache, cfi |-> cfi, ident |-> ident,
     symbols |-> (1 :> 1) @@ (3 :> 2), entry |-> 1, covered |-> {1}, file |-> "app",
     backfill |-> TRUE, bundle |-> TRUE]

Frame(addr, mode, trust, adjust) ==
    [addr |-> addr, mode |-> mode, trust |-> trust, adjust |-> adjust, base |-> FALSE]

NoExtension == <<>>

Extension(size, count, len) ==
    <<[version |-> 1, size |-> size, symbols |-> 4,
     threads |-> <<[id |-> 1, first |-> 0, count |-> count]>>,
     frames |-> <<[addr |-> 12, offset |-> 0, len |-> len]>>]>>

EventModules ==
    {<<Mod(20, size, cache, "ok", "debug"), Mod(start, 4, "symcache", "ok", "debug")>> :
        size \in {0, 4}, cache \in {"symcache", "ppdb", "malformed", "denied"}, start \in {0, 10, 20}}

EventFrames ==
    {<<f1, f2>> :
        f1 \in {Frame(12, None, "scan", "auto"), Frame(24, None, "cfi", "yes"), Frame(20, None, "cfi", "auto"),
                Frame(3, 2, "cfi", "auto"), Frame(9, 1, "cfi", "auto")},
        f2 \in {Frame(3, None, "cfi", "auto"), Frame(22, None, "scan", "yes"), Frame(11, None, "cfi", "no"),
                Frame(1, 1, "cfi", "auto")}}

Event(kind, modules, frames, first, sources) ==
    [kind |-> kind, modules |-> modules, threads |-> <<frames>>, rewrite |-> TRUE,
     callerFirst |-> first, sources |-> sources, extension |-> NoExtension]

Events ==
    {Event("event", m, f, first, first) : m \in EventModules, f \in EventFrames, first \in BOOLEAN}
    \cup {Event("apple", m, f, FALSE, TRUE) : m \in EventModules, f \in EventFrames}

Dumps ==
    {[kind |-> "minidump", modules |-> <<Mod(20, 4, "symcache", cfi, ident), Mod(10, 4, cache, "ok", "debug")>>,
      threads |-> <<t1, t2>>, rewrite |-> TRUE, extension |-> ext] :
        cfi \in {"ok", "notfound"}, ident \in {"none", "debug"}, cache \in {"symcache", "timeout"},
        t1 \in {<<Frame(21, None, "context", "auto"), Frame(12, None, "scan", "auto"), Frame(13, None, "scan", "auto")>>,
                <<Frame(11, None, "context", "auto"), Frame(22, None, "scan", "auto"), Frame(2, None, "cfi", "auto")>>},
        t2 \in {<<Frame(11, None, "context", "auto"), Frame(23, None, "cfi", "auto")>>, <<>>,
                <<Frame(21, None, "context", "auto"), Frame(21, None, "cfi", "auto"), Frame(21, None, "cfi", "auto"),
                  Frame(2, None, "cfi", "auto")>>},
        ext \in {NoExtension, Extension(52, 1, 4), Extension(52, 0, 4), Extension(52, 2, 4), Extension(52, 1, 5),
                 Extension(48, 1, 4)}}

MCRequests == Events \cup Dumps

-----------------------------------------------------------------------------
(* JVM requests *)

Line(name, line) == [name |-> name, line |-> line, synthesized |-> FALSE]
Bridge == [name |-> "bridge", line |-> 3, synthesized |-> TRUE]

\* a.a is inlined into b.b at line 1 and synthesized at line 2; a.o is an
\* outline called by a.a; a.r is removed below exception x.
MappingA ==
    [classes |-> {"a", "x"}, methods |-> {"a.n", "a.r"}, outlines |-> {"a.o"}, signatures |-> {"(I)V"},
     rewrites |-> {<<<<"x", 1>>, "a.r">>},
     remap |-> (<<"a.a", "line">> :> <<Line("A.a", 1), Line("B.b", 2)>>)
            @@ (<<"a.a", "outline">> :> <<Line("A.a", 5)>>)
            @@ (<<"a.a", "parameters">> :> <<Line("A.a", NoLine)>>)
            @@ (<<"a.s", "line">> :> <<Bridge>>) @@ (<<"a.s", "line 0">> :> <<Bridge>>)
            @@ (<<"a.r", "line">> :> <<Line("A.r", 4)>>)]

MappingB ==
    [classes |-> {"a", "c"}, methods |-> {"a.n", "c.n"}, outlines |-> {"c.o"}, signatures |-> {},
     rewrites |-> {}, remap |-> (<<"a.a", "line">> :> <<Line("wrong", 1)>>) @@ (<<"c.c", "outline">> :> <<Line("C.c", 9)>>)]

JFrame(class, method, line) == [class |-> class, method |-> method, line |-> line, signature |-> "(I)V"]

JFrames ==
    {JFrame("a", "a.a", 1), JFrame("a", "a.a", NoLine), JFrame("a", "a.o", 7), JFrame("a", "a.s", 2),
     JFrame("a", "a.s", NoLine), JFrame("a", "a.r", 3), JFrame("c", "c.n", 1), JFrame("c", "c.o", 8), JFrame("u", "u.u", 1)}

ProguardModule(files, mapping) == [type |-> "proguard", files |-> files, mapping |-> mapping]
SourceModule(files, lines) == [type |-> "source", files |-> files, lines |-> lines]

MCJvmRequests ==
    {[modules |-> <<ProguardModule(files, MappingA), SourceModule(<<"garbage", "sources">>, {<<"A.a", 1>>}),
                    ProguardModule(<<"mapping">>, MappingB), SourceModule(<<"sources">>, {<<"A.a", 1>>, <<"B.b", 2>>})>>,
      traces |-> <<[exception |-> exception, frames |-> <<f1, f2, JFrame("a", "a.r", 3)>>],
                   [exception |-> NoClass, frames |-> <<f2>>]>>,
      callerFirst |-> first, context |-> first] :
        files \in {<<"mapping">>, <<"garbage", "mapping">>}, exception \in {NoClass, "x"},
        f1 \in JFrames, f2 \in {JFrame("a", "a.a", 1), JFrame("a", "a.r", 3), JFrame("c", "c.c", 1)}, first \in BOOLEAN}

-----------------------------------------------------------------------------
(* Files to sort and identifiers to look up *)

Uuid(u)  == <<"uuid", u>>
Build(b) == <<"build", b>>
Debug(u, age) == [uuid |-> u, age |-> age]

Obj(format, type, kind, code_id, debug_id) ==
    [format |-> format, type |-> type, kind |-> kind, code_id |-> code_id, debug_id |-> debug_id, sources |-> kind = "debug"]

Plain(objs) == [zip |-> FALSE, entries |-> <<objs>>]
ZipFile(entries) == [zip |-> TRUE, entries |-> entries]

ElfDebug == Obj("elf", "elf", "debug", Build("b"), Debug("b", "0"))
Pdb == Obj("pdb", "pe", "debug", Unset, Debug("p", "1"))

Inputs ==
    {Plain(<<Obj("elf", "elf", "library", Build("b"), Debug("b", "0")), ElfDebug>>),
     Plain(<<Obj("elf", "elf", "relocatable", Unset, Unset), ElfDebug, Pdb>>),
     Plain(<<Obj("sourcebundle", "elf", "sources", Build("b"), Debug("b", "0"))>>),
     Plain(<<Obj("macho", "macho", "debug", Uuid("m"), Debug("m", "0")), Obj("elf", "elf", "executable", Unset, Unset)>>),
     Plain(Unset),
     ZipFile(<<<<Obj("pe", "pe", "executable", Build("t"), Debug("p", "1"))>>, <<Pdb>>, Unset,
           <<Obj("ppdb", "pe_dotnet", "debug", Unset, Debug("n", "1"))>>>>),
     ZipFile(<<<<Obj("elf", "elf", "executable", Unset, Debug("e", "0")), Obj("elf", "elf", "debug", Unset, Debug("e", "0"))>>,
           <<Obj("wasm", "wasm", "debug", Unset, Debug("w", "0")), Obj("sourcebundle", "pe", "sources", Build("t"), Debug("p", "1")),
             Obj("elf", "elf", "debug", Unset, Debug("e", "0"))>>>>)}

MCSortJobs ==
    {[inputs |-> <<a, b>>, ignore_errors |-> ignore, with_sources |-> sources] :
        a \in Inputs, b \in Inputs, ignore \in BOOLEAN, sources \in BOOLEAN}

FileName(base, ext, spelling) == [base |-> base, ext |-> <<ext>>, spelling |-> spelling]

Ident(type, code_id, code_file, debug_id, debug_file) ==
    [type |-> type, code_id |-> code_id, code_file |-> code_file, debug_id |-> debug_id, debug_file |-> debug_file,
     checksum |-> Unset]

MCIdentifiers ==
    {Ident(type, code_id, code_file, Debug("u", age), debug_file) :
        type \in {"elf", "macho", "pe", "pe_dotnet", "wasm"}, code_id \in {Unset, Uuid("u"), Build("b")},
        code_file \in {FileName("app", "exe", "as is"), FileName("app", "so", "lower")}, age \in {"0", "1"},
        debug_file \in {Unset, FileName("app", "pdb", "as is"), FileName("app", "pdb", "lower"),
                       FileName("invalid", "pdb", "lower")}}

-----------------------------------------------------------------------------
(* A behaviour serves one request, sorts some files or asks for one path.   *)

NoRequest == [kind |-> "none", modules |-> <<>>, threads |-> <<>>]

NoNative ==
    /\ request = NoRequest /\ pc = "failed"
    /\ walk = <<>> /\ cficaches = <<>> /\ fetches = <<>>
    /\ submitted = <<>> /\ lookup = <<>> /\ traces = <<>>

MCInit ==
    \/ Init /\ jvm = JvmIdle /\ sorter = SortIdle /\ asked = NotAsked
    \/ NoNative /\ JvmInit /\ sorter = SortIdle /\ asked = NotAsked
    \/ NoNative /\ jvm = JvmIdle /\ SorterInit /\ asked = NotAsked
    \/ NoNative /\ jvm = JvmIdle /\ sorter = SortIdle /\ asked \in UNION {AskedOf(id) : id \in Identifiers}

allVars == <<vars, jvm, sorter, asked>>

MCNext ==
    \/ Next /\ UNCHANGED <<jvm, sorter, asked>>
    \/ JvmNext /\ UNCHANGED <<vars, sorter, asked>>
    \/ SorterNext /\ UNCHANGED <<vars, jvm, asked>>

MCSpec == MCInit /\ [][MCNext]_allVars /\ WF_allVars(MCNext)
=============================================================================
