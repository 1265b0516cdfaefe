------------------------------ MODULE Symsorter ------------------------------
(***************************************************************************)
(* symsorter: the files below the input paths are processed in parallel;   *)
(* every object in them is stored in the output directory under the path   *)
(* at which a source of the Unified layout looks for it, with a .meta file *)
(* beside it.  With sources, a second round does the same with source      *)
(* bundles that are made from the debug files.  At the end the bundle is   *)
(* described by the ids that were sorted.                                  *)
(*                                                                         *)
(* An input is [zip, entries]: a zip archive has several entries, any      *)
(* other file is its only one.  An entry is a sequence of objects, or      *)
(* Unset if it does not parse.  An object has a format and a type, that of *)
(* the platform, a kind, its ids, and sources if a bundle can be made.     *)
(***************************************************************************)
EXTENDS SymbolPaths, FiniteSets

CONSTANTS SortJobs,       \* jobs: inputs, ignore_errors and with_sources
          MaxDiskFaults   \* bound: writes that fail

ObjectTypes == {"elf", "macho", "pe", "pe_dotnet", "wasm"}

\* An id is not taken for one of another kind.
IsObject(o) ==
    /\ o.type \in ObjectTypes
    /\ o.format = "pe" => o.type \in {"pe", "pe_dotnet"} /\ o.kind # "debug"
    /\ o.code_id # Unset => o.code_id[1] \in {"uuid", "build"}
    /\ o.debug_id # Unset => Unset \notin {Breakpad(o.debug_id), <<"uuid", o.debug_id.uuid>>}

\* The source bundle that is made from an object
SourceBundleOf(o) ==
    [format |-> "sourcebundle", type |-> o.type, kind |-> "sources", code_id |-> o.code_id,
     debug_id |-> o.debug_id, sources |-> FALSE]

\* Only PE files do not go by their code id, and a PE file is a single object.
IsInput(input) ==
    /\ input.entries \in Seq(Range(input.entries)) /\ (~input.zip => Len(input.entries) = 1)
    /\ \A e \in Range(input.entries) \ {Unset} :
          /\ e \in Seq(Range(e))
          /\ \A o \in Range(e) : IsObject(o) /\ (o.format = "pe" => Len(e) = 1) /\ <<SourceBundleOf(o)>> # Unset

ASSUME SortJobsAssumption == \A job \in SortJobs : \A i \in DOMAIN job.inputs : IsInput(job.inputs[i])

VARIABLE sorter

SortIdle == [pc |-> "idle"]

NewTask == [entry |-> 1, obj |-> 1, at |-> "object", rv |-> <<>>]

\* A task for every file, and later one for every source bundle
SortStarted(job) ==
    LET files == {<<"file", i>> : i \in DOMAIN job.inputs}
    IN  [pc |-> "sort", job |-> job, inputs |-> [f \in files |-> job.inputs[f[2]]], tasks |-> [f \in files |-> NewTask],
         bucket |-> <<>>, metas |-> <<>>, ids |-> {}, candidates |-> <<>>, faulty |-> {}]

SorterInit == sorter \in {SortStarted(j) : j \in SortJobs}

\* f with one more entry, or another one
Put(f, x, y) == [z \in DOMAIN f \cup {x} |-> IF z = x THEN y ELSE f[z]]

-----------------------------------------------------------------------------
(* One object *)

Accepted == {"executable", "library", "debug", "sources"}

\* Mutant of UnifiedId: PE files are not told from the others.
UnifiedId_ByCode(obj) ==
    IF obj.code_id # Unset THEN obj.code_id
    ELSE IF obj.debug_id = Unset THEN Unset ELSE Breakpad(obj.debug_id)

\* Unset for an object without a usable id
UnifiedId(obj) ==
    IF obj.format # "pe" /\ obj.code_id # Unset THEN obj.code_id
    ELSE IF obj.debug_id = Unset THEN Unset ELSE Breakpad(obj.debug_id)

TargetSuffix(obj) ==
    CASE obj.kind = "debug"                                        -> "debuginfo"
      [] obj.kind = "sources" /\ obj.format = "sourcebundle"       -> "sourcebundle"
      [] obj.kind \in {"library", "executable"}                    -> "executable"
      [] OTHER                                                     -> "none"

TargetFilename(obj) ==
    IF UnifiedId(obj) = Unset \/ TargetSuffix(obj) = "none" THEN <<>>
    ELSE <<Id(UnifiedId(obj)), Word(TargetSuffix(obj))>>

-----------------------------------------------------------------------------
(* process_file and process_zip_archive *)

Task(t)    == sorter.tasks[t]
Input(t)   == sorter.inputs[t]
HasEntry(t) == Task(t).entry <= Len(Input(t).entries)
Entry(t)   == Input(t).entries[Task(t).entry]
Object(t)  == Entry(t)[Task(t).obj]
Sorting(t) == sorter.pc \in {"sort", "bundles"} /\ Task(t).at # "done"

Moved(t, at, obj, rv) ==
    [sorter.tasks EXCEPT ![t] = [entry |-> Task(t).entry, obj |-> obj, at |-> at, rv |-> rv]]

\* An error ends the file with what it has so far, or the whole program.
Erred(t) ==
    IF sorter.job.ignore_errors THEN [sorter EXCEPT !.tasks = Moved(t, "report", Task(t).obj, Task(t).rv)]
    ELSE [sorter EXCEPT !.pc = "failed"]

MayFail == Cardinality(sorter.faulty) < MaxDiskFaults

\* A write that fails ends the program.  Only a zip archive may ignore it: it
\* ends there, without the ids of the entry it is at.
Abandoned(t, bucket, metas) ==
    LET ignored == Input(t).zip /\ sorter.job.ignore_errors
    IN  [sorter EXCEPT !.bucket = bucket, !.metas = metas, !.faulty = sorter.faulty \cup {t},
            !.pc = IF ignored THEN sorter.pc ELSE "failed",
            !.tasks = IF ignored THEN Moved(t, "done", Task(t).obj, Task(t).rv) ELSE sorter.tasks]

AtObject(t) ==
    Sorting(t) /\ Task(t).at = "object" /\ HasEntry(t) /\ Entry(t) # Unset /\ Task(t).obj <= Len(Entry(t))

ParseFails(t) ==
    /\ Sorting(t) /\ Task(t).at = "object" /\ HasEntry(t) /\ Entry(t) = Unset
    /\ sorter' = Erred(t)

\* The .meta file is written, or overwritten, before it is known whether the
\* object is a duplicate.
WriteMeta(t) ==
    /\ AtObject(t)
    /\ sorter' = IF Object(t).kind \notin Accepted
                 THEN [sorter EXCEPT !.tasks = Moved(t, "object", Task(t).obj + 1, Task(t).rv)]
                 ELSE IF TargetFilename(Object(t)) = <<>> THEN Erred(t)
                 ELSE [sorter EXCEPT !.tasks = Moved(t, "create", Task(t).obj, Task(t).rv),
                                     !.metas = Put(sorter.metas, TargetFilename(Object(t)), t)]

Torn == <<"torn">>

\* The directory or the reference of the bundle cannot be written, or the
\* .meta file is cut off.
MetaFails(t) ==
    /\ AtObject(t) /\ Object(t).kind \in Accepted /\ TargetFilename(Object(t)) # <<>> /\ MayFail
    /\ \E metas \in {sorter.metas, Put(sorter.metas, TargetFilename(Object(t)), Torn)} :
          sorter' = Abandoned(t, sorter.bucket, metas)

\* A duplicate ends the file without any id.
Duplicate(t) ==
    /\ Sorting(t) /\ Task(t).at = "create" /\ TargetFilename(Object(t)) \in DOMAIN sorter.bucket
    /\ sorter' = [sorter EXCEPT !.tasks = Moved(t, "report", Task(t).obj, <<>>)]

WithObject(t, complete) ==
    Put(sorter.bucket, TargetFilename(Object(t)), [obj |-> Object(t), input |-> t, complete |-> complete])

AtNewFile(t) == Sorting(t) /\ Task(t).at = "create" /\ TargetFilename(Object(t)) \notin DOMAIN sorter.bucket

StoreObject(t) ==
    /\ AtNewFile(t)
    /\ sorter' = [sorter EXCEPT !.bucket = WithObject(t, TRUE),
                               !.tasks = Moved(t, "object", Task(t).obj + 1, Append(Task(t).rv, Object(t)))]

\* The file cannot be created, or it is cut off.
StoreFails(t) ==
    /\ AtNewFile(t) /\ MayFail
    /\ \E bucket \in {sorter.bucket, WithObject(t, FALSE)} : sorter' = Abandoned(t, bucket, sorter.metas)

-----------------------------------------------------------------------------
(* sort_files *)

NoBundle == <<>>

\* A source bundle among the files takes the place of one made from a debug
\* file; the first debug file of an id counts.
Candidates(t) ==
    LET old == sorter.candidates
        ids(kinds) == {UnifiedId(o) : o \in {x \in Range(Task(t).rv) : x.kind \in kinds}}
    IN  IF ~sorter.job.with_sources \/ Input(t).zip \/ sorter.pc # "sort" THEN old
        ELSE [id \in DOMAIN old \cup ids({"sources", "debug"}) |->
                 IF id \in ids({"sources"}) THEN NoBundle ELSE IF id \in DOMAIN old THEN old[id] ELSE t]

Report(t) ==
    /\ Sorting(t) /\ HasEntry(t)
    /\ Task(t).at = "report" \/ (Task(t).at = "object" /\ Entry(t) # Unset /\ Task(t).obj > Len(Entry(t)))
    /\ sorter' = [sorter EXCEPT !.ids = sorter.ids \cup {UnifiedId(o) : o \in Range(Task(t).rv)},
                                !.candidates = Candidates(t),
                                !.tasks = [sorter.tasks EXCEPT ![t] = [NewTask EXCEPT !.entry = Task(t).entry + 1]]]

EndOfFile(t) ==
    /\ Sorting(t) /\ ~HasEntry(t)
    /\ sorter' = [sorter EXCEPT !.tasks = Moved(t, "done", Task(t).obj, Task(t).rv)]

\* create_source_bundle: the first object with the id that has sources
HasSources(id, input) == \E o \in Range(input.entries[1]) : UnifiedId(o) = id /\ o.sources

CreateSourceBundle(id, input) ==
    LET objs == input.entries[1]
    IN  [zip |-> FALSE,
         entries |-> <<<<SourceBundleOf(objs[SelectInSeq(objs, LAMBDA o : UnifiedId(o) = id /\ o.sources)])>>>>]

AllDone == \A t \in DOMAIN sorter.tasks : Task(t).at = "done"

\* The ids for which a source bundle is made
Bundled ==
    {id \in DOMAIN sorter.candidates :
        sorter.candidates[id] # NoBundle /\ HasSources(id, sorter.inputs[sorter.candidates[id]])}

CreateSourceBundles ==
    LET all == DOMAIN sorter.inputs \cup {<<"bundle", id>> : id \in Bundled}
        Made(t) == CreateSourceBundle(t[2], sorter.inputs[sorter.candidates[t[2]]])
    IN  /\ sorter.pc = "sort" /\ AllDone
        /\ sorter' = [sorter EXCEPT !.pc = "bundles",
              !.inputs = [t \in all |-> IF t \in DOMAIN sorter.inputs THEN sorter.inputs[t] ELSE Made(t)],
              !.tasks = [t \in all |-> IF t \in DOMAIN sorter.inputs THEN sorter.tasks[t] ELSE NewTask]]

WriteBundleMeta ==
    /\ sorter.pc = "bundles" /\ AllDone
    /\ sorter' = [sorter EXCEPT !.pc = "done"]

\* A source bundle that cannot be made, or the description of the bundle that
\* cannot be written
EndFails ==
    /\ \/ sorter.pc = "sort" /\ \E id \in DOMAIN sorter.candidates : sorter.candidates[id] # NoBundle
       \/ sorter.pc = "bundles"
    /\ AllDone /\ MayFail
    /\ sorter' = [sorter EXCEPT !.pc = "failed"]

TaskStep(t) ==
    \/ ParseFails(t) \/ WriteMeta(t) \/ MetaFails(t)
    \/ Duplicate(t) \/ StoreObject(t) \/ StoreFails(t)
    \/ Report(t) \/ EndOfFile(t)

SorterNext ==
    \/ sorter.pc \in {"sort", "bundles"} /\ \E t \in DOMAIN sorter.tasks : TaskStep(t)
    \/ CreateSourceBundles
    \/ WriteBundleMeta
    \/ EndFails

SorterSpec == SorterInit /\ [][SorterNext]_sorter

-----------------------------------------------------------------------------
(* Properties *)

IdentifierOf(obj) ==
    [code_id |-> obj.code_id, debug_id |-> obj.debug_id, code_file |-> Unset, debug_file |-> Unset,
     checksum |-> Unset, type |-> obj.type]

LookedUp(obj) ==
    LET types == IF obj.kind = "sources" THEN <<"SourceBundle">> ELSE FromObjectType(obj.type)
    IN  Range(Locations(SourceOf("unified"), types, IdentifierOf(obj)))

\* Stored by the debug id while the lookup wants the code id, or the other
\* way round; of a .NET module only a Portable PDB is looked up.
Unfindable(obj) ==
    \/ obj.code_id = Unset /\ obj.type \in {"elf", "macho", "wasm"} /\ (obj.kind # "debug" \/ obj.type = "wasm")
    \/ obj.code_id # Unset /\ obj.format # "pe" /\ obj.type \in {"pe", "pe_dotnet"}
       /\ (obj.kind # "debug" \/ obj.type = "pe_dotnet")
    \/ obj.kind \in {"library", "executable"} /\ obj.type = "pe_dotnet"

\* The places in an input of objects for the same path
Places(t, p) ==
    LET entries == sorter.inputs[t].entries
    IN  UNION {{<<e, o>> : o \in {o \in DOMAIN entries[e] : TargetFilename(entries[e][o]) = p}} :
                  e \in {e \in DOMAIN entries : entries[e] # Unset}}

\* The inputs with an object for the same path
Rivals(p) == {t \in DOMAIN sorter.inputs : Places(t, p) # {}}

\* An input lost ids to a write that failed, or to a duplicate, which may be
\* its own.
LostIds(t) ==
    \/ t \in sorter.faulty
    \/ \E p \in DOMAIN sorter.bucket :
          t \in Rivals(p) /\ (sorter.bucket[p].input # t \/ \E a, b \in Places(t, p) : a # b)

\* sort_files: when the bundle is described, each of its ids has a complete
\* file; every complete file is listed, unless a write of its input failed or
\* another of the input's files was there already, and described by the input
\* it came from unless another had the same or a write failed; a debug file
\* with sources that is listed has a source bundle; and an object is found by
\* a lookup in the Unified layout exactly if the two sides do not identify it
\* differently.
SortedFilesFound ==
    sorter.pc = "done" =>
        LET stored == {p \in DOMAIN sorter.bucket : sorter.bucket[p].complete}
        IN  /\ \A id \in sorter.ids : \E p \in stored : p[1] = Id(id)
            /\ \A p \in stored : p[1][1] \in sorter.ids \/ LostIds(sorter.bucket[p].input)
            /\ \A p \in stored : \/ sorter.metas[p] = sorter.bucket[p].input
                                 \/ Rivals(p) # {sorter.bucket[p].input}
                                 \/ sorter.metas[p] = Torn /\ sorter.bucket[p].input \in sorter.faulty
            /\ \A p \in stored : p \in LookedUp(sorter.bucket[p].obj) <=> ~Unfindable(sorter.bucket[p].obj)
            /\ \A id \in DOMAIN sorter.candidates :
                  sorter.candidates[id] = NoBundle \/ id \in Bundled
                  => \E p \in DOMAIN sorter.bucket : p[2] = Word("sourcebundle") /\ p[1] = Id(id)
=============================================================================
