----------------------------- MODULE SymbolPaths -----------------------------
(***************************************************************************)
(* Where a debug information file lies in a symbol source                  *)
(* (symbolicator-sources: paths.rs, filetype.rs, sources.rs, remotefile.rs)*)
(* and the way back from a Symstore path to an object (the symbol proxy).  *)
(*                                                                         *)
(* An identifier is a record: code_id, code_file, debug_id, debug_file,    *)
(* checksum and type, each of which may be Unset.  A code id is            *)
(* <<"uuid", u>> or <<"build", b>>, a debug id has a uuid and an age, a    *)
(* file has a base, a sequence of extensions and a spelling: "as is" with  *)
(* capitals in its base, "lower" without.  A path is a sequence of parts   *)
(* <<text, case>>; a text is a file name, an id or a fixed word.  How a    *)
(* path splits an id over directories is left out, for it loses nothing.   *)
(***************************************************************************)
EXTENDS Integers, Sequences, SequencesExt

CONSTANTS Identifiers,   \* the identifiers considered
          Unset          \* the value of a field that is not there

\* The identifier, file type and casing of a path somebody asks for, whether
\* symstore_proxy is set, and the features of the object
VARIABLE asked

MaxAge == "ffffffff"

Word(w)       == <<<<w>>, "as is">>
File(f, ssqp) == <<[base |-> f.base, ext |-> f.ext], IF ssqp THEN "lower" ELSE f.spelling>>
Fixed(base, ext) == <<[base |-> base, ext |-> <<ext>>], "lower">>
Id(id)        == <<id, "lower">>

\* The lowercase or the uppercase breakpad format: uuid and age
Breakpad(debug_id) == <<"breakpad", debug_id.uuid, debug_id.age>>

WithExtension(file, ext) == [file EXCEPT !.ext = ext]
Truncated(file) == IF file.ext = <<>> THEN file ELSE WithExtension(file, Front(file.ext))

\* File names that are too long or hold control characters do not count.
ValidFile(file) == file # Unset /\ file.base # "invalid"

Given(id, fields) == \A f \in fields : id[f] # Unset

-----------------------------------------------------------------------------
(* The parts of the layouts.  Each is a sequence of paths, empty if there   *)
(* is none.                                                                 *)

GdbPaths(id) == IF Given(id, {"code_id"}) THEN <<<<Id(id.code_id)>>>> ELSE <<>>

MachUuid(id) ==
    IF Given(id, {"code_id"}) THEN (IF id.code_id[1] = "uuid" THEN id.code_id ELSE Unset)
    ELSE IF Given(id, {"debug_id"}) THEN <<"uuid", id.debug_id.uuid>>
    ELSE Unset

LldbPaths(id) == IF MachUuid(id) = Unset THEN <<>> ELSE <<<<<<MachUuid(id), "upper">>>>>>

\* The age of a Portable PDB is replaced.
PdbSymstorePaths(id, ssqp) ==
    LET age == IF id.type = "pe_dotnet" THEN MaxAge ELSE id.debug_id.age
        sig == <<Breakpad([id.debug_id EXCEPT !.age = age]), IF ssqp THEN "xX" ELSE "Xx">>
    IN  IF ValidFile(id.debug_file) /\ Given(id, {"debug_id"})
        THEN <<<<File(id.debug_file, ssqp), sig, File(id.debug_file, ssqp)>>>> ELSE <<>>

PeSymstorePaths(id, ssqp) ==
    IF ValidFile(id.code_file) /\ Given(id, {"code_id"})
    THEN <<<<File(id.code_file, ssqp), <<id.code_id, IF ssqp THEN "lower" ELSE "Xx">>, File(id.code_file, ssqp)>>>>
    ELSE <<>>

\* .exe, .dll and .pdb are stripped in this order, each only after the one
\* before it was or if none was, and without .pdb none is.
BreakpadName(file) ==
    LET stripped == {s \in {<<"pdb">>, <<"pdb", "dll">>, <<"pdb", "dll", "exe">>} : IsSuffix(s, file.ext)}
        kept     == IF stripped = {} THEN file.ext
                    ELSE SubSeq(file.ext, 1, Len(file.ext) - Len(CHOOSE s \in stripped : TRUE))
    IN  WithExtension(file, kept \o <<"sym">>)

BreakpadPaths(id) ==
    IF id.type # "wasm" /\ ValidFile(id.debug_file) /\ Given(id, {"debug_id"})
    THEN <<<<File(id.debug_file, FALSE), <<Breakpad(id.debug_id), "Xx">>, File(BreakpadName(id.debug_file), FALSE)>>>>
    ELSE <<>>

\* Every path with its last file, or its id, given another ending.
Ending(paths, Edit(_)) ==
    [i \in DOMAIN paths |-> LET last == Last(paths[i]) IN Append(Front(paths[i]), <<Edit(last[1]), last[2]>>)]

Suffixed(paths, suffix) == Ending(paths, LAMBDA t : <<t, suffix>>)

SrcZip(paths) == Ending(paths, LAMBDA f : WithExtension(f, Truncated(f).ext \o <<"src", "zip">>))

\* The breakpad path comes before the one of the platform.
NativeSourceBundle(id) ==
    LET primary == CASE id.type \in {"pe", "pe_dotnet"} -> SrcZip(PdbSymstorePaths(id, FALSE))
                     [] id.type = "macho"              -> Suffixed(LldbPaths(id), ".src.zip")
                     [] id.type \in {"elf", "wasm"}    -> Suffixed(GdbPaths(id), ".src.zip")
                     [] OTHER                          -> <<>>
        breakpad == SrcZip(BreakpadPaths(id))
    IN  IF primary = <<>> THEN <<>> ELSE SelectSeq(breakpad, LAMBDA p : p # primary[1]) \o primary

NativePaths(filetype, id) ==
    CASE filetype \in {"ElfCode", "WasmCode"}    -> GdbPaths(id)
      [] filetype \in {"ElfDebug", "WasmDebug"}  -> Suffixed(GdbPaths(id), ".debug")
      [] filetype = "MachCode"                   -> Suffixed(LldbPaths(id), ".app")
      [] filetype = "MachDebug"                  -> LldbPaths(id)
      [] filetype \in {"Pdb", "PortablePdb"}     -> PdbSymstorePaths(id, FALSE)
      [] filetype = "Pe"                         -> PeSymstorePaths(id, FALSE)
      [] filetype = "Breakpad"                   -> BreakpadPaths(id)
      [] filetype = "SourceBundle"               -> NativeSourceBundle(id)
      [] OTHER                                   -> <<>>

Signed(file, prefix, id) == <<<<file, <<prefix \o id, "lower">>, file>>>>

SymstorePaths(filetype, id, ssqp) ==
    CASE filetype = "ElfCode" /\ ValidFile(id.code_file) /\ Given(id, {"code_id"}) ->
            Signed(File(id.code_file, ssqp), <<"elf-buildid-">>, id.code_id)
      [] filetype = "ElfDebug" /\ Given(id, {"code_id"}) ->
            Signed(Fixed("_", "debug"), <<"elf-buildid-", "sym-">>, id.code_id)
      [] filetype = "MachCode" /\ ValidFile(id.code_file) /\ MachUuid(id) # Unset ->
            Signed(File(id.code_file, ssqp), <<"mach-uuid-">>, MachUuid(id))
      [] filetype = "MachDebug" /\ MachUuid(id) # Unset ->
            Signed(Fixed("_", "dwarf"), <<"mach-uuid-", "sym-">>, MachUuid(id))
      [] filetype \in {"Pdb", "PortablePdb"} -> PdbSymstorePaths(id, ssqp)
      [] filetype = "Pe" -> PeSymstorePaths(id, ssqp)
      [] filetype = "SourceBundle" /\ id.type = "pe" -> SrcZip(PdbSymstorePaths(id, ssqp))
      [] OTHER -> <<>>

\* A directory for the first characters of the file comes first.
SymstoreIndex2Paths(filetype, id) ==
    LET paths == SymstorePaths(filetype, id, FALSE)
    IN  [i \in DOMAIN paths |-> <<<<<<"prefix", paths[i][1][1].base>>, paths[i][1][2]>>>> \o paths[i]]

DebuginfodPaths(filetype, id) ==
    IF filetype \in {"ElfCode", "ElfDebug"} /\ Given(id, {"code_id"})
    THEN <<<<Id(id.code_id), Word(IF filetype = "ElfCode" THEN "executable" ELSE "debuginfo")>>>> ELSE <<>>

\* The file type that decides on the id of a type that all objects have
TargetType(filetype, type) ==
    IF filetype \notin {"SourceBundle", "Breakpad", "Il2cpp"} THEN filetype
    ELSE CASE type = "elf" -> "ElfCode" [] type = "macho" -> "MachCode" [] type = "pe" -> "Pe"
           [] type = "wasm" -> "WasmCode" [] type = "pe_dotnet" -> "PortablePdb" [] OTHER -> Unset

SearchTargetId(filetype, id) ==
    LET target == TargetType(filetype, id.type)
    IN  CASE target \in {"Pe", "Pdb", "PortablePdb"} ->
                IF Given(id, {"debug_id"}) THEN Breakpad(id.debug_id) ELSE Unset
          [] target \in {"MachCode", "MachDebug", "WasmDebug", "WasmCode", "UuidMap", "BcSymbolMap"} ->
                IF Given(id, {"code_id"}) THEN id.code_id
                ELSE IF Given(id, {"debug_id"}) THEN <<"uuid", id.debug_id.uuid>> ELSE Unset
          [] target \in {"ElfCode", "ElfDebug"} -> id.code_id
          [] OTHER -> Unset

UnifiedSuffix(filetype) ==
    CASE filetype \in {"ElfCode", "MachCode", "Pe", "WasmCode"} -> "executable"
      [] filetype \in {"ElfDebug", "MachDebug", "Pdb", "WasmDebug", "PortablePdb"} -> "debuginfo"
      [] filetype = "SourceBundle" -> "sourcebundle"
      [] OTHER -> filetype

UnifiedPaths(filetype, id) ==
    IF SearchTargetId(filetype, id) = Unset THEN <<>>
    ELSE <<<<Id(SearchTargetId(filetype, id)), Word(UnifiedSuffix(filetype))>>>>

\* For any file type
SlashSymbolsPaths(id) ==
    IF Given(id, {"code_id"}) /\ ValidFile(id.code_file)
    THEN [i \in 1 .. 2 |-> <<File(id.code_file, FALSE), <<id.code_id, <<"lower", "upper">>[i]>>, Word("symbols")>>] ELSE <<>>

NnSymStorePaths(filetype, id) ==
    IF filetype \in {"ElfDebug", "ElfCode"} /\ Given(id, {"code_id"})
    THEN [i \in 1 .. 2 |-> <<<<<<id.code_id, <<"nnsym", "nxsym">>[i]>>, "lower">>>>] ELSE <<>>

-----------------------------------------------------------------------------
(* The locations that are tried *)

LayoutPaths(layout, filetype, id) ==
    CASE layout = "native"          -> NativePaths(filetype, id)
      [] layout = "symstore"        -> SymstorePaths(filetype, id, FALSE)
      [] layout = "ssqp"            -> SymstorePaths(filetype, id, TRUE)
      [] layout = "symstore_index2" -> SymstoreIndex2Paths(filetype, id)
      [] layout = "debuginfod"      -> DebuginfodPaths(filetype, id)
      [] layout = "unified"         -> UnifiedPaths(filetype, id)
      [] layout = "slashsymbols"    -> SlashSymbolsPaths(id)
      [] layout = "nnsymstore"      -> NnSymStorePaths(filetype, id)

Cased(path, casing) ==
    IF casing = "default" THEN path ELSE [i \in DOMAIN path |-> <<path[i][1], casing>>]

\* The last character of a compressed file is an underscore.
Compressed(path) == Append(path, Word("_"))

\* From lowest to highest priority
DirectoryPaths(layout, casing, filetype, id) ==
    LET paths == LayoutPaths(layout, filetype, id)
        cased == [i \in DOMAIN paths |-> Cased(paths[i], casing)]
    IN  IF filetype \notin {"Pdb", "Pe"} THEN cased
        ELSE FlattenSeq([i \in DOMAIN cased |-> <<Compressed(cased[i]), cased[i]>>])

FromObjectType(type) ==
    CASE type \in {"macho", "pe", "elf"} ->
            <<CASE type = "macho" -> "MachCode" [] type = "pe" -> "Pe" [] type = "elf" -> "ElfCode",
              "Breakpad", "MachDebug", "Pdb", "ElfDebug">>
      [] type = "wasm"      -> <<"WasmCode", "WasmDebug">>
      [] type = "pe_dotnet" -> <<"PortablePdb">>
      [] OTHER -> <<"Pdb", "MachDebug", "ElfDebug", "Pe", "MachCode", "ElfCode", "WasmCode", "WasmDebug",
                    "Breakpad", "SourceBundle", "UuidMap", "BcSymbolMap", "PortablePdb", "Proguard">>

\* filters: filetypes, the files that match a path pattern (all if there is
\* no pattern) and requires_checksum
IsAllowed(filters, id, filetype) ==
    /\ filters.requires_checksum => id.checksum # Unset
    /\ filters.filetypes # {} => filetype \in filters.filetypes
    /\ filters.matching # {} => {id.code_file, id.debug_file} \cap filters.matching # {}

\* SourceLocationIter takes the paths of a file type from the end.
Locations(source, filetypes, id) ==
    FlattenSeq([i \in DOMAIN filetypes |->
        IF IsAllowed(source.filters, id, filetypes[i])
        THEN Reverse(DirectoryPaths(source.layout, source.casing, filetypes[i], id)) ELSE <<>>])

-----------------------------------------------------------------------------
(* The symbol proxy *)

Parsed(filetype, fields, type) ==
    [filetypes |-> <<filetype>>,
     id |-> fields @@ [code_id |-> Unset, code_file |-> Unset, debug_id |-> Unset, debug_file |-> Unset,
                       checksum |-> Unset, type |-> type]]

EndsWith(file, ext) == file.ext # <<>> /\ Last(file.ext) = ext

\* The signatures that start with a word; ext is what the file must end with.
Rule(filetype, type, prefix, ext) == [filetype |-> filetype, type |-> type, prefix |-> prefix, ext |-> ext]

\* Mutant of SignatureRules: the shorter prefix is tried first.
SignatureRules_Reordered ==
    <<Rule("ElfCode", "elf", <<"elf-buildid-">>, Unset), Rule("ElfDebug", "elf", <<"elf-buildid-", "sym-">>, "debug"),
      Rule("MachCode", "macho", <<"mach-uuid-">>, Unset), Rule("MachDebug", "macho", <<"mach-uuid-", "sym-">>, "dwarf")>>

SignatureRules ==
    <<Rule("ElfDebug", "elf", <<"elf-buildid-", "sym-">>, "debug"), Rule("ElfCode", "elf", <<"elf-buildid-">>, Unset),
      Rule("MachDebug", "macho", <<"mach-uuid-", "sym-">>, "dwarf"), Rule("MachCode", "macho", <<"mach-uuid-">>, Unset)>>

CodeObject(filetype, code_id, file, type) == Parsed(filetype, [code_id |-> code_id, code_file |-> file], type)

\* A sequence of at most one object; the first rule that matches counts, and
\* a .pdb needs a breakpad id.  The file is spelled as it was asked for.
ParseSymstorePath(path) ==
    LET name == path[1][1]
        file == [base |-> name.base, ext |-> name.ext, spelling |-> path[1][2]]
        sig  == path[2][1]
        Matches(rule) == IsPrefix(rule.prefix, sig) /\ (rule.ext # Unset => EndsWith(file, rule.ext))
        i    == SelectInSeq(SignatureRules, Matches)
        rule == SignatureRules[i]
    IN  IF Len(path) # 3 \/ path[3][1] # name THEN <<>>
        ELSE IF i # 0
             THEN <<CodeObject(rule.filetype, SubSeq(sig, Len(rule.prefix) + 1, Len(sig)), file, rule.type)>>
        ELSE IF ~EndsWith(file, "pdb") THEN <<CodeObject("Pe", sig, file, "pe")>>
        ELSE IF sig[1] # "breakpad" THEN <<>>
        ELSE <<Parsed("Pdb", [debug_id |-> [uuid |-> sig[2], age |-> sig[3]], debug_file |-> file], "pe")>>

\* object_has_features for ObjectPurpose::Debug
HasFeatures(features) == features \cap {"debug", "symbols"} # {}

\* load_object: the file a debugger asks for by its path, from a source that
\* holds an object with these features at the stored paths
LoadObject(symstore_proxy, path, source, stored, features) ==
    LET parsed == ParseSymstorePath(path)
        found  == Range(Locations(source, parsed[1].filetypes, parsed[1].id)) \cap stored
    IN  IF ~symstore_proxy \/ parsed = <<>> THEN "notfound"
        ELSE IF found = {} \/ ~HasFeatures(features) THEN "notfound"
        ELSE "found"

-----------------------------------------------------------------------------
(* Properties *)

NotAsked == [filetype |-> Unset]
AskedOf(id) ==
    {[id |-> id, filetype |-> t, ssqp |-> s, symstore_proxy |-> on, features |-> f] :
        t \in Range(FromObjectType(id.type)), s \in BOOLEAN, on \in BOOLEAN, f \in {{"debug"}, {"symbols"}, {"unwind"}}}

Layouts == {"native", "symstore", "ssqp", "symstore_index2", "debuginfod", "unified", "slashsymbols", "nnsymstore"}

AnyFile == [filetypes |-> {}, matching |-> {}, requires_checksum |-> FALSE]
SourceOf(layout) == [layout |-> layout, casing |-> "default", filters |-> AnyFile]

\* A location of this layout has the name of the file in it.
Named(layout, filetype) ==
    \/ layout = "slashsymbols"
    \/ layout = "native" /\ filetype \in {"Pe", "Pdb", "PortablePdb"}
    \/ layout \in {"symstore", "symstore_index2"} /\ filetype \in {"ElfCode", "MachCode", "Pe", "Pdb", "PortablePdb"}

NameOf(id, filetype) == IF filetype \in {"Pdb", "PortablePdb"} THEN id.debug_file ELSE id.code_file

\* What a Symstore path does not tell: the debug id of a PE file, the age of
\* a Portable PDB, the name of the code file a debug file belongs to, and in
\* the casing of SSQP the capitals of a name.
LostInPath(layout, ask) ==
    \/ layout = "unified" /\ ask.filetype \in {"Pe", "PortablePdb"}
    \/ layout = "slashsymbols" /\ ask.filetype \in {"ElfDebug", "MachDebug", "Pdb", "PortablePdb"}
    \/ ask.ssqp /\ Named(layout, ask.filetype) /\ NameOf(ask.id, ask.filetype).spelling = "as is"

\* proxy_symstore_request: a debugger that asks the proxy for a file by its
\* Symstore path gets it from a source of any layout, whichever of the file's
\* locations holds it, exactly if the proxy is on, the file has debug
\* information or symbols, and the layout does not need what the path does not
\* tell.
ProxyFindsTheFile ==
    asked.filetype # Unset =>
        \A path \in Range(SymstorePaths(asked.filetype, asked.id, asked.ssqp)), layout \in Layouts :
            \A location \in Range(Locations(SourceOf(layout), <<asked.filetype>>, asked.id)) :
               LoadObject(asked.symstore_proxy, path, SourceOf(layout), {location}, asked.features) = "found"
               <=> asked.symstore_proxy /\ asked.features \in {{"debug"}, {"symbols"}} /\ ~LostInPath(layout, asked)
=============================================================================
