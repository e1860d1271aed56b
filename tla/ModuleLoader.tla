---------------------------- MODULE ModuleLoader ----------------------------
(***************************************************************************)
(* The module loader of discc (ModuleLoader.cpp): depth-first discovery of *)
(* the import graph (prepare, loadFile, resolveImport) and the protocol    *)
(* by which the compiler takes each parsed unit and publishes its          *)
(* interface (take, complete).                                             *)
(*                                                                         *)
(* loadFile is recursive.  Its C++ stack is m_active, one frame per file   *)
(* being loaded; `call' is the path loadFile is entered with and           *)
(* `returned' the id it hands back to its caller.  The file system does    *)
(* not change during a build: `disk' is chosen once, in Init.              *)
(***************************************************************************)
EXTENDS Integers, Sequences, FiniteSets

CONSTANTS
    Dir,             \* directories
    Name,            \* file names (what an import statement spells)
    Interface,       \* the names that end in .dci
    Inode,           \* physical files: two paths may lead to the same one
    ModuleName,      \* names a module declaration can give
    Disks,           \* the file systems considered, a subset of Disk
    RootLists,       \* argument lists of prepare: sequences of paths
    SearchLists,     \* configured import directories: sequences of Dir
    MaxRoots, MaxImportPaths, MaxDepth, MaxFiles,
    MaxFileBytes, MaxTotalBytes, MaxTypeAliases,
    BuiltinAliases,  \* type aliases every parser starts with
    Absent, NotRegular, NoCall, NoName

Path == [dir : Dir, name : Name]

Disk == [at      : [Path -> Inode \cup {Absent, NotRegular}],
         imports : [Inode -> Seq(Name)],
         module  : [Inode -> ModuleName \cup {NoName}],
         size    : [Inode -> Nat],
         aliases : [Inode -> Nat],
         shared  : SUBSET Inode,     \* files that declare a type alias of one common name
         fault   : [Inode -> {"none", "open", "preamble", "program", "declaration"}]]

ASSUME LoaderAssumption ==
    /\ Interface \subseteq Name
    /\ Disks \subseteq Disk
    /\ RootLists \subseteq Seq(Path)
    /\ SearchLists \subseteq Seq(Dir)
    /\ {MaxRoots, MaxImportPaths, MaxDepth, MaxFiles} \subseteq Nat
    /\ {MaxFileBytes, MaxTotalBytes, MaxTypeAliases, BuiltinAliases} \subseteq Nat
    /\ {Absent, NotRegular} \cap Inode = {}
    /\ NoCall \notin Path
    /\ NoName \notin ModuleName

VARIABLES
    disk,              \* the file system
    phase,             \* "idle", "discover" (inside prepare) or "ready"
    error,             \* kind of the last exception, "none" if there was none
    roots, next_root,  \* the argument of prepare and its loop position
    call, returned,    \* argument of a pending loadFile, result of a finished one
    m_import_paths, m_graph, m_records, m_active, m_order,
    m_module_names, m_alias_bindings, m_total_bytes

tables == <<m_graph, m_records, m_active, m_order, m_module_names,
            m_alias_bindings, m_total_bytes>>
vars == <<disk, phase, error, roots, next_root, call, returned,
          m_import_paths, tables>>

-----------------------------------------------------------------------------
Ids == 1 .. Len(m_graph)
Missing == 0

isInterface(path) == path.name \in Interface

\* Mutant: only the spelling of the paths is compared.
SameFile_SpellingOnly(p, q) == p = q
\* Two normalized paths name one file: same spelling, or same existing file.
SameFile(p, q) == p = q \/ (disk.at[p] \in Inode /\ disk.at[p] = disk.at[q])

findFile(path) ==
    LET found == {i \in Ids : SameFile(path, m_graph[i].path)}
    IN  IF found = {} THEN Missing
        ELSE CHOOSE i \in found : \A j \in found : i <= j

\* Mutant: every known file counts as being loaded.
ActiveIds_WholeGraph == Ids
ActiveIds == {m_active[k].id : k \in 1 .. Len(m_active)}
Top == m_active[Len(m_active)]
TopFile == disk.at[m_graph[Top.id].path]

\* The ids that take's gather visits: the least set closed under dependencies.
ClosedUnderDependencies(S) == \A i \in S : m_graph[i].dependencies \subseteq S
gather(id) ==
    {i \in Ids : \A S \in SUBSET Ids : id \in S /\ ClosedUnderDependencies(S) => i \in S}

-----------------------------------------------------------------------------
Init ==
    /\ disk \in Disks
    /\ phase = "idle" /\ error = "none"
    /\ roots = <<>> /\ next_root = 1
    /\ call = NoCall /\ returned = Missing
    /\ m_import_paths = <<>> /\ m_graph = <<>> /\ m_records = <<>>
    /\ m_active = <<>> /\ m_order = <<>>
    /\ m_module_names = {} /\ m_alias_bindings = <<>> /\ m_total_bytes = 0

ClearTables ==
    /\ m_graph' = <<>> /\ m_records' = <<>> /\ m_active' = <<>> /\ m_order' = <<>>
    /\ m_module_names' = {} /\ m_alias_bindings' = <<>> /\ m_total_bytes' = 0

prepare(rs, dirs) ==
    /\ phase \in {"idle", "ready"}
    /\ ClearTables
    /\ next_root' = 1 /\ call' = NoCall /\ returned' = Missing
    /\ \/ /\ Len(rs) \in 1 .. MaxRoots /\ Len(dirs) <= MaxImportPaths
          /\ phase' = "discover" /\ error' = "none"
          /\ roots' = rs /\ m_import_paths' = dirs
       \/ /\ ~(Len(rs) \in 1 .. MaxRoots /\ Len(dirs) <= MaxImportPaths)
          /\ phase' = "idle" /\ error' = "roots"
          /\ roots' = <<>> /\ m_import_paths' = <<>>
    /\ UNCHANGED disk

\* Mutant: the catch block forgets the stack of active files.
Fail_KeepsActive(kind) ==
    /\ m_graph' = <<>> /\ m_records' = <<>> /\ m_order' = <<>> /\ m_module_names' = {}
    /\ m_alias_bindings' = <<>> /\ m_total_bytes' = 0
    /\ phase' = "idle" /\ error' = kind
    /\ roots' = <<>> /\ next_root' = 1 /\ call' = NoCall /\ returned' = Missing
    /\ m_import_paths' = <<>>
    /\ UNCHANGED <<disk, m_active>>
\* Any exception inside prepare: the catch block clears the partial graph.
Fail(kind) ==
    /\ ClearTables
    /\ phase' = "idle" /\ error' = kind
    /\ roots' = <<>> /\ next_root' = 1 /\ call' = NoCall /\ returned' = Missing
    /\ m_import_paths' = <<>>
    /\ UNCHANGED disk

Running == phase = "discover" /\ call = NoCall /\ returned = Missing
AtRoots == Running /\ m_active = <<>>
InFile  == Running /\ m_active # <<>>

LoadRoot ==
    /\ AtRoots /\ next_root <= Len(roots)
    /\ call' = roots[next_root]
    /\ UNCHANGED <<disk, phase, error, roots, next_root, returned, m_import_paths, tables>>

\* Mutant: the loop over the roots does not advance.
RootLoaded_SameRoot ==
    /\ returned # Missing /\ m_active = <<>>
    /\ returned' = Missing
    /\ UNCHANGED <<disk, phase, error, roots, next_root, call, m_import_paths, tables>>
RootLoaded ==
    /\ returned # Missing /\ m_active = <<>>
    /\ returned' = Missing /\ next_root' = next_root + 1
    /\ UNCHANGED <<disk, phase, error, roots, call, m_import_paths, tables>>

Discovered ==
    /\ AtRoots /\ next_root > Len(roots)
    /\ phase' = "ready"
    /\ UNCHANGED <<disk, error, roots, next_root, call, returned, m_import_paths, tables>>

-----------------------------------------------------------------------------
\* Entry of loadFile: the file is already in the graph ...
Found(id) == call # NoCall /\ findFile(call) = id /\ id # Missing
SameKind(id) == m_graph[id].is_interface = isInterface(call)

LoadKindMismatch ==
    \E id \in Ids : Found(id) /\ ~SameKind(id) /\ Fail("kind")

LoadCycle ==
    \E id \in Ids : Found(id) /\ SameKind(id) /\ id \in ActiveIds /\ Fail("cycle")

\* Mutant: any file already in the graph is returned, loaded or not.
LoadAgain_AnyFound ==
    \E id \in Ids :
        /\ Found(id) /\ SameKind(id)
        /\ call' = NoCall /\ returned' = id
        /\ UNCHANGED <<disk, phase, error, roots, next_root, m_import_paths, tables>>
LoadAgain ==
    \E id \in Ids :
        /\ Found(id) /\ SameKind(id) /\ id \notin ActiveIds /\ m_records[id].loaded
        /\ call' = NoCall /\ returned' = id
        /\ UNCHANGED <<disk, phase, error, roots, next_root, m_import_paths, tables>>

\* ... or it is not (a file found but neither active nor loaded also comes here).
Fresh ==
    /\ call # NoCall
    /\ \A id \in Ids : Found(id) =>
          SameKind(id) /\ id \notin ActiveIds /\ ~m_records[id].loaded

WithinLimits == Len(m_active) < MaxDepth /\ Len(m_graph) < MaxFiles

LoadLimit == Fresh /\ ~WithinLimits /\ Fail("limit")

Readable(path) == disk.at[path] \in Inode /\ disk.fault[disk.at[path]] # "open"
\* Mutant: each file is compared with the whole budget, not with what is left.
FitsBudget_PerFile(file) ==
    disk.size[file] <= MaxFileBytes /\ disk.size[file] <= MaxTotalBytes
FitsBudget(file) ==
    disk.size[file] <= MaxFileBytes /\ disk.size[file] <= MaxTotalBytes - m_total_bytes

\* parsePreamble succeeds; an interface declares a module name nobody else has.
PreambleAccepted(path) ==
    LET file == disk.at[path] IN
    /\ disk.fault[file] # "preamble"
    /\ isInterface(path) => disk.module[file] \notin m_module_names \cup {NoName}

LoadRejected ==
    /\ Fresh /\ WithinLimits
    /\ ~(Readable(call) /\ FitsBudget(disk.at[call]) /\ PreambleAccepted(call))
    /\ Fail("source")

LoadPreamble ==
    /\ Fresh /\ WithinLimits
    /\ Readable(call) /\ FitsBudget(disk.at[call]) /\ PreambleAccepted(call)
    /\ LET file == disk.at[call]
           id   == Len(m_graph) + 1
       IN  /\ m_graph' = Append(m_graph, [path |-> call, is_interface |-> isInterface(call),
                                          dependencies |-> {}])
           /\ m_records' = Append(m_records, [aliases |-> {}, loaded |-> FALSE,
                                              taken |-> FALSE, completed |-> FALSE])
           /\ m_active' = Append(m_active, [id |-> id, next |-> 1, aliases |-> {}])
           /\ m_total_bytes' = m_total_bytes + disk.size[file]
           /\ m_module_names' = m_module_names \cup
                                  (IF isInterface(call) THEN {disk.module[file]} ELSE {})
    /\ call' = NoCall
    /\ UNCHANGED <<disk, phase, error, roots, next_root, returned, m_import_paths,
                   m_order, m_alias_bindings>>

-----------------------------------------------------------------------------
\* Mutant: the configured directories come before the importer's own.
Candidates_SearchFirst(owner, import) ==
    LET dirs == m_import_paths \o <<owner.dir>>
    IN  [k \in 1 .. Len(dirs) |-> [dir |-> dirs[k], name |-> import]]
\* resolveImport: the importing directory first, then the configured ones.
\* The first path that exists is the answer, whatever it turns out to be.
Candidates(owner, import) ==
    LET dirs == <<owner.dir>> \o m_import_paths
    IN  [k \in 1 .. Len(dirs) |-> [dir |-> dirs[k], name |-> import]]

Resolves(candidates, path) ==
    \E k \in 1 .. Len(candidates) :
        /\ candidates[k] = path /\ disk.at[path] # Absent
        /\ \A j \in 1 .. k - 1 : disk.at[candidates[j]] = Absent

AtImport == InFile /\ Top.next <= Len(disk.imports[TopFile])
ImportCandidates == Candidates(m_graph[Top.id].path, disk.imports[TopFile][Top.next])

ImportUnresolved ==
    /\ AtImport
    /\ \A path \in Path : Resolves(ImportCandidates, path) => disk.at[path] = NotRegular
    /\ Fail("import")

ImportCall ==
    /\ AtImport
    /\ \E path \in Path :
          /\ Resolves(ImportCandidates, path) /\ disk.at[path] # NotRegular
          /\ call' = path
    /\ UNCHANGED <<disk, phase, error, roots, next_root, returned, m_import_paths, tables>>

\* Mutant: only the aliases of the last import survive.
InheritedAliases_LastOnly == m_records[returned].aliases
InheritedAliases == Top.aliases \cup m_records[returned].aliases

\* addImportedAlias refuses a name that another file's declaration has bound,
\* and one alias too many for this parser.
AliasesAccepted ==
    /\ \A b, c \in InheritedAliases :
          {m_alias_bindings[b], m_alias_bindings[c]} \subseteq disk.shared
              => m_alias_bindings[b] = m_alias_bindings[c]
    /\ BuiltinAliases + Cardinality(InheritedAliases) <= MaxTypeAliases

ImportRefused == returned # Missing /\ m_active # <<>> /\ ~AliasesAccepted /\ Fail("alias")

\* Back in the importer: record the edge and inherit the aliases of the module.
ImportReturned ==
    /\ returned # Missing /\ m_active # <<>> /\ AliasesAccepted
    /\ m_graph' = [m_graph EXCEPT ![Top.id].dependencies = @ \cup {returned}]
    /\ m_active' = [m_active EXCEPT ![Len(m_active)] =
                      [id |-> Top.id, next |-> Top.next + 1,
                       aliases |-> InheritedAliases]]
    /\ returned' = Missing
    /\ UNCHANGED <<disk, phase, error, roots, next_root, call, m_import_paths, m_records,
                   m_order, m_module_names, m_alias_bindings, m_total_bytes>>

-----------------------------------------------------------------------------
\* After the last import: parse the body, register its type aliases, finish.
AtBody == InFile /\ Top.next > Len(disk.imports[TopFile])

Redeclared == TopFile \in disk.shared
              /\ \E b \in Top.aliases : m_alias_bindings[b] \in disk.shared
BodyAccepted ==
    /\ disk.fault[TopFile] # "program" /\ ~Redeclared
    /\ m_graph[Top.id].is_interface => disk.fault[TopFile] # "declaration"
    /\ BuiltinAliases + Cardinality(Top.aliases) + disk.aliases[TopFile] <= MaxTypeAliases
    /\ Len(m_alias_bindings) + disk.aliases[TopFile] <= MaxTypeAliases

BodyRejected == AtBody /\ ~BodyAccepted /\ Fail("body")

FileLoaded ==
    /\ AtBody /\ BodyAccepted
    /\ LET declared == disk.aliases[TopFile]
           first    == Len(m_alias_bindings) + 1
       IN  /\ m_alias_bindings' = m_alias_bindings \o [k \in 1 .. declared |-> TopFile]
           /\ m_records' = [m_records EXCEPT ![Top.id] =
                [@ EXCEPT !.aliases = Top.aliases \cup (first .. first + declared - 1),
                          !.loaded = TRUE]]
    /\ m_active' = SubSeq(m_active, 1, Len(m_active) - 1)
    /\ m_order' = Append(m_order, Top.id)
    /\ returned' = Top.id
    /\ UNCHANGED <<disk, phase, error, roots, next_root, call, m_import_paths, m_graph,
                   m_module_names, m_total_bytes>>

-----------------------------------------------------------------------------
\* The client's side.  Neither call asks whether prepare succeeded: after a
\* failed one it is the empty graph that turns a client away.
Client == phase # "discover"
Transferable(id) == id # Missing /\ m_records[id].loaded /\ ~m_records[id].taken
\* Mutant: a dependency only has to be taken, not published.
DependenciesAnalyzed_Taken(id) == \A d \in gather(id) \ {id} : m_records[d].taken
DependenciesAnalyzed(id) == \A d \in gather(id) \ {id} : m_records[d].completed

LogicError(kind) ==
    /\ error' = kind
    /\ UNCHANGED <<disk, phase, roots, next_root, call, returned, m_import_paths, tables>>

take(path) ==
    LET id == findFile(path) IN
    /\ Client
    /\ \/ /\ Transferable(id) /\ DependenciesAnalyzed(id)
          /\ m_records' = [m_records EXCEPT ![id] = [@ EXCEPT !.taken = TRUE]]
          /\ UNCHANGED <<disk, phase, error, roots, next_root, call, returned,
                         m_import_paths, m_graph, m_active, m_order, m_module_names,
                         m_alias_bindings, m_total_bytes>>
       \/ ~Transferable(id) /\ LogicError("transfer")
       \/ Transferable(id) /\ ~DependenciesAnalyzed(id) /\ LogicError("dependencies")

Publishable(id) == id # Missing /\ m_records[id].taken /\ ~m_records[id].completed

complete(path) ==
    LET id == findFile(path) IN
    /\ Client
    /\ \/ /\ Publishable(id)
          /\ m_records' = [m_records EXCEPT ![id] = [@ EXCEPT !.completed = TRUE]]
          /\ UNCHANGED <<disk, phase, error, roots, next_root, call, returned,
                         m_import_paths, m_graph, m_active, m_order, m_module_names,
                         m_alias_bindings, m_total_bytes>>
       \/ ~Publishable(id) /\ LogicError("publish")

analysisOrder == [k \in 1 .. Len(m_order) |-> m_graph[m_order[k]].path]

\* The elements of s at the positions in K, in the order of s.
Subsequence(s, K) ==
    [n \in 1 .. Cardinality(K) |-> s[CHOOSE k \in K : Cardinality({j \in K : j <= k}) = n]]
implementationOrder ==
    Subsequence(analysisOrder, {k \in 1 .. Len(analysisOrder) : ~isInterface(analysisOrder[k])})
sourcePaths == {m_graph[i].path : i \in Ids}

-----------------------------------------------------------------------------
loadFile == LoadKindMismatch \/ LoadCycle \/ LoadAgain \/ LoadLimit \/ LoadRejected
               \/ LoadPreamble \/ ImportUnresolved \/ ImportCall \/ ImportRefused
               \/ ImportReturned \/ BodyRejected \/ FileLoaded
Discovery == loadFile \/ LoadRoot \/ RootLoaded \/ Discovered

Next == \/ \E rs \in RootLists, dirs \in SearchLists : prepare(rs, dirs)
        \/ Discovery
        \/ \E path \in Path : take(path)
        \/ \E path \in Path : complete(path)

\* prepare is one sequential call: once entered it keeps running.
Spec == Init /\ [][Next]_vars /\ WF_vars(Discovery)

-----------------------------------------------------------------------------
Node == [path : Path, is_interface : BOOLEAN, dependencies : SUBSET Nat]
Record == [aliases : SUBSET Nat, loaded : BOOLEAN, taken : BOOLEAN, completed : BOOLEAN]
Frame == [id : Nat, next : Nat, aliases : SUBSET Nat]

\* Every variable has its type; the record table grows with the graph and a
\* pending call or result exists only while prepare runs.
TypeOK ==
    /\ disk \in Disk
    /\ phase \in {"idle", "discover", "ready"}
    /\ error \in {"none", "roots", "kind", "cycle", "limit", "source", "import", "alias",
                  "body", "transfer", "dependencies", "publish"}
    /\ roots \in Seq(Path) /\ next_root \in Nat \ {0}
    /\ call \in Path \cup {NoCall} /\ returned \in Nat
    /\ m_import_paths \in Seq(Dir)
    /\ m_graph \in Seq(Node) /\ m_records \in Seq(Record) /\ m_active \in Seq(Frame)
    /\ m_order \in Seq(Nat)
    /\ m_module_names \subseteq ModuleName /\ m_alias_bindings \in Seq(Inode)
    /\ m_total_bytes \in Nat
    /\ Len(m_records) = Len(m_graph)
    /\ phase # "discover" => call = NoCall /\ returned = Missing /\ m_active = <<>>

Loaded == {i \in Ids : m_records[i].loaded}
Ordered == {m_order[k] : k \in 1 .. Len(m_order)}
OrderedBefore(k) == {m_order[j] : j \in 1 .. k - 1}

\* The order in which units are analyzed and compiled (m_order) holds every
\* loaded module exactly once, each after all the modules it imports.
DependencyFirst ==
    /\ Ordered = Loaded
    /\ \A k \in 1 .. Len(m_order) :
          /\ m_order[k] \notin OrderedBefore(k)
          /\ m_graph[m_order[k]].dependencies \subseteq OrderedBefore(k)

\* A physical file is loaded once, by whatever paths it is imported: no two
\* nodes of the graph stand for the same file (docs/architecture.md
\* "deduplicates physical files").
PhysicalFilesOnce ==
    \A i, j \in Ids : disk.at[m_graph[i].path] = disk.at[m_graph[j].path] => i = j

\* Reference for resolveImport: a file beside the importer hides every
\* configured directory; otherwise the first directory that has the name wins.
FirstWith(dirs, name) ==
    LET has == {k \in 1 .. Len(dirs) : disk.at[[dir |-> dirs[k], name |-> name]] # Absent}
    IN  IF has = {} THEN Absent
        ELSE disk.at[[dir |-> dirs[CHOOSE k \in has : \A j \in has : k <= j], name |-> name]]
ImportedFile(owner, name) ==
    LET beside == disk.at[[dir |-> owner.dir, name |-> name]]
    IN  IF beside # Absent THEN beside ELSE FirstWith(m_import_paths, name)

\* When discovery succeeds the graph is exactly the import relation of the
\* files: the edges of a node are the files its import statements resolve to,
\* every root is a node, and every node is reachable from a root.
GraphIsImportRelation ==
    phase = "ready" =>
        /\ \A i \in Ids :
              LET file == disk.at[m_graph[i].path]
                  names == {disk.imports[file][k] : k \in 1 .. Len(disk.imports[file])}
              IN  {disk.at[m_graph[d].path] : d \in m_graph[i].dependencies} =
                     {ImportedFile(m_graph[i].path, n) : n \in names}
        /\ \A k \in 1 .. Len(roots) : findFile(roots[k]) \in Loaded
        /\ Ids = UNION {gather(findFile(roots[k])) : k \in 1 .. Len(roots)}

\* The parser of a module knows the type aliases of its whole import closure
\* and of no other file: record.aliases lists exactly their bindings.
AliasesFollowImports ==
    \A i \in Loaded :
        m_records[i].aliases =
           {b \in 1 .. Len(m_alias_bindings) :
               m_alias_bindings[b] \in {disk.at[m_graph[d].path] : d \in gather(i)}}

\* One element for each byte of each file of the graph.
BytesOf(i) == {i} \X (1 .. disk.size[disk.at[m_graph[i].path]])
BytesRead == UNION {BytesOf(i) : i \in Ids}

\* The bytes accounted for are exactly those of the files read, each counted
\* once, and the remainder MaxTotalBytes - m_total_bytes that loadFile computes
\* unsigned never wraps.
BudgetRespected ==
    /\ m_total_bytes = Cardinality(BytesRead)
    /\ m_total_bytes <= MaxTotalBytes

\* A unit is handed to the compiler only after a discovery that succeeded, never
\* from what a failed one left, and only when everything it imports, directly or
\* not, has been analyzed and published.
AnalyzedAfterDependencies ==
    \A i \in Ids : m_records[i].taken =>
        /\ phase = "ready"
        /\ \A d \in gather(i) \ {i} : m_records[d].completed

ImportsFile(i, target) ==
    LET file == disk.at[m_graph[i].path]
    IN  \E k \in 1 .. Len(disk.imports[file]) :
            ImportedFile(m_graph[i].path, disk.imports[file][k]) = target
CycleReported == error' = "cycle" /\ phase = "discover"
ActiveChainLeadsBack ==
    \E first \in 1 .. Len(m_active) :
        /\ disk.at[call] = disk.at[m_graph[m_active[first].id].path]
        /\ ImportsFile(Top.id, disk.at[call])
        /\ \A k \in first .. Len(m_active) - 1 :
              ImportsFile(m_active[k].id, disk.at[m_graph[m_active[k + 1].id].path])

\* An import cycle is reported only when the imports of the files on the
\* active chain really lead back to the file being entered.
CycleIsReal == [][CycleReported => ActiveChainLeadsBack]_vars

\* prepare always ends, with a complete graph or with an exception, on cyclic
\* and on oversized inputs too.
PrepareTerminates == phase = "discover" ~> phase # "discover"

\* docs/project-manifest.md and docs/language-spec.md bound the import graph
\* to a number of import levels: no accepted graph has a longer import chain.
ImportLevelsBounded ==
    phase = "ready" =>
        ~ \E chain \in [1 .. MaxDepth + 1 -> Ids] :
              \A k \in 1 .. MaxDepth : chain[k + 1] \in m_graph[chain[k]].dependencies
=============================================================================
