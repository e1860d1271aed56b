---------------------------- MODULE ProjectBuild ----------------------------
(***************************************************************************)
(* The two drivers of discc on top of the module loader: `discc build'     *)
(* (ProjectBuild.cpp, buildProject) compiles every unit of the import      *)
(* graph and links the objects; `discc file' (CompilerDriver.cpp,          *)
(* runCompiler without a shared loader) checks the imported units and      *)
(* compiles one.  Both run units through the same loop of runCompiler:     *)
(* take, analyze, complete, warn, lower, emit.                             *)
(*                                                                         *)
(* Whether analysis, a warning under -Werror, code generation or a write   *)
(* fails is a choice.  `content' says what is on disk at a path: Old (left *)
(* by an earlier build, or nothing), Torn (a write that failed midway),    *)
(* Image (the linked output) or the id of the unit an object came from.    *)
(***************************************************************************)
EXTENDS ModuleLoader

CONSTANTS
    Layouts   \* output paths: [objects : Seq(Path), binary, assembly, manifest]

Old   == 0
Torn  == MaxFiles + 1
Image == MaxFiles + 2

\* objectName invents a path for every source there can be.
ASSUME BuildAssumption ==
    \A l \in Layouts :
        /\ l.objects \in Seq(Path) /\ Len(l.objects) >= MaxFiles
        /\ l.binary \in Path /\ l.assembly \in Path \cup {NoCall} /\ l.manifest \in Path

VARIABLES
    mode, check,       \* "build" or "compile"; --check
    target,            \* "gsu" has a code generator, "spc700" has none
    layout,            \* where this invocation writes
    step,              \* position in the driver
    sources,           \* project.sources, then the discovered implementations
    unit, stage,       \* position in the unit loop and inside runCompiler
    content,           \* what each path holds
    written,           \* history: the paths opened for writing
    status             \* exit status, -1 while running

driver == <<mode, check, target, layout, step, sources, unit, stage, content, written, status>>
fixed  == <<mode, check, target, layout>>
buildVars == <<vars, driver>>

-----------------------------------------------------------------------------
samePath(p, q) == SameFile(p, q)
KnownIn(p, list) == \E k \in 1 .. Len(list) : samePath(p, list[k])

BuildInit ==
    /\ Init
    /\ mode \in {"build", "compile"} /\ check \in BOOLEAN /\ target \in {"gsu", "spc700"}
    /\ layout \in Layouts
    /\ step = "start" /\ sources = <<>> /\ unit = 1 /\ stage = "take"
    /\ content = [p \in Path |-> Old] /\ written = {} /\ status = -1

Exit(code) ==
    /\ step' = "done" /\ status' = code
    /\ UNCHANGED <<mode, check, target, layout, sources, unit, stage, content, written>>

\* The arguments: .dc implementations, each physical file once; without a
\* backend only --check is possible.
SourcesAccepted(rs) ==
    /\ \A k \in 1 .. Len(rs) : ~isInterface(rs[k])
    /\ \A j, k \in 1 .. Len(rs) : j < k => ~samePath(rs[j], rs[k])
    /\ rs # <<>>

StartRejected ==
    /\ step = "start" /\ mode = "build"
    /\ \E rs \in RootLists : ~SourcesAccepted(rs) \/ (target # "gsu" /\ ~check)
    /\ Exit(1) /\ UNCHANGED vars

Start ==
    /\ step = "start"
    /\ \E rs \in RootLists, dirs \in SearchLists :
          /\ IF mode = "build" THEN SourcesAccepted(rs) /\ (target = "gsu" \/ check)
                               ELSE Len(rs) = 1
          /\ prepare(rs, dirs)
          /\ sources' = rs
    /\ step' = "discover"
    /\ UNCHANGED <<fixed, unit, stage, content, written, status>>

Discover == step = "discover" /\ Discovery /\ UNCHANGED driver

\* Mutant: the driver starts over when discovery throws.
DiscoveryFailed_Retries ==
    /\ step = "discover" /\ phase = "idle" /\ step' = "start"
    /\ UNCHANGED <<fixed, sources, unit, stage, content, written, status, vars>>
DiscoveryFailed == step = "discover" /\ phase = "idle" /\ Exit(1) /\ UNCHANGED vars

-----------------------------------------------------------------------------
\* Implementations that discovery added are appended, in dependency order.
NewSources ==
    {k \in 1 .. Len(implementationOrder) : ~KnownIn(implementationOrder[k], sources)}
AllSources == sources \o Subsequence(implementationOrder, NewSources)
Objects(list) == [k \in 1 .. Len(list) |-> layout.objects[k]]
Outputs(list) == Objects(list) \o <<layout.binary>>
                   \o (IF layout.assembly = NoCall THEN <<>> ELSE <<layout.assembly>>)

\* Mutant: only the sources named in the manifest are protected.
OutputsAccepted_ManifestOnly(list) ==
    LET outs == Outputs(list) IN
    /\ \A k \in 1 .. Len(outs) : ~samePath(outs[k], layout.manifest) /\ ~KnownIn(outs[k], sources)
    /\ \A j, k \in 1 .. Len(outs) : j < k => ~samePath(outs[j], outs[k])
OutputsAccepted(list) ==
    LET outs == Outputs(list) IN
    /\ \A k \in 1 .. Len(outs) : ~samePath(outs[k], layout.manifest) /\ ~KnownIn(outs[k], sources)
    /\ \A j, k \in 1 .. Len(outs) : j < k => ~samePath(outs[j], outs[k])
    /\ \A k \in 1 .. Len(outs), p \in sourcePaths : ~samePath(p, outs[k])

PlanRejected ==
    /\ step = "discover" /\ phase = "ready" /\ mode = "build"
    /\ ~check /\ ~OutputsAccepted(AllSources)
    /\ Exit(1) /\ UNCHANGED vars

Plan ==
    /\ step = "discover" /\ phase = "ready"
    /\ mode = "build" => check \/ OutputsAccepted(AllSources)
    /\ sources' = IF mode = "build" THEN AllSources ELSE sources
    /\ step' = "units" /\ unit' = 1 /\ stage' = "take"
    /\ UNCHANGED <<fixed, content, written, status, vars>>

-----------------------------------------------------------------------------
\* The units that are not the file to compile.
Others == {k \in 1 .. Len(analysisOrder) : ~samePath(analysisOrder[k], sources[1])}

\* The units in the order runCompiler is invoked on them.  In compile mode the
\* input comes last, after its dependencies.
\* Mutant: the units run in the order of the manifest.
Units_ManifestOrder == sources
Units ==
    IF mode = "build" THEN analysisOrder
    ELSE Subsequence(analysisOrder, Others) \o sources

\* Index in sources of the implementation at path p (0 if there is none).
SourceIndex(p) ==
    LET found == {k \in 1 .. Len(sources) : samePath(p, sources[k])}
    IN  IF found = {} THEN 0 ELSE CHOOSE k \in found : \A j \in found : k <= j

AtUnit(s) == step = "units" /\ unit <= Len(Units) /\ stage = s
Listed(p) == mode = "compile" \/ isInterface(p) \/ SourceIndex(p) # 0
UnitInput == IF mode = "build" /\ ~isInterface(Units[unit])
             THEN sources[SourceIndex(Units[unit])] ELSE Units[unit]
UnitId == findFile(UnitInput)
UnitEmits == /\ ~check
             /\ IF mode = "build" THEN ~isInterface(Units[unit]) ELSE unit = Len(Units)
UnitOutput == IF mode = "build" THEN layout.objects[SourceIndex(Units[unit])]
              ELSE layout.objects[1]

NextUnit ==
    /\ unit' = unit + 1 /\ stage' = "take"
    /\ UNCHANGED <<fixed, step, sources, status>>
To(s) == stage' = s /\ UNCHANGED <<fixed, step, sources, unit, content, written, status>>

UnitTake ==
    /\ AtUnit("take")
    /\ IF Listed(Units[unit]) THEN take(UnitInput) ELSE LogicError("unlisted")
    /\ IF error' = "none" THEN To("analyze") ELSE Exit(1)

AnalysisFails == AtUnit("analyze") /\ Exit(1) /\ UNCHANGED vars

UnitComplete ==
    /\ AtUnit("analyze")
    /\ complete(UnitInput)
    /\ IF error' = "none" THEN To("backend") ELSE Exit(1)

\* A warning under -Werror, IR lowering, verification, the spill check.
BackendFails == AtUnit("backend") /\ Exit(1) /\ UNCHANGED vars

UnitChecked ==
    /\ AtUnit("backend") /\ ~UnitEmits
    /\ NextUnit /\ UNCHANGED <<content, written, vars>>

UnitOutputAccepted ==
    /\ target = "gsu"
    /\ \A d \in gather(UnitId) : ~samePath(m_graph[d].path, UnitOutput)
    /\ ~samePath(UnitOutput, layout.manifest)

EmitRejected ==
    /\ AtUnit("backend") /\ UnitEmits /\ ~UnitOutputAccepted
    /\ Exit(1) /\ UNCHANGED vars

Emit ==
    /\ AtUnit("backend") /\ UnitEmits /\ UnitOutputAccepted
    /\ content' = [content EXCEPT ![UnitOutput] = UnitId]
    /\ written' = written \cup {UnitOutput}
    /\ NextUnit /\ UNCHANGED vars

\* The stream fails after the file was opened (and so truncated).
\* Mutant: a failed write does not stop the build.
EmitTorn_Ignored ==
    /\ AtUnit("backend") /\ UnitEmits /\ UnitOutputAccepted
    /\ content' = [content EXCEPT ![UnitOutput] = Torn]
    /\ written' = written \cup {UnitOutput}
    /\ NextUnit /\ UNCHANGED vars
EmitTorn ==
    /\ AtUnit("backend") /\ UnitEmits /\ UnitOutputAccepted
    /\ content' = [content EXCEPT ![UnitOutput] = Torn]
    /\ written' = written \cup {UnitOutput}
    /\ step' = "done" /\ status' = 1
    /\ UNCHANGED <<fixed, sources, unit, stage, vars>>

-----------------------------------------------------------------------------
UnitsFinished == step = "units" /\ unit > Len(Units)

Checked ==
    /\ UnitsFinished /\ (check \/ mode = "compile")
    /\ Exit(0) /\ UNCHANGED vars

StartLink ==
    /\ UnitsFinished /\ mode = "build" /\ ~check
    /\ step' = "link"
    /\ UNCHANGED <<fixed, sources, unit, stage, content, written, status, vars>>

\* runLinker: it may fail before, during or after writing the binary; the
\* assembly listing is written last.
LinkFails == step = "link" /\ Exit(1) /\ UNCHANGED vars

LinkTorn ==
    /\ step = "link"
    /\ \/ /\ content' = [content EXCEPT ![layout.binary] = Torn]
          /\ written' = written \cup {layout.binary}
       \/ /\ layout.assembly # NoCall
          /\ content' = [content EXCEPT ![layout.binary] = Image, ![layout.assembly] = Torn]
          /\ written' = written \cup {layout.binary, layout.assembly}
    /\ step' = "done" /\ status' = 1
    /\ UNCHANGED <<fixed, sources, unit, stage, vars>>

Link ==
    /\ step = "link"
    /\ LET outs == {layout.binary} \cup ({layout.assembly} \ {NoCall}) IN
       /\ content' = [p \in Path |-> IF p \in outs THEN Image ELSE content[p]]
       /\ written' = written \cup outs
    /\ step' = "done" /\ status' = 0
    /\ UNCHANGED <<fixed, sources, unit, stage, vars>>

Finished == step = "done" /\ UNCHANGED buildVars

BuildStep ==
    \/ StartRejected \/ Start \/ Discover \/ DiscoveryFailed \/ PlanRejected \/ Plan
    \/ UnitTake \/ AnalysisFails \/ UnitComplete \/ BackendFails
    \/ UnitChecked \/ EmitRejected \/ Emit \/ EmitTorn
    \/ Checked \/ StartLink \/ LinkFails \/ LinkTorn \/ Link
BuildNext == BuildStep \/ Finished

\* One thread runs the driver from start to exit.
BuildSpec == BuildInit /\ [][BuildNext]_buildVars /\ WF_buildVars(BuildStep)

-----------------------------------------------------------------------------
\* The std::logic_error branches of the loader and of buildProject are
\* unreachable: both drivers take every unit once, after its dependencies were
\* published, and publish it once, whatever order the sources are listed in
\* and by whatever path a file is reached.
DriversKeepProtocol == error \notin {"transfer", "dependencies", "publish", "unlisted"}

\* "Never link stale objects after a failure": when the linker starts, each
\* implementation of the graph has exactly one object in the link list, and
\* this build wrote it, completely; and a successful exit leaves no output of
\* this build torn and no unit unpublished.
LinkOnlyThisBuild ==
    /\ step = "link" =>
        /\ Len(sources) = Cardinality({i \in Ids : ~m_graph[i].is_interface})
        /\ {content[layout.objects[k]] : k \in 1 .. Len(sources)} =
              {i \in Ids : ~m_graph[i].is_interface}
    /\ step = "done" /\ status = 0 =>
        /\ \A w \in written : content[w] # Torn
        /\ \A i \in Ids : m_records[i].completed

\* No file of the import graph and no manifest is ever opened for writing,
\* under any of its names; --check writes nothing at all.
InputsPreserved ==
    /\ \A w \in written : ~samePath(w, layout.manifest) /\ \A p \in sourcePaths : ~samePath(w, p)
    /\ check => written = {}

\* Every invocation ends with an exit status.
BuildTerminates == <>(step = "done")
=============================================================================
