# A TLA+ verification of DiscoC

DiscoC is a compiler toolkit for the SuperFX/GSU processor: `discc` compiles `.dc` modules to
relocatable objects, `discas` assembles, `discld` links, and `discc build` drives a whole project.
Everything runs in one thread. What is hard here is not concurrency between threads but long
sequences of dependent steps: recursive discovery of an import graph, a protocol between the loader
and its drivers, failures and torn files halfway through a build, two-pass layouts that recompute what
an earlier pass decided, repeated rewrites of a register allocation under a work budget, parallel copies
emitted one by one, a dozen SSA passes that each trust what the one before left, and an emitter that
leaves out instructions because it believes to know what the machine holds.

## 1. Inventory

| component (source) | state | operations | interacts with | what makes it correct |
|---|---|---|---|---|
| Module loader (`ModuleLoader.cpp`) | `m_graph`, `m_records` (loaded / taken / completed), `m_active` stack, `m_order`, names, aliases, byte total | `prepare`, recursive `loadFile`, `resolveImport`, `take`, `complete`, order queries | file system, lexer and parser (verdicts), both drivers | one node per physical file; dependency-first order; real cycles only; termination; aliases follow imports; nothing left after an exception; publish before use |
| Project build and compiler driver (`ProjectBuild.cpp`, `CompilerDriver.cpp`) | source list, output paths, position in the unit loop, files on disk | plan outputs, check collisions, run units, link | loader, analyzer, back end, linker | protocol of the loader kept; never link stale or torn objects; inputs never overwritten; success means complete outputs |
| Memory map (`GsuMemoryMap.hpp`) | none | `bank`, `region`, validators | linker | - |
| Object format (`ObjectFile.*`, `BitmapConfig.hpp`) | sections, symbols, relocations | `validate`, codec | assembler, code generator, linker | relocation operands inside the section and apart |
| Linker and startup code (`LinkerDriver.cpp`, `RuntimeInitialization.hpp`) | images, bases, final addresses, stack floor | load, lay out RAM/code/data, place, relocate, write | objects, memory map | every operand holds the real address; blocks aligned; regions apart; stack floor above data; startup rebuilds the image |
| Register allocator (`LinearScanAllocator.cpp`) | locations, interference, affinity, work counter | colour, spill, swap chains, move slots; `run`, `runEager`, spare registers | control flow, code generator | values live together have different homes, also after the improvement was cut short |
| PHI copies (`IRCodeGenerator.cpp`, `IRBackendOptimization.cpp`) | pending moves, R0/R6, machine stack | pick a ready move, break a cycle, emit; predict the use of R6 | allocator | the effect is the parallel assignment; the prediction is safe |
| Control flow (`IRControlFlow.cpp`) | reachability, dominators, tree, frontiers, loops, liveness; the block structure | bounded fixpoint iterations; expose hardware loops, split PHI edges, lay out hot blocks | optimizers, allocator, code generator | equal to the path-based definitions; round limits never hit; rewrites keep the program |
| IR, lowering, verifier (`IR.cpp`) | the function under construction, current block, jump targets, loop scopes | lower each statement and expression; verify shape, dominance, types, scopes | analyzer, every SSA pass | the lowered module means what the source means; accepted by the verifier |
| SSA optimizers (`IR*Optimizer.cpp`, `IRScalarFold.hpp`, `IRDivModFusion.cpp`) | lattice facts, worklists, value tables, known bits, PHI webs | promote, propagate, fold, number, hoist, reduce, inline, share, compact | IR, control flow | same observable behaviour after every pass; verifier accepts every result |
| Code generator, spill cache, stack credit (`IRCodeGenerator.cpp`, `IR{Integer,Pointer}CodeGenerator.cpp`, `GSUSpillCache.hpp`, `GSUStackCheckCredit.hpp`) | register copies, R0 snapshot, address latch, proven credit, remaining uses | emit one instruction, call, division, loop, prologue, epilogue; bind a label | allocator, control flow | beliefs never stale, checks never skipped wrongly |
| Machine scheduler (`GSUMachineScheduler.cpp`) | decoded instructions, slots, symbol and relocation offsets | fill delay slots, split immediates, drop selector prefixes, shorten jumps, publish | object format | scheduled code does what the generated code does from every entry |
| Assembler and listing (`Assembler.cpp`, `AssemblyGenerator.cpp`) | lines, label offsets, relaxed branches | parse pass, relaxation rounds, output pass; print an object | object format | branches land; relaxation ends; a listing reassembles to its object |
| Address proofs, AST optimizer, lexer, parser, analyzer, interface export, data segment, manifests | trees, texts, interval facts | sequential walks | each other | language semantics |

`PROJECT.json` lists all components with their status, and the hazards: the places where a defect
would need an unusual sequence of steps to show.

## 2. Modules

    ModuleLoader  <-- ProjectBuild          (EXTENDS: the drivers run the loader's actions)
         ^-- ModuleLoaderProofs     ^-- ProjectBuildProofs   (the second EXTENDS the first)
    GsuMemoryMap, ObjectFormat <-- Linker   (EXTENDS)
         ^-- LinkerProofs
    RegisterAllocator <-- RegisterAllocatorProofs
    ParallelCopy <-- PhiCopies              (INSTANCE ... WITH: the abstract and the detailed copies)
         ^-- PhiCopiesProofs
    ControlFlow <-- BlockTransforms         (EXTENDS: each rewrite runs a fresh analysis)
         ^-- ControlFlowProofs
    BlockTransforms, ControlFlowProofs <-- BlockTransformsProofs
    SsaIr <-- IRLowering, IRVerification, IRExecution <-- SourceSemantics
         ^-- GlobalOptimizer <-- ConditionalOptimizer, LocalOptimizer, ValueOptimizer <-- CompactOptimizer
    all of these <-- MiddleEnd              (EXTENDS: one step per pass)
    CodeEmission <-- CodeEmissionProofs
    GsuMachine <-- MachineScheduler, Assembler <-- AssemblyListing
    MachineScheduler, AssemblyListing <-- BackEnd   (EXTENDS: one step per pass)
    LeftFold                                (loops as folds, for TLC)
    MCxxx                                   (the instance of module xxx for TLC)

Operators named `Definition_Variant` next to a definition are deliberately wrong variants of it; they
document which mistake each property would reveal, and are used by no specification.

### ModuleLoader

Variables carry the names of the C++ members. `loadFile` is recursive; its call stack is `m_active`
(a frame holds the file id, the next import and the aliases inherited so far), `call` is the path it is
entered with and `returned` the id it hands back. Each exit of the function is an action:
`LoadKindMismatch`, `LoadCycle`, `LoadAgain`, `LoadLimit`, `LoadRejected` (unreadable, too large, bad
preamble), `LoadPreamble` (push), `ImportUnresolved`, `ImportCall`, `ImportRefused` (an inherited alias
conflicts or is one too many), `ImportReturned`, `BodyRejected`, `FileLoaded` (pop). `LoadRoot`,
`RootLoaded` and `Discovered` are the loop of `prepare`; `Fail` is its catch block. `take` and `complete`
are called by the client with any path in any order, whenever `prepare` is not running: they do not ask
whether it succeeded, so it is the catch block that keeps the units of a failed discovery from them.

The file system `disk` says which physical file each path leads to (several paths may lead to one, by
spelling or by hard link), what it imports, which module it declares, its size, how many aliases it
declares, whether one of them has a name that other files use too (`shared`), and whether reading or
parsing it fails. Texts do not exist in the model. `BudgetRespected` counts bytes as elements of a set,
one for each byte of each file of the graph, so that the sum needs no recursion.

### ProjectBuild

Extends the loader with the two drivers: `discc build` (mode "build") and `discc file` (mode
"compile"). A unit passes the stages take, analyze, back end; analysis, warnings under `-Werror`,
lowering, verification and every write may fail, and a failed write leaves a torn file. `content`
records which unit an object on disk came from, or that an older build left it. The lists the drivers
filter (implementations of the order, units, other sources) are subsequences, given by their positions.

### GsuMemoryMap, ObjectFormat, Linker

`Linker` is `runLinker` phase by phase: options, load, static RAM, code, data, placement, relocation
(one patch per step), output. A byte of the image is a cell whose tag names the input byte it came from
and whose value is "own" until a relocation writes a part of an address into it; the properties locate
symbols by tag, never by the arithmetic of the code. `Stores` is the list of stores that
`makeRuntimeInitialization` generates. `validate` is what `ObjectFile::read` guarantees; caps on the
size of one object are left out.

### RegisterAllocator

The input is an interference graph with affinities and the order `rank` of the sorted worklist. `Color`
and `Spill` handle one value per step; `Swap...` and `Reslot...` are the two loops of
`improvePhiLocations`, with its work counter charged as in the code, so that the budget can end the
improvement inside any round.

### PhiCopies, ParallelCopy

Every instruction `emitPhiCopies` emits is executed at once on a memory whose cells start out holding
their own names. `BreakInRegister` and `BreakOnStack` open a cycle, the `Emit...` actions are the four
emission cases. `phiCopiesUseR6` is the prediction of `IRBackendOptimization.cpp`. That PHI results have
distinct homes is an assumption here and a theorem of the allocator.

`ParallelCopy` is the promise: all results take their operands' values in one step, nothing else
changes, the stack is as before, and it happens. `ImplementsParallelCopy` is the refinement. The
abstract locations are the homes as they were before the first copy until the last pending move is
emitted, and the real ones from then on; every intermediate state is a stutter.

### ControlFlow

The constructor of `IRControlFlow` on one function: `Begin` (limits, edges), `Visit` (one pop of the
reachability worklist), `DominatorRound` / `DominatorBlock` (the round-robin iteration, one block per
step), `BuildTree`, `BuildFrontier`, `OpenLoop` / `GrowLoop` (natural loops, one pop per step),
`LivenessRound` / `LivenessBlock`, `Finish`. An instruction keeps its opcode class, result, operands,
targets and loop fields. Edge vectors without duplicates are sets and worklists are popped in any
order, which only adds behaviours. Path-based notions (`OnEveryPath`, `ReachesAround`, `Live`) are
stated with closed sets of blocks: a block is reached by no path avoiding d if some set that execution
cannot leave keeps it out.

### BlockTransforms

`exposeHardwareLoops`, `splitPhiEdges` and `layoutHotBlocks` with an analysis before each of the last
two, and one of the result. The first two are one action each. `layoutHotBlocks` sorts the loops and
moves them one after the other: `placeLoop` is the body of that loop for the next one in the sorted
order, `ids` the place each block has so far, `placed` the loops it has been through, and
`layoutHotBlocks` the remap at the end. `source` and `origin` are history: they remember which block or
edge of the original function a block stands for. Block numbers are counted, not folded: the place of a
block is the number of blocks that come before it, which is what pushing them one by one gives.

`Verified` is what `IRVerifier::verifyFunction` checks of a function, as far as the rewrites rely on it:
the entry is block 0, terminators end and PHIs start their blocks, targets exist, each PHI names
each predecessor, setups and ends of hardware loops come in pairs, and dominate each other as the
scope stacks demand. It is an assumption on the functions the run starts from; TLC evaluates it for each
of them. A function holds either only lowered loops or only exposed ones: `exposeHardwareLoops` runs once,
before any PHI exists, on all loops the lowerer made, and the loops that `IRCompactOptimizer` makes later
are born exposed. The passes that run between the first rewrite and the other two are represented by
starting also from functions that already hold PHIs and exposed loops.

### SsaIr, IRLowering, IRVerification and the optimizers

`SsaIr` holds the types, instructions and functions of `IR.hpp`, the control-flow facts every pass asks
for and the shared evaluator `IRScalarFold`. `IRLowering` is `IRLowerer`, one operator per visitor, with
the lowerer's members in one record. `IRVerification` is `verifyFunction`, one operator per check.
`GlobalOptimizer` (promotion, inlining, hoisting, strength reduction, predicates),
`ConditionalOptimizer` (sparse conditional propagation with its first-in first-out worklist and the
rewrite after it), `LocalOptimizer`, `ValueOptimizer` (known bits, numbering, recurrences, lifetimes,
quotient and remainder) and `CompactOptimizer` (shared tails, counted loops) are the passes. Budgets no
small program reaches are left out except the inliner's. Whether a lifetime split pays (the cost model)
is a free choice.

`MiddleEnd` runs them in the order of `IRGlobalOptimizer::run` for each policy; each pass is an action.
The rounds of `scalarizeToFixedPoint` are steps too: `Scalarize` promotes, the clean-up passes follow, and
`Converge` starts another round while memory accesses go away, 32 at most; the round limit is an error.
Two references are independent of the passes: `SourceSemantics` evaluates the syntax tree, and
`IRExecution` executes the IR with 16-bit words. They share only memory and word arithmetic, never the
compiler's evaluator.

### CodeEmission

The emission of one function at O2. The generator's members (`copies`, `spare`, `remaining`, `acc`,
`latch`, `credit`) and the machine (`reg`, `ram`, `at`, `stack`, `margin`, `running`) are one record
`st`; a location holds the name of a value. `BeginInstruction` puts the operations of an instruction on
`todo`, each `Emit...` action emits the next one and executes it at once. At a label or a block another
path joins: the machine then forgets what only the straight line guarantees, and the distance from the
stack floor is any of `Margins`. A callee clobbers what its mask says and may write through pointers.
`spareRegisters` and `LiveAcrossCall` are the allocator's. The blocks are those the verifier accepts
(`Sound`: operation shapes, definitions before uses, loops left only when open), their homes come from
`allocatableRegisters`. Inside an open hardware loop R12 and R13 are that loop's own and the stack holds
the two words of the one around it; deeper nesting repeats this level and is not counted. Signed
division is modelled as emitted outside the plotting context; far and ROM pointers, plotting and
switches are not in it. Operands are values in registers, frame words or constants that were loaded:
the immediate, INC/DEC, unary and pointer-offset forms of `emitAllocatedOperation` and the store through
an ephemeral address (`emitStoreIndirect`, first branch) are left out, and an address that has a register
counts as proven (`provenAddress`), so that no pointer check is emitted.

### GsuMachine, MachineScheduler, Assembler, AssemblyListing, BackEnd

`GsuMachine` executes bytes as the repository's own instruction model (`tests/GSUInstructionModel.hpp`)
does, with the one-byte prefetch, selector and ALT prefixes, the address latch of SBK, and a fault on a
fetch outside the payload. `MachineScheduler` is
`GSUMachineScheduler::run` loop by loop: pixel prefixes, ROM waits, slot filling, fault stubs,
compaction, shortening, immediate slots, publication with all offsets remapped. `Assembler` has the
parse pass, one action per relaxation round and the output pass; operands are records, not text.
`AssemblyListing` prints an object as lines or refuses it. In `BackEnd` a job is generated object code
(scheduled if its level asks for it, executed before and after, exported, reassembled) or a source for
`discas`. Every compiled object is exported, at every level, as the drivers do. `ListingExact` says that
the assembled listing is the object again, unless the exporter refused an object in which the scheduler
had split an immediate load; section 6 is about that refusal.

## 3. Runs

| run | instance | shows |
|---|---|---|
| `module_loader` | all import relations of three files (two imports per file, repetitions and cycles); two directories with hard links, missing and irregular entries, four faults, sizes 1-3; files that declare one alias name or too many aliases; limits of 2-4 | order, single loading, resolution, aliases, budget, rollback, publication, real cycles, termination |
| `import_levels` | a chain of three files, limit 2 | **violation**: see section 6 |
| `project_build` | three modules with up to two imports, a hard link, seven output layouts, both modes, both targets, all failures | loader protocol, no stale or torn object is linked or left by a success, inputs preserved, termination |
| `linker` | about 9,400 links: two objects with all mixes of sizes, alignments and cache hints; static RAM, bitmap, RAM code and stack at touching addresses; each relocation type against each kind of target; bank ends | addresses, layout, disjointness, stack floor, startup |
| `register_allocator` | all interference graphs on four values, up to two weighted affinity edges, two colouring orders, two registers, work budgets of 18 | proper homes at all times, improvement pays |
| `phi_copies` | all lists of up to four PHIs over four registers, and over two registers, two slots and a constant | refinement of the parallel assignment (with its end), safe prediction of R6 |
| `control_flow` | all 2,401 graphs of four blocks with at most two targets a block, and about 2,300 valid SSA functions of three blocks with a PHI and three values | dominators, tree, frontiers, loops and live sets are exact; the analysis ends within its round limits |
| `block_transforms` | connected four-block graphs with two loops or more, three-block functions with a PHI, hardware loops nested, in a row, around and inside conditionals and loops, with and without PHIs; limits of 7 blocks and 2 loops | program kept, PHI edges private, loops contiguous, hardware loops paired |
| `middle_end` | 14 source programs, each made to reach certain passes, with inputs at the edges of their branches and ranges, under four policies (speed or size, pointer compaction or none): 56 jobs | every pass keeps the source's meaning and leaves a function the verifier accepts |
| `code_emission` | five values with every proper choice of homes among two registers and two frame words (a third register stays spare) and constants; blocks with a binary operation, comparison, division, load, store, call, fill, loops and return, alone, inside an open loop and after a block that ends with credit; distances from the floor 0-12 | no push below the floor, every operand is the value meant, stores land; 835,200 states |
| `back_end` | generated objects around one branch, jump or loop with every small filler, with extra entries; every opcode under every prefix for the listing; every instruction form, and sources with branches on both sides of the short range | same behaviour after scheduling, branches land, listings of scheduled and unscheduled objects reassemble exactly or hold a split immediate and are refused, relaxation ends |
| `assembly_export` | objects with an immediate load at a branch target, the one of `GSUMachineSchedulerTests.cpp:253` among them | **violation**: see section 6 |

Why the bounds suffice. The loader's interesting shapes (diamond, cycle of one, two and three, two names
for one file, a limit hit at the root or below) need at most three files; limits are constants of the
module, so 2 and 3 behave as 32 and 128 do. Two objects show every interaction between a block and the
padding before the next one; the linker's pairs of regions are all compared at touching and overlapping
addresses, with the real memory map. A chain swap that must follow a component beyond its first
neighbours needs four vertices. Cycles of two and three moves, two disjoint cycles, and a cycle with a
tail need at most four PHIs. Four blocks give irreducible graphs, nested loops, two latches of one
header, unreachable predecessors, and block orders against the flow, in which the rounds advance one
edge at a time. `LoopsContiguous` holds without an exception for overlapping loops: two natural loops
with different headers are always nested or disjoint, so the test for that in `layoutHotBlocks` never
skips one. A chain of two relaxations, where the second is pushed out of reach by the first, needs
three branches. In `code_emission` a stale belief needs one instruction that creates it, one that should
end it and one that relies on it, and a third register for the cache; six instructions give room for
each, and a stack of 12 bytes lets every check succeed, be covered and fail. Removing the erasure in
`GSUSpillCache::enter` is not visible in any of these functions: every write to a register already drops
its copy, so that erasure is a second line of defence. `middle_end` is a set of chosen programs, not an
exhaustive instance.

Bounds are named constants: `MaxRoots`, `MaxImportPaths`, `MaxDepth`, `MaxFiles`, `MaxFileBytes`,
`MaxTotalBytes`, `MaxTypeAliases`, `BuiltinAliases`, `MaxLinkBytes`, `MaxWork`, `Rounds`, `MaxPredicted`, `MaxBlocks`,
`MaxValues`, `MaxEntries`, `MaxLoops`, which
exist in the code, and `Margins`, `FrameWords`, `Fuel` (steps of an execution, rounds of a loop), which bound the instances.

Fairness. All programs are sequential: once `prepare`, a driver or the emission loop is entered, nothing
but itself keeps it from its next step. `ModuleLoader` therefore has weak fairness on `Discovery` only
(the client may stop calling), `ProjectBuild`, `Linker`, `PhiCopies`, `ControlFlow` and `BackEnd` (the passes of
`discas`) on their own step. No strong fairness is used. `CHECK_DEADLOCK FALSE` appears for the allocator, the PHI copies, the
analysis, the block rewrites, the middle end and the emission, which return.

## 4. Theorems

Proved with TLAPS for every value of the constants: any number of files, objects, PHIs or blocks.

* `ModuleLoaderProofs`, first part: `LoaderInvariant`, and from it `LoaderTypes` (`TypeOK`),
  `OrderIsTopological` (`DependencyFirst`) and `UnitsFollowTheirImports` (`AnalyzedAfterDependencies`).
  `DependencyFirst` is not inductive: when a file is popped, its edges must already lead to loaded
  files, and only the file on top of the stack may gain edges. The strengthening `Structure` adds that
  dependencies of every node are loaded (`DependenciesLoaded`), that the frames of the stack are
  distinct nodes that are not loaded (`FramesOpen`), that a returned id is loaded (`ReturnedLoaded`),
  that every node came from a readable path (`FilesRead`) and that nothing is taken while discovery runs
  and nothing is left when it fails (`NothingTaken`). The closure `gather` is defined as the least closed set, so that a graph that does
  not change keeps its closures without induction.
* `ModuleLoaderProofs`, second part: `FilesAreLoadedOnce` (`PhysicalFilesOnce`), `BudgetIsRespected`
  (`BudgetRespected`), `AliasesAreThoseOfImports` (`AliasesFollowImports`), `GraphIsTheImportRelation`
  (`GraphIsImportRelation`) and the action property `ReportedCyclesAreReal` (`CycleIsReal`). They share
  the invariant `Provenance`, which says where everything in the tables came from: a node is loaded or on
  the stack (`OpenOrLoaded`); each frame was entered through the import its caller is at
  (`ChainImports`), which makes a reported cycle real; the edges of a node are its imports up to the one
  being followed (`EdgesFollowImports`); every node is reached from a root or from the stack (`Reached`);
  and the aliases inherited so far are those of the imports passed (`AliasesKnown`). `BudgetRespected`
  says that `m_total_bytes` is the number of bytes of the files read; it is inductive once that set is
  known to be finite (`BytesCounted`), because a new file is a new node and its bytes are new elements.
* `ProjectBuildProofs`: `DriversRunTheLoader` (every behaviour of the drivers is a behaviour of the
  loader's specification, so all theorems above hold of it), `LogicErrorsUnreachable`
  (`DriversKeepProtocol`), `InputsAreNeverWritten` (`InputsPreserved`) and `LinkerGetsThisBuild`
  (`LinkOnlyThisBuild`). `BuildInv` adds to the loader's invariants the kinds of nodes and roots (`Kinds`)
  and what the driver relies on between its steps: the sources the loader was prepared with
  (`Preparing`), one output per unit and none of them an input (`Planned`, `OutputsSafe`), the units
  before the current one completed and those after it untouched (`UnitLoop`), and their objects on disk
  from this build (`Emitted`). That `take` finds its imports completed follows from the topological
  order of the loader. The units are a subsequence of `m_order`; lemmas on ranks of positions
  (`RanksNumberPositions`) give their order and that none is missed or repeated.
* `LinkerProofs`: `PlacedRegionsAreDisjoint` (`RegionsDisjoint`), `StackStaysAboveFloor`
  (`StackNeverReachesData`) and `StartupCodeBuildsImage` (`StartupBuildsImage`), from `LinkInvariant`.
  The properties speak of the written image, the decision is taken earlier, on the lengths of the
  sections; `LinkInv` keeps that decision and the floor (`PlacementStands`) while relocation patches
  values and never a length.
* `LinkerProofs`, second part: `EveryByteIsPlacedOnce` (`LayoutExact`) and `RelocationsReachTheirSymbols`
  (`RelocationsPointHome`), from `LayoutInvariant`. The code does not keep the bases of the DATA blocks;
  the second pass recomputes them. `LayoutInv` therefore says that some sequence of bases exists at which
  the blocks lie, `LayoutData` extends it, and `SecondPassAgrees` shows that the recomputation finds the
  same one. A patch survives the later ones because operands of one section are apart (`validate`)
  and blocks are apart.
* `PhiCopiesProofs`: `CopiesAreParallel`, the safety part of the refinement of `ParallelCopy` (initial
  states map to initial states, each step to the copy or to a stutter), and `R6IsPredicted`
  (`R6Predicted`). `CopyInv` says that results hold their old or their new value according to whether
  their move is pending, that what an unsaved move reads is intact, and that at most one move is saved.
  The last is a counting argument: when no move is ready, each of the pending moves has its destination
  read by another one, so each by exactly one, and a saved move would have to be ready.
* `RegisterAllocatorProofs`: `HomesStayProper` (`ProperLocations`). The heart is `SwapProper`:
  exchanging two colours on a set that is closed under neighbours of these colours keeps a colouring
  proper; `ComponentFacts` shows that the component computed by the code is such a set. The theorem
  covers every interruption by the work limit, because it holds after every step.
* `ControlFlowProofs`: `DominatorsAreExact` (`DominatorsExact`) and `LivenessIsExact` (`LivenessExact`),
  both from `AnalysisInvariant`. Neither property says anything before the last round, so the invariant
  carries both sides through the rounds: the reachable blocks are the least closed set (`ReachInv`);
  dominator sets always contain the true dominators, because a dominator of a block dominates its
  predecessors (`MetCovers`); live sets never contain a dead value (`EquationsSound`); and while a round
  has changed nothing, the blocks it has passed satisfy their equations. A quiet round then makes the
  blocks that miss a dominator, or that a value is live into, a closed set, and the least closed set is
  contained in it. No induction over paths is needed.
* `ControlFlowProofs`, continued: `FrontiersAreExact` (`FrontierExact`) and `LoopsAreExact`
  (`LoopsExact`). Dominance by paths is shown to be an order in which the dominators of a block are a
  chain (`PathsChain`: if neither of two dominators were on every path to the other, the union of the two
  sets that avoid them would be closed), so ranks grow along it and the candidate of greatest rank is
  the immediate dominator (`ParentFacts`). The walk up the tree passes exactly the dominators of the
  predecessor that do not strictly dominate the join (`WalkFacts`). For the loops, `LoopInv` says of each
  header that what it has reaches a latch around it and what it misses is still on the worklist; at the
  end the blocks it misses are a set control cannot leave.
* `BlockTransformsProofs`: `FlowIsKept` (`FlowKept`), `PhiEdgesArePrivate` (`PhiEdgesPrivate`),
  `HardwareLoopsStayPaired` (`HardwareLoopsPaired`) and `LoopsAreContiguous` (`LoopsContiguous`), all from
  `TransformInvariant`, for every verified function of any size. None of the four is inductive. The
  invariant `TransformInv` consists of the analysis invariants of `ControlFlowProofs` for whatever
  function is being analysed, `Graphed` (the analysed edges are those of the function), `Verified`
  before the first rewrite and after it `Sound` (what the verifier demands of the exposed form), `FlowKept`, `PhiEdgesPrivate`, `LayoutInv` (what the order holds between two
  moves) and `Contiguous` (what the finished order means for the new block numbers).
    * Each rewrite is first described by a relation between the old and the new function, proved from its
      definition: `Renaming` (layout: a bijection of blocks that every reference follows), `Splitting`
      (a new block stands on exactly one old edge) and `Exposing` (a block becomes a chain of pieces). That
      reachability, dominance, hardware pairs and PHI operands carry over is then proved once per relation,
      not on the definitions. Paths never appear: a set of blocks that execution cannot leave in one
      function is turned into such a set of the other.
    * `LoopsNest`: two natural loops with different headers are nested or disjoint. Of the two headers, one
      dominates the other as soon as the loops share a block, and a block that reaches a latch around the
      inner header also reaches one around the outer. So the overlap test in `layoutHotBlocks` never skips a
      loop, and neither does the test for the entry: the entry is dominated by nothing else, so it can only
      head the loops it is in.
    * `PulledTogether`: moving a loop leaves the larger ones in one piece, since they are disjoint from it or
      hold it entirely, and gives the loop itself its header first. Two loops of the same size are disjoint,
      so the tie break of the sort does not matter. `ConvexInterval` turns "nothing foreign between two blocks"
      into the interval of numbers that `LoopsContiguous` speaks of.
* `CodeEmissionProofs`: `StackStaysAboveFloor` (`StackNeverOverrun`), for every code, every choice of
  homes and every room on the stack. The property is not inductive: whether a push is checked depends
  on the credit. The invariant `CreditInvariant` adds that the credit never exceeds the real distance
  from the floor (`Honest`) and that an operation in progress belongs to an instruction (`Placed`). One
  lemma per emitting operator shows that it keeps `Honest` wherever the machine runs on; the actions
  follow from these. The saturation of the credit at 65535 and the joins at labels and blocks, where
  another path brings its own distance, are the cases that matter: there only a credit of 0 is honest.
* `CodeEmissionProofs`, second part: `ValuesAlwaysArrive` (`ValuesArrive`) and `StoresAlwaysLand`
  (`StoresLand`), both from `EmissionInvariant`, for blocks of any length. Neither is inductive: that an
  operand is right depends on every operation since its value was computed. The argument:
    * `Good` says that the beliefs are facts: a copy is in its register, R0 holds its snapshot, the latch
      is the machine's last address, and stores have landed. The `...Touches` lemmas show it of each
      emitting operator together with the registers and frame words that may change.
    * An `Annotation` is what is known between two operations: contents of registers outside the cache,
      the whole stack, the values at home, whether the cache is empty. `Safe(i, o, F, G)` is what
      operation `o` asks of `F` and leaves as `G`; the `Step...` lemmas show it of the machine.
    * A `Plan` is a sequence of annotations between the operations an instruction emits. One lemma per
      kind of instruction and path builds it (`BinaryPlan`, `DivisionPlan`, `CallPlan`, ...); `Plans`
      collects them. A call's plan is indexed by the registers saved and the arguments, so it covers any
      number of both. Cached registers never appear in a plan: that they hold no value anyone needs
      is what `Unowned` and `Busy` give.
    * The invariant says that the rest of the current instruction has a plan from what the machine holds
      (`OnPlan`), and that a finished instruction leaves the values live after it at home, the frame and
      an open loop's words on the stack and the loop registers in place (`Ends`).
  `CodeAssumption` is used for what a plan starts from: operands are defined before, results are new.
  The homes in `Init` come from `allocatableRegisters`, which keeps R2 and R4 out of functions with a
  division and R4 out of those with a loop; `DivisionPlan` and `RegistersLoopPlan` need exactly that.

Assumptions: only the named `ASSUME`s of the modules (types of the constants, special values outside
the sets they extend, objects and layouts as long as the graph may get, functions the verifier has
accepted in `BlockTransforms` and, as `CodeAssumption`, blocks it has accepted in `CodeEmission`), which TLC evaluates in the runs.

Only model-checked:

* liveness, which is beyond the prover: `PrepareTerminates`, `BuildTerminates`, `AssemblyEnds`,
  `Completes`, and the end of the copies in `ImplementsParallelCopy`;
* `ImprovementPays`, which is about sums computed by folds and needs induction over data;
* `MiddleEnd` and `BackEnd`, which reach recursive operators and bitwise arithmetic that the prover
  cannot use.

## 5. Not modelled

Text processing (lexer, parser, manifest reader, column layout of listings), the semantic analyzer and
the AST optimizer are sequential walks over unbounded trees; `ProjectBuild` keeps their verdicts as
choices and `IRLowering` starts from an analyzed tree. The storage layout and the storage interference
checks of `IR.cpp`, `IRStorageOptimizer`, far and ROM pointers, string and initializer data are left
out of the middle end. Of the code generator, pointer checks with their proofs (`GSUAddressProof`),
plotting, switch tables, shared division and the cost model are left out, and so are the arithmetic
opcodes: the properties are about which location an instruction uses. Of the allocator, building the
conflict graph, `run` and `runEager`. The byte codec of objects with its legacy versions: `ObjectFormat`
starts from a decoded object, so the hazard at `ObjectFile.cpp:254` has no property. The SPC-700 target
has no behaviour beyond "no code generator".

## 6. Findings

`import_levels`: `docs/project-manifest.md` and `docs/language-spec.md` bound the graph to 32 import
levels. `loadFile` compares the depth of the recursion and returns an already loaded file before that
comparison, so a longer chain is accepted if its deeper files are listed as earlier roots. Whether a
project is accepted thus depends on the order of its sources. Nothing overflows: the recursion itself
stays within the limit.

`assembly_export`: `docs/gsu-loading.md` says of `discc --emit-asm` that assembling the export and linking
it "must produce the same payload as direct compilation, byte for byte, including delay slots and frame
operations". `planImmediateSlots` moves the opcode of an IBT or IWT into the delay slot of a jump to its
operand bytes. The exporter decodes opcode and operand as one instruction, finds the jump's label inside
it and throws "label/relocation inside instruction": the object compiles and links, and cannot be
exported. The trace is an object of the scheduler's own tests. Other split objects are
listed and reassemble exactly, which `ListingExact` covers. `docs/optimization.md` ("no multi-byte
immediate is automatically split") describes a scheduler that would not run into this; the tests expect
the split, and `back_end` shows that the split code behaves as the unsplit one.

## 7. Plan

1. `Interference` on top of `ControlFlow`: the conflict graph of `runGlobal`, composed with
   `RegisterAllocator`; `run` and `runEager`.
2. The object codec (round trip, legacy versions, limits) and the data segment.
3. `GSUAddressProof` with the pointer checks it removes, in `CodeEmission`.
4. An abstract specification of a build: discover, compile in some topological order, link.
