-------------------------------- MODULE BackEnd --------------------------------
(***************************************************************************)
(* The object code after instruction selection: discc schedules it at the  *)
(* optimizing levels, may export it as assembly, and discas turns an       *)
(* exported or hand-written source back into an object. Each pass is one   *)
(* step; a job is either generated object code or a source for discas.     *)
(***************************************************************************)
EXTENDS MachineScheduler, AssemblyListing

CONSTANTS
    Jobs,           \* generated objects and assembly sources
    Inputs,         \* register contents with which code is started
    Fuel            \* bound on the opcodes executed to compare two objects

VARIABLES
    job,            \* what this compilation or assembly started from
    stage,          \* the pass that comes next
    ins,            \* the scheduler's working list
    kept,           \* the list before slot planning (without_plans)
    out,            \* the object discc writes
    ran,            \* what running the generated and the written object showed
    lines,          \* the assembly source, with sections once parsed
    asm,            \* the assembler's tables: config, relaxed lines, first pass
    built           \* the object discas writes

vars == <<job, stage, ins, kept, out, ran, lines, asm, built>>

NoTables == [config |-> DefaultConfig, relaxed |-> {}, pass |-> <<>>]

Init ==
    /\ job \in Jobs
    /\ stage = IF job.kind = "generated" THEN "generated" ELSE "source"
    /\ ins = <<>> /\ kept = <<>> /\ ran = {} /\ asm = NoTables /\ built = job.object
    /\ out = job.object /\ lines = job.lines

\* Scheduling runs only for globally optimized objects.
DecodeStep ==
    /\ stage = "generated"
    /\ IF job.object.level \in {"O2", "Os"}
       THEN ins' = Decode(job.object) /\ stage' = "pixel"
       ELSE ins' = <<>> /\ stage' = "compiled"
    /\ UNCHANGED <<job, kept, out, ran, lines, asm, built>>

\* One loop of run(): the list it leaves and the loop that follows.
Pass(now, list, next) ==
    /\ stage = now /\ ins' = list /\ stage' = next
    /\ UNCHANGED <<job, kept, out, ran, lines, asm, built>>

PixelStep == Pass("pixel", PixelLoops(job.object, ins, 2), "rom")
RomStep == Pass("rom", RomOverlap(job.object, ins, 1), "fill")
FillStep == Pass("fill", FillSlots(job.object, ins, 2), "fault")
FaultStep == Pass("fault", FaultSelectors(job.object, ins, 1), "compact")
CompactStep == Pass("compact", CompactBranches(job.object, ins, ins, 1), "shorten")
ShortenStep == Pass("shorten", ShortenJumps(job.object, ins, 0), "plan")

Planned(object, code) ==
    LET entered == EntryIncrements(object, code, code, 2)
        split == ImmediateSlots(object, entered, entered, 1)
    IN  IF object.level = "Os" THEN split ELSE DropNestedCaches(object, split)
PlanStep ==
    /\ stage = "plan" /\ stage' = "publish"
    /\ kept' = ins /\ ins' = Planned(job.object, ins)
    /\ UNCHANGED <<job, out, ran, lines, asm, built>>
PublishStep ==
    /\ stage = "publish" /\ stage' = "load"
    /\ out' = Publish(job.object, ins, kept)
    /\ UNCHANGED <<job, ins, kept, ran, lines, asm, built>>

\* The code of an object as the linker patches it (Linker.tla has the rules).
Linked(object) ==
    LET local == {r \in object.rels : r.section = "CODE" /\ (\E s \in object.syms : s.name = r.sym)}
        address(r) == LET s == CHOOSE x \in object.syms : x.name = r.sym IN Word(Origin + s.off)
        patched == UNION {{<<r.off + 2, address(r) % 256>>, <<r.off + 3, address(r) \div 256>>} : r \in local}
    IN  [b \in DOMAIN object.code |->
            IF \E p \in patched : p[1] = b THEN (CHOOSE p \in patched : p[1] = b)[2] ELSE object.code[b]]
\* What a run of an object from its start, or from a symbol, shows.
Shown(object, code, name, regs) ==
    LET start == IF name = NoName THEN 0 ELSE (CHOOSE s \in object.syms : s.name = name).off
    IN  Observe(Run([PowerOn(regs) EXCEPT !.reg[15] = Origin + start], code, Fuel))
\* The written object is linked and run, next to the one it was made from.
RunStep ==
    /\ stage = "load" /\ stage' = "compiled"
    /\ ran' = {[before |-> Shown(job.object, pair[1], name, regs), after |-> Shown(out, pair[2], name, regs)] :
                   pair \in {<<Linked(job.object), Linked(out)>>}, regs \in Inputs,
                   name \in {NoName} \cup {s.name : s \in {x \in CodeSymbols(job.object) : ~x.name.private}}}
    /\ UNCHANGED <<job, ins, kept, out, lines, asm, built>>

\* discc --emit-asm, at any optimization level.
ExportStep ==
    /\ stage = "compiled"
    /\ \E text \in {Listing(out)} :
         IF text.ok THEN stage' = "source" /\ lines' = text.lines ELSE stage' = "not exported" /\ UNCHANGED lines
    /\ UNCHANGED <<job, ins, kept, out, ran, asm, built>>

\* discas: parse and first pass, the relaxation rounds, then the output passes.
ParseStep ==
    /\ stage = "source"
    /\ \E sectioned \in {Sectioned(lines)} : \E read \in {Configured(lines)}, pass \in {FirstPass(sectioned, {})} :
         IF read.ok /\ pass.ok
         THEN /\ stage' = "relax" /\ lines' = sectioned
              /\ asm' = [config |-> read.config, relaxed |-> {}, pass |-> pass]
         ELSE stage' = "rejected" /\ UNCHANGED <<lines, asm>>
    /\ UNCHANGED <<job, ins, kept, out, ran, built>>
RelaxStep ==
    /\ stage = "relax"
    /\ IF ~BranchTargetsOk(lines, asm.pass, asm.relaxed) THEN stage' = "rejected" /\ UNCHANGED asm
       ELSE LET far == OutOfReach(lines, asm.pass, asm.relaxed)
                all == asm.relaxed \cup far
            IN  IF far = {} THEN stage' = "output" /\ UNCHANGED asm
                ELSE UNCHANGED stage /\ asm' = [asm EXCEPT !.relaxed = all, !.pass = FirstPass(lines, all)]
    /\ UNCHANGED <<job, ins, kept, out, ran, lines, built>>
OutputStep ==
    /\ stage = "output"
    /\ \E second \in {SecondPass(lines, asm.relaxed)} :
         IF /\ DataOk(lines) /\ InReach(asm.pass, second.fixups)
            /\ asm.pass.exports \subseteq DOMAIN asm.pass.symbols
         THEN /\ stage' = "assembled"
              /\ built' = Built(lines, asm.config, asm.relaxed, asm.pass, second) @@ [level |-> "O0"]
         ELSE stage' = "rejected" /\ UNCHANGED built
    /\ UNCHANGED <<job, ins, kept, out, ran, lines, asm>>

\* A compilation without --emit-asm stops at its object.
Done == stage \in {"compiled", "assembled", "rejected", "not exported"} /\ UNCHANGED vars

Next == \/ DecodeStep \/ PixelStep \/ RomStep \/ FillStep \/ FaultStep \/ CompactStep
        \/ ShortenStep \/ PlanStep \/ PublishStep \/ RunStep \/ ExportStep
        \/ ParseStep \/ RelaxStep \/ OutputStep \/ Done
\* discas runs its passes one after the other.
Spec == Init /\ [][Next]_vars /\ WF_vars(ParseStep \/ RelaxStep \/ OutputStep)

--------------------------------------------------------------------------------
\* Scheduling changes no behaviour: from the start of the object and from every
\* public symbol, whatever the registers hold, the scheduled code leaves the
\* registers, the graphics state and the memory and port effects that the
\* generated code leaves, in the same order (GSUMachineScheduler::run moves,
\* splits and deletes instructions across labels and delay slots).
ScheduleKeepsBehaviour == \A r \in ran : r.before.halt = "stop" => r.after = r.before

\* Every branch of an assembled source reaches its label: the offset recorded
\* for a label is the number of bytes really emitted before it, a short branch's
\* displacement byte leads there, and a relaxed branch's private symbol stands
\* there while its inverted branch skips exactly the absolute jump (relaxation
\* moves other labels, and the sizes the first pass adds are claims).
BranchesLand ==
    stage = "assembled" =>
      \A sizes \in {Solid([i \in DOMAIN lines |-> IF lines[i].op \in Directives THEN 0
                                                 ELSE Len(Encode(lines[i], i \in asm.relaxed).bytes)])} :
        LET at(i) == Accumulate(LAMBDA a, j : a + (IF lines[j].section = lines[i].section THEN sizes[j] ELSE 0),
                                0, [j \in 1..(i - 1) |-> j])
            labelled(name) == CHOOSE i \in DOMAIN lines : lines[i].label = name
            goal(i) == at(labelled(lines[i].args[1].v))
            private(i) == {s.off : s \in {x \in built.syms : x.name = Private(lines[i].args[1].v)}}
            byte(off) == built.code[off + 1]
        IN  \A i \in DOMAIN lines : lines[i].section = "CODE" /\ lines[i].op \in DOMAIN Branches =>
              IF i \notin asm.relaxed THEN at(i) + 2 + Signed(byte(at(i) + 1)) = goal(i)
              ELSE /\ private(i) = {goal(i)}
                   /\ lines[i].op # "bra" => at(i) + 2 + Signed(byte(at(i) + 1)) = at(i) + sizes[i]

\* What a relocation patches and points at; a call and an IWT are patched alike.
Referent(object, r) ==
    [off |-> r.off, type |-> IF r.type = "ADDR16_JAL" THEN "ADDR16_IWT" ELSE r.type,
     to |-> IF r.sym.private THEN {[section |-> s.section, off |-> s.off, name |-> NoName] : s \in {x \in object.syms : x.name = r.sym}}
            ELSE {[section |-> "any", off |-> 0, name |-> r.sym]}]
ExportEnded == job.kind = "generated" /\ stage \in {"assembled", "rejected", "not exported"}
Reassembled ==
    /\ stage = "assembled"
    /\ built.code = out.code /\ built.data = out.data /\ built.ram = out.ram
    /\ built.config = out.config /\ built.hint = out.hint
    /\ {s \in built.syms : ~s.name.private} = {s \in out.syms : ~s.name.private}
    /\ {Referent(built, r) : r \in built.rels} = {Referent(out, r) : r \in out.rels}
\* The written object holds an immediate whose opcode planImmediateSlots moved
\* into a delay slot.
SplitWritten == (\E n \in DOMAIN ins : ins[n].fragment) /\ Laid(job.object, ins).ok

\* At every optimization level an exported listing reassembles to the object it
\* was printed from: the same bytes in every section, configuration, exported
\* symbols and patches (AssemblyGenerator::generate followed by discas). The
\* exporter refuses no object but one in which an immediate was split, and for
\* such an object too it writes an exact listing or none.
ListingExact == ExportEnded => Reassembled \/ (stage = "not exported" /\ SplitWritten)

\* The claim of docs/gsu-loading.md: every exported object reassembles byte for
\* byte, delay slots included. A split immediate refutes it: the lister decodes
\* the opcode in the slot together with the byte after it, and a label on that
\* byte makes AssemblyGenerator::generate throw.
ExportsReassemble == ExportEnded => Reassembled

\* A source always ends as an object or with a diagnostic: relaxing branches
\* moves others out of reach, but never for ever (relaxBranches loops until a
\* round changes nothing).
AssemblyEnds == (stage = "source") ~> (stage \in {"assembled", "rejected"})
================================================================================
