------------------------------- MODULE Assembler -------------------------------
(***************************************************************************)
(* discas: AssemblerImpl::assemble, pass by pass. A source is a sequence   *)
(* of lines [label, op, args] whose operands are already split into        *)
(* register, memory, number and symbol forms; text, comments and number    *)
(* syntax are left out. A name is [private, base]; a source can only spell *)
(* names that are not private.                                             *)
(***************************************************************************)
EXTENDS GsuMachine, SequencesExt, FiniteSetsExt

NoName == [private |-> FALSE, base |-> <<>>]
Private(name) == [name EXCEPT !.private = TRUE]

Branches == [bra |-> 5, bge |-> 6, blt |-> 7, bne |-> 8, beq |-> 9, bpl |-> 10, bmi |-> 11,
             bcc |-> 12, bcs |-> 13, bvc |-> 14, bvs |-> 15]
Implied == [stop |-> 0, nop |-> 1, cache |-> 2, lsr |-> 3, rol |-> 4, loop |-> 60, plot |-> 76,
            color |-> 78, swap |-> 77, not |-> 79, merge |-> 112, msbk |-> 144, sex |-> 149, asr |-> 150,
            ror |-> 151, lob |-> 158, hib |-> 192, getc |-> 223, getb |-> 239,
            alt1 |-> 61, alt2 |-> 62, alt3 |-> 63]
Prefixed == [rpix |-> <<61, 76>>, cmode |-> <<61, 78>>, div2 |-> <<61, 150>>, ramb |-> <<62, 223>>,
             romb |-> <<63, 223>>, getbh |-> <<63, 239>>, getbl |-> <<63, 239>>, getbs |-> <<63, 239>>]
RegisterOps == [to |-> 16, with |-> 32, from |-> 176, inc |-> 208, dec |-> 224]
Arithmetic == [add |-> 80, adc |-> 80, sub |-> 96, sbc |-> 96, cmp |-> 96, mult |-> 128, umult |-> 128,
               and |-> 113, bic |-> 113, or |-> 193, xor |-> 193]
Directives == {"", ".segment", ".export", ".setcpu", ".include", ".define"}

\* What encodeInstruction does to its output and what it returns: the bytes it
\* emits, the size the first pass adds, a relocation within the line (at the
\* given byte), whether the branch displacement is fixed up later, and whether
\* the operands are accepted.
Encoding(size, bytes) ==
    [size |-> size, bytes |-> bytes, rel |-> {}, fixup |-> FALSE, ok |-> TRUE]
Rejected == [Encoding(0, <<>>) EXCEPT !.ok = FALSE]
\* WITH Rn, unless the default register is meant.
With(r) == IF r = 0 THEN <<>> ELSE <<32 + r>>
Kinds(line) == [i \in DOMAIN line.args |-> line.args[i].k]

\* emitImmediateWord: a number, or a symbol left to a relocation on the opcode
\* (a bare register is an identifier here).
ImmediateWord(size, before, r, arg, type) ==
    IF arg.k = "num"
    THEN IF arg.v \in -32768..65535
         THEN Encoding(size, before \o <<240 + r, arg.v % 256, (arg.v % 65536) \div 256>>) ELSE Rejected
    ELSE IF arg.k \in {"mem", "bank"} THEN Rejected
    ELSE [Encoding(size, before \o <<240 + r, 0, 0>>) EXCEPT !.rel =
            {[at |-> Len(before), sym |-> IF arg.k = "reg" THEN [private |-> FALSE, base |-> <<"r", arg.v>>] ELSE arg.v,
              type |-> CASE arg.k = "lo24" -> "ADDR24_OFFSET" [] arg.k = "ram" -> "ADDR16_RAM" [] OTHER -> type]}]

\* Mutant: the long conditional form is counted without its last slot.
EncodeBranch_ShortClaim(line, relaxed) ==
    IF Kinds(line) # <<"sym">> \/ line.section # "CODE" THEN Rejected
    ELSE IF relaxed
    THEN [Encoding(6, <<IF Branches[line.op] % 2 = 0 THEN Branches[line.op] + 1 ELSE Branches[line.op] - 1, 5, 1, 255, 0, 0, 1>>)
            EXCEPT !.rel = {[at |-> 3, sym |-> Private(line.args[1].v), type |-> "ADDR16_IWT"]}]
    ELSE [Encoding(2, <<Branches[line.op], 0>>) EXCEPT !.fixup = TRUE]
\* A short branch, or the long form: an absolute jump, behind the inverted
\* condition unless the branch is unconditional.
EncodeBranch(line, relaxed) ==
    LET op == Branches[line.op]
        inverse == IF op % 2 = 0 THEN op + 1 ELSE op - 1
        target(at) == {[at |-> at, sym |-> Private(line.args[1].v), type |-> "ADDR16_IWT"]}
    IN  IF Kinds(line) # <<"sym">> \/ line.section # "CODE" THEN Rejected
        ELSE IF relaxed /\ op = 5 THEN [Encoding(4, <<255, 0, 0, 1>>) EXCEPT !.rel = target(0)]
        ELSE IF relaxed THEN [Encoding(7, <<inverse, 5, 1, 255, 0, 0, 1>>) EXCEPT !.rel = target(3)]
        ELSE [Encoding(2, <<op, 0>>) EXCEPT !.fixup = TRUE]

EncodeArithmetic(line) ==
    LET op == line.op
        args == line.args
        base == Arithmetic[op]
        logical == op \in {"and", "or", "bic", "xor"}
        shift == IF logical THEN 1 ELSE 0
        alt == IF op \in {"adc", "sbc", "umult", "bic", "xor"} THEN <<61>> ELSE IF op = "cmp" THEN <<63>> ELSE <<>>
        last == args[Len(args)]
        dest == IF Len(args) = 1 THEN <<>> ELSE With(args[1].v)
        fromRegister == Encoding(1 + Len(dest) + Len(alt), dest \o alt \o <<base + last.v - shift>>)
    IN  IF Kinds(line) \in {<<"num">>}
        THEN IF op \in {"cmp", "sbc"} \/ last.v \notin shift..15 THEN Rejected
             ELSE Encoding(2, <<IF op \in {"bic", "xor"} THEN 61 ELSE IF op \in {"adc", "umult"} THEN 63 ELSE 62,
                                base + last.v - shift>>)
        ELSE IF Kinds(line) \in {<<"reg">>} THEN IF logical /\ last.v = 0 THEN Rejected ELSE fromRegister
        ELSE IF Kinds(line) \in {<<"reg", "num">>, <<"reg", "reg", "num">>}
        THEN IF \/ last.v \notin 0..15 \/ op = "cmp" \/ (Len(args) = 3 /\ (op = "sbc" \/ args[1] # args[2]))
             THEN Rejected ELSE Encoding(2 + Len(dest), dest \o <<62, base + last.v>>)
        ELSE IF Kinds(line) = <<"reg", "reg">> \/ (Kinds(line) = <<"reg", "reg", "reg">> /\ args[1] = args[2])
        THEN fromRegister
        ELSE Rejected

\* MOVE and the load/store forms; a second operand selects a register first.
EncodeMove(line) ==
    LET a == line.args[1]
        b == line.args[2]
        alt == IF line.op = "moveb" THEN <<61>> ELSE <<>>
        prefixed(r, op) == LET w == With(r) IN Encoding(Len(w) + Len(alt) + 1, w \o alt \o <<op>>)
    IN  CASE Kinds(line) = <<"reg", "reg">> -> IF line.op = "move" THEN Encoding(2, <<32 + b.v, 16 + a.v>>) ELSE Rejected
          [] Kinds(line) = <<"reg", "mem">> -> prefixed(a.v, 64 + b.v)
          [] Kinds(line) = <<"mem", "reg">> -> prefixed(b.v, 48 + a.v)
          [] Kinds(line) = <<"reg", "num">> ->
               IF line.op # "move" THEN Rejected
               ELSE IF b.v \in 0..255 THEN Encoding(2, <<160 + a.v, b.v>>)
               ELSE Encoding(3, <<240 + a.v, b.v % 256, (b.v % 65536) \div 256>>)
          [] Kinds(line) \in {<<"reg", k>> : k \in {"sym", "lo24", "ram"}} ->
               IF line.op # "move" THEN Rejected ELSE ImmediateWord(3, <<>>, a.v, b, "ADDR16_IWT")
          [] OTHER -> Rejected

EncodeLoadStore(line) ==
    LET store == line.op \in {"stw", "stb"}
        alt == IF line.op \in {"stb", "ldb"} THEN <<61>> ELSE <<>>
        base == IF store THEN 48 ELSE 64
        form(w, memory) == Encoding(Len(w) + Len(alt) + 1, w \o alt \o <<base + memory.v>>)
        legal(memory) == memory.v <= 11
    IN  CASE Kinds(line) = <<"mem">> /\ legal(line.args[1]) -> form(<<>>, line.args[1])
          [] Kinds(line) = <<"mem", "reg">> /\ store /\ legal(line.args[1]) -> form(With(line.args[2].v), line.args[1])
          [] Kinds(line) = <<"reg", "mem">> /\ ~store /\ legal(line.args[2]) -> form(With(line.args[1].v), line.args[2])
          [] OTHER -> Rejected

EncodeStack(line) ==
    LET w == With(line.args[1].v)
        bytes == CASE line.op = "push" -> w \o <<58, 234, 234>>  [] line.op = "pop" -> <<218, 218>> \o w \o <<74>>
                   [] line.op = "pushb" -> w \o <<61, 58, 224>>  [] line.op = "popb" -> <<208>> \o w \o <<61, 74>>
    IN  IF Kinds(line) = <<"reg">> THEN Encoding(IF line.args[1].v = 0 THEN 3 ELSE 4, bytes) ELSE Rejected

\* LM/SM and their short forms, which hold half of an even address up to 510.
EncodeAbsolute(line) ==
    LET load == line.op \in {"lm", "lms"}
        r == line.args[IF load THEN 1 ELSE 2]
        address == line.args[IF load THEN 2 ELSE 1]
        alt == IF load THEN 61 ELSE 62
    IN  IF Len(line.args) # 2 \/ r.k # "reg" \/ address.k # "num" \/ address.v \notin -32768..65535 THEN Rejected
        ELSE IF line.op \in {"lms", "sms"}
        THEN IF address.v % 2 = 1 \/ address.v % 65536 > 510 THEN Rejected
             ELSE Encoding(3, <<alt, 160 + r.v, address.v \div 2>>)
        ELSE Encoding(4, <<alt, 240 + r.v, address.v % 256, (address.v % 65536) \div 256>>)

\* IBT, IWT, LEA and the jumps.
EncodeImmediate(line) ==
    LET a == line.args[1]
        b == line.args[2]
    IN  CASE line.op \in {"jmp", "ljmp"} ->
               IF Kinds(line) # <<"reg">> \/ a.v \notin 8..13 THEN Rejected
               ELSE IF line.op = "jmp" THEN Encoding(1, <<144 + a.v>>) ELSE Encoding(2, <<61, 144 + a.v>>)
          [] line.op = "link" -> IF Kinds(line) = <<"num">> /\ a.v \in 1..4 THEN Encoding(1, <<144 + a.v>>) ELSE Rejected
          [] line.op = "jal" -> IF Len(line.args) # 1 THEN Rejected ELSE ImmediateWord(4, <<148>>, 15, a, "ADDR16_JAL")
          [] line.op = "ret" -> IF line.args = <<>> THEN Encoding(1, <<155>>) ELSE Rejected
          [] line.op = "ibt" ->
               IF Kinds(line) = <<"reg", "bank">>
               THEN [Encoding(2, <<160 + a.v, 0>>) EXCEPT !.rel = {[at |-> 0, sym |-> b.v, type |-> "ADDR24_BANK"]}]
               ELSE IF Kinds(line) = <<"reg", "num">> /\ b.v \in 0..255 THEN Encoding(2, <<160 + a.v, b.v>>) ELSE Rejected
          [] line.op \in {"iwt", "lea"} ->
               IF Len(line.args) # 2 \/ a.k # "reg" THEN Rejected ELSE ImmediateWord(3, <<>>, a.v, b, "ADDR16_IWT")

\* encodeInstruction, by instruction family.
EncodeInstruction(line, relaxed) ==
    CASE line.op \in DOMAIN Branches -> EncodeBranch(line, relaxed)
      [] line.op \in DOMAIN Implied -> IF line.args = <<>> THEN Encoding(1, <<Implied[line.op]>>) ELSE Rejected
      [] line.op \in DOMAIN Prefixed -> IF line.args = <<>> THEN Encoding(2, Prefixed[line.op]) ELSE Rejected
      [] line.op \in DOMAIN RegisterOps ->
           IF Kinds(line) # <<"reg">> \/ (line.op \in {"inc", "dec"} /\ line.args[1].v = 15) THEN Rejected
           ELSE Encoding(1, <<RegisterOps[line.op] + line.args[1].v>>)
      [] line.op \in {"jmp", "ljmp", "link", "jal", "ret", "ibt", "iwt", "lea"} -> EncodeImmediate(line)
      [] line.op \in {"move", "moveb", "movew"} -> EncodeMove(line)
      [] line.op \in {"stw", "stb", "ldw", "ldb"} -> EncodeLoadStore(line)
      [] line.op \in {"push", "pop", "pushb", "popb"} -> EncodeStack(line)
      [] line.op \in DOMAIN Arithmetic -> EncodeArithmetic(line)
      [] line.op \in {"lm", "lms", "sm", "sms"} -> EncodeAbsolute(line)
      [] OTHER -> Rejected

\* parse(): every line gets the section of the last .segment before it.
Sectioned(lines) ==
    LET visit(acc, line) ==
            [section |-> IF line.op = ".segment" THEN line.args[1].v ELSE acc.section,
             text |-> Append(acc.text, [label |-> line.label, op |-> line.op, args |-> line.args, section |-> acc.section])]
    IN  Accumulate(visit, [section |-> "none", text |-> <<>>], lines).text

\* parseConfigDefinition: names given twice or with values out of range are
\* errors, and an explicit origin wins over the mapping's default one. The two
\* bitmap registers are decoded into a screen mode.
DefaultConfig == [mapping |-> "LoROM", origin |-> 32768, data_alignment |-> 1, ram_alignment |-> 2,
                  hint |-> FALSE, bitmap |-> FALSE, base |-> 0, depth |-> 4, height |-> 128]
Alignments == {1, 2, 4, 8, 16, 32, 64, 128}
\* The mode bits of SCMR: two for the depth, $24 for the height.
ScreenHeight(scmr) == LET h == scmr - (scmr % 4) IN
    CASE h = 36 -> 256 [] h = 32 -> 192 [] h = 4 -> 160 [] h = 0 -> 128
ScreenDepth(scmr) == CASE scmr % 4 = 3 -> 8 [] scmr % 4 = 1 -> 4 [] scmr % 4 = 0 -> 2
DefinitionOk(name, v) ==
    CASE name = "CODE_ALIGNMENT" -> v = 16
      [] name = "BITMAP_SCBR" -> v \in 0..255
      [] name = "BITMAP_SCMR" -> v \in {0, 1, 3, 4, 5, 7, 32, 33, 35, 36, 37, 39}
      [] name = "MEMORY_MAPPING" -> v \in {0, 1}
      [] name \in {"DATA_ALIGNMENT", "RAM_ALIGNMENT"} -> v \in Alignments
      [] name = "CODE_START_ADDRESS" -> v \in 0..16777215
      [] OTHER -> FALSE
Define(config, name, v, defined) ==
    CASE name = "CODE_ALIGNMENT" -> [config EXCEPT !.hint = TRUE]
      [] name = "BITMAP_SCBR" -> [config EXCEPT !.bitmap = TRUE, !.base = v * 1024]
      [] name = "BITMAP_SCMR" -> [config EXCEPT !.bitmap = TRUE, !.depth = ScreenDepth(v), !.height = ScreenHeight(v)]
      [] name = "MEMORY_MAPPING" ->
            [config EXCEPT !.mapping = IF v = 0 THEN "LoROM" ELSE "HiROM",
                           !.origin = IF "CODE_START_ADDRESS" \in defined THEN @ ELSE IF v = 0 THEN 32768 ELSE 4227072]
      [] name = "DATA_ALIGNMENT" -> [config EXCEPT !.data_alignment = v]
      [] name = "RAM_ALIGNMENT" -> [config EXCEPT !.ram_alignment = v]
      [] name = "CODE_START_ADDRESS" -> [config EXCEPT !.origin = v]

BitmapValid(config) ==
    config.bitmap => config.base % 1024 = 0 /\ (256 * config.height * config.depth) \div 8 <= 131072 - config.base

Configured(lines) ==
    LET visit(acc, line) ==
            LET name == line.args[1].v
                v == line.args[2].v
            IN  IF line.op # ".define" THEN acc
                ELSE IF ~acc.ok \/ name \in acc.defined \/ ~DefinitionOk(name, v) THEN [acc EXCEPT !.ok = FALSE]
                ELSE [ok |-> TRUE, defined |-> acc.defined \cup {name}, config |-> Define(acc.config, name, v, acc.defined)]
        read == Accumulate(visit, [ok |-> TRUE, defined |-> {}, config |-> DefaultConfig], lines)
    IN  [config |-> read.config,
         ok |-> /\ read.ok
                /\ read.config.bitmap => {"BITMAP_SCBR", "BITMAP_SCMR"} \subseteq read.defined
                /\ BitmapValid(read.config)]

\* The bytes a data directive emits; encodeData rejects other operands only in
\* the second pass.
DataBytes(line) ==
    IF line.op = ".byte" THEN [i \in DOMAIN line.args |-> line.args[i].v]
    ELSE Accumulate(LAMBDA bytes, a : bytes \o (IF a.k = "num" THEN <<a.v % 256, (a.v % 65536) \div 256>> ELSE <<0, 0>>),
                    <<>>, line.args)
DataOk(lines) ==
    \A n \in DOMAIN lines : LET line == lines[n] IN line.op \in {".byte", ".word"} => \A i \in DOMAIN line.args :
        line.args[i].k = "num" /\ line.args[i].v \in (IF line.op = ".byte" THEN 0..255 ELSE -32768..65535)

Encode(line, relaxed) ==
    IF line.op \in {".byte", ".word"}
    THEN IF line.args = <<>> THEN Rejected
         ELSE Encoding(Len(line.args) * (IF line.op = ".byte" THEN 1 ELSE 2), DataBytes(line))
    ELSE EncodeInstruction(line, relaxed)

\* firstPass: label offsets and line offsets from the claimed sizes.
FirstPass(lines, relaxed) ==
    LET visit(acc, i) ==
            LET line == lines[i]
                labelled == line.label # NoName
                at == acc.sizes[line.section]
                symbols == IF labelled THEN (line.label :> [section |-> line.section, off |-> at]) @@ acc.symbols ELSE acc.symbols
                exports == acc.exports \cup (IF line.op = ".export" THEN {a.v : a \in Range(line.args)} ELSE {})
                e == Encode(line, i \in relaxed)
                plain == [acc EXCEPT !.symbols = symbols, !.exports = exports]
            IN  IF ~acc.ok THEN acc
                ELSE IF labelled /\ (line.section = "none" \/ line.label \in DOMAIN acc.symbols) THEN [acc EXCEPT !.ok = FALSE]
                ELSE IF line.op \in Directives THEN plain
                ELSE IF \/ line.section = "none" \/ ~e.ok
                        \/ (line.section = "RAM" /\ line.op \notin {".byte", ".word"}) THEN [acc EXCEPT !.ok = FALSE]
                ELSE [plain EXCEPT !.sizes[line.section] = @ + e.size, !.at = (i :> at) @@ @]
    IN  Accumulate(visit, [ok |-> TRUE, symbols |-> <<>>, exports |-> {}, at |-> <<>>,
                         sizes |-> [s \in {"none", "CODE", "DATA", "RAM"} |-> 0]],
                 [i \in 1..Len(lines) |-> i])

ShortBranches(lines, relaxed) ==
    {i \in DOMAIN lines : lines[i].section = "CODE" /\ lines[i].op \in DOMAIN Branches /\ i \notin relaxed}
BranchTargetsOk(lines, pass, relaxed) ==
    \A i \in ShortBranches(lines, relaxed) :
        LET target == lines[i].args[1].v IN target \in DOMAIN pass.symbols /\ pass.symbols[target].section = "CODE"

\* Mutant: a branch already relaxed is judged again.
OutOfReach_Again(lines, pass, relaxed) ==
    {i \in ShortBranches(lines, {}) :
        pass.symbols[lines[i].args[1].v].off - (pass.at[i] + 2) \notin -128..127}
\* One round of relaxBranches: the short branches whose target is out of reach.
OutOfReach(lines, pass, relaxed) ==
    {i \in ShortBranches(lines, relaxed) :
        pass.symbols[lines[i].args[1].v].off - (pass.at[i] + 2) \notin -128..127}

\* secondPass: the section bytes, the relocations and the branch fixups.
SecondPass(lines, relaxed) ==
    LET visit(acc, i) ==
            LET line == lines[i]
                e == Encode(line, i \in relaxed)
                here == Len(acc.bytes[line.section])
            IN  IF line.op \in Directives THEN acc
                ELSE [acc EXCEPT !.bytes[line.section] = @ \o e.bytes,
                        !.rels = @ \cup {[sym |-> r.sym, section |-> line.section, off |-> here + r.at, type |-> r.type] : r \in e.rel},
                        !.fixups = @ \cup (IF e.fixup THEN {[at |-> here + 1, target |-> line.args[1].v]} ELSE {})]
    IN  Accumulate(visit, [bytes |-> [s \in {"none", "CODE", "DATA", "RAM"} |-> <<>>], rels |-> {}, fixups |-> {}],
                 [i \in 1..Len(lines) |-> i])

\* resolveBranches: the displacement is measured from the byte after it.
Distance(pass, fixup) == pass.symbols[fixup.target].off - (fixup.at + 1)
InReach(pass, fixups) == \A f \in fixups : Distance(pass, f) \in -128..127
Resolved(code, pass, fixups) ==
    [b \in DOMAIN code |->
        LET here == {f \in fixups : f.at = b - 1}
        IN  IF here = {} THEN code[b] ELSE Distance(pass, CHOOSE f \in here : TRUE) % 256]

\* addInternalSymbols and addExportedSymbols: absolute references to labels that
\* are not exported, and the targets of relaxed branches, become private symbols.
Relinked(rels, pass) ==
    {IF r.sym \in DOMAIN pass.symbols /\ r.sym \notin pass.exports THEN [r EXCEPT !.sym = Private(@)] ELSE r : r \in rels}
SymbolTable(lines, relaxed, rels, pass) ==
    LET referenced == {r.sym : r \in {x \in rels : x.sym \in DOMAIN pass.symbols /\ x.sym \notin pass.exports}}
        jumped == {lines[i].args[1].v : i \in relaxed}
        entry(name, as) == [name |-> as, section |-> pass.symbols[name].section, off |-> pass.symbols[name].off]
    IN  {entry(n, Private(n)) : n \in referenced \cup jumped} \cup {entry(n, n) : n \in pass.exports}

\* The object of a source whose passes ended with these tables.
Built(lines, config, relaxed, pass, out) ==
    [code |-> Resolved(out.bytes["CODE"], pass, out.fixups), data |-> out.bytes["DATA"], ram |-> out.bytes["RAM"],
     syms |-> SymbolTable(lines, relaxed, out.rels, pass), rels |-> Relinked(out.rels, pass),
     hint |-> config.hint, config |-> [config EXCEPT !.hint = FALSE]]
================================================================================
