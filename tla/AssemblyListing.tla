---------------------------- MODULE AssemblyListing ----------------------------
(***************************************************************************)
(* AssemblyGenerator::generate: the byte-exact assembly export of an       *)
(* object, as the lines that Assembler.tla reads back.                     *)
(***************************************************************************)
EXTENDS Assembler

Reg(n) == [k |-> "reg", v |-> n]
Mem(n) == [k |-> "mem", v |-> n]
Num(n) == [k |-> "num", v |-> n]
Sym(name) == [k |-> "sym", v |-> name]
Line(op, args) == [label |-> NoName, op |-> op, args |-> args]
LabelLine(name) == [label |-> name, op |-> "", args |-> <<>>]

\* decode: one instruction without its prefix, or no mnemonic ("").
Mnemonic(code, off) ==
    LET op == code[off + 1]
        n == op % 16
        size == 1 + OperandBytes(op)
        text(name, args) == [size |-> size, op |-> name, args |-> args]
        implied == {m \in DOMAIN Implied : Implied[m] = op}
    IN  IF implied # {} THEN text(CHOOSE m \in implied : TRUE, <<>>)
        ELSE CASE op \in 16..31 -> text("to", <<Reg(n)>>)
               [] op \in 32..47 -> text("with", <<Reg(n)>>)
               [] op \in 48..59 -> text("stw", <<Mem(n)>>)
               [] op \in 64..75 -> text("ldw", <<Mem(n)>>)
               [] op \in 80..95 -> text("add", <<Reg(n)>>)
               [] op \in 96..111 -> text("sub", <<Reg(n)>>)
               [] op \in 113..127 -> text("and", <<Reg(n)>>)
               [] op \in 128..143 -> text("mult", <<Reg(n)>>)
               [] op \in 145..148 -> text("link", <<Num(op - 144)>>)
               [] op \in 152..157 -> text("jmp", <<Reg(op - 144)>>)
               [] op \in 160..175 -> text("ibt", <<Reg(n), Num(code[off + 2])>>)
               [] op \in 176..191 -> text("from", <<Reg(n)>>)
               [] op \in 193..207 -> text("or", <<Reg(n)>>)
               [] op \in 208..222 -> text("inc", <<Reg(n)>>)
               [] op \in 224..238 -> text("dec", <<Reg(n)>>)
               [] op \in 240..255 -> text("iwt", <<Reg(n), Num(code[off + 2] + 256 * code[off + 3])>>)
               [] OTHER -> text("", <<>>)

\* Mutant: the fused SUB #n is printed for the ALT3 prefix as well.
PrefixMnemonic_SubImmediate(code, off) ==
    LET prefix == code[off + 1]
        op == code[off + 2]
        n == op % 16
        a1 == prefix # 62
        a2 == prefix # 61
        text(name, args) == [size |-> 2, op |-> name, args |-> args]
    IN  IF op \in 96..111 THEN IF a2 THEN text("sub", <<Num(n)>>) ELSE text("sbc", <<Reg(n)>>)
        ELSE text("", <<>>)
\* decodeAlt: a prefix and its opcode that one mnemonic expands to exactly.
PrefixMnemonic(code, off) ==
    LET prefix == code[off + 1]
        op == code[off + 2]
        n == op % 16
        a1 == prefix # 62
        a2 == prefix # 61
        text(name, args) == [size |-> 2, op |-> name, args |-> args]
        operand == IF a2 THEN Num(n) ELSE Reg(n)
    IN  CASE op \in 80..95 -> text(IF a1 THEN "adc" ELSE "add", <<operand>>)
          [] op \in 96..111 -> IF a1 /\ a2 THEN text("cmp", <<Reg(n)>>)
                               ELSE IF a1 THEN text("sbc", <<Reg(n)>>) ELSE text("sub", <<Num(n)>>)
          [] op \in 128..143 -> text(IF a1 THEN "umult" ELSE "mult", <<operand>>)
          [] prefix = 61 /\ op \in 48..59 -> text("stb", <<Mem(n)>>)
          [] prefix = 61 /\ op \in 64..75 -> text("ldb", <<Mem(n)>>)
          [] op = 223 /\ prefix # 61 -> text(IF a1 THEN "romb" ELSE "ramb", <<>>)
          [] prefix = 61 /\ op = 76 -> text("rpix", <<>>)
          [] prefix = 61 /\ op = 78 -> text("cmode", <<>>)
          [] prefix = 61 /\ op = 150 -> text("div2", <<>>)
          [] OTHER -> text("", <<>>)

\* The offsets at which the exporter decodes an instruction; a truncated one is
\* an error.
RECURSIVE Decoded(_, _)
Decoded(code, off) ==
    IF off >= Len(code) THEN <<>> ELSE <<off>> \o Decoded(code, off + 1 + OperandBytes(code[off + 1]))
Truncated(code) ==
    LET last == Decoded(code, 0)[Len(Decoded(code, 0))]
    IN  code # <<>> /\ last + 1 + OperandBytes(code[last + 1]) > Len(code)

BranchOffsets(code) == {off \in Range(Decoded(code, 0)) : IsBranch(code[off + 1])}
BranchGoal(code, off) == off + 2 + Signed(code[off + 2])

\* Private symbols and branch targets get fresh local names (a pool name keeps
\* its spelling); every other symbol keeps its own.
Local(n) == [private |-> FALSE, base |-> <<"local", n>>]
BranchLabel(off) == [private |-> FALSE, base |-> <<"branch", off>>]
Renamed(object, name) ==
    IF ~name.private \/ name \notin {s.name : s \in object.syms} THEN name
    ELSE IF name.base[1] = "pool" THEN [name EXCEPT !.private = FALSE]
    ELSE Local(name.base)
\* Labels of a section at an offset, in any fixed order.
LabelsAt(object, section, off) ==
    LET symbols == {Renamed(object, s.name) : s \in {x \in object.syms : x.section = section /\ x.off = off}}
        branches == IF section # "CODE" THEN {}
                    ELSE {BranchLabel(b) : b \in {x \in BranchOffsets(object.code) : BranchGoal(object.code, x) = off}}
    IN  symbols \cup branches
LabelLines(object, section, off) ==
    LET names == SetToSeq(LabelsAt(object, section, off)) IN [i \in DOMAIN names |-> LabelLine(names[i])]

\* What generate() refuses: symbols or branches outside their section,
\* relocations that overlap, leave CODE or sit on another opcode.
Exportable(object) ==
    LET size == [CODE |-> Len(object.code), DATA |-> Len(object.data), RAM |-> Len(object.ram)]
        span(r) == IF r.type = "ADDR24_BANK" THEN 2 ELSE 3
    IN  /\ \A s \in object.syms : s.off <= size[s.section]
        /\ \A r \in object.rels : r.section = "CODE" /\ r.off + span(r) <= Len(object.code)
        /\ \A r, t \in object.rels : r.off = t.off => r = t
        /\ ~Truncated(object.code)
        /\ \A b \in BranchOffsets(object.code) : BranchGoal(object.code, b) \in 0..Len(object.code)
        /\ BitmapValid(object.config)

RelocationAt(object, off) == {r \in object.rels : r.off = off}
RelocationText(object, off) ==
    LET r == CHOOSE x \in RelocationAt(object, off) : TRUE
        op == object.code[off + 1]
        name == Renamed(object, r.sym)
        kind == CASE r.type = "ADDR24_OFFSET" -> "lo24" [] r.type = "ADDR16_RAM" -> "ram" [] OTHER -> "sym"
    IN  IF r.type = "ADDR24_BANK" /\ op \in 160..175
        THEN [size |-> 2, op |-> "ibt", args |-> <<Reg(op % 16), [k |-> "bank", v |-> name]>>]
        ELSE IF r.type # "ADDR24_BANK" /\ op >= 240
        THEN [size |-> 3, op |-> "iwt", args |-> <<Reg(op % 16), [k |-> kind, v |-> name]>>]
        ELSE [size |-> 0, op |-> "mismatch", args |-> <<>>]

\* The instruction printed at an offset, given that an explicit prefix is
\* pending: a prefix pair is fused only when nothing names its second byte.
PrintedAt(object, off, explicit) ==
    LET code == object.code
        op == code[off + 1]
        one == Mnemonic(code, off)
        fused == PrefixMnemonic(code, off)
    IN  IF RelocationAt(object, off) # {} THEN RelocationText(object, off)
        ELSE IF off \in BranchOffsets(code)
        THEN [one EXCEPT !.op = CHOOSE b \in DOMAIN Branches : Branches[b] = op, !.args = <<Sym(BranchLabel(off))>>]
        ELSE IF /\ ~explicit /\ op \in 61..63 /\ off + 1 < Len(code)
                /\ LabelsAt(object, "CODE", off + 1) = {} /\ RelocationAt(object, off + 1) = {}
                /\ fused.op # "" THEN fused
        ELSE one

\* The code listing from an offset: a failure is a label or a relocation inside
\* the instruction, or a relocation on the wrong opcode.
RECURSIVE CodeLines(_, _, _)
CodeLines(object, off, explicit) ==
    IF off >= Len(object.code) THEN [ok |-> TRUE, lines |-> LabelLines(object, "CODE", off)]
    ELSE LET op == object.code[off + 1]
             i == PrintedAt(object, off, explicit)
             inside == (off + 1)..(off + i.size - 1)
             selector == op \in 16..47 \cup 176..191 \cup 5..15
             literal == i.op = "" \/ (explicit /\ RelocationAt(object, off) = {} /\ ~selector)
             text == IF literal THEN Line(".byte", [b \in 1..i.size |-> Num(object.code[off + b])]) ELSE Line(i.op, i.args)
             pending == IF op \in 61..63 /\ i.size = 1 THEN TRUE ELSE IF selector THEN explicit ELSE FALSE
             rest == CodeLines(object, off + i.size, pending)
         IN  IF i.op = "mismatch" \/ (\E p \in inside : LabelsAt(object, "CODE", p) # {} \/ RelocationAt(object, p) # {})
             THEN [ok |-> FALSE, lines |-> <<>>]
             ELSE [ok |-> rest.ok, lines |-> LabelLines(object, "CODE", off) \o <<text>> \o rest.lines]

DataLines(object, section, bytes) ==
    Accumulate(LAMBDA a, i : a \o LabelLines(object, section, i - 1) \o <<Line(".byte", <<Num(bytes[i])>>)>>,
               <<>>, [i \in 1..Len(bytes) |-> i])
        \o LabelLines(object, section, Len(bytes))

\* scbr() and scmr() of the screen mode.
Scmr(config) == (CASE config.height = 256 -> 36 [] config.height = 192 -> 32 [] config.height = 160 -> 4 [] OTHER -> 0)
              + (CASE config.depth = 8 -> 3 [] config.depth = 4 -> 1 [] OTHER -> 0)
ConfigLines(object) ==
    LET define(name, v) == Line(".define", <<[k |-> "name", v |-> name], Num(v)>>)
        c == object.config
    IN  <<Line(".setcpu", <<>>), define("MEMORY_MAPPING", IF c.mapping = "LoROM" THEN 0 ELSE 1),
          define("CODE_START_ADDRESS", c.origin), define("DATA_ALIGNMENT", c.data_alignment),
          define("RAM_ALIGNMENT", c.ram_alignment)>>
        \o (IF object.hint THEN <<define("CODE_ALIGNMENT", 16)>> ELSE <<>>)
        \o (IF c.bitmap THEN <<define("BITMAP_SCBR", c.base \div 1024), define("BITMAP_SCMR", Scmr(c))>> ELSE <<>>)

\* generate(): configuration, exports, then the three segments.
Listing(object) ==
    LET segment(name) == <<Line(".segment", <<[k |-> "name", v |-> name]>>)>>
        public == SetToSeq({s.name : s \in {x \in object.syms : ~x.name.private}})
        code == CodeLines(object, 0, FALSE)
    IN  IF ~Exportable(object) THEN [ok |-> FALSE, lines |-> <<>>]
        ELSE [ok |-> code.ok,
              lines |-> ConfigLines(object) \o [i \in DOMAIN public |-> Line(".export", <<Sym(public[i])>>)]
                        \o segment("CODE") \o code.lines \o segment("DATA") \o DataLines(object, "DATA", object.data)
                        \o (IF object.ram = <<>> THEN <<>> ELSE segment("RAM") \o DataLines(object, "RAM", object.ram))]
================================================================================
