-------------------------------- MODULE SsaIr --------------------------------
(***************************************************************************)
(* The typed intermediate representation: types, instructions, functions   *)
(* (a sequence of basic blocks, the entry first), the facts about their    *)
(* control flow that every pass asks for, and the scalar evaluator the     *)
(* optimizers share.  Value 0 stands for an invalid value id, block 0 for  *)
(* an invalid block id.  Names, labels, source tokens, enum names, struct  *)
(* names, far and ROM pointers are left out.                               *)
(***************************************************************************)
EXTENDS Integers, Sequences, FiniteSets, SequencesExt, FiniteSetsExt, Bitwise, LeftFold

NoValue == 0

\* Types. vol describes the innermost pointee, as the qualifier of a layer does.
T(base, uns, ptr, vol) == [base |-> base, uns |-> uns, ptr |-> ptr, vol |-> vol]
WordT == T("word", FALSE, 0, FALSE)
UWordT == T("word", TRUE, 0, FALSE)
ByteT == T("byte", FALSE, 0, FALSE)
UByteT == T("byte", TRUE, 0, FALSE)
BoolT == T("bool", FALSE, 0, FALSE)
VoidT == T("void", FALSE, 0, FALSE)
pointerTo(t) == [t EXCEPT !.ptr = @ + 1]
pointeeType(t) == [t EXCEPT !.ptr = @ - 1]
isVoidType(t) == t.base = "void" /\ t.ptr = 0
isIntegerType(t) == t.ptr = 0 /\ t.base \in {"byte", "word", "bool"}
sameValueType(a, b) == a.base = b.base /\ a.uns = b.uns /\ a.ptr = b.ptr
sizeInBytes(t) == IF t.ptr > 0 \/ t.base = "word" THEN 2 ELSE 1

\* Opcodes.
ValueOpcodes == {"phi", "rpix", "cursor.read", "const", "address", "pointer.offset", "pointer.compare",
                 "load.indirect", "binary", "divmod", "divmod.result", "bit.extract", "unary", "cast", "call"}
TerminatorOpcodes == {"br", "condbr", "switch", "return", "return.void", "unreachable"}
LoopOpcodes == {"hardware_loop", "hardware_loop.end", "hardware_loop.leave"}
BinaryOperations == {"+", "-", "*", "/", "%", "&", "|", "^", "<<", ">>", "<", "<=", ">", ">=", "==", "!="}
Comparisons == {"<", "<=", ">", ">=", "==", "!="}

isTerminator(i) == i.op \in TerminatorOpcodes \/ (i.op \in {"hardware_loop", "hardware_loop.end"} /\ i.targets # <<>>)
producesValue(i) == i.op \in ValueOpcodes /\ ~(i.op \in {"call", "rpix"} /\ isVoidType(i.type))

\* What an instruction does to the graphics and loop hardware that nothing
\* may drop, duplicate or move it for.
Observable(i) == i.op \in {"cursor.write", "pixel", "rpix", "color", "cmode"} \cup LoopOpcodes

\* cases holds the labels of a switch and the values of memory.initialize.
\* A blank instruction; the lowerer and the passes fill in what they need.
Instr(op, type, args) ==
    [op |-> op, type |-> type, res |-> NoValue, args |-> args, targets |-> <<>>, loopTo |-> 0, loop |-> 0,
     cases |-> <<>>, imm |-> 0, oper |-> "", sym |-> "", vol |-> FALSE, plot |-> FALSE, split |-> FALSE]
ConstantOf(i, value) ==
    [i EXCEPT !.op = "const", !.args = <<>>, !.oper = "", !.imm = value, !.vol = FALSE]
BranchTo(b) == [Instr("br", VoidT, <<>>) EXCEPT !.targets = <<b>>]

\* A function's instructions in block order.
Flat(f) == Accumulate(\o, <<>>, f.blocks)
\* definitions(): the instruction that defines each value.
definitions(f) ==
    LET among(all) == SolidFcn([v \in {all[n].res : n \in DOMAIN all} \ {NoValue} |-> all[CHOOSE n \in DOMAIN all : all[n].res = v]])
    IN  among(Flat(f))
newValue(f) == f.values + 1
\* Rewriting every instruction, keeping only some.
Rewritten(f, Op(_)) == [f EXCEPT !.blocks = Mapped(LAMBDA code : Mapped(Op, code), @)]
Kept(f, Keep(_)) == [f EXCEPT !.blocks = Mapped(LAMBDA code : SelectSeq(code, Keep), @)]
Instructions(f) == UNION {ToSet(f.blocks[b]) : b \in DOMAIN f.blocks}
\* The block that defines each value.
Owners(f) == LET at == {<<b, f.blocks[b][n].res>> : <<b, n>> \in UNION {{b} \X DOMAIN f.blocks[b] : b \in DOMAIN f.blocks}}
             IN  SolidFcn([v \in {p[2] : p \in at} \ {NoValue} |-> (CHOOSE p \in at : p[2] = v)[1]])
\* Values renumbered in block order; an operand nothing defines becomes invalid.
Renumbered(f) ==
    LET renamed(number, v) == IF v \in DOMAIN number THEN number[v] ELSE NoValue
        by(number) == [Rewritten(f, LAMBDA i : [i EXCEPT !.args = Solid([n \in DOMAIN @ |-> renamed(number, @[n])]), !.res = renamed(number, @)])
                       EXCEPT !.values = Cardinality(DOMAIN number)]
        ranks(results) == SolidFcn([v \in ToSet(results) |-> CHOOSE n \in DOMAIN results : results[n] = v])
    IN  by(ranks(SelectSeq(Mapped(LAMBDA i : i.res, Flat(f)), LAMBDA v : v # NoValue)))
\* Insertion before a block's terminator and after its start.
BeforeEnd(code, new) == SubSeq(code, 1, Len(code) - 1) \o new \o <<Last(code)>>

\* Control flow, by the definitions ControlFlow's analysis is proved to compute.
Terminator(f, b) == Last(f.blocks[b])
Successors(f) == [b \in DOMAIN f.blocks |-> IF f.blocks[b] = <<>> THEN {} ELSE ToSet(Terminator(f, b).targets)]
Predecessors(f, b) == LET s == Successors(f) IN {p \in DOMAIN s : b \in s[p]}
RECURSIVE Closure(_, _, _)
Closure(succ, seen, border) ==
    IF border = {} THEN seen
    ELSE LET next == UNION {succ[b] : b \in border} \ seen IN Closure(succ, seen \cup next, next)
ReachableFrom(succ, from, avoiding) ==
    IF from \in avoiding THEN {}
    ELSE Closure([b \in DOMAIN succ |-> succ[b] \ avoiding], {from}, {from})
Reachable(f) == ReachableFrom(Successors(f), 1, {})
\* The blocks each reachable block is dominated by, itself included.
Dominators(f) ==
    LET succ == Successors(f)
        all == ReachableFrom(succ, 1, {})
        without == [d \in all |-> ReachableFrom(succ, 1, {d})]
    IN  [b \in all |-> {d \in all : b \notin without[d]}]
\* Natural loops: header and body, one per header (back edges to one header share a loop).
NaturalLoops(f) ==
    LET succ == Successors(f)
        dom == Dominators(f)
        latches(h) == {b \in DOMAIN dom : h \in succ[b] /\ h \in dom[b]}
        back == [b \in DOMAIN succ |-> {p \in DOMAIN dom : b \in succ[p]}]
        body(h) == {h} \cup Closure([b \in DOMAIN back |-> back[b] \ {h}], latches(h), latches(h) \ {h})
    IN  {[header |-> h, latches |-> latches(h), blocks |-> body(h)] : h \in {x \in DOMAIN dom : latches(x) # {}}}

\* ConstantEvaluator::convert: a mathematical value reduced to a type's range.
Convert(value, t) ==
    IF t.ptr > 0 THEN value
    ELSE IF t.base = "bool" THEN IF value # 0 THEN 1 ELSE 0
    ELSE LET modulus == IF t.base = "byte" THEN 256 ELSE 65536
             bits == value % modulus
         IN  IF ~t.uns /\ bits >= modulus \div 2 THEN bits - modulus ELSE bits

Truth(p) == IF p THEN 1 ELSE 0
Magnitude(a) == IF a < 0 THEN -a ELSE a
\* C++ integer division: toward zero.
Quotient(a, b) == LET q == Magnitude(a) \div Magnitude(b) IN IF (a < 0) = (b < 0) THEN q ELSE -q
Abs16(a) == a % 65536
\* a * b modulo 2^16, in steps that stay inside TLC's integers.
Product(a, b) ==
    LET x == Abs16(a)
        y == Abs16(b)
    IN  (((x * (y \div 256)) % 65536) * 256 + x * (y % 256)) % 65536

\* The operations evaluate() knows, on converted operands; {} when it gives up.
Folded(op, a, b) ==
    CASE op = "+" -> {a + b}
      [] op = "-" -> {a - b}
      [] op = "*" -> {Product(a, b)}
      [] op = "/" -> IF b = 0 THEN {} ELSE {Quotient(a, b)}
      [] op = "%" -> IF b = 0 THEN {} ELSE {a - b * Quotient(a, b)}
      [] op = "&" -> {Abs16(a) & Abs16(b)}
      [] op = "|" -> {Abs16(a) | Abs16(b)}
      [] op = "^" -> {Abs16(a) ^^ Abs16(b)}
      [] op = "<<" -> IF b \in 0..15 THEN {Product(a, 2 ^ b)} ELSE {}
      [] op = ">>" -> IF b \in 0..15 THEN {IF a >= 0 THEN a \div 2 ^ b ELSE -((-a + 2 ^ b - 1) \div 2 ^ b)} ELSE {}
      [] op = "==" -> {Truth(a = b)}
      [] op = "!=" -> {Truth(a # b)}
      [] op = "<" -> {Truth(a < b)}
      [] op = "<=" -> {Truth(a <= b)}
      [] op = ">" -> {Truth(a > b)}
      [] op = ">=" -> {Truth(a >= b)}
      [] OTHER -> {}

\* IRScalarFold::evaluate, for operands given as [type, value] records: the
\* set holds the folded value, or nothing when the instruction must stay.
evaluate(i, operands) ==
    IF ~isIntegerType(i.type) \/ Len(operands) \notin 1..2
       \/ \E n \in DOMAIN operands : ~isIntegerType(operands[n].type)
    THEN {}
    ELSE LET v == [n \in DOMAIN operands |-> Convert(operands[n].value, operands[n].type)]
             a == v[1]
             raw == CASE i.op = "bit.extract" -> IF i.imm \in 0..15 THEN {(Abs16(a) \div 2 ^ i.imm) % 2} ELSE {}
                      [] i.op = "cast" -> {a}
                      [] i.op = "unary" /\ i.oper = "-" -> {-a}
                      [] i.op = "unary" /\ i.oper = "!" -> {Truth(a = 0)}
                      [] i.op = "unary" /\ i.oper = "~" -> {65535 - Abs16(a)}
                      [] i.op = "binary" -> Folded(i.oper, a, v[2])
                      [] OTHER -> {}
         IN  {Convert(r, i.type) : r \in raw}

===============================================================================
