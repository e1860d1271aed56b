------------------------------ MODULE IRLowering ------------------------------
(***************************************************************************)
(* IRLowerer: the analyzed syntax tree of a function to the IR.  The        *)
(* lowerer's members are one record L: the function under construction,    *)
(* the current block, the last value, the break and continue targets, the  *)
(* plot context and the hardware-loop counter.                             *)
(*                                                                         *)
(* Expressions are records with a kind k and a result type t, statements   *)
(* records with a kind k: the tree the analyzer hands over, with casts     *)
(* already inserted and constants resolved.                                *)
(***************************************************************************)
EXTENDS SsaIr

isTerminated(L) == L.f.blocks[L.cur] # <<>> /\ isTerminator(Last(L.f.blocks[L.cur]))

emitInstruction(L, i) ==
    IF isTerminated(L) THEN [L EXCEPT !.err = "append after a terminator"]
    ELSE [L EXCEPT !.f.blocks[L.cur] = Append(@, [i EXCEPT !.plot = L.plot])]

\* emitValue: an instruction whose result, if it has one, is the last value.
emitValue(L, i) ==
    IF i.op \in ValueOpcodes /\ ~(i.op = "call" /\ isVoidType(i.type))
    THEN emitInstruction([L EXCEPT !.f.values = @ + 1, !.last = L.f.values + 1],
                         [i EXCEPT !.res = L.f.values + 1])
    ELSE emitInstruction([L EXCEPT !.last = NoValue], i)

emitBranch(L, target) == emitInstruction(L, BranchTo(target))
emitConditionalBranch(L, condition, yes, no) ==
    emitInstruction(L, [Instr("condbr", VoidT, <<condition>>) EXCEPT !.targets = <<yes, no>>])

\* createBlock, n times: the new blocks are the last ones of the function.
createBlocks(L, n) == [L EXCEPT !.f.blocks = @ \o [k \in 1..n |-> <<>>]]
At(L, block) == [L EXCEPT !.cur = block]
\* Store value at address with the metadata of the target's type.
Store(L, t, address, value) ==
    emitInstruction(L, [Instr("store.indirect", t, <<address, value>>) EXCEPT !.vol = t.vol])
DeclareStore(L, t, address, value) ==
    emitInstruction(L, [Instr("store.indirect", t, <<address, value>>) EXCEPT !.vol = t.vol, !.oper = "declare"])
LoadFrom(L, t, address) ==
    emitValue(L, [Instr("load.indirect", t, <<address>>) EXCEPT !.vol = t.vol])
\* The same with the last value as the operand.
Load(L, t) == LoadFrom(L, t, L.last)
CursorWrite(L, isY) ==
    emitInstruction(L, [Instr("cursor.write", WordT, <<L.last>>) EXCEPT !.imm = Truth(isY)])

RECURSIVE lowerExpression(_, _), lowerAddress(_, _), lowerAll(_, _, _)

\* Subexpressions in order; their values are collected in vals.
lowerAll(L, es, vals) ==
    IF es = <<>> THEN [L |-> L, vals |-> vals]
    ELSE LET next(M) == lowerAll(M, Tail(es), Append(vals, M.last)) IN next(lowerExpression(L, Head(es)))

lowerAddress(L, e) ==
    LET offset(M, base) == emitValue(M, [Instr("pointer.offset", pointerTo(e.t), <<base, M.last>>)
                                           EXCEPT !.oper = "+", !.imm = e.size])
        element(M) == offset(lowerExpression(M, e.idx), M.last)
        member(M) == emitValue(M, [Instr("address", pointerTo(e.t), <<M.last>>) EXCEPT !.oper = "member", !.imm = e.off])
    IN
    CASE e.k \in {"var", "array"} -> emitValue(L, [Instr("address", pointerTo(e.t), <<>>) EXCEPT !.sym = e.sym])
      [] e.k = "deref" -> lowerExpression(L, e.x)
      [] e.k = "sub" -> element(lowerExpression(L, e.arr))
      [] e.k = "member" -> member(lowerAddress(L, e.obj))
      [] OTHER -> [L EXCEPT !.err = "not an assignable address"]

\* UpdateExpr: address, old value, operation, store; the address is computed once.
lowerUpdate(L, e) ==
    LET coordinate == e.target.k = "cursor"
        castTo(M, from, to) == IF sameValueType(from, to) THEN M ELSE emitValue(M, Instr("cast", to, <<M.last>>))
        operated(M, left) == emitValue(M, [Instr(IF e.stride > 0 THEN "pointer.offset" ELSE "binary", e.opType, <<left, M.last>>)
                                             EXCEPT !.oper = e.op, !.imm = e.stride])
        stored(M, address, old) ==
            [(IF coordinate THEN CursorWrite(M, e.target.isY) ELSE Store(M, e.target.t, address, M.last))
                EXCEPT !.last = IF e.postfix THEN old ELSE M.last]
        computed(M, address, old) == stored(castTo(operated(lowerExpression(M, e.value), M.last), e.opType, e.t), address, old)
        read(M, address) == computed(castTo(M, e.target.t, e.opType), address, M.last)
        located(M) == read(Load(M, e.target.t), M.last)
    IN  IF coordinate THEN read(lowerExpression(L, e.target), NoValue) ELSE located(lowerAddress(L, e.target))

\* lowerLogical: short-circuit through a boolean stack temporary.
lowerLogical(L, e) ==
    LET size == (IF L.f.frame = 0 THEN 2 ELSE L.f.frame) + 2
        slot == [Instr("address", pointerTo(BoolT), <<>>) EXCEPT !.oper = "temporary", !.imm = -(size - 2)]
        conjunction == e.op = "&&"
        joining(M, cell, end) == emitBranch(Store(M, BoolT, cell, M.last), end)
        split(M, rhs, skip) == emitConditionalBranch(createBlocks(M, 3), M.last, IF conjunction THEN rhs ELSE skip,
                                                     IF conjunction THEN skip ELSE rhs)
        known(M) == emitValue(M, [Instr("const", BoolT, <<>>) EXCEPT !.imm = Truth(~conjunction)])
        after(M, cell, rhs, skip, end) ==
            joining(lowerExpression(At(joining(known(At(split(M, rhs, skip), skip)), cell, end), rhs), e.r), cell, end)
        from(M, cell, n) == LoadFrom(At(after(M, cell, n + 1, n + 2, n + 3), n + 3), BoolT, cell)
        left(M, cell) == from(M, cell, Len(M.f.blocks))
        begun(M) == left(lowerExpression(M, e.l), M.last)
    IN  begun(emitValue([L EXCEPT !.f.frame = size], slot))

lowerReadPixel(L, e) ==
    LET placed == CursorWrite(lowerExpression(CursorWrite(lowerExpression(L, e.x), FALSE), e.y), TRUE)
    IN  emitValue(IF e.placed THEN placed ELSE L, Instr("rpix", e.t, <<>>))

lowerAssign(L, e) ==
    LET stored(M, address) == Store(M, e.target.t, address, M.last)
        valued(M) == stored(lowerExpression(M, e.value), M.last)
    IN  IF e.target.k = "cursor" THEN CursorWrite(lowerExpression(L, e.value), e.target.isY)
        ELSE valued(lowerAddress(L, e.target))

lowerBinary(L, e) ==
    LET op == IF e.l.t.ptr > 0 /\ e.stride = 0 THEN "pointer.compare"
              ELSE IF e.stride > 0 THEN "pointer.offset" ELSE "binary"
        operated(M, left) == emitValue(M, [Instr(op, e.t, <<left, M.last>>) EXCEPT !.oper = e.op, !.imm = e.stride])
        second(M) == operated(lowerExpression(M, e.r), M.last)
    IN  second(lowerExpression(L, e.l))

\* A negated literal is a literal.
lowerUnary(L, e) ==
    LET operated(M) == emitValue(M, [Instr("unary", e.t, <<M.last>>) EXCEPT !.oper = e.op])
    IN  IF e.op = "-" /\ e.r.k = "lit" THEN emitValue(L, [Instr("const", e.t, <<>>) EXCEPT !.imm = -e.r.v])
        ELSE operated(lowerExpression(L, e.r))
lowerCall(L, e) ==
    LET call(arguments) == emitValue(arguments.L, [Instr("call", e.t, arguments.vals) EXCEPT !.sym = e.f])
    IN  call(lowerAll(L, e.args, <<>>))
lowerCast(L, e) == LET cast(M) == emitValue(M, Instr("cast", e.t, <<M.last>>)) IN cast(lowerExpression(L, e.x))
\* A variable, element, member or pointee is loaded; an array or & yields the address.
lowerVariable(L, e) == LET loaded(M) == IF e.k = "array" THEN M ELSE Load(M, e.t) IN loaded(lowerAddress(L, e))
lowerAccess(L, e) ==
    LET loaded(M) == IF e.k = "addressof" THEN M ELSE Load(M, e.t)
    IN  loaded(lowerAddress(L, IF e.k = "addressof" THEN e.x ELSE e))
lowerLiteral(L, e) == emitValue(L, [Instr("const", e.t, <<>>) EXCEPT !.imm = e.v])
lowerNull(L, e) == emitValue(L, [Instr("const", e.t, <<>>) EXCEPT !.oper = "null"])
lowerCursor(L, e) == emitValue(L, [Instr("cursor.read", WordT, <<>>) EXCEPT !.imm = Truth(e.isY)])

lowerExpression(L, e) ==
    CASE e.k = "lit" -> lowerLiteral(L, e)
      [] e.k = "null" -> lowerNull(L, e)
      [] e.k = "cursor" -> lowerCursor(L, e)
      [] e.k = "readpixel" -> lowerReadPixel(L, e)
      [] e.k = "update" -> lowerUpdate(L, e)
      [] e.k \in {"var", "array"} -> lowerVariable(L, e)
      [] e.k \in {"addressof", "sub", "member", "deref"} -> lowerAccess(L, e)
      [] e.k = "logical" -> lowerLogical(L, e)
      [] e.k = "bin" -> lowerBinary(L, e)
      [] e.k = "assign" -> lowerAssign(L, e)
      [] e.k = "un" -> lowerUnary(L, e)
      [] e.k = "call" -> lowerCall(L, e)
      [] e.k = "cast" -> lowerCast(L, e)

RECURSIVE lowerCondition(_, _, _, _)
lowerCondition(L, e, yes, no) ==
    CASE e.k = "logical" ->
            LET rhs == Len(L.f.blocks) + 1
                left == lowerCondition(createBlocks(L, 1), e.l, IF e.op = "&&" THEN rhs ELSE yes, IF e.op = "&&" THEN no ELSE rhs)
            IN  lowerCondition(At(left, rhs), e.r, yes, no)
      [] e.k = "un" /\ e.op = "!" -> lowerCondition(L, e.r, no, yes)
      [] e.k = "cast" /\ e.t = BoolT /\ isIntegerType(e.x.t) -> lowerCondition(L, e.x, yes, no)
      [] OTHER -> LET tested(M) == emitConditionalBranch(M, M.last, yes, no) IN tested(lowerExpression(L, e))

RECURSIVE lowerStatement(_, _), lowerStatementList(_, _)

lowerStatementList(L, list) ==
    IF list = <<>> \/ isTerminated(L) THEN L ELSE lowerStatementList(lowerStatement(L, Head(list)), Tail(list))

Branched(L, target) == IF isTerminated(L) THEN L ELSE emitBranch(L, target)
Targeted(L, block) == \E b \in DOMAIN L.f.blocks : \E n \in DOMAIN L.f.blocks[b] : block \in ToSet(L.f.blocks[b][n].targets)
emitUnreachable(L) == emitInstruction(L, Instr("unreachable", VoidT, <<>>))

lowerIf(L, s) ==
    LET hasElse == s.else # <<>>
        n == Len(L.f.blocks)
        then == n + 1
        otherwise == n + 2
        end == IF hasElse THEN n + 3 ELSE n + 2
        tested == lowerCondition(createBlocks(L, IF hasElse THEN 3 ELSE 2), s.cond, then, otherwise)
        both(yes, no) == [(IF isTerminated(yes) /\ isTerminated(no) THEN emitUnreachable(At(no, end)) ELSE At(Branched(no, end), end))
                            EXCEPT !.plot = yes.plot]
        arms(yes, closed) ==
            IF hasElse THEN both(yes, lowerStatement([At(closed, otherwise) EXCEPT !.plot = L.plot], s.else[1]))
            ELSE [At(closed, end) EXCEPT !.plot = L.plot]
        first(yes) == arms(yes, Branched(yes, end))
    IN  first(lowerStatement(At(tested, then), s.then))

\* The cache instruction a cached loop starts its condition with.
Cached(L, s) == IF s.cached THEN emitInstruction(L, Instr("cache", VoidT, <<>>)) ELSE L
\* A loop body with its break and continue targets pushed, then popped.
lowerBody(L, body, brk, cont) ==
    LET done == lowerStatement([L EXCEPT !.brk = <<brk>> \o @, !.cont = <<cont>> \o @], body)
    IN  [done EXCEPT !.brk = L.brk, !.cont = L.cont]

lowerFor(L, s) ==
    LET head(M, condition) == Cached(At(emitBranch(createBlocks(M, 4), condition), condition), s)
        tested(M, body, end) == At(lowerCondition(M, s.cond, body, end), body)
        looped(M, increment, end) == At(Branched(lowerBody(M, s.body, end, increment), increment), increment)
        stepped(M) == IF s.step = <<>> THEN M ELSE lowerExpression(M, s.step[1])
        closed(M, condition, increment) == IF Targeted(M, increment) THEN emitBranch(stepped(M), condition) ELSE emitUnreachable(M)
        from(M, condition) ==
            LET increment == condition + 2
                end == condition + 3
            IN  At(closed(looped(tested(head(M, condition), condition + 1, end), increment, end), condition, increment), end)
        initialized(M) == from(M, Len(M.f.blocks) + 1)
    IN  initialized(lowerStatementList(L, s.init))

lowerWhile(L, s) ==
    LET condition == Len(L.f.blocks) + 1
        body == condition + 1
        end == condition + 2
        head == Cached(At(emitBranch(createBlocks(L, 3), condition), condition), s)
        tested == At(lowerCondition(head, s.cond, body, end), body)
    IN  At(Branched(lowerBody(tested, s.body, end, condition), condition), end)

lowerHardwareLoop(L, s) ==
    LET id == L.hw + 1
        opened(M) == emitInstruction(M, [Instr("hardware_loop", VoidT, <<M.last>>) EXCEPT !.loop = id])
        closed(M) == IF isTerminated(M) THEN [M EXCEPT !.err = "hardware loop body cannot terminate"]
                     ELSE emitInstruction(M, [Instr("hardware_loop.end", VoidT, <<>>) EXCEPT !.loop = id])
    IN  closed(lowerStatement(opened(lowerExpression([L EXCEPT !.hw = id], s.count)), s.body))

\* lowerSwitchBody: labels are statements of the body; an arm falls through
\* to the next label unless its statements end the block.
lowerSwitch(L, s) ==
    LET labels == SelectSeq(Upto(Len(s.body)), LAMBDA n : s.body[n].k \in {"case", "default"})
        isDefault(a) == s.body[labels[a]].k = "default"
        cases == SelectSeq(Upto(Len(labels)), LAMBDA a : ~isDefault(a))
        defaults == SelectSeq(Upto(Len(labels)), isDefault)
        dispatched(M, end) == emitInstruction(createBlocks(M, 1 + Len(labels)),
            [Instr("switch", VoidT, <<M.last>>) EXCEPT
                !.targets = [n \in DOMAIN cases |-> end + cases[n]]
                            \o <<IF defaults = <<>> THEN end ELSE end + defaults[1]>>,
                !.cases = [n \in DOMAIN cases |-> s.body[labels[cases[n]]].v]])
        arm(M, a, end) ==
            LET next == IF a < Len(labels) THEN labels[a + 1] ELSE Len(s.body) + 1
            IN  Branched(lowerStatementList(At(M, end + a), SubSeq(s.body, labels[a] + 1, next - 1)),
                         IF a < Len(labels) THEN end + a + 1 ELSE end)
        arms(M, end) == Accumulate(LAMBDA N, a : arm(N, a, end), [M EXCEPT !.brk = <<end>> \o @], Upto(Len(labels)))
        joined(M, end) == IF Targeted(M, end) THEN M ELSE emitUnreachable(M)
        from(M, end) == joined([At(arms(dispatched(M, end), end), end) EXCEPT !.brk = L.brk], end)
        tested(M) == from(M, Len(M.f.blocks) + 1)
    IN  tested(lowerExpression(L, s.cond))

lowerDeclaration(L, s) ==
    LET stored(M, t, cell) == DeclareStore(M, t, cell, M.last)
        at(base, e) == [Instr("address", pointerTo(e.value.t), <<base>>) EXCEPT !.oper = "member", !.imm = e.off]
        valued(M, e) == stored(lowerExpression(M, e.value), e.value.t, M.last)
        filled(M) == Accumulate(LAMBDA N, e : valued(emitValue(N, at(M.last, e)), e), M, s.aggregate)
        whole(M, cell) == IF s.init = <<>> THEN M ELSE stored(lowerExpression(M, s.init[1]), s.t, cell)
        initialized(M) == whole(filled(M), M.last)
    IN  IF s.init = <<>> /\ s.aggregate = <<>> THEN L
        ELSE initialized(lowerAddress(L, [k |-> "var", t |-> s.t, sym |-> s.sym]))

lowerPlotBlock(L, s) ==
    LET begun == emitInstruction([L EXCEPT !.plot = TRUE], Instr("plot.begin", VoidT, <<>>))
        ended(M) == IF isTerminated(M) THEN M ELSE emitInstruction(M, Instr("plot.end", VoidT, <<>>))
    IN  ended([lowerStatement(begun, s.body) EXCEPT !.plot = FALSE])

lowerReturn(L, s) ==
    LET with(M) == emitInstruction(M, Instr("return", VoidT, <<M.last>>))
    IN  IF s.value = <<>> THEN emitInstruction(L, Instr("return.void", VoidT, <<>>)) ELSE with(lowerExpression(L, s.value[1]))
lowerBreak(L) ==
    IF L.brk = <<>> THEN [L EXCEPT !.err = "break is outside a loop or switch"] ELSE emitBranch(L, Head(L.brk))
lowerContinue(L) ==
    IF L.cont = <<>> THEN [L EXCEPT !.err = "continue outside loop"] ELSE emitBranch(L, Head(L.cont))
\* The drawing statements.
lowerGraphics(L, s) ==
    LET with(M) == emitInstruction(M, Instr(s.k, VoidT, <<M.last>>))
    IN  CASE s.k = "plot.begin" -> emitInstruction([L EXCEPT !.plot = TRUE], Instr(s.k, VoidT, <<>>))
          [] s.k = "plot.end" -> emitInstruction([L EXCEPT !.plot = FALSE], Instr(s.k, VoidT, <<>>))
          [] s.k = "color" -> with(lowerExpression(L, s.e))
          [] s.k = "cmode" -> emitInstruction(L, [Instr(s.k, VoidT, <<>>) EXCEPT !.imm = s.v])
          [] s.k = "rpix" -> emitInstruction(L, Instr(s.k, VoidT, <<>>))
lowerPixel(L) == emitInstruction(L, Instr("pixel", VoidT, <<>>))

lowerStatement(L, s) ==
    CASE s.k = "expr" -> lowerExpression(L, s.e)
      [] s.k = "decl" -> lowerDeclaration(L, s)
      [] s.k = "block" -> lowerStatementList(L, s.body)
      [] s.k = "if" -> lowerIf(L, s)
      [] s.k = "for" -> lowerFor(L, s)
      [] s.k = "while" -> lowerWhile(L, s)
      [] s.k = "switch" -> lowerSwitch(L, s)
      [] s.k = "break" -> lowerBreak(L)
      [] s.k = "continue" -> lowerContinue(L)
      [] s.k = "fallthrough" -> L
      [] s.k = "return" -> lowerReturn(L, s)
      [] s.k = "hardwareloop" -> lowerHardwareLoop(L, s)
      [] s.k = "plotblock" -> lowerPlotBlock(L, s)
      [] s.k = "pixel" -> lowerPixel(L)
      [] OTHER -> lowerGraphics(L, s)

\* visit(FunctionDeclStmt): an entry block, the body, and the implicit return.
\* Hardware-loop ids run on from the functions lowered before it.
lowerFunction(d, hw) ==
    LET start == [f |-> [name |-> d.name, ret |-> d.ret, params |-> d.params, cached |-> d.cached,
                         locals |-> d.locals, frame |-> d.frame, blocks |-> <<<<>>>>, values |-> 0],
                  cur |-> 1, last |-> NoValue, brk |-> <<>>, cont |-> <<>>, plot |-> FALSE, hw |-> hw, err |-> ""]
        ended(L) == IF isTerminated(L) THEN L
                    ELSE IF isVoidType(d.ret) THEN emitInstruction(L, Instr("return.void", VoidT, <<>>))
                    ELSE [L EXCEPT !.err = "non-void function reaches its end"]
    IN  ended(lowerStatementList(start, d.body))

\* lower(): every function of the program, in order.
AddFunction(m, L) == [functions |-> Append(m.functions, L.f), hw |-> L.hw, err |-> IF m.err # "" THEN m.err ELSE L.err]
RECURSIVE lowerFunctions(_, _)
lowerFunctions(m, program) ==
    IF program = <<>> THEN m ELSE lowerFunctions(AddFunction(m, lowerFunction(Head(program), m.hw)), Tail(program))
lower(program) == lowerFunctions([functions |-> <<>>, hw |-> 0, err |-> ""], program)

===============================================================================
