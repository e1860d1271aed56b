----------------------------- MODULE IRExecution -----------------------------
(***************************************************************************)
(* What an IR program does: the reference the middle-end's passes are      *)
(* compared with.  Registers hold 16-bit words as the GSU does, so the     *)
(* mathematical folding of the optimizers is checked against an            *)
(* independent arithmetic.  Memory cells are <<region, depth, name,        *)
(* offset>>; a pointer is such a cell.  An unwritten cell holds the        *)
(* input's junk; volatile reads, external calls and the graphics           *)
(* instructions are recorded in order.                                     *)
(***************************************************************************)
EXTENDS SsaIr, TLC

Null == <<"null", 0, "", 0>>

\* A word read through a type's signedness.
AsInteger(w, t) == IF ~t.uns /\ w >= 32768 THEN w - 65536 ELSE w
\* A word narrowed to a type, kept extended to 16 bits in its register.
Narrow(w, t) ==
    CASE t.ptr > 0 -> w
      [] t.base = "bool" -> Truth(w # 0)
      [] t.base = "byte" -> LET low == w % 256 IN IF ~t.uns /\ low >= 128 THEN low + 65280 ELSE low
      [] OTHER -> w

\* The machine's binary operations; "fault" where the generated code stops.
Compute(op, x, y, t) ==
    LET a == AsInteger(x, t)
        b == AsInteger(y, t)
    IN  CASE op = "+" -> (x + y) % 65536
          [] op = "-" -> (x - y) % 65536
          [] op = "*" -> Product(x, y)
          [] op \in {"/", "%"} -> IF y = 0 THEN -1
                                  ELSE (IF op = "/" THEN Quotient(a, b) ELSE a - b * Quotient(a, b)) % 65536
          [] op = "&" -> x & y
          [] op = "|" -> x | y
          [] op = "^" -> x ^^ y
          [] op = "<<" -> IF y > 15 THEN -1 ELSE Product(x, 2 ^ y)
          [] op = ">>" -> IF y > 15 THEN -1 ELSE (a \div 2 ^ y) % 65536
          [] op = "==" -> Truth(x = y)
          [] op = "!=" -> Truth(x # y)
          [] op = "<" -> Truth(a < b)
          [] op = "<=" -> Truth(a <= b)
          [] op = ">" -> Truth(a > b)
          [] op = ">=" -> Truth(a >= b)
Negate(op, w) == CASE op = "-" -> (-w) % 65536 [] op = "!" -> Truth(w = 0) [] op = "~" -> 65535 - w

\* The memory and the effects, shared with the source-level semantics.
World(input) == [mem |-> <<>>, fx |-> <<>>, vin |-> 0, x |-> 0, y |-> 0, input |-> input]
Traced(w, e) == [w EXCEPT !.fx = Append(@, e)]
Shift(cell, bytes) == [cell EXCEPT ![4] = @ + bytes]
Content(w, cell, t) ==
    IF cell \in DOMAIN w.mem THEN w.mem[cell] ELSE IF t.ptr > 0 THEN Null ELSE Narrow(w.input.junk, t)
VolatileIn(w) == w.input.volatile[(w.vin % Len(w.input.volatile)) + 1]
Write(w, cell, value, vol) ==
    LET m == [w EXCEPT !.mem = (cell :> value) @@ @] IN IF vol THEN Traced(m, <<"write", cell, value>>) ELSE m
Read(w, cell, t, vol) ==
    IF vol THEN [w |-> Traced([w EXCEPT !.vin = @ + 1], <<"read", cell>>), value |-> Narrow(VolatileIn(w), t)]
    ELSE [w |-> w, value |-> Content(w, cell, t)]
Globals(w) == LET g == {c \in DOMAIN w.mem : c[1] = "global"} IN [c \in g |-> w.mem[c]]
\* A function of another unit sees the globals and may write through the pointers it is given.
External(w, f, args, types, t) ==
    LET pointers == {n \in DOMAIN args : types[n].ptr > 0 /\ args[n] # Null}
        cells == {args[n] : n \in pointers}
        seen == Traced(w, <<"call", f, [n \in DOMAIN args |-> IF n \in pointers THEN Content(w, args[n], WordT) ELSE args[n]],
                            Globals(w)>>)
    IN  [w |-> [seen EXCEPT !.mem = [c \in cells |-> w.input.external] @@ @],
         value |-> IF t.ptr > 0 THEN Null ELSE Narrow(w.input.external, t)]
Pixel(w) == [Traced(w, <<"pixel", w.x, w.y>>) EXCEPT !.x = (@ + 1) % 65536]
PlaceCursor(w, isY, value) == IF isY THEN [w EXCEPT !.y = value] ELSE [w EXCEPT !.x = value]

\* A frame of the running program. Phis are read together on entry to a block.
Entered(f, frame, b) ==
    LET code == f.blocks[b]
        phis == {n \in DOMAIN code : code[n].op = "phi"}
        incoming(i) == frame.reg[i.args[CHOOSE k \in DOMAIN i.targets : i.targets[k] = frame.b]]
        new == {[v |-> code[n].res, w |-> incoming(code[n])] : n \in phis}
    IN  [frame EXCEPT !.b = b, !.pc = Cardinality(phis) + 1,
                      !.reg = [v \in DOMAIN @ |-> IF \E p \in new : p.v = v THEN (CHOOSE p \in new : p.v = v).w ELSE @[v]]]
NewFrame(functions, n, args, depth, w) ==
    LET f == functions[n]
        cell(k) == <<"local", depth, f.params[k].sym, 0>>
        set == {k \in DOMAIN f.params : TRUE}
    IN  [frame |-> [fn |-> n, b |-> 1, pc |-> 1, reg |-> [v \in 1..f.values |-> 0], loops |-> <<>>, depth |-> depth],
         w |-> [w EXCEPT !.mem = [c \in {cell(k) : k \in set} |-> args[CHOOSE k \in set : cell(k) = c]] @@ @]]

\* Instruction i of the top frame, which runs f.
Performed(functions, m, frame, f, i) ==
    LET r(n) == frame.reg[i.args[n]]
        ty(n) == f.defs[i.args[n]].type
        push(fr, w) == [m EXCEPT !.stack[1] = fr, !.w = w]
        next == [frame EXCEPT !.pc = @ + 1]
        give(value, w) == push([next EXCEPT !.reg[i.res] = value], w)
        result(value) == give(value, m.w)
        effect(w) == push(next, w)
        jump(b) == push(Entered(f, frame, b), m.w)
        fault == [m EXCEPT !.halt = "fault"]
        root == IF i.sym \in DOMAIN f.locals THEN <<"local", frame.depth, i.sym, 0>> ELSE <<"global", 0, i.sym, 0>>
        checked(value) == IF value = -1 THEN fault ELSE result(IF i.op = "binary" THEN Narrow(value, i.type) ELSE value)
        returned(done) == IF i.res = NoValue THEN effect(done.w) ELSE give(done.value, done.w)
        read(got) == give(got.value, got.w)
        called(callee) == [m EXCEPT !.stack = <<callee.frame>> \o @, !.w = callee.w]
        back(value) ==
            IF Len(m.stack) = 1 THEN [m EXCEPT !.halt = "return", !.value = value]
            ELSE LET caller == m.stack[2]
                     call == functions[caller.fn].blocks[caller.b][caller.pc]
                 IN  [m EXCEPT !.stack = <<[caller EXCEPT !.pc = @ + 1,
                          !.reg = IF call.res = NoValue THEN @ ELSE [@ EXCEPT ![call.res] = value]]>> \o SubSeq(@, 3, Len(@))]
        left == (frame.loops[1].left - 1) % 65536
    IN  CASE i.op = "const" -> result(IF i.type.ptr > 0 THEN Null ELSE Narrow(Abs16(i.imm), i.type))
          [] i.op = "address" -> result(IF i.oper = "temporary" THEN <<"temporary", frame.depth, "", i.imm>>
                                        ELSE IF i.oper = "member" THEN Shift(r(1), i.imm) ELSE root)
          [] i.op = "pointer.offset" ->
                result(LET bytes == IF Len(i.args) = 3 THEN r(3) ELSE AsInteger(r(2), ty(2)) * i.imm
                       IN  Shift(r(1), IF i.oper \in {"+", "scaled+"} THEN bytes ELSE -bytes))
          [] i.op = "pointer.compare" -> result(Truth((r(1) = r(2)) = (i.oper = "==")))
          [] i.op = "load.indirect" -> read(Read(m.w, r(1), i.type, i.vol))
          [] i.op = "store.indirect" -> effect(Write(m.w, r(1), r(2), i.vol))
          [] i.op \in {"binary", "divmod"} -> checked(Compute(i.oper, r(1), r(2), ty(1)))
          [] i.op = "divmod.result" ->
                LET pair == f.defs[i.args[1]]
                IN  result(Compute(i.oper, frame.reg[pair.args[1]], frame.reg[pair.args[2]], i.type))
          [] i.op = "bit.extract" -> result((r(1) \div 2 ^ i.imm) % 2)
          [] i.op = "unary" -> result(Narrow(Negate(i.oper, r(1)), i.type))
          [] i.op = "cast" -> result(Narrow(r(1), i.type))
          [] i.op = "call" ->
                IF \E n \in DOMAIN functions : functions[n].name = i.sym
                THEN called(NewFrame(functions, CHOOSE n \in DOMAIN functions : functions[n].name = i.sym,
                                     [k \in DOMAIN i.args |-> r(k)], frame.depth + 1, m.w))
                ELSE returned(External(m.w, i.sym, [k \in DOMAIN i.args |-> r(k)], [k \in DOMAIN i.args |-> ty(k)], i.type))
          [] i.op = "cursor.read" -> result(IF i.imm = 1 THEN m.w.y ELSE m.w.x)
          [] i.op = "cursor.write" -> effect(PlaceCursor(m.w, i.imm = 1, r(1)))
          [] i.op = "pixel" -> effect(Pixel(m.w))
          [] i.op = "rpix" ->
                returned([w |-> Traced(m.w, <<"rpix", m.w.x, m.w.y>>), value |-> Narrow(m.w.input.pixel, i.type)])
          [] i.op = "color" -> effect(Traced(m.w, <<"color", r(1)>>))
          [] i.op = "cmode" -> effect(Traced(m.w, <<"cmode", i.imm>>))
          [] i.op \in {"plot.begin", "plot.end"} -> effect(Traced(m.w, <<i.op>>))
          [] i.op = "cache" -> effect(m.w)
          [] i.op = "memory.initialize" ->
                effect(Accumulate(LAMBDA w, k : Write(w, Shift(r(1), (k - 1) * sizeInBytes(i.type)), Narrow(i.cases[k], i.type), FALSE),
                                  m.w, Upto(Len(i.cases))))
          [] i.op = "hardware_loop" ->
                LET scope == [frame EXCEPT !.loops = <<[left |-> r(1), b |-> frame.b, pc |-> frame.pc + 1]>> \o @]
                IN  IF i.targets = <<>> THEN push([scope EXCEPT !.pc = @ + 1], m.w)
                    ELSE push(Entered(f, scope, i.targets[1]), m.w)
          [] i.op = "hardware_loop.end" ->
                LET counted == [frame EXCEPT !.loops[1].left = left]
                IN  IF i.targets # <<>> THEN push(Entered(f, counted, i.targets[IF left # 0 THEN 1 ELSE 2]), m.w)
                    ELSE IF left # 0 THEN push([counted EXCEPT !.b = frame.loops[1].b, !.pc = frame.loops[1].pc], m.w)
                    ELSE push([next EXCEPT !.loops = Tail(@)], m.w)
          [] i.op = "hardware_loop.leave" -> push([next EXCEPT !.loops = Tail(@)], m.w)
          [] i.op = "br" -> jump(i.targets[1])
          [] i.op = "condbr" -> jump(i.targets[IF r(1) # 0 THEN 1 ELSE 2])
          [] i.op = "switch" ->
                LET hits == {n \in DOMAIN i.cases : i.cases[n] = AsInteger(r(1), ty(1))}
                IN  jump(IF hits = {} THEN Last(i.targets) ELSE i.targets[CHOOSE n \in hits : TRUE])
          [] i.op = "return" -> back(r(1))
          [] i.op = "return.void" -> back(0)

\* One step of the frame on top.
StepIn(functions, m, frame, f) == Performed(functions, m, frame, f, f.blocks[frame.b][frame.pc])
Step(functions, m) == StepIn(functions, m, m.stack[1], functions[m.stack[1].fn])

\* A run of the function named main. A loop of the source runs Fuel times at
\* most, a program MaxSteps steps.
Fuel == 24
MaxSteps == Fuel * Fuel
Summary(end) == [halt |-> end.halt, value |-> end.value, fx |-> end.w.fx, globals |-> Globals(end.w)]
RunFrom(functions, start) ==
    Accumulate(LAMBDA m, k : IF m.halt = "no" THEN Step(functions, m) ELSE m,
               [stack |-> <<start.frame>>, w |-> start.w, halt |-> "no", value |-> 0], Upto(MaxSteps))
RunMain(functions, arguments, input) ==
    RunFrom(functions, NewFrame(functions, CHOOSE n \in DOMAIN functions : functions[n].name = "main", arguments, 0, World(input)))
Execute(module, arguments, input) ==
    Summary(RunMain(Mapped(LAMBDA f : f @@ [defs |-> definitions(f)], module), arguments, input))

===============================================================================
