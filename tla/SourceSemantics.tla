--------------------------- MODULE SourceSemantics ---------------------------
(***************************************************************************)
(* What a source program means: an evaluator of the analyzed syntax tree   *)
(* that follows the language specification (operands, arguments and        *)
(* targets left to right, short-circuit logic, wrapping 16-bit words).     *)
(* It is the reference the lowered program is compared with and shares     *)
(* only the memory and the arithmetic of words with IRExecution.           *)
(***************************************************************************)
EXTENDS IRExecution

\* The syntax tree: expressions carry their type t.
Lit(v, t) == [k |-> "lit", t |-> t, v |-> v]
NullPtr(t) == [k |-> "null", t |-> t]
Var(sym, t) == [k |-> "var", t |-> t, sym |-> sym]
ArrayVar(sym, t) == [k |-> "array", t |-> t, sym |-> sym]
Cursor(isY) == [k |-> "cursor", t |-> WordT, isY |-> isY]
ReadPixel(placed, x, y) == [k |-> "readpixel", t |-> UByteT, placed |-> placed, x |-> x, y |-> y]
Deref(x, t) == [k |-> "deref", t |-> t, x |-> x]
AddressOf(x) == [k |-> "addressof", t |-> pointerTo(x.t), x |-> x]
Subscript(arr, idx, t) == [k |-> "sub", t |-> t, arr |-> arr, idx |-> idx, size |-> sizeInBytes(t)]
Member(obj, off, t) == [k |-> "member", t |-> t, obj |-> obj, off |-> off]
Bin(op, l, r) == [k |-> "bin", op |-> op, l |-> l, r |-> r, stride |-> 0, t |-> IF op \in Comparisons THEN BoolT ELSE l.t]
PointerStep(op, l, r) == [k |-> "bin", op |-> op, l |-> l, r |-> r, stride |-> sizeInBytes(pointeeType(l.t)), t |-> l.t]
Logical(op, l, r) == [k |-> "logical", t |-> BoolT, op |-> op, l |-> l, r |-> r]
Un(op, r) == [k |-> "un", t |-> IF op = "!" THEN BoolT ELSE r.t, op |-> op, r |-> r]
Assign(target, value) == [k |-> "assign", t |-> target.t, target |-> target, value |-> value]
\* x op= v; the operation is on words, or a pointer step.
Update(op, target, value, postfix) ==
    [k |-> "update", t |-> target.t, op |-> op, target |-> target, value |-> value, postfix |-> postfix,
     opType |-> IF target.t.ptr > 0 THEN target.t ELSE [WordT EXCEPT !.uns = target.t.uns],
     stride |-> IF target.t.ptr > 0 THEN sizeInBytes(pointeeType(target.t)) ELSE 0]
Call(f, args, t) == [k |-> "call", t |-> t, f |-> f, args |-> args]
Cast(x, t) == [k |-> "cast", t |-> t, x |-> x]

Expr(e) == [k |-> "expr", e |-> e]
Decl(sym, t, init) == [k |-> "decl", sym |-> sym, t |-> t, init |-> init, aggregate |-> <<>>]
Block(body) == [k |-> "block", body |-> body]
If(cond, then, else) == [k |-> "if", cond |-> cond, then |-> then, else |-> else]
While(cond, body) == [k |-> "while", cond |-> cond, body |-> body, cached |-> FALSE]
For(init, cond, step, body) == [k |-> "for", init |-> init, cond |-> cond, step |-> step, body |-> body, cached |-> FALSE]
Switch(cond, body) == [k |-> "switch", cond |-> cond, body |-> body]
Return(value) == [k |-> "return", value |-> value]
HardwareLoop(count, body) == [k |-> "hardwareloop", count |-> count, body |-> body]
PlotBlock(body) == [k |-> "plotblock", body |-> body]
Simple(k) == [k |-> k]

\* S: the world, the last value, whether the program stopped, what the
\* statement did to control, and the running function.
Stopped(S) == S.halt # "no" \/ S.ctl # "next"
Val(S, v) == [S EXCEPT !.val = v]

RECURSIVE Eval(_, _), Place(_, _), EvalAll(_, _, _), Exec(_, _), ExecList(_, _), Loop(_, _, _, _, _)

EvalAll(S, es, vals) ==
    IF es = <<>> THEN [S |-> S, vals |-> vals]
    ELSE LET next(A) == EvalAll(A, Tail(es), Append(vals, A.val)) IN next(Eval(S, Head(es)))

\* The cell an expression designates.
Place(S, e) ==
    LET member(A) == Val(A, Shift(A.val, e.off))
        scaled(base, B) == Val(B, Shift(base, e.size * AsInteger(B.val, e.idx.t)))
        element(A) == scaled(A.val, Eval(A, e.idx))
    IN
    CASE e.k \in {"var", "array"} ->
            Val(S, IF e.sym \in DOMAIN S.locals THEN <<"local", S.depth, e.sym, 0>> ELSE <<"global", 0, e.sym, 0>>)
      [] e.k = "deref" -> Eval(S, e.x)
      [] e.k = "member" -> member(Place(S, e.obj))
      [] e.k = "sub" -> element(Eval(S, e.arr))
ReadAt(S, cell, t) == LET with(got) == [S EXCEPT !.w = got.w, !.val = got.value] IN with(Read(S.w, cell, t, t.vol))
WriteAt(S, cell, value, t) == [S EXCEPT !.w = Write(@, cell, value, t.vol), !.val = value]
Arithmetic(S, op, x, y, operand, t) ==
    LET result(c) == IF c = -1 THEN [S EXCEPT !.halt = "fault"] ELSE Val(S, Narrow(c, t))
    IN  result(Compute(op, x, y, operand))
PointerMoved(cell, op, index, e, size) == Shift(cell, (IF op = "+" THEN 1 ELSE -1) * AsInteger(index, e.t) * size)

\* The parameters of d at a call depth, holding vals.
Bound(d, depth, vals) ==
    LET cell(k) == <<"local", depth, d.params[k].sym, 0>>
    IN  [c \in {cell(k) : k \in DOMAIN d.params} |-> vals[CHOOSE k \in DOMAIN d.params : cell(k) = c]]

Called(S, e) ==
    LET external(A, X) == [A.S EXCEPT !.w = X.w, !.val = X.value]
        enter(A, d) == [A.S EXCEPT !.w.mem = Bound(d, S.depth + 1, A.vals) @@ @, !.depth = @ + 1, !.locals = d.locals, !.val = 0]
        run(A, d) == [ExecList(enter(A, d), d.body) EXCEPT !.depth = S.depth, !.locals = S.locals, !.ctl = "next"]
        call(A, named) ==
            IF A.S.halt # "no" THEN A.S
            ELSE IF named = {} THEN external(A, External(A.S.w, e.f, A.vals, [k \in DOMAIN e.args |-> e.args[k].t], e.t))
            ELSE run(A, S.program[CHOOSE n \in named : TRUE])
    IN  call(EvalAll(S, e.args, <<>>), {n \in DOMAIN S.program : S.program[n].name = e.f})

Updated(S, e) ==
    LET store(cell, new) ==
            IF e.target.k = "cursor" THEN [new EXCEPT !.w = PlaceCursor(@, e.target.isY, new.val)]
            ELSE WriteAt(new, cell, new.val, e.target.t)
        done(cell, old, new) == IF new.halt # "no" THEN new ELSE Val(store(cell, new), IF e.postfix THEN old ELSE new.val)
        computed(old, rhs) ==
            IF e.stride > 0 THEN Val(rhs, PointerMoved(old, e.op, rhs.val, e.value, e.stride))
            ELSE Arithmetic(rhs, e.op, old, rhs.val, e.opType, e.t)
        update(cell, old) == done(cell, old.val, computed(old.val, Eval(old, e.value)))
        placed(A) == update(A.val, ReadAt(A, A.val, e.target.t))
    IN  IF e.target.k = "cursor" THEN update(Null, Eval(S, e.target)) ELSE placed(Place(S, e.target))

Pixelled(S, e) ==
    LET read(A) == [A EXCEPT !.w = Traced(@, <<"rpix", @.x, @.y>>), !.val = Narrow(A.w.input.pixel, e.t)]
        moved(A, isY) == [A EXCEPT !.w = PlaceCursor(@, isY, A.val)]
    IN  read(IF e.placed THEN moved(Eval(moved(Eval(S, e.x), FALSE), e.y), TRUE) ELSE S)

\* The value of an operation on evaluated operands.
Combined(B, x, e) ==
    IF B.halt # "no" THEN B
    ELSE IF e.stride > 0 THEN Val(B, PointerMoved(x, e.op, B.val, e.r, e.stride))
    ELSE IF e.l.t.ptr > 0 THEN Val(B, Truth((x = B.val) = (e.op = "==")))
    ELSE Arithmetic(B, e.op, x, B.val, e.l.t, e.t)

Eval(S, e) ==
    LET load(A) == IF A.halt # "no" THEN A ELSE ReadAt(A, A.val, e.t)
        second(A) == Combined(Eval(A, e.r), A.val, e)
        logical(A) == IF A.halt # "no" \/ (e.op = "&&" /\ A.val = 0) \/ (e.op = "||" /\ A.val # 0) THEN A ELSE Eval(A, e.r)
        negated(A) == IF A.halt # "no" THEN A ELSE Val(A, Narrow(Negate(e.op, A.val), e.t))
        cast(A) == IF A.halt # "no" THEN A ELSE Val(A, Narrow(A.val, e.t))
        moved(A) == [A EXCEPT !.w = PlaceCursor(@, e.target.isY, A.val)]
        store(B, cell) == IF B.halt # "no" THEN B ELSE WriteAt(B, cell, B.val, e.target.t)
        assigned(A) == store(Eval(A, e.value), A.val)
    IN
    IF S.halt # "no" THEN S
    ELSE CASE e.k = "lit" -> Val(S, Narrow(Abs16(e.v), e.t))
      [] e.k = "null" -> Val(S, Null)
      [] e.k = "cursor" -> Val(S, IF e.isY THEN S.w.y ELSE S.w.x)
      [] e.k = "readpixel" -> Pixelled(S, e)
      [] e.k = "array" -> Place(S, e)
      [] e.k = "addressof" -> Place(S, e.x)
      [] e.k \in {"var", "deref", "member", "sub"} -> load(Place(S, e))
      [] e.k = "bin" -> second(Eval(S, e.l))
      [] e.k = "logical" -> logical(Eval(S, e.l))
      [] e.k = "un" -> negated(Eval(S, e.r))
      [] e.k = "cast" -> cast(Eval(S, e.x))
      [] e.k = "call" -> Called(S, e)
      [] e.k = "update" -> Updated(S, e)
      [] e.k = "assign" -> IF e.target.k = "cursor" THEN moved(Eval(S, e.value)) ELSE assigned(Place(S, e.target))

ExecList(S, list) == IF list = <<>> \/ Stopped(S) THEN S ELSE ExecList(Exec(S, Head(list)), Tail(list))

\* while (cond) { body; step }
Loop(S, cond, body, step, rounds) ==
    LET again(N) == IF N.ctl = "break" THEN [N EXCEPT !.ctl = "next"]
                    ELSE IF Stopped(N) THEN N ELSE Loop(N, cond, body, step, rounds - 1)
        stepped(B) == ExecList([B EXCEPT !.ctl = IF @ = "continue" THEN "next" ELSE @], step)
        tested(C) == IF C.halt # "no" \/ C.val = 0 THEN C ELSE again(stepped(Exec(C, body)))
    IN  IF rounds = 0 THEN [S EXCEPT !.halt = "fuel"] ELSE tested(Eval(S, cond))

Repeat(S, body, n) == Accumulate(LAMBDA A, k : Exec(A, body), S, Upto(n))

Switched(S, s) ==
    LET hits(v) == {n \in DOMAIN s.body : s.body[n].k = "case" /\ s.body[n].v = AsInteger(v, s.cond.t)}
        defaults == {n \in DOMAIN s.body : s.body[n].k = "default"}
        from(v) == Min(IF hits(v) # {} THEN hits(v) ELSE defaults \union {Len(s.body) + 1})
        left(R) == [R EXCEPT !.ctl = IF @ = "break" THEN "next" ELSE @]
        select(C) == IF C.halt # "no" THEN C ELSE left(ExecList(C, SubSeq(s.body, from(C.val), Len(s.body))))
    IN  select(Eval(S, s.cond))

Initialized(S, s) ==
    LET cell == <<"local", S.depth, s.sym, 0>>
        store(B, off, t) == IF B.halt # "no" THEN B ELSE WriteAt(B, Shift(cell, off), B.val, t)
        filled == Accumulate(LAMBDA A, e : store(Eval(A, e.value), e.off, e.value.t), S, s.aggregate)
    IN  IF s.init = <<>> THEN filled ELSE store(Eval(filled, s.init[1]), 0, s.t)

Exec(S, s) ==
    LET branch(C) == IF C.halt # "no" THEN C
                     ELSE IF C.val # 0 THEN Exec(C, s.then) ELSE IF s.else = <<>> THEN C ELSE Exec(C, s.else[1])
        repeated(C) == Repeat(C, s.body, C.val)
        plotted(B) == IF Stopped(B) THEN B ELSE [B EXCEPT !.w = Traced(@, <<"plot.end">>)]
        colored(A) == IF A.halt # "no" THEN A ELSE [A EXCEPT !.w = Traced(@, <<"color", A.val>>)]
    IN
    IF Stopped(S) THEN S
    ELSE CASE s.k = "expr" -> Eval(S, s.e)
      [] s.k = "decl" -> Initialized(S, s)
      [] s.k = "block" -> ExecList(S, s.body)
      [] s.k = "if" -> branch(Eval(S, s.cond))
      [] s.k = "while" -> Loop(S, s.cond, s.body, <<>>, Fuel)
      [] s.k = "for" -> Loop(ExecList(S, s.init), s.cond, s.body, [n \in DOMAIN s.step |-> Expr(s.step[n])], Fuel)
      [] s.k = "switch" -> Switched(S, s)
      [] s.k \in {"break", "continue"} -> [S EXCEPT !.ctl = s.k]
      [] s.k \in {"fallthrough", "case", "default"} -> S
      [] s.k = "return" -> [(IF s.value = <<>> THEN Val(S, 0) ELSE Eval(S, s.value[1])) EXCEPT !.ctl = "return"]
      [] s.k = "hardwareloop" -> repeated(Eval(S, s.count))
      [] s.k = "plotblock" ->
            plotted(Exec([S EXCEPT !.w = Traced(@, <<"plot.begin">>)], s.body))
      [] s.k \in {"plot.begin", "plot.end"} -> [S EXCEPT !.w = Traced(@, <<s.k>>)]
      [] s.k = "pixel" -> [S EXCEPT !.w = Pixel(@)]
      [] s.k = "color" -> colored(Eval(S, s.e))
      [] s.k = "cmode" -> [S EXCEPT !.w = Traced(@, <<"cmode", s.v>>)]
      [] s.k = "rpix" -> [S EXCEPT !.w = Traced(@, <<"rpix", @.x, @.y>>)]

\* A run of main, observed as IRExecution observes the compiled program.
Interpret(program, arguments, input) ==
    LET d == program[CHOOSE n \in DOMAIN program : program[n].name = "main"]
        start == [w |-> [World(input) EXCEPT !.mem = Bound(d, 0, arguments)],
                  val |-> 0, halt |-> "no", ctl |-> "next", depth |-> 0, locals |-> d.locals, program |-> program]
        observed(end) ==
            [halt |-> IF end.halt = "no" THEN "return" ELSE end.halt,
             value |-> IF end.halt # "no" \/ isVoidType(d.ret) THEN 0 ELSE end.val,
             fx |-> end.w.fx, globals |-> Globals(end.w)]
    IN  observed(ExecList(start, d.body))

===============================================================================
