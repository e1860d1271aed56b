--------------------------- MODULE GlobalOptimizer ---------------------------
(***************************************************************************)
(* The passes of IRGlobalOptimizer: promotion of stack cells to SSA        *)
(* values, inlining of leaf functions, loop-invariant code motion,         *)
(* strength reduction of scaled indices and the rematerialization of       *)
(* branch predicates.  Growth and work budgets that no small program       *)
(* reaches are left out, except those of the inliner.                      *)
(***************************************************************************)
EXTENDS SsaIr

sameScalar(a, b) == isIntegerType(a) /\ isIntegerType(b) /\ a.base = b.base /\ a.uns = b.uns
\* A type as a promotable cell; count is the array size of the object, 0 for none.
promotableCell(t, count) == count = 0 /\ (isIntegerType(t) \/ t.ptr > 0)
sameCell(a, b) == sameScalar(a, b) \/ (a.ptr > 0 /\ sameValueType(a, b))

\* resolve: the value an alias chain ends in.
RECURSIVE resolve(_, _)
resolve(v, alias) == IF v \in DOMAIN alias THEN resolve(alias[v], alias) ELSE v
Resolved(i, alias) == [i EXCEPT !.args = Mapped(LAMBDA v : resolve(v, alias), @)]

\* Substitution as the value passes do it: aliases resolved, erased values gone.
Substituted(f, alias, erased) ==
    Renumbered(Kept(Rewritten(f, LAMBDA i : Resolved(i, alias)), LAMBDA i : i.res \notin erased))

\* compact: resolve operands, drop the erased values and the symbol addresses
\* nothing uses, and renumber what is left in block order.
compact(f, alias, erased) ==
    LET without(g, used) ==
            Kept(g, LAMBDA i : i.res = NoValue \/ (i.res \notin erased /\ ~(i.op = "address" /\ i.oper = "" /\ i.res \notin used)))
        live(g) == without(g, UNION {ToSet(i.args) : i \in {j \in Instructions(g) : j.res \notin erased}})
    IN  Renumbered(live(Rewritten(f, LAMBDA i : Resolved(i, alias))))

\* simplifyPhis: a phi of one value (besides itself) is that value.
simplifyPhis(f) ==
    LET phis == {i \in Instructions(f) : i.op = "phi"}
        round(alias) ==
            Accumulate(LAMBDA a, i :
                LET roots == {resolve(v, a) : v \in ToSet(i.args)} \ {i.res}
                IN  IF i.op = "phi" /\ i.res \notin DOMAIN a /\ Cardinality(roots) = 1
                    THEN (i.res :> CHOOSE v \in roots : TRUE) @@ a ELSE a, alias, Flat(f))
        without(alias) == compact(f, alias, DOMAIN alias)
    IN  without(Settled(round, <<>>))

-----------------------------------------------------------------------------
(* promote: SSA construction for stack cells.                              *)

\* A storage root is <<symbol, 0>> or <<"", value>> for an anonymous slot.
Extent(local) == local.bytes * (IF local.count > 1 THEN local.count ELSE 1)
RootOf(f, i, nearPointers) ==
    IF i.op # "address" THEN {}
    ELSE IF i.oper = "temporary" THEN {<<"", i.res>>}
    ELSE IF i.oper # "" \/ i.sym \notin DOMAIN f.locals THEN {}
    ELSE LET local == f.locals[i.sym]
         IN  IF (local.type.vol /\ local.type.ptr = 0) \/ (~nearPointers /\ local.type.ptr > 0) THEN {}
             ELSE IF ~promotableCell(local.type, local.count) /\ (Extent(local) > 64 \/ local.off > 0) THEN {}
             ELSE {<<i.sym, 0>>}

\* Addresses of statically known cells: roots, then member and constant-index paths.
Paths(f, defs, roots, extents) ==
    LET grow(at, i) ==
            LET base == at[i.args[1]]
                index == defs[i.args[2]]
                amount == Convert(index.imm, index.type) * i.imm
                offset == CASE i.op = "address" /\ i.oper = "member" -> IF i.imm > extents[base[1]] THEN -1 ELSE base[2] + i.imm
                            [] i.op = "pointer.offset" /\ Len(i.args) = 2 /\ i.oper \in {"+", "-"} /\ i.imm <= 64 ->
                                    IF index.op # "const" THEN -1
                                    ELSE base[2] + (IF i.oper = "-" THEN -amount ELSE amount)
                            [] OTHER -> -1
            IN  IF i.res = NoValue \/ i.res \in DOMAIN at \/ i.args = <<>> \/ i.type.ptr # 1 THEN at
                ELSE IF i.args[1] \notin DOMAIN at THEN at
                ELSE IF offset < 0 \/ offset > extents[base[1]] THEN at
                ELSE (i.res :> <<base[1], offset>>) @@ at
    IN  Settled(LAMBDA at : Accumulate(grow, at, Flat(f)), roots)

\* Frame intervals that overlap: anonymous slots are independent only while
\* their slots are, of each other and of the locals.
Overlapping(f, offsets, extents) ==
    LET temporaries == {r \in DOMAIN offsets : r[1] = ""}
        meets(a, sizeA, b, sizeB) == a < b + sizeB /\ b < a + sizeA
        withLocal == {<<r, s>> \in temporaries \X DOMAIN f.locals :
                        /\ f.locals[s].off < 0
                        /\ meets(offsets[r], extents[r], f.locals[s].off, Extent(f.locals[s]))}
    IN  {p[1] : p \in withLocal} \cup {<<p[2], 0>> : p \in withLocal}
        \cup {r \in temporaries : \E q \in temporaries \ {r} : meets(offsets[r], extents[r], offsets[q], extents[q])}

IsAccess(i) == i.op \in {"load.indirect", "store.indirect"}
Alignment(t) == IF t.ptr > 0 \/ t.base \notin {"byte", "bool", "void"} THEN 2 ELSE 1

\* The cells that may live in values: [cell, type, parameter, root address].
Candidates(f, defs, at, offsets, extents, nearPointers) ==
    LET uses == UNION {{[i |-> i, n |-> n, cell |-> at[i.args[n]]] : n \in {m \in DOMAIN i.args : i.args[m] \in DOMAIN at}}
                        : i \in Instructions(f)}
        derives(u) == u.n = 1 /\ u.i.res \in DOMAIN at /\ u.i.op \in {"address", "pointer.offset"}
        fine(u) == /\ u.n = 1 /\ IsAccess(u.i) /\ ~u.i.vol
                   /\ sameCell(u.i.type, pointeeType(defs[u.i.args[1]].type))
                   /\ sizeInBytes(u.i.type) <= extents[u.cell[1]] - u.cell[2]
                   /\ (offsets[u.cell[1]] + u.cell[2]) % Alignment(u.i.type) = 0
        accesses == {u \in uses : ~derives(u) /\ fine(u)}
        cells == {[cell |-> u.cell, type |-> u.i.type] : u \in accesses}
        clash(a, b) == IF a.cell = b.cell THEN ~sameCell(a.type, b.type)
                       ELSE /\ a.cell[1] = b.cell[1]
                            /\ a.cell[2] < b.cell[2] + sizeInBytes(b.type) /\ b.cell[2] < a.cell[2] + sizeInBytes(a.type)
        blocked == {u.cell[1] : u \in {v \in uses : ~derives(v) /\ ~fine(v)}}
                   \cup {a.cell[1] : a \in {x \in cells : \E y \in cells : clash(x, y)}}
                   \cup {r \in DOMAIN extents : Cardinality({c.cell : c \in {d \in cells : d.cell[1] = r}}) > 16}
                   \cup Overlapping(f, offsets, extents)
                   \cup {r \in DOMAIN extents : r[1] = "" /\ LET t == pointeeType(defs[r[2]].type)
                                                             IN  ~isIntegerType(t) \/ t.vol \/ defs[r[2]].imm + sizeInBytes(t) > 0}
                   \cup {<<i.sym, 0>> : i \in {j \in Instructions(f) : j.op = "phi" /\ j.sym # ""}}
        firstIsLoad(c) ==
            LET entry == SelectSeq(f.blocks[1], LAMBDA i : IsAccess(i) /\ i.args[1] \in DOMAIN at /\ at[i.args[1]] = c.cell)
            IN  entry # <<>> /\ entry[1].op = "load.indirect"
        parameter(c) == offsets[c.cell[1]] > 0
    IN  [blocked |-> blocked,
         cells |-> {[cell |-> c.cell, type |-> c.type, parameter |-> parameter(c)]
                        : c \in {d \in cells : d.cell[1] \notin blocked /\ (parameter(d) /\ d.type.ptr > 0 => firstIsLoad(d))}}]

\* Where one cell is written, read before written, and needs a phi.
CellFlow(f, at, c) ==
    LET succ == Successors(f)
        touches(code) == SelectSeq(code, LAMBDA i : IsAccess(i) /\ i.args[1] \in DOMAIN at /\ at[i.args[1]] = c.cell)
        gen == {b \in DOMAIN succ : \E i \in ToSet(touches(f.blocks[b])) : i.op = "store.indirect"}
        use == {b \in DOMAIN succ : LET t == touches(f.blocks[b]) IN t # <<>> /\ t[1].op = "load.indirect"}
        unassigned == IF c.parameter THEN {} ELSE ReachableFrom([b \in DOMAIN succ |-> IF b \in gen THEN {} ELSE succ[b]], 1, {})
        live == Closure([b \in DOMAIN succ |-> {p \in DOMAIN succ : b \in succ[p]} \ gen], use, use)
        dom == Dominators(f)
        frontier == SolidFcn([b \in DOMAIN dom |-> {j \in DOMAIN dom : /\ \E p \in DOMAIN dom : j \in succ[p] /\ b \in dom[p]
                                                                      /\ ~(b \in dom[j] /\ b # j)}])
        start == (gen \cap DOMAIN dom) \cup (IF c.parameter THEN {1} ELSE {})
        joins == Settled(LAMBDA js : {j \in UNION {frontier[b] : b \in start \cup (js \ gen)} : j \in live}, {})
    IN  [safe |-> use \cap unassigned = {}, joins |-> joins]

\* The renaming walk over the dominator tree. env maps each promoted cell to its value.
RECURSIVE Renamed(_, _, _, _)
Renamed(cx, st, b, env) ==
    LET held(i) == IsAccess(i) /\ i.args[1] \in DOMAIN cx.at /\ cx.at[i.args[1]] \in cx.cells
        one(a, i) ==
            IF i.op = "phi" /\ i.res \in DOMAIN cx.phis
            THEN [a EXCEPT !.out = Append(@, i), !.env = (cx.phis[i.res] :> i.res) @@ @]
            ELSE IF ~held(i) THEN [a EXCEPT !.out = Append(@, i)]
            ELSE LET cell == cx.at[i.args[1]]
                 IN  IF i.op = "store.indirect" THEN [a EXCEPT !.env = (cell :> resolve(i.args[2], a.alias)) @@ @]
                     ELSE IF i.res \in cx.initial THEN [a EXCEPT !.out = Append(@, i), !.env = (cell :> i.res) @@ @]
                     ELSE [a EXCEPT !.alias = (i.res :> resolve(a.env[cell], a.alias)) @@ @]
        done == Accumulate(one, [out |-> <<>>, env |-> env, alias |-> st.alias], st.blocks[b])
        fed(i) == IF i.op # "phi" \/ i.res \notin DOMAIN cx.phis THEN i
                  ELSE [i EXCEPT !.args = Solid([n \in DOMAIN @ |-> IF i.targets[n] = b
                                                    THEN resolve(done.env[cx.phis[i.res]], done.alias) ELSE @[n]])]
        wired == Solid([s \in DOMAIN st.blocks |-> LET code == IF s = b THEN done.out ELSE st.blocks[s]
                                                   IN  IF s \in cx.succ[b] THEN Mapped(fed, code) ELSE code])
    IN  Accumulate(LAMBDA a, child : Renamed(cx, a, child, done.env), [blocks |-> wired, alias |-> done.alias], cx.children[b])

\* Dead addresses of promoted objects, removed from the last use backwards.
Swept(f, at, blocked) ==
    Settled(LAMBDA g : LET used == UNION {ToSet(i.args) : i \in Instructions(g)}
                       IN  Kept(g, LAMBDA i : ~(i.res \in DOMAIN at /\ i.res \notin used /\ at[i.res][1] \notin blocked)), f)

\* What promotion decides about a function: the address that first names each
\* root, the known paths, the cells that become values, the <<cell, block>>
\* pairs that need a phi and the scalar parameters that are loaded on entry.
PromotionPlan(f, nearPointers) ==
    LET heads == {i \in Instructions(f) : RootOf(f, i, nearPointers) # {}}
        root(i) == CHOOSE r \in RootOf(f, i, nearPointers) : TRUE
        headOf == SolidFcn([r \in {root(i) : i \in heads} |-> CHOOSE i \in heads : root(i) = r])
        extents(head) == SolidFcn([r \in DOMAIN head |-> IF r[1] = "" THEN sizeInBytes(pointeeType(head[r].type)) ELSE Extent(f.locals[r[1]])])
        offsets(head) == SolidFcn([r \in DOMAIN head |-> IF r[1] = "" THEN head[r].imm ELSE f.locals[r[1]].off])
        paths(defs, ext) == Paths(f, defs, SolidFcn([v \in {i.res : i \in heads} |-> <<root(CHOOSE i \in heads : i.res = v), 0>>]), ext)
        joins(at, chosen) == Listed(UNION {{<<n, j>> : j \in CellFlow(f, at, chosen[n]).joins} : n \in DOMAIN chosen})
        plan(head, at, found, chosen) ==
            [head |-> head, at |-> at, blocked |-> found.blocked, chosen |-> chosen, phiFor |-> joins(at, chosen),
             arriving |-> SelectSeq(Upto(Len(chosen)), LAMBDA n : chosen[n].parameter /\ chosen[n].type.ptr = 0)]
        choose(head, at, found) == plan(head, at, found, Listed({c \in found.cells : CellFlow(f, at, c).safe}))
        candidates(head, defs, ext, at) == choose(head, at, Candidates(f, defs, at, offsets(head), ext, nearPointers))
        reach(head, defs, ext) == candidates(head, defs, ext, paths(defs, ext))
        measure(head, defs) == reach(head, defs, extents(head))
    IN  measure(headOf, definitions(f))

\* The function with the planned cells in values: phis and entry loads put in,
\* accesses renamed, dead addresses swept, the frame dropped when nothing needs it.
InValues(f, p) ==
    LET base == f.values + Len(p.phiFor)
        phi(k, c, preds) == [Instr("phi", c.type, [n \in DOMAIN preds |-> NoValue]) EXCEPT
                                !.res = f.values + k, !.targets = preds, !.sym = c.cell[1][1]]
        phiAt(k) == phi(k, p.chosen[p.phiFor[k][1]], Listed(Predecessors(f, p.phiFor[k][2])))
        loaded(k, c) == <<[p.head[c.cell[1]] EXCEPT !.res = base + 2 * k - 1],
                          [Instr("load.indirect", c.type, <<base + 2 * k - 1>>) EXCEPT !.res = base + 2 * k]>>
        entry == Accumulate(LAMBDA code, k : loaded(k, p.chosen[p.arriving[k]]) \o code, <<>>, Upto(Len(p.arriving)))
        firstLoad(c) == SelectSeq(f.blocks[1], LAMBDA i : i.op = "load.indirect" /\ i.args[1] \in DOMAIN p.at /\ p.at[i.args[1]] = c.cell)[1].res
        withPhis == Solid([b \in DOMAIN f.blocks |->
                        Mapped(phiAt, SelectSeq(Upto(Len(p.phiFor)), LAMBDA k : p.phiFor[k][2] = b))
                        \o (IF b = 1 THEN entry ELSE <<>>) \o f.blocks[b]])
        idom(dom, b) == CHOOSE d \in dom[b] \ {b} : \A e \in dom[b] \ {b} : e \in dom[d]
        children(dom) == SolidFcn([b \in DOMAIN dom |-> Listed({c \in DOMAIN dom \ {1} : idom(dom, c) = b})])
        at == [v \in {base + 2 * k - 1 : k \in DOMAIN p.arriving} |-> p.chosen[p.arriving[(v - base + 1) \div 2]].cell] @@ p.at
        cx == [at |-> at, cells |-> {p.chosen[n].cell : n \in DOMAIN p.chosen}, succ |-> Successors(f),
               phis |-> SolidFcn([v \in {f.values + k : k \in DOMAIN p.phiFor} |-> p.chosen[p.phiFor[v - f.values][1]].cell]),
               initial |-> {firstLoad(c) : c \in {p.chosen[n] : n \in {m \in DOMAIN p.chosen : p.chosen[m].parameter /\ p.chosen[m].type.ptr > 0}}}
                           \cup {base + 2 * k : k \in DOMAIN p.arriving},
               children |-> children(Dominators(f))]
        swept(named) == Swept(Rewritten([f EXCEPT !.blocks = named.blocks, !.values = base + 2 * Len(p.arriving)],
                                        LAMBDA i : Resolved(i, named.alias)), at, p.blocked)
        small(named) == simplifyPhis(compact(swept(named), named.alias, {}))
        framed(g) == \E i \in Instructions(g) : i.op = "address" /\
                        (i.oper = "temporary" \/ (i.sym \in DOMAIN f.locals /\ f.locals[i.sym].off < 0))
        finish(g) == [g EXCEPT !.frame = IF framed(g) THEN @ ELSE 0]
    IN  finish(small(Renamed(cx, [blocks |-> withPhis, alias |-> <<>>], 1, <<>>)))

promote(f, nearPointers) ==
    LET by(plan) == IF plan.chosen = <<>> THEN f ELSE InValues(f, plan)
    IN  by(PromotionPlan(f, nearPointers))

-----------------------------------------------------------------------------
(* Hardware loops as control flow: setup and end become terminators.       *)

exposeHardwareLoops(f) ==
    LET cut(i) == i.op \in {"hardware_loop", "hardware_loop.end"} /\ i.targets = <<>>
        add(a, i) ==
            LET n == Len(a.blocks)
                leave == [Instr("hardware_loop.leave", VoidT, <<>>) EXCEPT !.loop = i.loop, !.plot = i.plot]
            IN  IF ~cut(i) THEN [a EXCEPT !.blocks[n] = Append(@, i)]
                ELSE [a EXCEPT !.blocks = Append([@ EXCEPT ![n] = Append(@, [i EXCEPT !.targets = <<n + 1>>])],
                                                 IF i.op = "hardware_loop" THEN <<>> ELSE <<leave>>),
                               !.body = IF i.op = "hardware_loop" THEN (i.loop :> n + 1) @@ @ ELSE @]
        pieces == Accumulate(LAMBDA a, code : Accumulate(add, [a EXCEPT !.first = Append(@, Len(a.blocks) + 1),
                                                                        !.blocks = Append(@, <<>>)], code),
                             [blocks |-> <<>>, first |-> <<>>, body |-> <<>>], f.blocks)
        aimed(i) == CASE i.op = "hardware_loop" -> [i EXCEPT !.loopTo = pieces.body[i.loop]]
                      [] i.op = "hardware_loop.end" -> [i EXCEPT !.targets = <<pieces.body[i.loop]>> \o @]
                      [] OTHER -> [i EXCEPT !.targets = Mapped(LAMBDA b : pieces.first[b], @)]
    IN  IF \E i \in Instructions(f) : cut(i) THEN Rewritten([f EXCEPT !.blocks = pieces.blocks], aimed) ELSE f

-----------------------------------------------------------------------------
(* inlineLeaves: calls of one-block scalar functions.                      *)

\* The loads that stand for each parameter of a leaf.
Incoming(callee) ==
    LET body == callee.blocks[1]
        defs == definitions(callee)
        loads == {i \in ToSet(body) : i.op = "load.indirect" /\ i.args[1] \in DOMAIN defs /\ defs[i.args[1]].op = "address"}
    IN  SolidFcn([v \in {i.res : i \in loads} |-> CHOOSE p \in DOMAIN callee.params : callee.params[p].sym = defs[defs[v].args[1]].sym])
\* Whether a body can be cloned: parameters are only loaded, the rest is scalar arithmetic.
Clonable(callee) ==
    LET body == callee.blocks[1]
        defs == definitions(callee)
        parameters == {callee.params[p].sym : p \in DOMAIN callee.params}
        fits(i) ==
            \/ i.op = "address" /\ i.oper = "" /\ i.sym \in parameters
            \/ /\ i.op = "load.indirect" /\ ~i.vol /\ isIntegerType(i.type)
               /\ defs[i.args[1]].op = "address" /\ defs[i.args[1]].oper = ""
               /\ \E p \in DOMAIN callee.params : /\ callee.params[p].sym = defs[i.args[1]].sym
                                                  /\ sameScalar(callee.params[p].type, i.type)
            \/ /\ i.op \in {"const", "binary", "unary", "cast", "bit.extract"} /\ isIntegerType(i.type)
               /\ \A v \in ToSet(i.args) : isIntegerType(defs[v].type)
            \/ i.op = "return"
    IN  body # <<>> /\ Last(body).op = "return" /\ \A n \in DOMAIN body : fits(body[n])
ClonedCode(callee) == SelectSeq(callee.blocks[1], LAMBDA i : i.op \in {"const", "binary", "unary", "cast", "bit.extract"})
CloneCost(callee) == Accumulate(LAMBDA c, i : c + (IF i.op = "binary" /\ i.oper \in {"/", "%"} THEN 21 ELSE IF i.op = "const" THEN 0 ELSE 1),
                                0, ClonedCode(callee))
\* GSUCostModel::scalarCallBytes for at most seven arguments.
scalarCallBytes(n) == 5 + (IF n = 0 THEN 0 ELSE 3) + 3 * n
CloneLimit(caller, call, sizePolicy) ==
    IF sizePolicy THEN LET share == scalarCallBytes(Len(call.args)) \div 4 IN Min({12, Max({2, share})})
    ELSE IF caller.cached \/ \E i \in Instructions(caller) : i.op = "cache" THEN 4 ELSE 12

\* The body of a call in the caller's values.
Cloned(a, call, callee) ==
    LET incoming == Incoming(callee)
        start == [out |-> a.out, values |-> a.values, returned |-> NoValue,
                  map |-> SolidFcn([v \in DOMAIN incoming |-> call.args[incoming[v]]])]
        one(c, i) ==
            IF i.op = "address" \/ i.res \in DOMAIN incoming THEN c
            ELSE IF i.op = "return" THEN [c EXCEPT !.returned = c.map[i.args[1]]]
            ELSE [c EXCEPT !.values = @ + 1, !.map = (i.res :> c.values + 1) @@ @,
                           !.out = Append(@, [i EXCEPT !.args = Mapped(LAMBDA v : c.map[v], @), !.res = c.values + 1, !.plot = call.plot])]
        after(done) == [a EXCEPT !.out = done.out, !.values = done.values, !.alias = (call.res :> done.returned) @@ @]
    IN  after(Accumulate(one, start, callee.blocks[1]))

inlineInto(a0, caller, snapshots, sizePolicy) ==
    LET named(call) == {n \in DOMAIN snapshots : snapshots[n].name = call.sym}
        calleeOf(call) == snapshots[CHOOSE n \in named(call) : TRUE]
        legal(call) == /\ call.op = "call" /\ named(call) # {}
                       /\ LET g == calleeOf(call)
                          IN  /\ g.name \notin {caller.name, "main"} /\ ~g.cached /\ Len(g.blocks) = 1
                              /\ sameScalar(g.ret, call.type) /\ Len(call.args) = Len(g.params)
                              /\ Clonable(g)
        tryClone(a, i, g, cost, nodes) ==
            IF \/ cost > CloneLimit(caller, i, sizePolicy) \/ a.grown + cost > 64 \/ a.total + cost > 512
               \/ a.nodes + nodes > 256 \/ a.allNodes + nodes > 2048
            THEN [a EXCEPT !.out = Append(@, i)]
            ELSE [Cloned(a, i, g) EXCEPT !.grown = @ + cost, !.total = @ + cost, !.nodes = @ + nodes, !.allNodes = @ + nodes]
        weigh(a, i, g) == tryClone(a, i, g, CloneCost(g), Len(ClonedCode(g)))
        one(a, i) == IF legal(i) THEN weigh(a, i, calleeOf(i)) ELSE [a EXCEPT !.out = Append(@, i)]
        closed(b) == [b EXCEPT !.blocks = Append(@, b.out)]
        block(a, code) == closed(Accumulate(LAMBDA b, i : one(b, Resolved(i, b.alias)), [a EXCEPT !.out = <<>>], code))
        finish(done) ==
            [total |-> done.total, allNodes |-> done.allNodes,
             functions |-> Append(a0.functions, compact([caller EXCEPT !.blocks = done.blocks, !.values = done.values],
                                                        done.alias, DOMAIN done.alias))]
    IN  finish(Accumulate(block, [out |-> <<>>, blocks |-> <<>>, values |-> caller.values, alias |-> <<>>,
                                  grown |-> 0, nodes |-> 0, total |-> a0.total, allNodes |-> a0.allNodes], caller.blocks))
inlineLeaves(functions, sizePolicy) ==
    Accumulate(LAMBDA a, f : inlineInto(a, f, functions, sizePolicy),
               [total |-> 0, allNodes |-> 0, functions |-> <<>>], functions).functions

-----------------------------------------------------------------------------
(* Loops.                                                                  *)

movable(i, defs) ==
    /\ ~i.split /\ ~i.vol
    /\ \/ i.op = "address" /\ i.oper = ""
       \/ /\ isIntegerType(i.type) /\ \A v \in ToSet(i.args) : isIntegerType(defs[v].type)
          /\ \/ i.op \in {"const", "cast", "unary", "bit.extract"}
             \/ /\ i.op = "binary" /\ i.oper \notin {"/", "%"}
                /\ i.oper \in {"<<", ">>"} => defs[i.args[2]].op = "const" /\ defs[i.args[2]].imm \in 0..15

\* The only block outside a loop that enters it, when that block does nothing else.
Preheader(f, loop) ==
    LET outside == Predecessors(f, loop.header) \ loop.blocks
    IN  {p \in outside : Cardinality(outside) = 1 /\ Cardinality(Successors(f)[p]) = 1}

\* Mutant: the operands of what is hoisted are not looked at.
MayHoist_AnyOperands(i, defs, inside) == i.res # NoValue /\ movable(i, defs)
\* Hoisted is what needs nothing computed inside the loop.
MayHoist(i, defs, inside) == i.res # NoValue /\ movable(i, defs) /\ ToSet(i.args) \cap inside = {}
hoistLoop(f, loop) ==
    LET defs == definitions(f)
        pre == CHOOSE p \in Preheader(f, loop) : TRUE
        order == Sorted(loop.blocks, <)
        values(blocks) == {i.res : i \in UNION {ToSet(blocks[b]) : b \in loop.blocks}} \ {NoValue}
        one(d, i) == IF MayHoist(i, defs, d.inside) THEN [d EXCEPT !.moved = Append(@, i), !.inside = @ \ {i.res}]
                     ELSE [d EXCEPT !.out = Append(@, i)]
        closed(d, b) == [d EXCEPT !.blocks[b] = d.out]
        sweep(a) == Accumulate(LAMBDA c, b : closed(Accumulate(one, [c EXCEPT !.out = <<>>], c.blocks[b]), b), a, order)
        finish(done) == [f EXCEPT !.blocks = [done.blocks EXCEPT ![pre] = BeforeEnd(@, done.moved)]]
    IN  IF Preheader(f, loop) = {} THEN f
        ELSE finish(Settled(sweep, [blocks |-> f.blocks, moved |-> <<>>, inside |-> values(f.blocks), out |-> <<>>]))
\* hoist: inner loops first.
hoist(f) ==
    LET smaller(a, b) == LET m == Cardinality(a.blocks)
                             n == Cardinality(b.blocks)
                         IN  m < n \/ (m = n /\ a.header < b.header)
    IN  Accumulate(hoistLoop, f, Sorted(NaturalLoops(f), smaller))

\* strengthReduce: a checked address operation gets its scaled index from a
\* loop-carried word instead of a multiplication. A ramp is an unsigned
\* header phi stepped by a constant on the only latch.
Ramps(f, loop, pre, latch, defs) ==
    LET from(phi, b) == phi.args[CHOOSE n \in DOMAIN phi.targets : phi.targets[n] = b]
        headers == {phi \in ToSet(f.blocks[loop.header]) :
                        phi.op = "phi" /\ Len(phi.args) = 2 /\ sameValueType(phi.type, UWordT) /\ ToSet(phi.targets) = {pre, latch}}
        stepped == {phi \in headers : LET update == defs[from(phi, latch)]
                                      IN  /\ update.op = "binary" /\ update.oper \in {"+", "-"} /\ update.args[1] = phi.res
                                          /\ defs[update.args[2]].op = "const"}
    IN  {[phi |-> phi, initial |-> from(phi, pre),
          step |-> LET update == defs[from(phi, latch)]
                       raw == Abs16(defs[update.args[2]].imm)
                   IN  IF update.oper = "+" THEN raw ELSE Abs16(-raw)] : phi \in stepped}

reduceUse(a, use, pre, latch, header, ramps) ==
    LET ramp == CHOOSE r \in ramps : r.phi.res = use.args[2]
        key == <<use.args[2], use.imm>>
        v == a.f.values
        literal(n, w) == [ConstantOf(Instr("const", UWordT, <<>>), w) EXCEPT !.res = n]
        phi == [ramp.phi EXCEPT !.res = v + 4, !.sym = "",
                                !.args = Solid([n \in DOMAIN @ |-> IF ramp.phi.targets[n] = pre THEN v + 2 ELSE v + 5])]
        times == [Instr("binary", UWordT, <<ramp.initial, v + 1>>) EXCEPT !.res = v + 2, !.oper = "*"]
        plus == [Instr("binary", UWordT, <<v + 4, v + 3>>) EXCEPT !.res = v + 5, !.oper = "+"]
        f1 == [a.f EXCEPT !.blocks[pre] = BeforeEnd(@, <<literal(v + 1, Abs16(use.imm)), times, literal(v + 3, Product(ramp.step, use.imm))>>)]
        f2 == [f1 EXCEPT !.blocks[latch] = BeforeEnd(@, <<plus>>)]
        f3 == [f2 EXCEPT !.blocks[header] = <<phi>> \o @, !.values = v + 5]
        fresh == key \notin DOMAIN a.scaled
        scaled == IF fresh THEN (key :> v + 4) @@ a.scaled ELSE a.scaled
        mark(i) == IF i.res # use.res THEN i
                   ELSE [i EXCEPT !.oper = IF @ = "+" THEN "scaled+" ELSE "scaled-", !.args = Append(@, scaled[key])]
    IN  IF fresh /\ Cardinality(DOMAIN a.scaled) = 4 THEN a
        ELSE [f |-> Rewritten(IF fresh THEN f3 ELSE a.f, mark), scaled |-> scaled]
strengthReduceLoop(f, loop) ==
    LET defs == definitions(f)
        pre == CHOOSE p \in Preheader(f, loop) : TRUE
        latch == CHOOSE l \in loop.latches : TRUE
        ramps == Ramps(f, loop, pre, latch, defs)
        inLoop == Accumulate(LAMBDA code, b : code \o f.blocks[b], <<>>, Sorted(loop.blocks, <))
        uses == SelectSeq(inLoop, LAMBDA i : /\ i.op = "pointer.offset" /\ Len(i.args) = 2 /\ i.oper \in {"+", "-"} /\ i.imm >= 4
                                             /\ \E r \in ramps : r.phi.res = i.args[2])
    IN  IF Cardinality(loop.latches) # 1 \/ Preheader(f, loop) = {} THEN f
        ELSE Accumulate(LAMBDA a, use : reduceUse(a, use, pre, latch, loop.header, ramps), [f |-> f, scaled |-> <<>>], uses).f
strengthReduce(f) == Accumulate(strengthReduceLoop, f, Sorted(NaturalLoops(f), LAMBDA a, b : a.header < b.header))

\* rematerializeBranchPredicates: a comparison with a literal that exactly two
\* conditional branches use is made again before each of them.
rematerializeBranchPredicates(f) ==
    LET defs == definitions(f)
        all == Flat(f)
        usesOf(v) == {<<n, m>> \in UNION {{n} \X DOMAIN all[n].args : n \in DOMAIN all} : all[n].args[m] = v}
        selected == {v \in DOMAIN defs :
                       /\ defs[v].op = "binary" /\ defs[v].oper \in Comparisons
                       /\ Cardinality(usesOf(v)) = 2 /\ \A u \in usesOf(v) : all[u[1]].op = "condbr"
                       /\ isIntegerType(defs[defs[v].args[1]].type) /\ defs[defs[v].args[2]].op = "const"
                       /\ isIntegerType(defs[defs[v].args[2]].type)}
        one(a, i) ==
            IF i.res \in selected THEN a
            ELSE IF i.op # "condbr" \/ i.args[1] \notin selected THEN [a EXCEPT !.out = Append(@, i)]
            ELSE [a EXCEPT !.values = @ + 1,
                           !.out = @ \o <<[defs[i.args[1]] EXCEPT !.res = a.values + 1, !.plot = i.plot], [i EXCEPT !.args = <<a.values + 1>>]>>]
        closed(b) == [b EXCEPT !.blocks = Append(@, b.out)]
        block(a, code) == closed(Accumulate(one, [a EXCEPT !.out = <<>>], code))
        finish(done) == compact([f EXCEPT !.blocks = done.blocks, !.values = done.values], <<>>, {})
    IN  IF selected = {} THEN f ELSE finish(Accumulate(block, [out |-> <<>>, blocks |-> <<>>, values |-> f.values], f.blocks))

===============================================================================
