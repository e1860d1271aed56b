--------------------------- MODULE CompactOptimizer ---------------------------
(***************************************************************************)
(* IRSizeOptimizer (equal block tails shared) and IRCompactOptimizer       *)
(* (constant array initializers batched; counted loops turned into         *)
(* hardware loops, or under the size policy into countdowns).              *)
(***************************************************************************)
EXTENDS ValueOptimizer

-----------------------------------------------------------------------------
(* IRSizeOptimizer.                                                        *)

scalarConstant(i) == i.op = "const" /\ isIntegerType(i.type)
eligible(i) ==
    scalarConstant(i) \/ (~producesValue(i) /\ i.op \in {"call", "store.indirect", "cursor.write", "pixel", "color", "cmode", "rpix"})
\* The same instruction up to constants that hold the same literal.
EqualCode(a, b, defs) ==
    /\ [a EXCEPT !.args = <<>>, !.res = NoValue] = [b EXCEPT !.args = <<>>, !.res = NoValue] /\ Len(a.args) = Len(b.args)
    /\ \A n \in DOMAIN a.args : \/ a.args[n] = b.args[n]
                                \/ LET x == defs[a.args[n]]
                                       y == defs[b.args[n]]
                                   IN  scalarConstant(x) /\ scalarConstant(y) /\ x.imm = y.imm /\ x.type = y.type
SharedTailMax == 16
FromEnd(code, k) == code[Len(code) - k]
\* How many instructions before the terminators of two blocks agree.
TailLength(first, second, defs) ==
    LET agree(k) == LET x == FromEnd(first, k)
                        y == FromEnd(second, k)
                    IN  eligible(x) /\ eligible(y) /\ EqualCode(x, y, defs)
        lengths == {n \in 0..SharedTailMax : n < Len(first) /\ n < Len(second) /\ \A k \in 1..n : agree(k)}
    IN  Max(lengths)
\* The pairs of blocks worth sharing, as <<a, b, length>>.
Shareable(f, defs) ==
    LET ends(a) == /\ Last(f.blocks[a]).op \in {"return", "return.void", "br"}
                   /\ Last(f.blocks[a]).op = "br" => f.blocks[Last(f.blocks[a]).targets[1]][1].op # "phi"
        n(a, b) == TailLength(f.blocks[a], f.blocks[b], defs)
        tail(b, k) == SubSeq(f.blocks[b], Len(f.blocks[b]) - k, Len(f.blocks[b]))
        head(b, k) == SubSeq(f.blocks[b], 1, Len(f.blocks[b]) - k - 1)
        usedBy(codes) == UNION {ToSet(i.args) : i \in UNION {ToSet(c) : c \in codes}}
        good(a, b, k) ==
            /\ \E i \in ToSet(SubSeq(tail(a, k), 1, k)) : ~scalarConstant(i)
            /\ ({i.res : i \in ToSet(tail(a, k)) \cup ToSet(tail(b, k))} \ {NoValue})
                  \cap usedBy({f.blocks[c] : c \in DOMAIN f.blocks \ {a, b}} \cup {head(a, k), head(b, k)}) = {}
        candidates == {<<a, b>> \in (DOMAIN f.blocks) \X (DOMAIN f.blocks) :
                            a < b /\ ends(a) /\ EqualCode(Last(f.blocks[a]), Last(f.blocks[b]), defs)}
    IN  {<<p[1], p[2], n(p[1], p[2])>> : p \in {q \in candidates : good(q[1], q[2], n(q[1], q[2]))}}
ShareTail(f, p, defs) ==
    LET first == f.blocks[p[1]]
        join == Len(f.blocks) + 1
        constant(s, v) ==
            IF v \in DOMAIN s.alias THEN s
            ELSE [s EXCEPT !.values = @ + 1, !.alias = (v :> s.values + 1) @@ @,
                           !.tail = Append(@, [defs[v] EXCEPT !.res = s.values + 1, !.plot = Last(first).plot])]
        one(s, i) ==
            IF scalarConstant(i) THEN constant(s, i.res)
            ELSE LET t == Accumulate(LAMBDA u, v : IF scalarConstant(defs[v]) THEN constant(u, v) ELSE u, s, i.args)
                 IN  [t EXCEPT !.tail = Append(@, [i EXCEPT !.args = Mapped(LAMBDA v : IF v \in DOMAIN t.alias THEN t.alias[v] ELSE v, @)])]
        moved == Accumulate(one, [values |-> f.values, alias |-> <<>>, tail |-> <<>>], SubSeq(first, Len(first) - p[3], Len(first)))
        cut(b) == Append(SubSeq(f.blocks[b], 1, Len(f.blocks[b]) - p[3] - 1), [BranchTo(join) EXCEPT !.plot = Last(first).plot])
    IN  [f EXCEPT !.values = moved.values,
                  !.blocks = Append([@ EXCEPT ![p[1]] = cut(p[1]), ![p[2]] = cut(p[2])], moved.tail)]
share(f) ==
    LET step(g) == LET defs == definitions(g)
                       found == Shareable(g, defs)
                       before(p, q) == p[1] < q[1] \/ (p[1] = q[1] /\ p[2] <= q[2])
                   IN  IF found = {} THEN g ELSE ShareTail(g, CHOOSE p \in found : \A q \in found : before(p, q), defs)
        hardware == \E i \in Instructions(f) : i.op \in LoopOpcodes
    IN  Renumbered(IF hardware THEN f ELSE Accumulate(LAMBDA g, k : step(g), f, Upto(16)))

-----------------------------------------------------------------------------
(* Initializers: constant stores to a local array, four or more in a row,  *)
(* become one instruction.                                                 *)

\* The declaring stores that follow position p of a block and fill array root from its start.
RECURSIVE Run(_, _, _, _, _)
Run(code, p, root, defs, got) ==
    LET i == code[p]
        a == defs[i.args[1]]
        value == defs[i.args[2]]
        start == code[got.first]
        size == sizeInBytes(start.type)
        member(x) == x.op = "address" /\ x.oper = "member" /\ x.args[1] = root
        fits == /\ i.oper = "declare" /\ ~i.vol /\ sameScalar(i.type, start.type) /\ member(a)
                /\ a.imm = Len(got.values) * size /\ a.imm + size <= got.extent /\ scalarConstant(value)
    IN  IF p > Len(code) THEN got
        ELSE IF i.op = "store.indirect"
        THEN IF ~fits THEN got
             ELSE Run(code, p + 1, root, defs, [got EXCEPT !.stores = Append(@, p),
                        !.values = Append(@, Convert(value.imm, i.type) % (IF size = 1 THEN 256 ELSE 65536))])
        ELSE IF scalarConstant(i) \/ (member(i) /\ i.imm \in 0..got.extent - 1) THEN Run(code, p + 1, root, defs, got)
        ELSE got

initializers(f) ==
    LET defs == definitions(f)
        starts(i) ==
            /\ i.op = "store.indirect" /\ i.oper = "declare" /\ ~i.vol /\ isIntegerType(i.type)
            /\ LET a == defs[i.args[1]]
                   root == defs[a.args[1]]
               IN  /\ a.op = "address" /\ a.oper = "member" /\ a.imm = 0
                   /\ root.op = "address" /\ root.oper = "" /\ root.type.ptr = 1 /\ root.sym \in DOMAIN f.locals
                   /\ LET local == f.locals[root.sym]
                      IN  /\ local.off < 0 /\ ~local.type.vol /\ local.type.ptr = 0 /\ local.count >= 4
                          /\ local.type.base = i.type.base /\ local.count * sizeInBytes(i.type) <= f.frame
        batch(s, n) ==
            LET code == s.code
                i == code[n]
                root == defs[i.args[1]].args[1]
                whole(run) == [i EXCEPT !.op = "memory.initialize", !.args = <<root>>, !.imm = run.extent, !.cases = run.values]
                kept(run) == SelectSeq(Upto(Len(code)), LAMBDA k : k = n \/ k \notin ToSet(run.stores))
                replaced(run) ==
                    IF Len(run.values) < 4 THEN s
                    ELSE [code |-> Mapped(LAMBDA k : IF k = n THEN whole(run) ELSE code[k], kept(run)),
                          spare |-> s.spare \cup {code[k].args[1] : k \in ToSet(run.stores)}]
            IN  IF n > Len(code) \/ ~starts(i) THEN s
                ELSE replaced(Run(code, n, root, defs, [first |-> n, stores |-> <<>>, values |-> <<>>,
                                    extent |-> f.locals[defs[root].sym].count * sizeInBytes(i.type)]))
        unused(g, spare) == spare \ UNION {ToSet(i.args) : i \in Instructions(g)}
        without(g, dead) == Renumbered(Kept(g, LAMBDA i : i.res \notin dead))
        cleaned(g, spare) == without(g, unused(g, spare))
        finish(done) == cleaned([f EXCEPT !.blocks = Mapped(LAMBDA s : s.code, done)], UNION {done[b].spare : b \in DOMAIN done})
    IN  finish(Mapped(LAMBDA code : Accumulate(batch, [code |-> code, spare |-> {}], Upto(Len(code))), f.blocks))

-----------------------------------------------------------------------------
(* countedLoop.  A loop that counts a word up by one to an invariant bound *)
(* runs its distance many times, once its entry comparison has held.       *)

\* The parts of a counted loop, as a set of at most one record.
Counted(f, loop, defs) ==
    LET test == Last(f.blocks[loop.header])
        cmp == defs[test.args[1]]
        phi == defs[cmp.args[1]]
        bound == defs[cmp.args[2]]
        latch == CHOOSE l \in loop.latches : TRUE
        pre == CHOOSE p \in ToSet(phi.targets) : p # latch
        from(b) == phi.args[CHOOSE n \in DOMAIN phi.targets : phi.targets[n] = b]
        next == defs[from(latch)]
    IN  IF /\ Cardinality(loop.blocks) \in 2..3 /\ Cardinality(loop.latches) = 1
           /\ test.op = "condbr" /\ test.targets[1] \in loop.blocks /\ test.targets[2] \notin loop.blocks
           /\ cmp.op = "binary" /\ cmp.oper \in {"<", "<="}
           /\ phi.op = "phi" /\ phi.type.base = "word" /\ phi.type.ptr = 0 /\ Len(phi.args) = 2
           /\ bound.type.base = "word" /\ bound.type.ptr = 0 /\ bound.type.uns = phi.type.uns
           /\ latch \in ToSet(phi.targets) /\ pre \notin loop.blocks /\ Cardinality(Predecessors(f, loop.header)) = 2
           /\ Last(f.blocks[pre]).op = "br" /\ Last(f.blocks[pre]).targets[1] = loop.header
           /\ next.op = "binary" /\ next.oper = "+" /\ next.args[1] = phi.res
           /\ defs[next.args[2]].op = "const" /\ defs[next.args[2]].imm = 1
        THEN {[loop |-> loop, h |-> loop.header, latch |-> latch, pre |-> pre, test |-> test, cmp |-> cmp, phi |-> phi, bound |-> bound,
               initial |-> from(pre), next |-> next]} ELSE {}

\* The number of trips when both ends are literals, and whether the loop is one to count.
Trips(c, defs) ==
    LET first == defs[c.initial]
        end == Convert(c.bound.imm, c.phi.type)
        inclusive == c.cmp.oper = "<="
        literal == first.op = "const" /\ c.bound.op = "const"
        trips == end - Convert(first.imm, c.phi.type) + Truth(inclusive)
    IN  [literal |-> literal, trips |-> trips,
         countable |-> /\ inclusive => c.bound.op = "const" /\ end < (IF c.phi.type.uns THEN 65535 ELSE 32767)
                       /\ literal => trips \in 8..65535]

\* What the values of the loop are used for, and whether its body may be counted.
BodyOf(f, c) ==
    LET loop == c.loop.blocks
        code(b) == ToSet(f.blocks[b])
        outside == UNION {ToSet(i.args) : i \in UNION {code(b) : b \in DOMAIN f.blocks \ loop}}
        everything == UNION {code(b) : b \in loop}
        escaping(b) == {i \in code(b) : i.res # NoValue /\ i.res \in outside}
        succ == Successors(f)
        plain(b, i) == /\ i.op \notin {"call"} \cup LoopOpcodes
                       /\ b = c.h => i.op \in {"phi", "const", "cache"} \/ i.res = c.cmp.res \/ isTerminator(i)
    IN  [legal |-> /\ \A b \in loop : \A i \in code(b) : plain(b, i)
                   /\ \A b \in loop : \A i \in escaping(b) : b = c.h /\ i.op \in {"phi", "const"}
                   /\ \A b \in loop \ {c.h} : Cardinality(succ[b]) = 1 /\ succ[b] \subseteq loop /\ Predecessors(f, b) \subseteq loop,
         out |-> {i.res : i \in {j \in escaping(c.h) : j.op = "phi"}},
         used |-> \/ c.phi.res \in outside
                  \/ \E i \in everything \ {c.cmp, c.next} : \E v \in ToSet(i.args) : v = c.phi.res \/ (v = c.next.res /\ i.op # "phi"),
         ops |-> MapThenSumSet(LAMBDA b : Len(f.blocks[b]) - 1, loop \ {c.h})]

\* The trip count: a literal, or the unsigned distance of the two ends.
CountCode(c, t, v) ==
    LET blank == [Instr("const", UWordT, <<>>) EXCEPT !.plot = c.test.plot]
        cast(n, x) == [blank EXCEPT !.op = "cast", !.args = <<x>>, !.res = n]
        literal(n, w) == [blank EXCEPT !.imm = w, !.res = n]
        binary(n, op, x, y) == [blank EXCEPT !.op = "binary", !.oper = op, !.args = <<x, y>>, !.res = n]
    IN  IF t.literal THEN <<literal(v + 1, t.trips)>>
        ELSE <<cast(v + 1, c.initial), cast(v + 2, c.bound.res), binary(v + 3, "-", v + 2, v + 1)>>
             \o (IF c.cmp.oper = "<=" THEN <<literal(v + 4, 1), binary(v + 5, "+", v + 3, v + 4)>> ELSE <<>>)

\* The old block, with its end replaced by the entry comparison.
Guarded(f, c, guard, yes, no) ==
    LET literals == SelectSeq(f.blocks[c.h], LAMBDA i : i.op = "const")
    IN  SubSeq(f.blocks[c.pre], 1, Len(f.blocks[c.pre]) - 1) \o literals
        \o <<[c.cmp EXCEPT !.args[1] = c.initial, !.res = guard], [c.test EXCEPT !.args = <<guard>>, !.targets = <<yes, no>>]>>
Plotted(i, c) == [i EXCEPT !.plot = c.test.plot]
\* Phis of a block with one predecessor renamed.
Refed(code, old, new) ==
    Mapped(LAMBDA i : IF i.op = "phi" THEN [i EXCEPT !.targets = Mapped(LAMBDA t : IF t = old THEN new ELSE t, @)] ELSE i, code)

\* Size policy: the counter itself counts down to zero.
Countdown(f, c, t) ==
    LET setup == Len(f.blocks) + 1
        exit == setup + 1
        count == CountCode(c, t, f.values)
        v == Last(count).res
        blank == [Instr("const", UWordT, <<>>) EXCEPT !.plot = c.test.plot]
        one == [blank EXCEPT !.imm = 1, !.res = v + 2]
        down == [c.next EXCEPT !.type = UWordT, !.oper = "-", !.args = <<c.phi.res, v + 2>>]
        zero == [blank EXCEPT !.res = v + 3]
        again == [c.cmp EXCEPT !.oper = "!=", !.args = <<c.next.res, v + 3>>, !.res = v + 4]
        back == [c.test EXCEPT !.args = <<v + 4>>, !.targets = <<c.h, exit>>]
        counter(i) == IF i.res # c.phi.res THEN i
                      ELSE [i EXCEPT !.type = UWordT,
                                     !.args = Solid([n \in DOMAIN @ |-> IF c.phi.targets[n] = c.pre THEN v ELSE @[n]]),
                                     !.targets = Solid([n \in DOMAIN @ |-> IF @[n] = c.pre THEN setup ELSE @[n]])]
        header == SelectSeq(Mapped(counter, SubSeq(f.blocks[c.h], 1, Len(f.blocks[c.h]) - 1)), LAMBDA i : i.op # "const" /\ i.res # c.cmp.res)
        latch == SelectSeq(SubSeq(f.blocks[c.latch], 1, Len(f.blocks[c.latch]) - 1), LAMBDA i : i.res # c.next.res)
        old == [f.blocks EXCEPT ![c.pre] = Guarded(f, c, v + 1, setup, exit),
                                ![c.h] = Append(header, Plotted(BranchTo(c.test.targets[1]), c)),
                                ![c.latch] = latch \o <<one, down, zero, again, back>>,
                                ![c.test.targets[2]] = Refed(@, c.h, exit)]
    IN  Renumbered([f EXCEPT !.values = v + 4,
                             !.blocks = old \o <<Append(count, Plotted(BranchTo(c.h), c)), <<Plotted(BranchTo(c.test.targets[2]), c)>>>>])

\* Otherwise: a hardware loop, its leave block and a merge of the carried values.
Hardware(f, c, t, body) ==
    LET n == Len(f.blocks)
        setup == n + 1
        leave == n + 2
        merge == n + 3
        id == 1 + Max({0} \cup {i.loop : i \in Instructions(f)})
        count == CountCode(c, t, f.values)
        v == Last(count).res
        start == [Plotted(Instr("hardware_loop", VoidT, <<v>>), c) EXCEPT !.targets = <<c.h>>, !.loopTo = c.h, !.loop = id]
        finish == [Plotted(Instr("hardware_loop.end", VoidT, <<>>), c) EXCEPT !.targets = <<c.h, leave>>, !.loop = id]
        restore == [Plotted(Instr("hardware_loop.leave", VoidT, <<>>), c) EXCEPT !.loop = id]
        carried == SelectSeq(f.blocks[c.h], LAMBDA i : i.op = "phi" /\ i.res \in body.out)
        from(i, b) == i.args[CHOOSE k \in DOMAIN i.targets : (i.targets[k] = c.latch) = (b = c.latch)]
        joined == [k \in DOMAIN carried |-> [carried[k] EXCEPT !.targets = <<c.pre, leave>>, !.res = v + 1 + k,
                                                               !.args = <<from(carried[k], c.pre), from(carried[k], c.latch)>>]]
        swap(x) == LET k == {m \in DOMAIN carried : carried[m].res = x} IN IF k = {} THEN x ELSE v + 1 + CHOOSE m \in k : TRUE
        swapped(code) == Mapped(LAMBDA i : [i EXCEPT !.args = Mapped(swap, @)], code)
        dropped(b, i) == \/ b = c.h /\ i.op = "const"
                         \/ i.res = c.cmp.res
                         \/ ~body.used /\ i.res \in {c.phi.res, c.next.res}
        pruned(b, code) == SelectSeq(code, LAMBDA i : ~dropped(b, i))
        shell == [f.blocks EXCEPT ![c.pre] = Guarded(f, c, v + 1, setup, merge),
                                  ![c.h] = Append(Refed(SubSeq(@, 1, Len(@) - 1), c.pre, setup), Plotted(BranchTo(c.test.targets[1]), c)),
                                  ![c.latch] = Append(SubSeq(@, 1, Len(@) - 1), finish)]
        old == Solid([b \in DOMAIN shell |->
                    IF b \in c.loop.blocks THEN pruned(b, shell[b])
                    ELSE LET code == swapped(shell[b]) IN IF b = c.test.targets[2] THEN Refed(code, c.h, merge) ELSE code])
        all == old \o <<Append(count, start), <<restore, Plotted(BranchTo(merge), c)>>, Append(joined, Plotted(BranchTo(c.test.targets[2]), c))>>
        \* The setup is laid out just before the header it enters.
        place(b) == IF b = setup THEN c.h ELSE IF b < c.h THEN b ELSE IF b < setup THEN b + 1 ELSE b
        order == Sorted(1..n + 3, LAMBDA a, b : place(a) < place(b))
        aimed(i) == [i EXCEPT !.targets = Mapped(place, @), !.loopTo = IF @ = 0 THEN 0 ELSE place(@)]
    IN  Renumbered(Rewritten([f EXCEPT !.values = v + 1 + Len(carried), !.blocks = Mapped(LAMBDA b : all[b], order)], aimed))

countedLoop(f, sizePolicy) ==
    LET defs == definitions(f)
        owner == Owners(f)
        found == UNION {Counted(f, loop, defs) : loop \in NaturalLoops(f)}
        software(c, body) == /\ sizePolicy /\ ~body.used
                             /\ Cardinality({n \in DOMAIN f.blocks[c.h] : f.blocks[c.h][n].op = "phi"}) = 1
                             /\ ~\E i \in ToSet(f.blocks[c.h]) : i.op = "cache"
        works(c, body, home) ==
            /\ home \in c.loop.blocks => c.bound.op = "const" /\ home = c.h /\ software(c, body)
            /\ Trips(c, defs).countable /\ body.legal
            /\ sizePolicy => ~body.used /\ body.ops <= 16
            /\ software(c, body) => owner[c.next.res] = c.latch
        counted(c, body) == IF software(c, body) THEN Countdown(f, c, Trips(c, defs)) ELSE Hardware(f, c, Trips(c, defs), body)
        convert(c) == counted(c, BodyOf(f, c))
        first(good) == IF good = {} THEN f ELSE convert(CHOOSE x \in good : \A y \in good : x.h <= y.h)
    IN  first({c \in found : works(c, BodyOf(f, c), owner[c.bound.res])})
compactLoops(f, sizePolicy) == Accumulate(LAMBDA g, k : countedLoop(g, sizePolicy), initializers(f), Upto(16))

===============================================================================
