---------------------------- MODULE ValueOptimizer ----------------------------
(***************************************************************************)
(* IRValueOptimizer and IRDivModFusion: known bits and ranges, value       *)
(* numbering over the dominator tree, multiplications carried round a      *)
(* loop, copies that split a lifetime at a loop, and the pairing of a      *)
(* quotient with its remainder.  A set of bit positions stands for a mask. *)
(***************************************************************************)
EXTENDS GlobalOptimizer

pure(i, defs) ==
    /\ isIntegerType(i.type) /\ ~i.vol /\ ~i.split
    /\ \A v \in ToSet(i.args) : isIntegerType(defs[v].type)
    /\ \/ i.op \in {"const", "cast", "bit.extract", "unary"}
       \/ /\ i.op = "binary" /\ i.oper \notin {"/", "%"}
          /\ i.oper \in {"<<", ">>"} => defs[i.args[2]].op = "const" /\ defs[i.args[2]].imm \in 0..15

\* The dominator tree, children in block order.
DominatorTree(f) ==
    LET dom == Dominators(f)
        idom(b) == CHOOSE d \in dom[b] \ {b} : \A e \in dom[b] \ {b} : e \in dom[d]
    IN  SolidFcn([b \in DOMAIN dom |-> Sorted({c \in DOMAIN dom \ {1} : idom(c) = b}, <)])

-----------------------------------------------------------------------------
(* numberValues: an expression dominated by an equal one is that one.      *)

Key(i) ==
    LET commutes == i.op = "binary" /\ i.oper \in {"+", "*", "&", "|", "^", "==", "!="}
    IN  <<i.op, i.type, i.oper, IF commutes THEN <<Min(ToSet(i.args)), Max(ToSet(i.args))>> ELSE i.args,
          IF i.op = "const" THEN Convert(i.imm, i.type) ELSE i.imm>>
RECURSIVE Numbered(_, _, _, _, _)
Numbered(f, tree, defs, s, b) ==
    LET keyed(a, i, key) == IF key \in DOMAIN a.available THEN [a EXCEPT !.alias = (i.res :> a.available[key]) @@ @]
                            ELSE [a EXCEPT !.available = (key :> i.res) @@ @]
        one(a, i) == IF pure(i, defs) THEN keyed(a, i, Key(i)) ELSE a
        below(here) == Accumulate(LAMBDA a, c : Numbered(f, tree, defs, [a EXCEPT !.available = here.available], c), here, tree[b])
    IN  below(Accumulate(LAMBDA a, i : one(a, Resolved(i, a.alias)), s, f.blocks[b]))
numberValues(f) ==
    LET without(alias) == Substituted(f, alias, DOMAIN alias)
    IN  without(Numbered(f, DominatorTree(f), definitions(f), [alias |-> <<>>, available |-> <<>>], 1).alias)

-----------------------------------------------------------------------------
(* simplifyFacts: the bits known zero and one, and the range, of a value.  *)

width(t) == IF t.base = "word" THEN 16 ELSE 8
mask(t) == 0..width(t) - 1
Bits(n) == {k \in 0..15 : (Abs16(n) \div 2 ^ k) % 2 = 1}
Number(bits) == SumSet({2 ^ k : k \in bits})
Signed(t) == ~t.uns /\ t.base # "bool"
unknownFact(t) ==
    LET half == 2 ^ (width(t) - 1)
    IN  IF t.base = "bool" THEN [zero |-> 1..7, one |-> {}, low |-> 0, high |-> 1]
        ELSE [zero |-> {}, one |-> {}, low |-> IF t.uns THEN 0 ELSE -half, high |-> IF t.uns THEN 2 * half - 1 ELSE half - 1]
literalFact(n, t) ==
    LET value == Convert(n, t)
        one == Bits(value) \cap mask(t)
    IN  [zero |-> mask(t) \ one, one |-> one, low |-> value, high |-> value]
\* The range the known bits leave.
bitBounds(x, t) ==
    LET sign == width(t) - 1
        zero == x.zero \cap mask(t)
        one == x.one \cap mask(t)
        open == Number(mask(t) \ zero)
        wrap == 2 ^ width(t)
        low == CASE Signed(t) /\ sign \in one -> Number(one) - wrap
                 [] Signed(t) /\ sign \notin zero -> Number(one \cup {sign}) - wrap
                 [] OTHER -> Number(one)
        high == CASE Signed(t) /\ sign \in one -> open - wrap
                  [] Signed(t) /\ sign \notin zero -> Number((mask(t) \ zero) \ {sign})
                  [] OTHER -> open
    IN  [zero |-> zero, one |-> one, low |-> Max({x.low, low}), high |-> Min({x.high, high})]

\* A range of an arithmetic result; one that crosses the wrap says nothing.
Ranged(op, a, b, whole) ==
    LET small(x, y) == y = 0 \/ Magnitude(x) <= 65535 \div Magnitude(y)
        corners == {<<x, y>> \in {a.low, a.high} \X {b.low, b.high} : TRUE}
        products == {p[1] * p[2] : p \in corners}
        fits == op # "*" \/ \A p \in corners : small(p[1], p[2])
        low == CASE op = "+" -> a.low + b.low [] op = "-" -> a.low - b.high [] op = "*" -> Min(products)
        high == CASE op = "+" -> a.high + b.high [] op = "-" -> a.high - b.low [] op = "*" -> Max(products)
    IN  IF fits /\ low >= whole.low /\ high <= whole.high THEN [whole EXCEPT !.low = low, !.high = high] ELSE whole
Shifted(op, a, count, t, whole) ==
    LET m == mask(t)
        top == {k \in m : k > 15 - count}
        by(bits) == IF op = "<<" THEN {k + count : k \in bits} \cap m ELSE {k - count : k \in bits} \cap m
        zeroes == IF op = "<<" THEN 0..count - 1 ELSE IF t.uns \/ 15 \in a.zero THEN top ELSE {}
        ones == IF op = ">>" /\ ~t.uns /\ 15 \notin a.zero /\ 15 \in a.one THEN top ELSE {}
    IN  [whole EXCEPT !.zero = by(a.zero) \cup zeroes, !.one = by(a.one) \cup ones]
\* What a comparison of two ranges must answer, if anything.
Answer(op, a, b, identical) ==
    LET unequal == a.high < b.low \/ b.high < a.low \/ a.one \cap b.zero # {} \/ b.one \cap a.zero # {}
        equal == identical \/ (a.low = a.high /\ b.low = b.high /\ a.low = b.low)
        yes == CASE op = "==" -> equal [] op = "!=" -> unequal
                 [] op = "<" -> a.high < b.low [] op = "<=" -> a.high <= b.low \/ identical
                 [] op = ">" -> a.low > b.high [] op = ">=" -> a.low >= b.high \/ identical
        no == CASE op = "==" -> unequal [] op = "!=" -> equal
                [] op = "<" -> a.low >= b.high \/ identical [] op = "<=" -> a.low > b.high
                [] op = ">" -> a.high <= b.low \/ identical [] op = ">=" -> a.high < b.low
    IN  IF yes THEN {1} ELSE IF no THEN {0} ELSE {}

Widened(a, from, t, whole) ==
    LET m == mask(t)
        sign == width(from) - 1
        extension == m \ mask(from)
        clear == ~Signed(from) \/ sign \in a.zero
        zero == (a.zero \cap m) \cup IF clear THEN extension ELSE {}
        one == (a.one \cap m) \cup IF ~clear /\ sign \in a.one THEN extension ELSE {}
        kept == a.low >= whole.low /\ a.high <= whole.high
    IN  [zero |-> zero, one |-> one, low |-> IF kept THEN a.low ELSE whole.low, high |-> IF kept THEN a.high ELSE whole.high]

derive(i, defs, facts) ==
    LET whole == unknownFact(i.type)
        operand(n) == facts[i.args[n]]
        a == operand(1)
        b == operand(2)
        m == mask(i.type)
        met(x, v) == LET y == facts[v]
                     IN  [zero |-> x.zero \cap y.zero, one |-> x.one \cap y.one, low |-> Min({x.low, y.low}), high |-> Max({x.high, y.high})]
        answer == Answer(i.oper, a, b, i.args[1] = i.args[2])
    IN  CASE i.op = "const" -> literalFact(i.imm, i.type)
          [] i.op = "phi" -> Accumulate(met, facts[i.args[1]], i.args)
          [] i.args = <<>> \/ \E v \in ToSet(i.args) : ~isIntegerType(defs[v].type) -> whole
          [] i.op = "cast" /\ i.type.base = "bool" ->
                IF a.low > 0 \/ a.high < 0 \/ a.one # {} THEN literalFact(1, i.type)
                ELSE IF a.low = 0 /\ a.high = 0 THEN literalFact(0, i.type) ELSE bitBounds(whole, i.type)
          [] i.op = "cast" -> bitBounds(Widened(a, defs[i.args[1]].type, i.type, whole), i.type)
          [] i.op = "bit.extract" ->
                IF i.imm \in a.zero THEN literalFact(0, i.type) ELSE IF i.imm \in a.one THEN literalFact(1, i.type)
                ELSE bitBounds([zero |-> m \ {0}, one |-> {}, low |-> 0, high |-> 1], i.type)
          [] i.op = "unary" /\ i.oper = "~" -> bitBounds([whole EXCEPT !.zero = a.one, !.one = a.zero], i.type)
          [] i.op = "binary" /\ i.oper = "&" -> bitBounds([whole EXCEPT !.zero = a.zero \cup b.zero, !.one = a.one \cap b.one], i.type)
          [] i.op = "binary" /\ i.oper = "|" -> bitBounds([whole EXCEPT !.zero = a.zero \cap b.zero, !.one = a.one \cup b.one], i.type)
          [] i.op = "binary" /\ i.oper = "^" ->
                bitBounds([whole EXCEPT !.zero = (a.zero \cap b.zero) \cup (a.one \cap b.one),
                                        !.one = (a.zero \cap b.one) \cup (a.one \cap b.zero)], i.type)
          [] i.op = "binary" /\ i.oper \in {"+", "-", "*"} -> bitBounds(Ranged(i.oper, a, b, whole), i.type)
          [] i.op = "binary" /\ i.oper \in {"<<", ">>"} /\ b.low = b.high /\ b.low \in 0..15 /\ i.type.base = "word" ->
                bitBounds(Shifted(i.oper, a, b.low, i.type, whole), i.type)
          [] i.op = "binary" /\ i.oper \in Comparisons /\ answer # {} -> literalFact(CHOOSE n \in answer : TRUE, i.type)
          [] OTHER -> bitBounds(whole, i.type)

FactRounds == 24
simplifyFacts(f) ==
    LET defs == definitions(f)
        scalars == {v \in DOMAIN defs : isIntegerType(defs[v].type)}
        learn(facts, i) == IF i.res \notin scalars THEN facts ELSE [facts EXCEPT ![i.res] = derive(i, defs, facts)]
        after(old, new) == [facts |-> new, done |-> new = old]
        round(s, k) == IF s.done THEN s ELSE after(s.facts, Accumulate(learn, s.facts, Flat(f)))
        exact(x, t) == x.low = x.high \/ x.zero \cup x.one = mask(t)
        \* The operand an and/or with a literal leaves as it is.
        kept(i, facts) == {n \in 1..2 : LET other == i.args[n]
                                     c == defs[i.args[3 - n]]
                                     bits == Bits(c.imm) \cap mask(i.type)
                                 IN  /\ sameScalar(i.type, defs[other].type) /\ c.op = "const"
                                     /\ IF i.oper = "&" THEN (mask(i.type) \ facts[other].zero) \subseteq bits ELSE bits \subseteq facts[other].one}
        unchanged(facts) == {i \in Instructions(f) : /\ i.res # NoValue /\ pure(i, defs) /\ ~exact(facts[i.res], i.type)
                                                     /\ i.op = "binary" /\ i.oper \in {"&", "|"} /\ kept(i, facts) # {}}
        aliases(facts) == SolidFcn([v \in {i.res : i \in unchanged(facts)} |-> defs[v].args[Min(kept(defs[v], facts))]])
        literal(i, x) == [i EXCEPT !.op = "const", !.args = <<>>, !.oper = "",
                                   !.imm = IF x.low = x.high THEN x.low ELSE Convert(Number(x.one), i.type)]
        known(i, facts) == IF i.res = NoValue \/ ~pure(i, defs) \/ ~exact(facts[i.res], i.type) THEN i ELSE literal(i, facts[i.res])
        using(facts, alias) == Substituted(Rewritten(f, LAMBDA i : known(i, facts)), alias, DOMAIN alias)
        finish(facts) == using(facts, aliases(facts))
    IN  finish(Accumulate(round, [facts |-> SolidFcn([v \in scalars |-> unknownFact(defs[v].type)]), done |-> FALSE], Upto(FactRounds)).facts)

valueOptimize(f) == numberValues(simplifyFacts(f))

-----------------------------------------------------------------------------
(* recurrences: a product with a loop counter becomes a sum carried round. *)

BySize(a, b) ==
    LET m == Cardinality(a.blocks)
        n == Cardinality(b.blocks)
    IN  m < n \/ (m = n /\ a.header < b.header)
ramps(f, loop, pre, latch, defs) ==
    LET from(phi, b) == phi.args[CHOOSE n \in DOMAIN phi.targets : phi.targets[n] = b]
        headers == {phi \in ToSet(f.blocks[loop.header]) : /\ phi.op = "phi" /\ Len(phi.args) = 2 /\ phi.type.base = "word"
                                                           /\ isIntegerType(phi.type) /\ ToSet(phi.targets) = {pre, latch}}
        stepped == {phi \in headers : LET next == defs[from(phi, latch)]
                                      IN  /\ next.op = "binary" /\ next.oper \in {"+", "-"} /\ next.args[1] = phi.res
                                          /\ sameScalar(next.type, phi.type) /\ defs[next.args[2]].op = "const"}
    IN  {[phi |-> phi, initial |-> from(phi, pre),
          step |-> LET next == defs[from(phi, latch)] IN Abs16(IF next.oper = "+" THEN defs[next.args[2]].imm ELSE -defs[next.args[2]].imm)] : phi \in stepped}

\* How a factor is a counter plus a constant: the counter and the constant.
Affine(defs, v, t) ==
    LET e == defs[v]
    IN  IF e.op = "binary" /\ e.oper \in {"+", "-"} /\ defs[e.args[2]].op = "const" /\ sameScalar(e.type, t)
        THEN [input |-> e.args[1], offset |-> Abs16(IF e.oper = "+" THEN defs[e.args[2]].imm ELSE -defs[e.args[2]].imm)]
        ELSE [input |-> v, offset |-> 0]
PowerOfTwo(n) == n \in {2 ^ k : k \in 0..15}
MaxCarried == 2

recurrencesIn(f, loop) ==
    LET pre == CHOOSE p \in Preheader(f, loop) : TRUE
        latch == CHOOSE l \in loop.latches : TRUE
        defs == definitions(f)
        owner == Owners(f)
        dom == Dominators(f)
        nested == \E l \in NaturalLoops(f) : l.header \in loop.blocks \ {loop.header}
        induction == ramps(f, loop, pre, latch, defs)
        multiplies == SelectSeq(Accumulate(LAMBDA code, b : code \o f.blocks[b], <<>>, Sorted(loop.blocks, <)),
                                LAMBDA i : i.op = "binary" /\ i.oper = "*" /\ i.type.base = "word" /\ isIntegerType(i.type))
        rampOf(i, side) == {r \in induction : r.phi.res = Affine(defs, i.args[side], i.type).input}
        works(i, side) ==
            LET factor == i.args[3 - side]
            IN  /\ \E r \in rampOf(i, side) : sameScalar(r.phi.type, i.type)
                /\ sameScalar(defs[factor].type, i.type) /\ owner[factor] \notin loop.blocks /\ owner[factor] \in dom[pre]
                /\ ~(defs[factor].op = "const" /\ (Abs16(defs[factor].imm) = 0 \/ PowerOfTwo(Abs16(defs[factor].imm))))
        \* Setup in the preheader, a phi in the header, a sum in the latch.
        carry(s, i, side) ==
            LET r == CHOOSE x \in rampOf(i, side) : TRUE
                affine == Affine(defs, i.args[side], i.type)
                factor == i.args[3 - side]
                v == s.f.values
                literal(n, w) == [ConstantOf(Instr("const", i.type, <<>>), Convert(w, i.type)) EXCEPT !.res = n]
                binary(n, op, x, y) == [i EXCEPT !.oper = op, !.args = <<x, y>>, !.res = n]
                start == IF affine.offset = 0 THEN <<>> ELSE <<literal(v + 1, affine.offset), binary(v + 2, "+", r.initial, v + 1)>>
                first == IF affine.offset = 0 THEN r.initial ELSE v + 2
                setup == start \o <<binary(v + 3, "*", first, factor), literal(v + 4, r.step), binary(v + 5, "*", v + 4, factor)>>
                phi == [r.phi EXCEPT !.res = v + 6, !.sym = "", !.args = Solid([n \in DOMAIN @ |-> IF r.phi.targets[n] = pre THEN v + 3 ELSE v + 7])]
                g == [s.f EXCEPT !.values = v + 7, !.blocks[pre] = BeforeEnd(@, setup)]
                h == [g EXCEPT !.blocks[latch] = BeforeEnd(@, <<binary(v + 7, "+", v + 6, v + 5)>>)]
            IN  [s EXCEPT !.f = [h EXCEPT !.blocks[loop.header] = <<phi>> \o @],
                          !.carried = (<<affine.input, factor, affine.offset>> :> v + 6) @@ @]
        reuse(s, i, key) == [s EXCEPT !.alias = (i.res :> s.carried[key]) @@ @]
        keyed(s, i, side, key) ==
            IF i.res \in DOMAIN s.alias \/ ~works(i, side) THEN s
            ELSE IF key \notin DOMAIN s.carried /\ Cardinality(DOMAIN s.carried) >= MaxCarried THEN s
            ELSE reuse(IF key \in DOMAIN s.carried THEN s ELSE carry(s, i, side), i, key)
        try(s, i, side) == LET affine == Affine(defs, i.args[side], i.type)
                           IN  keyed(s, i, side, <<affine.input, i.args[3 - side], affine.offset>>)
        finish(done) == Substituted(done.f, done.alias, DOMAIN done.alias)
    IN  IF Cardinality(loop.latches) # 1 \/ nested \/ Preheader(f, loop) = {} THEN f
        ELSE finish(Accumulate(LAMBDA s, n : try(s, multiplies[(n + 1) \div 2], 2 - (n % 2)), [f |-> f, carried |-> <<>>, alias |-> <<>>],
                               Upto(2 * Len(multiplies))))
recurrences(f) == Accumulate(recurrencesIn, f, Sorted(NaturalLoops(f), BySize))

-----------------------------------------------------------------------------
(* splitLifetimes: a value used both in a loop and outside it gets a copy  *)
(* of its own for the loop.  Which copies pay is the register allocator's  *)
(* cost comparison: wins holds the ranks of the ones that do.              *)

splitIn(s, loop, wins) ==
    LET f == s.f
        pre == CHOOSE p \in Preheader(f, loop) : TRUE
        defs == definitions(f)
        all == UNION {UNION {{<<b, n, m>> : m \in DOMAIN f.blocks[b][n].args} : n \in DOMAIN f.blocks[b]} : b \in DOMAIN f.blocks}
        uses(v) == {u \in all : f.blocks[u[1]][u[2]].args[u[3]] = v}
        hot(v) == Cardinality({u \in uses(v) : u[1] \in loop.blocks})
        inside == {i.res : i \in UNION {ToSet(f.blocks[b]) : b \in loop.blocks}}
        already == {i.args[1] : i \in {j \in ToSet(f.blocks[pre]) : j.split}}
        owner == Owners(f)
        succ == Successors(f)
        \* Some path from the header reaches a use; a phi uses its operand on the edge.
        liveIn(v) == LET after == ReachableFrom(succ, loop.header, {owner[v]})
                     IN  \E u \in uses(v) : LET i == f.blocks[u[1]][u[2]]
                                            IN  (IF i.op = "phi" THEN i.targets[u[3]] ELSE u[1]) \in after
        choices == Sorted({v \in DOMAIN defs : /\ hot(v) >= 2 /\ Cardinality(uses(v)) > hot(v) /\ v \notin inside \cup already
                                                     /\ ~defs[v].split /\ isIntegerType(defs[v].type) /\ defs[v].op # "const" /\ liveIn(v)},
                                LAMBDA a, b : hot(a) > hot(b) \/ (hot(a) = hot(b) /\ a < b))
        winners == SelectSeq(Upto(Min({4, Len(choices)})), LAMBDA n : n \in wins)
        split(a, n) ==
            LET v == choices[n]
                copy == [Instr("cast", defs[v].type, <<v>>) EXCEPT !.res = a.f.values + 1, !.split = TRUE, !.plot = Last(a.f.blocks[pre]).plot]
                moved(i) == [i EXCEPT !.args = Mapped(LAMBDA x : IF x = v THEN copy.res ELSE x, @)]
            IN  IF a.growth >= 12 \/ a.accepted >= 2 THEN a
                ELSE [f |-> [a.f EXCEPT !.values = copy.res,
                                        !.blocks = Solid([b \in DOMAIN @ |-> IF b \in loop.blocks THEN Mapped(moved, @[b])
                                                                             ELSE IF b = pre THEN BeforeEnd(@[b], <<copy>>) ELSE @[b]])],
                      growth |-> a.growth + 1, accepted |-> a.accepted + 1]
    IN  IF s.growth >= 12 \/ Preheader(f, loop) = {} THEN s
        ELSE Accumulate(split, [s EXCEPT !.accepted = 0], winners)
splitLifetimes(f, wins) ==
    IF \E i \in Instructions(f) : i.split THEN f
    ELSE Renumbered(Accumulate(LAMBDA s, loop : splitIn(s, loop, wins), [f |-> f, growth |-> 0, accepted |-> 0],
                               Sorted(NaturalLoops(f), BySize)).f)

-----------------------------------------------------------------------------
(* IRDivModFusion: the second of a quotient and a remainder of the same    *)
(* operands is read off the first, when the first dominates it.            *)

fuse(f) ==
    LET defs == definitions(f)
        dom == Dominators(f)
        tree == DominatorTree(f)
        word(t) == t.base = "word" /\ t.ptr = 0
        identity(v) == IF defs[v].op = "const" /\ word(defs[v].type) THEN <<"literal", defs[v].type.uns, Convert(defs[v].imm, defs[v].type)>>
                       ELSE <<"value", FALSE, v>>
        cheap(d) == d.op = "const" /\ LET n == Magnitude(Convert(d.imm, d.type)) IN n = 0 \/ PowerOfTwo(n)
        fits(i) == /\ i.op = "binary" /\ i.oper \in {"/", "%"} /\ word(i.type)
                   /\ \A v \in ToSet(i.args) : word(defs[v].type) /\ defs[v].type.uns = i.type.uns
                   /\ ~cheap(defs[i.args[2]])
        key(i) == <<identity(i.args[1]), identity(i.args[2]), i.type.uns>>
        one(s, b, i) ==
            LET firsts == SelectSeq(s.seen, LAMBDA p : p.key = key(i) /\ p.oper # i.oper /\ p.b \in dom[b])
            IN  IF ~fits(i) THEN s
                ELSE IF firsts = <<>> THEN [s EXCEPT !.seen = Append(@, [key |-> key(i), oper |-> i.oper, b |-> b, res |-> i.res])]
                ELSE [s EXCEPT !.pair = (i.res :> Last(firsts).res) @@ @]
        walk[b \in DOMAIN tree] == Accumulate(LAMBDA order, c : order \o walk[c], <<b>>, tree[b])
        paired(i, pair) == CASE i.res \in DOMAIN pair -> [i EXCEPT !.op = "divmod.result", !.args = <<pair[i.res]>>]
                             [] \E v \in DOMAIN pair : pair[v] = i.res -> [i EXCEPT !.op = "divmod"]
                             [] OTHER -> i
        finish(pair) == Rewritten(f, LAMBDA i : paired(i, pair))
    IN  finish(Accumulate(LAMBDA s, b : Accumulate(LAMBDA t, i : one(t, b, i), s, f.blocks[b]), [seen |-> <<>>, pair |-> <<>>], walk[1]).pair)

===============================================================================
