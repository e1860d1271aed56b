---------------------------- MODULE LocalOptimizer ----------------------------
(***************************************************************************)
(* IRLocalOptimizer: folding, identities, bit extraction, value numbering, *)
(* store-to-load forwarding and dead stores inside one block, then dead    *)
(* code over the function.  The table of 64 expressions is unbounded here. *)
(***************************************************************************)
EXTENDS GlobalOptimizer

pureScalar(i, defs) ==
    /\ isIntegerType(i.type) /\ ~i.vol /\ ~i.split
    /\ \A v \in ToSet(i.args) : isIntegerType(defs[v].type)
    /\ \/ i.op \in {"phi", "const", "cast", "bit.extract", "unary"}
       \/ /\ i.op = "binary" /\ i.oper \notin {"/", "%"}
          /\ i.oper \in {"<<", ">>"} => LET count == defs[i.args[2]]
                                        IN  count.op = "const" /\ Convert(count.imm, count.type) \in 0..15

foldedValue(i, defs) ==
    IF Len(i.args) > 2 \/ \E v \in ToSet(i.args) : defs[v].op # "const" \/ ~isIntegerType(defs[v].type) THEN {}
    ELSE evaluate(i, [n \in DOMAIN i.args |-> [type |-> defs[i.args[n]].type, value |-> defs[i.args[n]].imm]])

\* (x & 1 << bit) >> bit and (x >> bit) & 1. A signed word's top bit only in the second form.
fuseBitExtract(i, defs) ==
    LET left == defs[i.args[1]]
        right == defs[i.args[2]]
        shift == Convert(right.imm, right.type)
        masked == {n \in 1..2 : LET mask == defs[left.args[n]] IN mask.op = "const" /\ Abs16(mask.imm) = 2 ^ shift}
        count == defs[left.args[2]]
        found == IF i.oper = ">>" /\ left.oper = "&"
                 THEN IF shift \notin 0..15 \/ (shift = 15 /\ ~i.type.uns) \/ masked = {} THEN {}
                      ELSE {[input |-> left.args[3 - Max(masked)], bit |-> shift]}
                 ELSE IF i.oper = "&" /\ right.imm = 1 /\ left.oper = ">>" /\ count.op = "const" /\ Convert(count.imm, count.type) \in 0..15
                 THEN {[input |-> left.args[1], bit |-> Convert(count.imm, count.type)]} ELSE {}
        fit == {x \in found : sameScalar(i.type, defs[x.input].type)}
    IN  IF i.op # "binary" \/ i.type.base # "word" \/ ~isIntegerType(i.type) THEN i
        ELSE IF right.op # "const" \/ left.op # "binary" \/ fit = {} THEN i
        ELSE LET x == CHOOSE y \in fit : TRUE
             IN  [i EXCEPT !.op = "bit.extract", !.args = <<x.input>>, !.oper = "", !.imm = x.bit]

\* The promotable scalar a memory operand names directly, as a set of at most one.
localAddress(f, defs, v) ==
    LET a == defs[v]
    IN  {s \in {a.sym} : /\ a.op = "address" /\ a.oper = "" /\ s \in DOMAIN f.locals
                         /\ isIntegerType(f.locals[s].type) /\ f.locals[s].count = 0 /\ ~f.locals[s].type.vol}

\* An operation that is its left operand, and a cast to the type it has.
Identity(i, defs) ==
    \/ i.op = "cast" /\ sameScalar(i.type, defs[i.args[1]].type)
    \/ /\ i.op = "binary" /\ defs[i.args[2]].op = "const" /\ sameScalar(i.type, defs[i.args[1]].type)
       /\ LET literal == defs[i.args[2]].imm
          IN  (literal = 0 /\ i.oper \in {"+", "-", "|", "^", "<<", ">>"}) \/ (literal = 1 /\ i.oper = "*")

FrameAccess == {"pixel", "rpix"}
\* The memory facts of a block after instruction i (already simplified).
\* memory: what a local holds; pending: a store nothing has observed yet.
Forwarded(f, s, i, place, escaped) ==
    LET forget == i.vol \/ i.op \in {"memory.initialize", "call"} \cup FrameAccess \cup LoopOpcodes
        barrier == \/ i.vol \/ Observable(i) \/ i.op \in {"memory.initialize", "call", "cache"}
                   \/ i.res # NoValue /\ ~(i.op = "address" /\ i.oper = "") /\ ~pureScalar(i, s.defs)
        t == [s EXCEPT !.memory = IF forget THEN <<>> ELSE @, !.pending = IF barrier THEN <<>> ELSE @,
                       !.exprs = IF i.op \in {"call"} \cup LoopOpcodes THEN <<>> ELSE @]
        named == localAddress(f, s.defs, i.args[1]) \ escaped
        symbol == CHOOSE x \in named : TRUE
        held == symbol \in DOMAIN t.memory
        value == i.args[2]
        overwritten == {t.pending[x][1] : x \in {y \in {symbol} \cap DOMAIN t.pending : sameScalar(i.type, t.pending[y][2])}}
        without(m) == [x \in DOMAIN m \ {symbol} |-> m[x]]
    IN  IF i.vol \/ ~IsAccess(i) THEN t
        ELSE IF named = {} THEN IF i.op = "store.indirect" THEN [t EXCEPT !.memory = <<>>, !.pending = <<>>] ELSE t
        ELSE IF i.op = "load.indirect"
        THEN LET known == resolve(t.memory[symbol], t.alias)
             IN  IF held /\ sameScalar(i.type, t.defs[known].type)
                 THEN [t EXCEPT !.pending = without(@), !.alias = (i.res :> known) @@ @]
                 ELSE [t EXCEPT !.pending = without(@), !.memory = (symbol :> i.res) @@ @]
        ELSE IF ~sameScalar(i.type, t.defs[value].type) THEN [t EXCEPT !.memory = without(@)]
        ELSE IF held /\ resolve(t.memory[symbol], t.alias) = value THEN [t EXCEPT !.erased = @ \cup {place}]
        ELSE [t EXCEPT !.erased = @ \cup overwritten,
                       !.pending = (symbol :> <<place, i.type>>) @@ @,
                       !.memory = (symbol :> value) @@ @]

\* One instruction: resolve, fold or eliminate or reuse, then the memory facts.
Simplified(f, s, i0, place, escaped) ==
    LET folded(i, constant) ==
            IF i.res = NoValue \/ i.split THEN i
            ELSE IF constant # {} THEN [i EXCEPT !.op = "const", !.imm = CHOOSE c \in constant : TRUE, !.args = <<>>, !.oper = ""]
            ELSE IF Identity(i, s.defs) THEN i ELSE fuseBitExtract(i, s.defs)
        gone(i, constant) == i.res # NoValue /\ ~i.split /\ constant = {} /\ Identity(i, s.defs)
        key(i) == <<i.op, i.type, i.oper, i.args, i.imm>>
        numbered(a, i) ==
            IF i.res = NoValue \/ i.split \/ i.op \in {"const", "phi"} \/ ~pureScalar(i, a.defs) THEN a
            ELSE IF key(i) \in DOMAIN a.exprs THEN [a EXCEPT !.alias = (i.res :> resolve(a.exprs[key(i)], a.alias)) @@ @]
            ELSE [a EXCEPT !.exprs = (key(i) :> i.res) @@ @]
        known(a, i, same) == IF same THEN [a EXCEPT !.alias = (i.res :> i.args[1]) @@ @] ELSE numbered(a, i)
        defined(i) == IF i.res = NoValue THEN s ELSE [s EXCEPT !.defs[i.res] = i]
        finish(i, same) == Forwarded(f, [known(defined(i), i, same) EXCEPT !.out = Append(@, i)], i, place, escaped)
        folding(i, constant) == finish(folded(i, constant), gone(i, constant))
        resolved(i) == folding(i, foldedValue(i, s.defs))
    IN  resolved(Resolved(i0, s.alias))

\* Pure values nothing uses any more, to the last.
DeadCode(f) ==
    LET without(g, defs, used) == Kept(g, LAMBDA i : i.res = NoValue \/ i.res \in used \/ ~pureScalar(i, defs))
    IN  Settled(LAMBDA g : without(g, definitions(g), UNION {ToSet(i.args) : i \in Instructions(g)}), f)

localOptimize(f) ==
    LET operands == UNION {{<<i, n>> : n \in DOMAIN i.args} : i \in Instructions(f)}
        escapes(defs) == UNION {localAddress(f, defs, u[1].args[u[2]]) : u \in {x \in operands : ~(x[2] = 1 /\ IsAccess(x[1]))}}
        start(s) == [s EXCEPT !.memory = <<>>, !.pending = <<>>, !.exprs = <<>>, !.out = <<>>]
        closed(s) == [s EXCEPT !.blocks = Append(@, s.out)]
        block(s, b, escaped) ==
            closed(Accumulate(LAMBDA t, n : Simplified(f, t, f.blocks[b][n], <<b, n>>, escaped), start(s), Upto(Len(f.blocks[b]))))
        walked(defs, escaped) ==
            Accumulate(LAMBDA s, b : block(s, b, escaped),
                       [defs |-> defs, alias |-> <<>>, erased |-> {}, memory |-> <<>>, pending |-> <<>>, exprs |-> <<>>,
                        out |-> <<>>, blocks |-> <<>>], Upto(Len(f.blocks)))
        stays(end, b) == SelectSeq(Upto(Len(f.blocks[b])), LAMBDA n : <<b, n>> \notin end.erased /\ end.blocks[b][n].res \notin DOMAIN end.alias)
        resolved(end, b, at) == Solid([k \in DOMAIN at |-> Resolved(end.blocks[b][at[k]], end.alias)])
        finish(end) == Renumbered(DeadCode([f EXCEPT !.blocks = Solid([b \in DOMAIN @ |-> resolved(end, b, stays(end, b))])]))
        run(defs) == finish(walked(defs, escapes(defs)))
    IN  run(definitions(f))

===============================================================================
