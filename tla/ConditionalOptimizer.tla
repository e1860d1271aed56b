------------------------- MODULE ConditionalOptimizer -------------------------
(***************************************************************************)
(* IRConditionalOptimizer: sparse conditional constant propagation over a  *)
(* first-in first-out worklist of instructions, then the rewrite that      *)
(* folds constants, prunes edges and contracts chains of blocks.  The      *)
(* verifier runs before and after it; resource limits are left out.        *)
(***************************************************************************)
EXTENDS GlobalOptimizer

Unknown == [kind |-> "unknown", value |-> 0]
Variable == [kind |-> "variable", value |-> 0]
Constant(v) == [kind |-> "constant", value |-> v]

\* Mutant: a value that varies on one path is taken for the other path's constant.
meet_Hopeful(a, b) ==
    IF a.kind # "constant" THEN b ELSE IF b.kind # "constant" THEN a ELSE IF a = b THEN a ELSE Variable
meet(a, b) ==
    IF a.kind = "unknown" THEN b ELSE IF b.kind = "unknown" THEN a ELSE IF a = b THEN a ELSE Variable

-----------------------------------------------------------------------------
(* The analysis.  a: facts of values, reachable blocks, executable edges   *)
(* and the worklist of <<block, position>> nodes.                          *)

enqueue(a, nodes) ==
    [a EXCEPT !.pending = Accumulate(LAMBDA q, n : IF n \in ToSet(q) THEN q ELSE Append(q, n), @, nodes)]
NodesOf(f, b) == [n \in DOMAIN f.blocks[b] |-> <<b, n>>]
users(f, v) ==
    SelectSeq(Accumulate(LAMBDA s, b : s \o NodesOf(f, b), <<>>, Upto(Len(f.blocks))),
              LAMBDA n : v \in ToSet(f.blocks[n[1]][n[2]].args))

update(f, a, v, fact) ==
    LET next == meet(a.facts[v], fact)
    IN  IF next = a.facts[v] THEN a
        ELSE enqueue([a EXCEPT !.facts[v] = next], SelectSeq(users(f, v), LAMBDA n : n[1] \in a.reachable))

\* A first edge into a block brings in its code; a later one only its phis.
edge(f, a, from, to) ==
    LET taken == [a EXCEPT !.edges = @ \cup {<<from, to>>}, !.reachable = @ \cup {to}]
    IN  IF <<from, to>> \in a.edges THEN a
        ELSE enqueue(taken, IF to \notin a.reachable THEN NodesOf(f, to)
                            ELSE SelectSeq(NodesOf(f, to), LAMBDA n : f.blocks[to][n[2]].op = "phi"))

FactFrom(value) == IF value = {} THEN Variable ELSE Constant(CHOOSE v \in value : TRUE)
factOf(i, b, a, defs) ==
    LET known == {a.facts[v].kind : v \in ToSet(i.args)}
    IN  CASE ~isIntegerType(i.type) -> Variable
          [] i.op = "const" -> Constant(Convert(i.imm, i.type))
          [] i.op = "phi" -> Accumulate(LAMBDA r, n : IF <<i.targets[n], b>> \in a.edges THEN meet(r, a.facts[i.args[n]]) ELSE r,
                                        Unknown, Upto(Len(i.args)))
          [] i.op \notin {"binary", "unary", "cast", "bit.extract"} \/ "variable" \in known -> Variable
          [] "unknown" \in known -> Unknown
          [] OTHER -> FactFrom(evaluate(i, [n \in DOMAIN i.args |-> [type |-> defs[i.args[n]].type, value |-> a.facts[i.args[n]].value]]))

\* The target a conditional branch or a switch takes on a constant. A case
\* label is compared whole: byte zero is not case 256.
Selected(i, value) ==
    IF i.op = "condbr" THEN i.targets[IF value # 0 THEN 1 ELSE 2]
    ELSE LET hits == {c \in DOMAIN i.cases : i.cases[c] = value}
         IN  IF hits = {} THEN Last(i.targets) ELSE i.targets[Min(hits)]

\* One node of the worklist.
visit(f, a0, defs) ==
    LET b == a0.pending[1][1]
        i == f.blocks[b][a0.pending[1][2]]
        popped == [a0 EXCEPT !.pending = Tail(@)]
        fact(a) == a.facts[i.args[1]]
        flow(a) == CASE ~isTerminator(i) -> a
                     [] i.op \in {"condbr", "switch"} /\ fact(a).kind = "unknown" -> a
                     [] i.op \in {"condbr", "switch"} /\ fact(a).kind = "constant" -> edge(f, a, b, Selected(i, fact(a).value))
                     [] OTHER -> Accumulate(LAMBDA s, t : edge(f, s, b, t), a, i.targets)
    IN  flow(IF i.res = NoValue THEN popped ELSE update(f, popped, i.res, factOf(i, b, popped, defs)))

\* Drain the worklist; what is still unknown in reachable code varies, and so on.
analyze(f) ==
    LET defs == definitions(f)
        owner == Owners(f)
        start == [facts |-> [v \in 1..f.values |-> Unknown], reachable |-> {1}, edges |-> {}, pending |-> NodesOf(f, 1)]
        unresolved(a) == SelectSeq(Upto(f.values), LAMBDA v : a.facts[v].kind = "unknown" /\ owner[v] \in a.reachable)
        turn(a) == IF a.pending # <<>> THEN visit(f, a, defs)
                   ELSE Accumulate(LAMBDA s, v : update(f, s, v, Variable), a, unresolved(a))
    IN  Looped(LAMBDA a : a.pending # <<>> \/ unresolved(a) # <<>>, turn, start)

-----------------------------------------------------------------------------
(* The rewrite.                                                            *)

\* A hardware loop keeps its setup, end and leave together, or loses all three.
coherentHardware(f, reachable) ==
    LET parts(id) == {i.op : i \in {j \in UNION {ToSet(f.blocks[b]) : b \in reachable} : j.loop = id}}
    IN  \A b \in reachable : \A i \in ToSet(f.blocks[b]) :
            /\ i.loop > 0 => parts(i.loop) = LoopOpcodes
            /\ i.loopTo > 0 => i.loopTo \in reachable

Pruned(i, facts) ==
    LET fact == facts[i.args[1]]
    IN  CASE i.op = "condbr" /\ fact.kind # "constant" /\ i.targets[1] = i.targets[2] -> [BranchTo(i.targets[1]) EXCEPT !.plot = i.plot]
          [] i.op \in {"condbr", "switch"} /\ fact.kind = "constant" -> [BranchTo(Selected(i, fact.value)) EXCEPT !.plot = i.plot]
          [] OTHER -> i

\* A phi without the operands of edges that are gone.
Trimmed(i, preds) ==
    LET stay == SelectSeq(Upto(Len(i.targets)), LAMBDA n : i.targets[n] \in preds)
    IN  IF i.op # "phi" THEN i
        ELSE [i EXCEPT !.args = Solid([n \in DOMAIN stay |-> i.args[stay[n]]]),
                       !.targets = Solid([n \in DOMAIN stay |-> i.targets[stay[n]]])]

\* A reachable block with dead phi edges dropped and constants in place; the
\* constants that replace phis follow the phis that stay.
Settle(f, b, facts, preds) ==
    LET one(a, i) ==
            LET constant == i.res # NoValue /\ facts[i.res].kind = "constant"
                literal == [ConstantOf(Instr("const", i.type, <<>>), facts[i.res].value) EXCEPT !.res = i.res, !.plot = i.plot]
            IN  CASE i.op = "phi" /\ Len(i.args) = 1 -> [a EXCEPT !.alias = (i.res :> i.args[1]) @@ @]
                  [] constant /\ i.op = "phi" -> [a EXCEPT !.folded = Append(@, literal)]
                  [] constant -> [a EXCEPT !.body = Append(@, literal)]
                  [] i.op = "phi" -> [a EXCEPT !.phis = Append(@, i)]
                  [] OTHER -> [a EXCEPT !.body = Append(@, i)]
    IN  Accumulate(LAMBDA a, i : one(a, Trimmed(i, preds)), [phis |-> <<>>, folded |-> <<>>, body |-> <<>>, alias |-> <<>>], f.blocks[b])

\* Chains of blocks: a block takes over the only successor only it enters.
Contracted(f, reachable) ==
    LET loops == {i \in UNION {ToSet(f.blocks[b]) : b \in reachable} : i.loop > 0}
        protected == {b \in reachable : \E i \in ToSet(f.blocks[b]) : i.loop > 0}
                     \cup UNION {ToSet(i.targets) \cup {i.loopTo} : i \in loops}
        step(a) ==
            LET from == Head(a.pending)
                rest == [a EXCEPT !.pending = Tail(@)]
                end == Last(a.f.blocks[from])
                to == end.targets[1]
                joined == SubSeq(a.f.blocks[from], 1, Len(a.f.blocks[from]) - 1) \o a.f.blocks[to]
                renamed(i) == IF i.op # "phi" THEN i ELSE [i EXCEPT !.targets = Mapped(LAMBDA t : IF t = to THEN from ELSE t, @)]
            IN  IF \/ from \notin a.live \/ end.op # "br" \/ to \in {from, 1} \cup protected \/ to \notin a.live
                   \/ Cardinality({p \in a.live : to \in ToSet(Last(a.f.blocks[p]).targets)}) # 1
                   \/ a.f.blocks[to][1].op = "phi"
                THEN rest
                ELSE [rest EXCEPT !.live = @ \ {to}, !.pending = Append(@, from),
                                  !.f = Rewritten([@ EXCEPT !.blocks[from] = joined, !.blocks[to] = <<>>], renamed)]
    IN  Looped(LAMBDA a : a.pending # <<>>, step, [f |-> f, live |-> reachable, pending |-> Sorted(reachable, <)])

\* The live blocks, numbered anew.
Packed(done) ==
    LET aimed(i, number) == [i EXCEPT !.targets = Solid([n \in DOMAIN @ |-> number[@[n]]]), !.loopTo = IF @ = 0 THEN 0 ELSE number[@]]
        small(kept) == [done.f EXCEPT !.blocks = Solid([n \in DOMAIN kept |-> @[kept[n]]])]
        by(kept, number) == Renumbered(Rewritten(small(kept), LAMBDA i : aimed(i, number)))
        numbered(kept) == by(kept, SolidFcn([b \in done.live |-> CHOOSE n \in DOMAIN kept : kept[n] = b]))
    IN  numbered(Sorted(done.live, <))

rewrite(f, a) ==
    LET parts(g, live) == SolidFcn([b \in live |-> Settle(g, b, a.facts, Predecessors(g, b) \cap live)])
        aliases(p) == Accumulate(LAMBDA s, b : p[b].alias @@ s, <<>>, Sorted(DOMAIN p, <))
        settled(g, p) == [g EXCEPT !.blocks = Solid([b \in DOMAIN @ |-> IF b \in DOMAIN p THEN p[b].phis \o p[b].folded \o p[b].body ELSE <<>>])]
        joined(g, p, alias) == Contracted(Rewritten(settled(g, p), LAMBDA i : Resolved(i, alias)), DOMAIN p)
        folded(g, p) == joined(g, p, aliases(p))
        live(g) == folded(g, parts(g, Reachable(g)))
    IN  Packed(live(IF coherentHardware(f, a.reachable) THEN Rewritten(f, LAMBDA i : Pruned(i, a.facts)) ELSE f))

conditionalOptimize(f) == rewrite(f, analyze(f))

===============================================================================
