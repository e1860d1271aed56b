--------------------------- MODULE MCControlFlow ---------------------------
(***************************************************************************)
(* Instances of ControlFlow: every bare graph of four blocks with at most  *)
(* two targets a block, and every valid SSA function of three connected    *)
(* blocks that computes a value 1 in the entry, a PHI 2 and a value 3 from *)
(* one of them, and reads 3.                                               *)
(***************************************************************************)
EXTENDS ControlFlow

Instruction(opcode, result, operands, targets) ==
    [opcode |-> opcode, result |-> result, operands |-> operands, targets |-> targets,
     loop_id |-> 0, loop_target |-> Invalid]
Ordered(S) == CHOOSE s \in [1 .. Cardinality(S) -> S] : \A i, j \in DOMAIN s : i < j => s[i] < s[j]

\* ret, br or cond, by the number of targets.
Terminator(S) ==
    Instruction(CASE Cardinality(S) = 0 -> "ret" [] Cardinality(S) = 1 -> "br" [] OTHER -> "cond",
                NoValue, <<>>, Ordered(S))
AtMostTwo(S) == {T \in SUBSET S : Cardinality(T) <= 2}

\* The entry of a lowered function has no predecessors.
Bare(g) ==
    [n |-> Cardinality(DOMAIN g), entry |-> 0, value_count |-> 0,
     blocks |-> [b \in DOMAIN g |-> <<Terminator(g[b])>>]]
BareGraphs == {Bare(g) : g \in [0 .. 3 -> AtMostTwo(1 .. 3)]}

\* Dominance by paths, for the rules of the IR verifier.
Avoids(g, S, d) == (0 # d => 0 \in S) /\ \A b \in S : g[b] \ {d} \subseteq S
Dom(g, d, b) == \E S \in SUBSET DOMAIN g : Avoids(g, S, d) /\ b \notin S
PredecessorsIn(g, b) == {p \in DOMAIN g : b \in g[p]}
Connected(g) == \A b \in DOMAIN g : \A S \in SUBSET DOMAIN g :
                   0 \in S /\ (\A c \in S : g[c] \subseteq S) => b \in S

\* Value 1 is computed at the start of the entry, 2 by a PHI of block join, 3 in
\* block home from the value `from', and block last reads `read' at its end.
Places(g, j) ==
    [graph : {g}, join : {j}, incoming : [PredecessorsIn(g, j) -> 1 .. 3],
     home : DOMAIN g, from : {1, 2}, last : DOMAIN g, read : {2, 3}]

\* What the verifier demands: definitions dominate uses, PHI operands their
\* edge.  Value 3 is read.
ValidSSA(x) ==
    LET where == <<0, x.join, x.home>>
        dom(v, b) == Dom(x.graph, where[v], b)
    IN  /\ dom(x.from, x.home) /\ dom(x.read, x.last)
        /\ \A p \in DOMAIN x.incoming : dom(x.incoming[p], p)
        /\ x.read = 3 \/ \E p \in DOMAIN x.incoming : x.incoming[p] = 3

SSAFunction(x) ==
    LET edges == Ordered(DOMAIN x.incoming)
        body(b) ==
            (IF b = 0 THEN <<Instruction("op", 1, <<>>, <<>>)>> ELSE <<>>)
            \o (IF b = x.join
                THEN <<Instruction("phi", 2, [e \in DOMAIN edges |-> x.incoming[edges[e]]], edges)>>
                ELSE <<>>)
            \o (IF b = x.home THEN <<Instruction("op", 3, <<x.from>>, <<>>)>> ELSE <<>>)
            \o (IF b = x.last THEN <<Instruction("op", NoValue, <<x.read>>, <<>>)>> ELSE <<>>)
            \o <<Terminator(x.graph[b])>>
    IN  [n |-> Cardinality(DOMAIN x.graph), entry |-> 0, value_count |-> 3,
         blocks |-> [b \in DOMAIN x.graph |-> body(b)]]

Joins(g) == {b \in DOMAIN g \ {0} : Cardinality(PredecessorsIn(g, b)) > 1}
Candidates ==
    UNION {UNION {Places(g, j) : j \in Joins(g)} :
              g \in {h \in [0 .. 2 -> AtMostTwo(1 .. 2)] : Connected(h)}}
SSAFunctions == {SSAFunction(x) : x \in {y \in Candidates : ValidSSA(y)}}

MCFunctions == BareGraphs \cup SSAFunctions
=============================================================================
