------------------------- MODULE MCBlockTransforms -------------------------
(***************************************************************************)
(* Instances of BlockTransforms: connected graphs of four blocks with two  *)
(* loop headers or more, the small SSA functions of MCControlFlow, and     *)
(* hardware loops as the lowering emits them and as the SSA passes leave   *)
(* them.                                                                   *)
(***************************************************************************)
EXTENDS BlockTransforms, MCControlFlow

LoopHeaders(g) == {h \in DOMAIN g : \E b \in DOMAIN g : h \in g[b] /\ Dom(g, h, b)}
LoopGraphs ==
    {Bare(g) : g \in {h \in [0 .. 3 -> AtMostTwo(1 .. 3)] : Connected(h) /\ Cardinality(LoopHeaders(h)) > 1}}

\* One PHI and one use of it, with a value computed on the way.
PhiFunctions ==
    {f \in SSAFunctions :
        \A b \in Blocks(f) : \A i \in Instructions(f, b) : i.opcode = "op" /\ i.operands # <<>> =>
            i.operands[1] \in {2, 3}}

Hardware(opcode, loop) == [Instruction(opcode, NoValue, <<>>, <<>>) EXCEPT !.loop_id = loop]
Setup(loop) == [Hardware("loop", loop) EXCEPT !.operands = <<1>>]
Count == Instruction("op", 1, <<>>, <<>>)
Op(v) == Instruction("op", v, <<1>>, <<>>)
Function(blocks) ==
    [n |-> Len(blocks), entry |-> 0, value_count |-> 3,
     blocks |-> [b \in 0 .. Len(blocks) - 1 |-> blocks[b + 1]]]

\* A loop; two nested ones; two in a row; a conditional in the body; a hardware
\* loop inside an ordinary loop; an ordinary loop inside a hardware loop; and
\* three nested ones, which exceed MaxBlocks.
LoweredLoops == {
    Function(<< <<Count, Setup(1), Op(2), Hardware("end", 1), Terminator({})>> >>),
    Function(<< <<Count, Setup(1), Setup(2), Hardware("end", 2), Hardware("end", 1), Terminator({})>> >>),
    Function(<< <<Count, Setup(1), Hardware("end", 1), Setup(2), Op(2), Hardware("end", 2), Terminator({})>> >>),
    Function(<< <<Count, Setup(1), Terminator({1, 2})>>, <<Op(2), Terminator({3})>>, <<Terminator({3})>>,
                <<Hardware("end", 1), Terminator({})>> >>),
    Function(<< <<Count, Terminator({1})>>, <<Setup(1), Op(2), Hardware("end", 1), Terminator({1, 2})>>,
                <<Terminator({})>> >>),
    Function(<< <<Count, Setup(1), Terminator({1})>>, <<Terminator({1, 2})>>,
                <<Hardware("end", 1), Terminator({})>> >>),
    Function(<< <<Count, Setup(1), Setup(2), Setup(3), Hardware("end", 3), Hardware("end", 2),
                  Hardware("end", 1), Terminator({1})>>, <<Terminator({})>> >>)}

\* Exposed loops whose body carries a PHI: the body alone, with the exit placed
\* before it, with a conditional between the PHI and the LOOP, and a longer
\* one whose split edges exceed MaxBlocks.
ExposedSetup(body) == [Setup(1) EXCEPT !.targets = <<body>>, !.loop_target = body]
ExposedEnd(body, exit) == [Hardware("end", 1) EXCEPT !.targets = <<body, exit>>]
Phi(p, q) == Instruction("phi", 2, <<1, 3>>, <<p, q>>)
Sum == Instruction("op", 3, <<2>>, <<>>)
Exit == <<Hardware("leave", 1), Instruction("op", NoValue, <<3>>, <<>>), Terminator({})>>
PromotedLoops == {
    Function(<< <<Count, ExposedSetup(1)>>, <<Phi(0, 1), Sum, ExposedEnd(1, 2)>>, Exit >>),
    Function(<< <<Count, ExposedSetup(2)>>, Exit, <<Phi(0, 2), Sum, ExposedEnd(2, 1)>> >>),
    Function(<< <<Count, ExposedSetup(2)>>, Exit, <<Phi(0, 3), Sum, Terminator({3, 4})>>,
                <<ExposedEnd(2, 1)>>, <<Terminator({3})>> >>),
    Function(<< <<Count, ExposedSetup(2)>>, Exit, <<Phi(0, 3), Sum, Terminator({3, 4})>>,
                <<ExposedEnd(2, 1)>>, <<Terminator({5})>>, <<Terminator({3})>> >>)}

\* Nothing to expose, and more blocks than the analysis accepts.
TooLong == Function([k \in 1 .. 8 |-> <<Terminator(IF k = 8 THEN {} ELSE {k})>>])

MCTransformed == {TooLong} \cup LoopGraphs \cup PhiFunctions \cup LoweredLoops \cup PromotedLoops
=============================================================================
