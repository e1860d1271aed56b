-------------------------- MODULE BlockTransforms --------------------------
(***************************************************************************)
(* The three rewrites of IRControlFlow that move, cut or add basic blocks, *)
(* in the order IRGlobalOptimizer::run applies them: exposeHardwareLoops   *)
(* before the SSA passes, splitPhiEdges and layoutHotBlocks after them.    *)
(* The last two build a fresh analysis (module ControlFlow) first; so does *)
(* every pass that runs on the result.                                     *)
(***************************************************************************)
EXTENDS ControlFlow

CONSTANT MaxLoops    \* 32: layoutHotBlocks leaves functions with more loops alone

ASSUME MaxLoopsAssumption == MaxLoops \in Nat

VARIABLES
    stage,     \* "expose", "split", "layout", "final" or "rejected"
    source,    \* history: the function splitPhiEdges was given
    origin,    \* history: <<b>> for block b of source, <<p, s>> for a new edge block
    ids,       \* layoutHotBlocks: the place of each block in the new order
    placed     \* layoutHotBlocks: the headers of the loops it has been through

allVars == <<vars, stage, source, origin, ids, placed>>

-----------------------------------------------------------------------------
\* What IRVerifier checks of a function before the optimizer sees it, as far as
\* the rewrites rely on it.
Opcodes == {"op", "phi", "br", "cond", "ret", "loop", "end", "leave"}
IRInstruction ==
    [opcode : Opcodes, result : Nat, operands : Seq(Nat), targets : Seq(Nat),
     loop_id : Nat, loop_target : Nat \cup {Invalid}]

Terminal(f, b) == f.blocks[b][Len(f.blocks[b])]
EdgesInto(f, b) == {p \in Blocks(f) : b \in EdgesFrom(f, p)}

\* Terminators end their blocks, PHIs start theirs and name each predecessor.
WellPlaced(f, b, k) ==
    LET i == f.blocks[b][k]
    IN  /\ Items(i.targets) \subseteq Blocks(f)
        /\ i.opcode # "phi" /\ i.targets # <<>> => k = Len(f.blocks[b])
        /\ i.opcode = "phi" => k \in LeadingPhis(f, b) /\ Items(i.targets) = EdgesInto(f, b)
        /\ i.loop_target # Invalid =>
              i.opcode = "loop" /\ i.targets # <<>> /\ i.loop_target \in Blocks(f)
WellFormed(f) ==
    /\ f.n \in Nat \ {0} /\ f.entry = 0 /\ f.value_count \in Nat
    /\ f.blocks \in [Blocks(f) -> Seq(IRInstruction)]
    /\ \A b \in Blocks(f) : f.blocks[b] # <<>> /\ Terminal(f, b).opcode # "phi"
    /\ \A b \in Blocks(f) : \A k \in DOMAIN f.blocks[b] : WellPlaced(f, b, k)

\* Reachability and dominance by paths, as sets that control cannot leave.
Reaches(f, b) ==
    \A S \in SUBSET Blocks(f) :
        f.entry \in S /\ (\A c \in S : EdgesFrom(f, c) \subseteq S) => b \in S
Avoiding(f, S, d) == (f.entry # d => f.entry \in S) /\ \A b \in S : EdgesFrom(f, b) \ {d} \subseteq S
Passes(f, d, b) == \E S \in SUBSET Blocks(f) : Avoiding(f, S, d) /\ b \notin S

\* hardware_scopes: a loop has one setup and one end.  Once they are exposed,
\* the setup names the destination of the end and dominates it, and the end
\* dominates the instruction that leaves the loop.
OneEach(f) ==
    \A b, c \in Blocks(f) : \A k \in DOMAIN f.blocks[b], l \in DOMAIN f.blocks[c] :
        LET i == f.blocks[b][k]  j == f.blocks[c][l]
        IN  IsHardware(i) /\ i.opcode = j.opcode /\ i.loop_id = j.loop_id => b = c /\ k = l
PairedAt(f, b, setup, p) ==
    /\ Reaches(f, p) /\ Terminal(f, p).opcode = "end" /\ Terminal(f, p).loop_id = setup.loop_id
    /\ Terminal(f, p).targets[1] = setup.loop_target
    /\ Passes(f, b, p)
    /\ \E q \in Blocks(f) : /\ Reaches(f, q) /\ Passes(f, p, q)
                            /\ \E i \in Instructions(f, q) :
                                  i.opcode = "leave" /\ i.loop_id = setup.loop_id
Paired(f) ==
    \A b \in Blocks(f) : \A setup \in Instructions(f, b) :
        setup.opcode = "loop" => \E p \in Blocks(f) : PairedAt(f, b, setup, p)

\* Before that, no PHI exists, and the scope stacks, on which every join must
\* agree, make every path to an end pass its setup.
HasLoop(f, b, k, opcode, loop) ==
    /\ b \in Blocks(f) /\ k \in DOMAIN f.blocks[b]
    /\ f.blocks[b][k].opcode = opcode /\ f.blocks[b][k].loop_id = loop
LoweredAt(f, b, k) ==
    LET i == f.blocks[b][k]
    IN  /\ i.opcode # "phi"
        /\ IsHardware(i) => i.targets = <<>> /\ k # Len(f.blocks[b]) /\ Reaches(f, b)
        /\ i.opcode = "end" =>
              \E c \in Blocks(f) : \E l \in DOMAIN f.blocks[c] : HasLoop(f, c, l, "loop", i.loop_id)
        /\ i.opcode = "loop" =>
              \E c \in Blocks(f) : \E l \in DOMAIN f.blocks[c] :
                  HasLoop(f, c, l, "end", i.loop_id) /\ IF b = c THEN k < l ELSE Passes(f, b, c)
Lowered(f) == \A b \in Blocks(f) : \A k \in DOMAIN f.blocks[b] : LoweredAt(f, b, k)

Verified(f) == WellFormed(f) /\ OneEach(f) /\ ((Exposed(f) /\ Paired(f)) \/ Lowered(f))

ASSUME VerifiedAssumption == \A f \in Functions : Verified(f)

-----------------------------------------------------------------------------
\* exposeHardwareLoops ends a block after each setup and end of a loop, and
\* numbers the blocks as it begins them.
Cuts(f, b) == {k \in DOMAIN f.blocks[b] : IsHardware(f.blocks[b][k]) /\ f.blocks[b][k].targets = <<>>}
Before(x, y) == x[1] < y[1] \/ (x[1] = y[1] /\ x[2] < y[2])
Starts(f) == UNION {{<<b, k>> : k \in {1} \cup {c + 1 : c \in Cuts(f, b)}} : b \in Blocks(f)}
nextBlock(f, at) == Cardinality({s \in Starts(f) : Before(s, at)})
first(f, b) == nextBlock(f, <<b, 1>>)
\* The verifier has just checked that setups and ends come in pairs.
bodies(f, loop) ==
    CHOOSE body \in 0 .. Cardinality(Starts(f)) - 1 :
        \E b \in Blocks(f) : \E k \in Cuts(f, b) :
            HasLoop(f, b, k, "loop", loop) /\ body = nextBlock(f, <<b, k + 1>>)

Leave(loop) == [opcode |-> "leave", result |-> NoValue, operands |-> <<>>, targets |-> <<>>,
                loop_id |-> loop, loop_target |-> Invalid]

ExposedInstruction(f, b, k) ==
    LET i == f.blocks[b][k]
        next == nextBlock(f, <<b, k + 1>>)
    IN  IF k \notin Cuts(f, b)
        THEN IF IsHardware(i) THEN i
             ELSE [i EXCEPT !.targets = [e \in DOMAIN i.targets |-> first(f, i.targets[e])]]
        ELSE IF i.opcode = "loop" THEN [i EXCEPT !.targets = <<next>>, !.loop_target = next]
        ELSE [i EXCEPT !.targets = <<bodies(f, i.loop_id), next>>]

\* The instructions from s to the next cut, after the leave of an end at s.
PieceEnd(f, s) ==
    CHOOSE e \in DOMAIN f.blocks[s[1]] :
        /\ e >= s[2] /\ (e \in Cuts(f, s[1]) \/ e = Len(f.blocks[s[1]]))
        /\ \A c \in Cuts(f, s[1]) : c >= s[2] => c >= e
ExposedBlock(f, s) ==
    LET before == f.blocks[s[1]][s[2] - 1]
    IN  (IF s[2] > 1 /\ before.opcode = "end" THEN <<Leave(before.loop_id)>> ELSE <<>>)
        \o [m \in 1 .. PieceEnd(f, s) - s[2] + 1 |-> ExposedInstruction(f, s[1], s[2] + m - 1)]
StartOf(f, id) == CHOOSE s \in Starts(f) : nextBlock(f, s) = id

ExposeHardwareLoops(f) ==
    IF \A b \in Blocks(f) : Cuts(f, b) = {} THEN f
    ELSE [n |-> Cardinality(Starts(f)), entry |-> first(f, f.entry), value_count |-> f.value_count,
          blocks |-> [id \in 0 .. Cardinality(Starts(f)) - 1 |-> ExposedBlock(f, StartOf(f, id))]]

-----------------------------------------------------------------------------
\* splitPhiEdges: the edges that need a block of their own, in the order the
\* loops over successors and their predecessors meet them.
StartsWithPhi(f, b) == f.blocks[b][1].opcode = "phi"
\* Mutant: a block that ends in a plain branch or in a LOOP keeps its edge.
Splits_NotLoops(p, s) ==
    /\ StartsWithPhi(function, s) /\ p \in Predecessors(s)
    /\ Terminal(function, p).opcode \notin {"br", "end"}
Splits(p, s) ==
    /\ StartsWithPhi(function, s) /\ p \in Predecessors(s)
    /\ ~(Terminal(function, p).opcode = "br" /\ Cardinality(successors[p]) = 1)
SplitEdges == {e \in Blocks(function) \X Blocks(function) : Splits(e[1], e[2])}
EdgeBefore(d, e) == d[2] < e[2] \/ (d[2] = e[2] /\ d[1] < e[1])
EdgeBlock(e) == function.n + Cardinality({d \in SplitEdges : EdgeBefore(d, e)})

Rerouted(p, s, end) == IF <<p, s>> \in SplitEdges THEN EdgeBlock(<<p, s>>) ELSE end

SplitPhi(i, s) ==
    [i EXCEPT !.targets = [k \in DOMAIN i.targets |-> Rerouted(i.targets[k], s, i.targets[k])]]
SplitTerminal(i, p) ==
    [i EXCEPT !.targets = [k \in DOMAIN i.targets |-> Rerouted(p, i.targets[k], i.targets[k])]]
\* A setup follows the back edge of its LOOP.
\* Mutant: R13 is left at the old destination.
SplitSetup_Stale(i) == i
SplitSetup(i) ==
    LET ends == {p \in Blocks(function) : /\ Terminal(function, p).opcode = "end"
                                          /\ Terminal(function, p).loop_id = i.loop_id
                                          /\ \E e \in SplitEdges : e[1] = p}
    IN  IF ends = {} THEN i
        ELSE LET p == CHOOSE q \in ends : TRUE
             IN  [i EXCEPT !.loop_target = SplitTerminal(Terminal(function, p), p).targets[1]]

SplitInstruction(b, k) ==
    LET i == function.blocks[b][k]
        j == IF k = Len(function.blocks[b]) THEN SplitTerminal(i, b) ELSE i
    IN  IF k \in LeadingPhis(function, b) THEN SplitPhi(i, b)
        ELSE IF i.opcode = "loop" THEN SplitSetup(j) ELSE j

BranchTo(s) == [opcode |-> "br", result |-> NoValue, operands |-> <<>>, targets |-> <<s>>,
                loop_id |-> 0, loop_target |-> Invalid]
EdgeAt(id) == CHOOSE e \in SplitEdges : EdgeBlock(e) = id

SplitPhiEdges ==
    [n |-> function.n + Cardinality(SplitEdges),
     entry |-> function.entry, value_count |-> function.value_count,
     blocks |-> [b \in 0 .. function.n + Cardinality(SplitEdges) - 1 |->
                   IF b < function.n
                   THEN [k \in DOMAIN function.blocks[b] |-> SplitInstruction(b, k)]
                   ELSE <<BranchTo(EdgeAt(b)[2])>>]]

-----------------------------------------------------------------------------
\* layoutHotBlocks: larger loops first, each pulled together where its first
\* block stands, with its header in front.
Loops == {h \in Blocks(function) : natural[h].blocks # {}}
LoopBefore(g, h) ==
    LET size(x) == Cardinality(natural[x].blocks)
    IN  size(g) > size(h) \/ (size(g) = size(h) /\ g < h)

Movable(h) ==
    /\ \A g \in Loops : LET L == natural[h].blocks  M == natural[g].blocks
                        IN  L \cap M # {} => M \subseteq L \/ L \subseteq M
    /\ function.entry \in natural[h].blocks => h = function.entry

\* Which of two blocks comes first once the loop of h is together.
\* Mutant: the header stays where it is among the blocks of its loop.
Ahead_InOrder(h, c, d) ==
    LET L == natural[h].blocks
    IN  \/ (c \in L <=> d \in L) /\ ids[c] < ids[d]
        \/ c \in L /\ d \notin L /\ \E x \in L : ids[x] < ids[d]
        \/ c \notin L /\ d \in L /\ \A x \in L : ids[c] < ids[x]
Ahead(h, c, d) ==
    LET L == natural[h].blocks
    IN  \/ c \in L /\ d \in L /\ d # h /\ (c = h \/ ids[c] < ids[d])
        \/ c \in L /\ d \notin L /\ \E x \in L : ids[x] < ids[d]
        \/ c \notin L /\ d \in L /\ \A x \in L : ids[c] < ids[x]
        \/ c \notin L /\ d \notin L /\ ids[c] < ids[d]
PullTogether(h) == [b \in Blocks(function) |-> Cardinality({c \in Blocks(function) : Ahead(h, c, b)})]

\* The block at place k, and every reference to a block following it there.
order(k) == CHOOSE b \in Blocks(function) : ids[b] = k
\* Mutant: PHIs, which the branches of a function do not show, are left out.
Remapped_NotPhis(i) ==
    [i EXCEPT !.targets = [e \in DOMAIN i.targets |->
                             IF i.opcode = "phi" THEN i.targets[e] ELSE ids[i.targets[e]]],
              !.loop_target = IF i.loop_target = Invalid THEN Invalid ELSE ids[i.loop_target]]
Remapped(i) ==
    [i EXCEPT !.targets = [e \in DOMAIN i.targets |-> ids[i.targets[e]]],
              !.loop_target = IF i.loop_target = Invalid THEN Invalid ELSE ids[i.loop_target]]

LaidOut ==
    [n |-> function.n, entry |-> ids[function.entry], value_count |-> function.value_count,
     blocks |-> [k \in Blocks(function) |->
                   [j \in DOMAIN function.blocks[order(k)] |-> Remapped(function.blocks[order(k)][j])]]]

-----------------------------------------------------------------------------
\* A fresh analysis of function f is about to start, with its blocks in order.
Restart(f) ==
    /\ function' = f /\ phase' = "begin"
    /\ successors' = [b \in Blocks(f) |-> {}] /\ reachable' = {}
    /\ m_dominators' = [b \in Blocks(f) |-> {}]
    /\ immediate_dominator' = [b \in Blocks(f) |-> Invalid]
    /\ frontier' = [b \in Blocks(f) |-> {}]
    /\ natural' = [b \in Blocks(f) |-> [blocks |-> {}, latches |-> {}]]
    /\ loop_depth' = [b \in Blocks(f) |-> 0]
    /\ live_in' = [b \in Blocks(f) |-> {}] /\ live_out' = [b \in Blocks(f) |-> {}]
    /\ work' = {} /\ header' = Invalid /\ backedges' = {}
    /\ position' = 0 /\ changed' = FALSE /\ rounds' = 0
    /\ ids' = [b \in Blocks(f) |-> b] /\ placed' = {}

TransformInit ==
    /\ Init
    /\ stage = "expose" /\ source = function
    /\ origin = [b \in Blocks(function) |-> <<b>>]
    /\ ids = [b \in Blocks(function) |-> b] /\ placed = {}

Analyse ==
    /\ stage \in {"split", "layout", "final"}
    /\ Next
    /\ UNCHANGED <<stage, source, origin, ids, placed>>

exposeHardwareLoops ==
    /\ stage = "expose"
    /\ LET f == ExposeHardwareLoops(function)
       IN  /\ Restart(f)
           /\ source' = f
           /\ origin' = [b \in Blocks(f) |-> <<b>>]
           /\ stage' = IF f # function /\ f.n > MaxBlocks THEN "rejected" ELSE "split"

splitPhiEdges ==
    /\ stage = "split" /\ phase = "ready"
    /\ IF function.n + Cardinality(SplitEdges) > MaxBlocks
       THEN stage' = "rejected" /\ UNCHANGED <<vars, origin, ids, placed>>
       ELSE /\ Restart(SplitPhiEdges)
            /\ origin' = [b \in 0 .. function.n + Cardinality(SplitEdges) - 1 |->
                            IF b < function.n THEN <<b>> ELSE EdgeAt(b)]
            /\ stage' = "layout"
    /\ UNCHANGED source

\* The next loop is moved, unless it overlaps another or holds the entry.
placeLoop ==
    /\ stage = "layout" /\ phase = "ready" /\ Cardinality(Loops) <= MaxLoops
    /\ \E h \in Loops \ placed :
          /\ \A g \in Loops \ placed : g = h \/ LoopBefore(h, g)
          /\ placed' = placed \cup {h}
          /\ ids' = IF Movable(h) THEN PullTogether(h) ELSE ids
    /\ UNCHANGED <<vars, stage, source, origin>>

\* With too many loops none is moved, and every block follows itself.
layoutHotBlocks ==
    /\ stage = "layout" /\ phase = "ready"
    /\ Cardinality(Loops) > MaxLoops \/ placed = Loops
    /\ Restart(LaidOut)
    /\ origin' = [k \in Blocks(function) |-> origin[order(k)]]
    /\ stage' = "final"
    /\ UNCHANGED source

TransformNext == exposeHardwareLoops \/ Analyse \/ splitPhiEdges \/ placeLoop \/ layoutHotBlocks
TransformSpec == TransformInit /\ [][TransformNext]_allVars

-----------------------------------------------------------------------------
\* The block of the source that control reaches through block t, when places
\* names the origin of every block.
Landing(places, t) == IF t = Invalid THEN Invalid ELSE places[t][Len(places[t])]

SameInstruction(places, new, old, s) ==
    /\ new.opcode = old.opcode /\ new.result = old.result
    /\ new.operands = old.operands /\ new.loop_id = old.loop_id
    /\ Landing(places, new.loop_target) = old.loop_target
    /\ DOMAIN new.targets = DOMAIN old.targets
    /\ \A e \in DOMAIN new.targets :
          IF new.opcode = "phi"
          THEN places[new.targets[e]] \in {<<old.targets[e]>>, <<old.targets[e], s>>}
          ELSE Landing(places, new.targets[e]) = old.targets[e]
SameBlock(f, places, from, b) ==
    LET s == places[b][1]
    IN  /\ Len(f.blocks[b]) = Len(from.blocks[s])
        /\ \A k \in DOMAIN f.blocks[b] :
              SameInstruction(places, f.blocks[b][k], from.blocks[s][k], s)
OnlyAnEdge(f, places, b) ==
    /\ {places[p] : p \in EdgesInto(f, b)} = {<<places[b][1]>>}
    /\ {places[t] : t \in EdgesFrom(f, b)} = {<<places[b][2]>>}
SameFlow(f, places, from) ==
    /\ f.entry = 0 /\ places[0] = <<from.entry>>
    /\ DOMAIN places = Blocks(f)
    /\ \A b, c \in Blocks(f) : places[b] = places[c] => b = c
    /\ \A b \in Blocks(from) : \E c \in Blocks(f) : places[c] = <<b>>
    /\ \A b \in Blocks(f) :
          IF Len(places[b]) = 1 THEN SameBlock(f, places, from, b) ELSE OnlyAnEdge(f, places, b)

\* Splitting and layout keep the program: the entry is still block 0, every
\* block of the source is there once with its instructions, its targets and its
\* PHI operands in the same order, and a new block only continues its own edge.
FlowKept == SameFlow(function, origin, source)

PrivatePhis(f) ==
    \A b \in Blocks(f) : \A i \in Instructions(f, b) :
        i.opcode = "phi" => /\ Items(i.targets) = EdgesInto(f, b)
                            /\ \A p \in EdgesInto(f, b) : EdgesFrom(f, p) = {b}

\* After splitting, the parallel copies of a PHI run on its own edge only: each
\* predecessor of a block with PHIs leads nowhere else, and each PHI names
\* exactly the predecessors of its block, as the verifier demands.
PhiEdgesPrivate == stage \in {"layout", "final"} => PrivatePhis(function)

\* The final layout keeps every natural loop in one piece, header first, outer
\* loops as well as the inner loops that were moved after them; no loop is ever
\* skipped for overlapping another one.
LoopsContiguous ==
    stage = "final" /\ phase = "ready" /\ Cardinality(Loops) <= MaxLoops =>
        \A h \in Loops : natural[h].blocks = h .. h + Cardinality(natural[h].blocks) - 1

\* Through all three rewrites a hardware loop stays one loop: R13 is set to the
\* destination of its LOOP, the setup dominates the LOOP, and the LOOP the
\* instruction that restores the registers.
HardwareLoopsPaired ==
    stage # "expose" /\ phase = "ready" =>
        \A b \in Blocks(function) : \A setup \in Instructions(function, b) :
            setup.opcode = "loop" =>
                \E p \in reachable :
                    LET latch == Terminal(function, p)
                    IN  /\ latch.opcode = "end" /\ latch.loop_id = setup.loop_id
                        /\ latch.targets[1] = setup.loop_target
                        /\ dominates(b, p)
                        /\ \E q \in reachable : /\ dominates(p, q)
                                                /\ \E i \in Instructions(function, q) :
                                                      i.opcode = "leave" /\ i.loop_id = setup.loop_id

=============================================================================
