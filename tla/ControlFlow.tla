---------------------------- MODULE ControlFlow ----------------------------
(***************************************************************************)
(* The analysis snapshot of one IR function that every O2 pass and the     *)
(* register allocator are built on: the constructor of IRControlFlow, with *)
(* its worklists and its bounded round-robin iterations.                   *)
(*                                                                         *)
(* A function is its blocks 0..n-1, each a sequence of instructions.  The  *)
(* model keeps what the analysis reads: opcode class, result, operands,    *)
(* targets and the hardware-loop fields.  The vectors of edges are sets    *)
(* (the code removes duplicates) and a worklist is popped in any order.    *)
(***************************************************************************)
EXTENDS Integers, Sequences, FiniteSets, FiniteSetsExt

CONSTANTS
    Functions,    \* the functions analysed
    MaxBlocks,    \* 8192 in the code
    MaxValues,    \* 100000
    MaxEntries    \* 1000000 live-set entries in one round

Invalid == -1     \* IRBlockId::Invalid
NoValue == 0      \* the invalid IRValueId

Blocks(f) == 0 .. f.n - 1

ASSUME FunctionsAssumption ==
    /\ \A f \in Functions : f.n \in Nat /\ f.entry \in Blocks(f) /\ f.value_count \in Nat
    /\ MaxBlocks \in Nat /\ MaxValues \in Nat /\ MaxEntries \in Nat

VARIABLES
    function,
    phase,                 \* "begin", "reach", "dominators", "frontier", "loops", "liveness",
                           \* "ready" or "rejected"
    successors, reachable,
    m_dominators, immediate_dominator, frontier,
    natural, loop_depth,   \* loops by header; no blocks: not a header
    live_in, live_out,
    work, header, backedges,    \* the loops over worklists and back edges
    position, changed, rounds   \* the round-robin iterations

graphVars == <<successors, reachable>>
treeVars == <<m_dominators, immediate_dominator, frontier>>
loopVars == <<natural, loop_depth, header, backedges>>
liveVars == <<live_in, live_out>>
roundVars == <<position, changed, rounds>>
vars == <<function, phase, graphVars, treeVars, loopVars, liveVars, work, roundVars>>

-----------------------------------------------------------------------------
Items(s) == {s[k] : k \in DOMAIN s}
Instructions(f, b) == Items(f.blocks[b])
IsHardware(i) == i.opcode \in {"loop", "end"}
Exposed(f) == \A b \in Blocks(f) : \A i \in Instructions(f, b) :
                 IsHardware(i) => i.targets # <<>>

EdgesFrom(f, b) == UNION {Items(i.targets) : i \in {j \in Instructions(f, b) : j.opcode # "phi"}}

Predecessors(b) == {p \in Blocks(function) : b \in successors[p]}
Incoming(b) == Predecessors(b) \cap reachable

\* Values read before the block defines them, values it defines, and its PHIs.
Results(f, b, K) == {f.blocks[b][k].result : k \in K} \ {NoValue}
Uses(f, b) ==
    UNION {Items(f.blocks[b][k].operands) \ Results(f, b, 1 .. k - 1) :
              k \in {j \in DOMAIN f.blocks[b] : f.blocks[b][j].opcode # "phi"}}
Defs(f, b) == Results(f, b, DOMAIN f.blocks[b])
PhiDefs(f, b) == Results(f, b, {k \in DOMAIN f.blocks[b] : f.blocks[b][k].opcode = "phi"})

LeadingPhis(f, s) ==
    {k \in DOMAIN f.blocks[s] : \A j \in 1 .. k : f.blocks[s][j].opcode = "phi"}
\* What the PHIs of s read on the edge from p.
EdgeOperands(f, p, s) ==
    UNION {{f.blocks[s][k].operands[e] : e \in {d \in DOMAIN f.blocks[s][k].targets :
                                                  f.blocks[s][k].targets[d] = p}} :
              k \in LeadingPhis(f, s)}

WithinLimits(f) == f.n # 0 /\ f.n <= MaxBlocks /\ f.value_count <= MaxValues

-----------------------------------------------------------------------------
Init ==
    /\ function \in Functions
    /\ phase = "begin"
    /\ successors = [b \in Blocks(function) |-> {}] /\ reachable = {}
    /\ m_dominators = [b \in Blocks(function) |-> {}]
    /\ immediate_dominator = [b \in Blocks(function) |-> Invalid]
    /\ frontier = [b \in Blocks(function) |-> {}]
    /\ natural = [b \in Blocks(function) |-> [blocks |-> {}, latches |-> {}]]
    /\ loop_depth = [b \in Blocks(function) |-> 0]
    /\ live_in = [b \in Blocks(function) |-> {}] /\ live_out = [b \in Blocks(function) |-> {}]
    /\ work = {} /\ header = Invalid /\ backedges = {}
    /\ position = 0 /\ changed = FALSE /\ rounds = 0

Begin ==
    /\ phase = "begin"
    /\ IF /\ WithinLimits(function) /\ Exposed(function)
          /\ \A b \in Blocks(function) : EdgesFrom(function, b) \subseteq Blocks(function)
       THEN /\ phase' = "reach"
            /\ successors' = [b \in Blocks(function) |-> EdgesFrom(function, b)]
            /\ work' = {function.entry}
       ELSE /\ phase' = "rejected"
            /\ UNCHANGED <<successors, work>>
    /\ UNCHANGED <<function, reachable, treeVars, loopVars, liveVars, roundVars>>

Visit ==
    /\ phase = "reach"
    /\ \E b \in work :
          /\ work' = (work \ {b}) \cup (IF b \in reachable THEN {} ELSE successors[b])
          /\ reachable' = reachable \cup {b}
    /\ UNCHANGED <<function, phase, successors, treeVars, loopVars, liveVars, roundVars>>

StartDominators ==
    /\ phase = "reach" /\ work = {}
    /\ phase' = "dominators"
    /\ m_dominators' = [b \in Blocks(function) |->
                          IF b = function.entry THEN {b}
                          ELSE IF b \in reachable THEN reachable ELSE {}]
    /\ changed' = TRUE /\ rounds' = 0 /\ position' = function.n
    /\ UNCHANGED <<function, graphVars, immediate_dominator, frontier, loopVars, liveVars, work>>

-----------------------------------------------------------------------------
\* Mutant: two rounds, enough only when blocks come in a topological order.
DominatorRounds_Two == 2
DominatorRounds == function.n + 1
DominatorRound ==
    /\ phase = "dominators" /\ position = function.n /\ changed
    /\ rounds' = rounds + 1
    /\ phase' = IF rounds' > DominatorRounds THEN "rejected" ELSE phase
    /\ changed' = FALSE /\ position' = 0
    /\ UNCHANGED <<function, graphVars, treeVars, loopVars, liveVars, work>>

\* Mutant: unreachable predecessors, whose sets are empty, are intersected too.
Met_Unreachable(b) == {d \in reachable : \A p \in Predecessors(b) : d \in m_dominators[p]} \cup {b}
Met(b) == {d \in reachable : \A p \in Incoming(b) : d \in m_dominators[p]} \cup {b}

DominatorBlock ==
    /\ phase = "dominators" /\ position < function.n
    /\ position' = position + 1
    /\ IF position \in reachable \ {function.entry}
       THEN /\ m_dominators' = [m_dominators EXCEPT ![position] = Met(position)]
            /\ changed' = (changed \/ Met(position) # m_dominators[position])
       ELSE UNCHANGED <<m_dominators, changed>>
    /\ UNCHANGED <<function, phase, graphVars, immediate_dominator, frontier, loopVars,
                   liveVars, work, rounds>>

dominates(d, b) == b \in reachable /\ d \in m_dominators[b]
rank(b) == Cardinality(m_dominators[b])

\* The strict dominator of greatest rank; the entry until a better one is found.
\* Mutant: the dominator of least rank, the farthest one.
Parent_Farthest(b) ==
    LET candidates == {function.entry} \cup {d \in Blocks(function) \ {b} : dominates(d, b)}
    IN  CHOOSE d \in candidates : \A e \in candidates : rank(d) <= rank(e)
Parent(b) ==
    LET candidates == {function.entry} \cup {d \in Blocks(function) \ {b} : dominates(d, b)}
    IN  CHOOSE d \in candidates : \A e \in candidates : rank(e) <= rank(d)

BuildTree ==
    /\ phase = "dominators" /\ position = function.n /\ ~changed
    /\ phase' = "frontier"
    /\ immediate_dominator' = [b \in Blocks(function) |->
                                 IF b \in reachable \ {function.entry} THEN Parent(b) ELSE Invalid]
    /\ UNCHANGED <<function, graphVars, m_dominators, frontier, loopVars, liveVars, work, roundVars>>

\* The blocks a walk from p up the tree passes before idom[b], or before it
\* falls off the root: the least set with p and the parents of its members.
Stops(b) == {immediate_dominator[b], Invalid}
Climbs(S, p, b) == /\ p \in S \cup Stops(b)
                   /\ \A x \in S : immediate_dominator[x] \in S \cup Stops(b)
Walk(p, b) == {x \in Blocks(function) : \A S \in SUBSET Blocks(function) : Climbs(S, p, b) => x \in S}

BackEdges == {e \in reachable \X reachable : e[2] \in successors[e[1]] /\ dominates(e[2], e[1])}

BuildFrontier ==
    /\ phase = "frontier"
    /\ phase' = "loops"
    /\ LET joins == {b \in reachable : Cardinality(Predecessors(b)) > 1}
       IN  frontier' = [x \in Blocks(function) |->
                          {b \in joins : \E p \in Incoming(b) : x \in Walk(p, b)}]
    /\ backedges' = BackEdges
    /\ UNCHANGED <<function, graphVars, m_dominators, immediate_dominator, natural, loop_depth,
                   header, liveVars, work, roundVars>>

-----------------------------------------------------------------------------
\* The next back edge joins the loop of its header.
OpenLoop ==
    /\ phase = "loops" /\ work = {}
    /\ \E e \in backedges :
          /\ backedges' = backedges \ {e}
          /\ natural' = [natural EXCEPT ![e[2]].blocks = @ \cup {e[2]}, ![e[2]].latches = @ \cup {e[1]}]
          /\ header' = e[2] /\ work' = {e[1]}
    /\ UNCHANGED <<function, phase, graphVars, treeVars, loop_depth, liveVars, roundVars>>

\* Mutant: predecessors are followed through the header.
GrowLoop_ThroughHeader ==
    /\ phase = "loops"
    /\ \E b \in work :
          /\ natural' = [natural EXCEPT ![header].blocks = @ \cup {b}]
          /\ work' = (work \ {b}) \cup (Incoming(b) \ natural[header].blocks)
    /\ UNCHANGED <<function, phase, graphVars, treeVars, loop_depth, header, backedges,
                   liveVars, roundVars>>
GrowLoop ==
    /\ phase = "loops"
    /\ \E b \in work :
          IF b \in natural[header].blocks
          THEN work' = work \ {b} /\ UNCHANGED natural
          ELSE /\ natural' = [natural EXCEPT ![header].blocks = @ \cup {b}]
               /\ work' = (work \ {b}) \cup Incoming(b)
    /\ UNCHANGED <<function, phase, graphVars, treeVars, loop_depth, header, backedges,
                   liveVars, roundVars>>

StartLiveness ==
    /\ phase = "loops" /\ work = {} /\ backedges = {}
    /\ loop_depth' = [b \in Blocks(function) |->
                        Cardinality({h \in Blocks(function) : b \in natural[h].blocks})]
    /\ phase' = "liveness"
    /\ changed' = TRUE /\ rounds' = 0 /\ position' = 0
    /\ UNCHANGED <<function, graphVars, treeVars, natural, header, backedges, liveVars, work>>

-----------------------------------------------------------------------------
LivenessRounds == function.n + 2
LivenessRound ==
    /\ phase = "liveness" /\ position = 0 /\ changed
    /\ rounds' = rounds + 1
    /\ phase' = IF rounds' > LivenessRounds THEN "rejected" ELSE phase
    /\ changed' = FALSE /\ position' = function.n
    /\ UNCHANGED <<function, graphVars, treeVars, loopVars, liveVars, work>>

\* Mutant: a PHI operand is not live on the edge that brings it.
LiveOut_NoEdges(b) == UNION {live_in[s] \ PhiDefs(function, s) : s \in successors[b]}
LiveOut(b) == UNION {(live_in[s] \ PhiDefs(function, s)) \cup EdgeOperands(function, b, s) :
                        s \in successors[b]}
LiveIn(b) == Uses(function, b) \cup (LiveOut(b) \ Defs(function, b))

\* Entries of the live sets recorded so far in this round, block b the last.
Entries(b) ==
    MapThenSumSet(LAMBDA c : Cardinality(live_in'[c]) + Cardinality(live_out'[c]),
                  {c \in reachable : c >= b})

LivenessBlock ==
    /\ phase = "liveness" /\ position > 0
    /\ position' = position - 1
    /\ IF position' \in reachable
       THEN /\ live_in' = [live_in EXCEPT ![position'] = LiveIn(position')]
            /\ live_out' = [live_out EXCEPT ![position'] = LiveOut(position')]
            /\ changed' = (changed \/ LiveIn(position') # live_in[position']
                                   \/ LiveOut(position') # live_out[position'])
            /\ phase' = IF Entries(position') > MaxEntries THEN "rejected" ELSE phase
       ELSE UNCHANGED <<phase, liveVars, changed>>
    /\ UNCHANGED <<function, graphVars, treeVars, loopVars, work, rounds>>

Finish ==
    /\ phase = "liveness" /\ position = 0 /\ ~changed
    /\ phase' = "ready"
    /\ UNCHANGED <<function, graphVars, treeVars, loopVars, liveVars, work, roundVars>>

Next ==
    \/ Begin \/ Visit \/ StartDominators
    \/ DominatorRound \/ DominatorBlock \/ BuildTree \/ BuildFrontier
    \/ OpenLoop \/ GrowLoop \/ StartLiveness
    \/ LivenessRound \/ LivenessBlock \/ Finish

\* The constructor runs to its end: nothing can stop it between two steps.
Spec == Init /\ [][Next]_vars /\ WF_vars(Next)

-----------------------------------------------------------------------------
Values == 1 .. function.value_count

\* Every field keeps its type, the worklists hold blocks and the positions
\* stay in range.
TypeOK ==
    /\ function \in Functions
    /\ phase \in {"begin", "reach", "dominators", "frontier", "loops", "liveness", "ready", "rejected"}
    /\ successors \in [Blocks(function) -> SUBSET Blocks(function)]
    /\ reachable \subseteq Blocks(function)
    /\ m_dominators \in [Blocks(function) -> SUBSET Blocks(function)]
    /\ immediate_dominator \in [Blocks(function) -> Blocks(function) \cup {Invalid}]
    /\ frontier \in [Blocks(function) -> SUBSET Blocks(function)]
    /\ natural \in [Blocks(function) -> [blocks : SUBSET Blocks(function),
                                         latches : SUBSET Blocks(function)]]
    /\ loop_depth \in [Blocks(function) -> Nat]
    /\ live_in \in [Blocks(function) -> SUBSET Values] /\ live_out \in [Blocks(function) -> SUBSET Values]
    /\ work \subseteq Blocks(function) /\ header \in Blocks(function) \cup {Invalid}
    /\ backedges \subseteq Blocks(function) \X Blocks(function)
    /\ position \in 0 .. function.n /\ changed \in BOOLEAN /\ rounds \in Nat

\* A set of blocks that execution avoiding d cannot leave once it is in, and
\* in which it starts.
ClosedAvoiding(S, d) ==
    /\ function.entry # d => function.entry \in S
    /\ \A b \in S : successors[b] \ {d} \subseteq S

\* Every path from the entry to b passes d: some closed set keeps b out.
OnEveryPath(d, b) ==
    \E S \in SUBSET Blocks(function) : ClosedAvoiding(S, d) /\ b \notin S

HasTree == phase \in {"frontier", "loops", "liveness", "ready"}

\* The bit sets the rounds settle on are the dominators: d is recorded for a
\* reachable block b exactly when no path from the entry reaches b without d.
\* An early stop, or an extra intersection, would let value numbering and
\* code motion use a value on a path that never computed it.
DominatorsExact ==
    HasTree => \A b \in reachable, d \in Blocks(function) : dominates(d, b) <=> OnEveryPath(d, b)

\* The tree and the frontiers mean what SSA construction takes them for: the
\* parent of b is the strict dominator that every other one dominates, and a
\* join b is in the frontier of x exactly when x dominates a predecessor of b
\* without strictly dominating b.
FrontierExact ==
    phase \in {"loops", "liveness", "ready"} =>
        /\ \A b \in reachable \ {function.entry} :
              LET parent == immediate_dominator[b]
              IN  /\ parent # b /\ OnEveryPath(parent, b)
                  /\ \A d \in Blocks(function) \ {b} : OnEveryPath(d, b) => OnEveryPath(d, parent)
        /\ \A x \in reachable, b \in reachable :
              Cardinality(Predecessors(b)) > 1 =>
                 (b \in frontier[x] <=> /\ \E p \in Incoming(b) : OnEveryPath(x, p)
                                        /\ x = b \/ ~OnEveryPath(x, b))

\* Blocks from which b is reached without passing h: no set closed under the
\* remaining edges holds the block and misses b.
ReachesAround(x, b, h) ==
    \A S \in SUBSET Blocks(function) :
        x \in S /\ (\A c \in S \ {b} : successors[c] \ {h} \subseteq S) => b \in S

\* A header's loop is the header with the reachable blocks that reach one of
\* its latches without it, all back edges to it together, and the depth of a
\* block is the number of loops around it.
LoopsExact ==
    phase \in {"liveness", "ready"} =>
        /\ \A h \in Blocks(function) :
              LET latches == {b \in reachable : h \in successors[b] /\ OnEveryPath(h, b)}
              IN  /\ natural[h].latches = latches
                  /\ natural[h].blocks =
                        IF latches = {} THEN {}
                        ELSE {h} \cup {x \in reachable \ {h} : \E b \in latches : ReachesAround(x, b, h)}
        /\ \A b \in Blocks(function) :
              loop_depth[b] = Cardinality({h \in Blocks(function) : b \in natural[h].blocks})

\* Blocks on whose entry v must be kept: the least set that holds the blocks
\* that read v first and, against the edges, those that pass v on.
Keeps(S, v) ==
    \A b \in reachable :
        \/ v \in Uses(function, b)
        \/ /\ v \notin Defs(function, b)
           /\ \E s \in successors[b] :
                 v \in EdgeOperands(function, b, s) \/ (s \in S /\ v \notin PhiDefs(function, s))
        => b \in S
Live(v, b) == \A S \in SUBSET Blocks(function) : Keeps(S, v) => b \in S

\* The live sets the rounds settle on are exact: a value is live into a block
\* exactly when some path from there reads it before defining it, a PHI operand
\* being read on its own edge only, and live out of a block when some edge needs it. Too small, and the allocator gives two live
\* values one register; too large, and it spills for nothing.
LivenessExact ==
    phase = "ready" =>
        \A b \in reachable, v \in Values :
            /\ v \in live_in[b] <=> Live(v, b)
            /\ v \in live_out[b] <=> \E s \in successors[b] :
                                        \/ v \in EdgeOperands(function, b, s)
                                        \/ Live(v, s) /\ v \notin PhiDefs(function, s)

\* Every function within the documented limits is analysed to the end: the
\* worklists empty, and neither limit on the rounds is ever hit, whatever the
\* order of the blocks.
Completes == <>(phase = "ready" \/ ~WithinLimits(function))

=============================================================================
