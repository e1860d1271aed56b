------------------------- MODULE RegisterAllocator -------------------------
(***************************************************************************)
(* The O2 register allocator of discc: runGlobalImpl's colouring of the    *)
(* interference graph, its reusable spill slots, and improvePhiLocations,  *)
(* which afterwards swaps two-colour components (Kempe chains) and moves   *)
(* spill slots so that PHI and two-address copies disappear.               *)
(*                                                                         *)
(* The graph is the input.  Its vertices are the eligible values (neither  *)
(* rematerializable nor far, and used); an edge of weight 0 in `affinity'  *)
(* is an edge the code's map does not hold.  `rank' is a value's place in  *)
(* the sorted vector `ordered'.                                            *)
(***************************************************************************)
EXTENDS Integers, FiniteSets, FiniteSetsExt

CONSTANTS
    Value,        \* eligible IR values, by their SSA number
    Register,     \* the allocatable registers the caller offers
    Graphs,       \* the graphs considered, a subset of Graph
    MaxWork,      \* budget of improvePhiLocations
    Rounds,       \* passes of each improvement loop
    NoRegister

NoSlot == -1
Edge == {e \in Value \X Value : e[1] < e[2]}
edgeKey(a, b) == IF a < b THEN <<a, b>> ELSE <<b, a>>
Graph == [interference : SUBSET Edge, affinity : [Edge -> Nat], rank : [Value -> Nat]]

ASSUME AllocatorAssumption ==
    /\ Value \subseteq Nat /\ IsFiniteSet(Value)
    /\ Register \subseteq {2, 4, 5, 7, 8, 14} /\ NoRegister \notin Register
    /\ Graphs \subseteq Graph
    /\ MaxWork \in Nat /\ Rounds \in Nat \ {0}

VARIABLES
    graph,
    reg, slot,       \* m_locations: physical register or NoRegister, spill_slot
    phase,           \* "color", "spill", "swap", "reslot" or "done"
    todo,            \* values the current loop over values has not reached
    moves,           \* <<edge, direction>> the current swap round has not reached
    round, changed, work

vars == <<graph, reg, slot, phase, todo, moves, round, changed, work>>

-----------------------------------------------------------------------------
Neighbors(v) == {w \in Value \ {v} : edgeKey(v, w) \in graph.interference}
Affinity(v, w) == IF v = w THEN 0 ELSE graph.affinity[edgeKey(v, w)]
Preferred(v) == {w \in Value : Affinity(v, w) > 0}

HasRegister(v) == reg[v] # NoRegister
Directed == {e \in Edge : graph.affinity[e] > 0} \X {0, 1}

Init ==
    /\ graph \in Graphs
    /\ reg = [v \in Value |-> NoRegister] /\ slot = [v \in Value |-> NoSlot]
    /\ phase = "color" /\ todo = Value
    /\ moves = {} /\ round = 1 /\ changed = FALSE /\ work = 0

FirstRanked(v) == v \in todo /\ \A w \in todo : graph.rank[v] <= graph.rank[w]

-----------------------------------------------------------------------------
\* The historical homes R5, R7 and R8 come before the widened registers.
preference(r) == CASE r = 5 -> 0 [] r = 7 -> 1 [] r = 8 -> 2 [] OTHER -> 100 + r
Score(v, r) == MapThenSumSet(LAMBDA w : Affinity(v, w), {w \in Preferred(v) : reg[w] = r})
Occupied(v, r) == \E w \in Neighbors(v) : reg[w] = r
\* r comes before q among the sorted choices of v.
Preferable(v, r, q) ==
    \/ Score(v, r) > Score(v, q)
    \/ Score(v, r) = Score(v, q) /\ preference(r) <= preference(q)

Free(v) == {r \in Register : ~Occupied(v, r)}

Color ==
    /\ phase = "color"
    /\ \E v \in Value :
          /\ FirstRanked(v)
          /\ todo' = todo \ {v}
          /\ \/ /\ Free(v) = {}
                /\ UNCHANGED reg
             \/ \E r \in Free(v) :
                   /\ \A q \in Free(v) : Preferable(v, r, q)
                   /\ reg' = [reg EXCEPT ![v] = r]
    /\ UNCHANGED <<graph, slot, phase, moves, round, changed, work>>

Colored ==
    /\ phase = "color" /\ todo = {}
    /\ phase' = "spill" /\ todo' = Value
    /\ UNCHANGED <<graph, reg, slot, moves, round, changed, work>>

-----------------------------------------------------------------------------
OccupiedSlots(v) == {slot[w] : w \in Neighbors(v)} \ {NoSlot}
PreferredSlots(v) == {w \in Preferred(v) : slot[w] \notin OccupiedSlots(v) \cup {NoSlot}}

\* The slot of the first preferred value that has a free one, or the first hole.
SpillSlot(v, s) ==
    \/ \E w \in PreferredSlots(v) : s = slot[w] /\ \A u \in PreferredSlots(v) : w <= u
    \/ /\ PreferredSlots(v) = {}
       /\ s \notin OccupiedSlots(v) /\ \A t \in 0 .. s - 1 : t \in OccupiedSlots(v)

Spill ==
    /\ phase = "spill"
    /\ \E v \in Value :
          /\ FirstRanked(v)
          /\ todo' = todo \ {v}
          /\ \/ HasRegister(v) /\ UNCHANGED slot
             \/ /\ ~HasRegister(v)
                /\ \E s \in 0 .. Cardinality(Value) :
                      SpillSlot(v, s) /\ slot' = [slot EXCEPT ![v] = s]
    /\ UNCHANGED <<graph, reg, phase, moves, round, changed, work>>

Spilled ==
    /\ phase = "spill" /\ todo = {}
    /\ phase' = "swap" /\ moves' = Directed
    /\ UNCHANGED <<graph, reg, slot, todo, round, changed, work>>

-----------------------------------------------------------------------------
\* The vector `ordered' of improvePhiLocations: heavier edges first, then by
\* ids; each edge is tried in both directions.
Lexicographic(e, f) == e[1] < f[1] \/ (e[1] = f[1] /\ e[2] <= f[2])
NotAfter(m, n) ==
    LET p == graph.affinity[m[1]]
        q == graph.affinity[n[1]]
    IN  \/ p > q
        \/ p = q /\ m[1] # n[1] /\ Lexicographic(m[1], n[1])
        \/ m[1] = n[1] /\ m[2] <= n[2]
FirstMove(m) == m \in moves /\ \A n \in moves : NotAfter(m, n)

Source(m) == m[1][1 + m[2]]
Target(m) == m[1][2 - m[2]]
Swappable(m) ==
    /\ HasRegister(Source(m)) /\ HasRegister(Target(m))
    /\ reg[Source(m)] # reg[Target(m)]

\* Mutant: the search stops at the neighbours of the source.
Component_Shallow(v, a, b) == {v} \cup {w \in Neighbors(v) : reg[w] \in {a, b}}
\* The connected a/b-coloured component of v: the least set that holds v and
\* every neighbour, coloured a or b, of its members.
Closed(S, a, b) == \A u \in S : \A w \in Neighbors(u) : reg[w] \in {a, b} => w \in S
Component(v, a, b) ==
    {u \in Value : \A S \in SUBSET Value : v \in S /\ Closed(S, a, b) => u \in S}
MoveComponent(m) == Component(Source(m), reg[Source(m)], reg[Target(m)])

Swapped(C, a, b) ==
    [v \in Value |-> IF v \notin C THEN reg[v] ELSE IF reg[v] = a THEN b ELSE a]

Affected(C) ==
    {e \in Edge : graph.affinity[e] > 0 /\ (e[1] \in C \/ e[2] \in C)}
\* Affinity satisfied by registers on the edges E, under the assignment f.
Joined(f, E) ==
    MapThenSumSet(LAMBDA e : graph.affinity[e],
                  {e \in E : f[e[1]] # NoRegister /\ f[e[1]] = f[e[2]]})
\* Mutant: the edges a swap breaks are not subtracted.
Gain_NoLoss(C, a, b) ==
    Joined(Swapped(C, a, b),
           {e \in Affected(C) : HasRegister(e[1]) /\ HasRegister(e[2]) /\ reg[e[1]] # reg[e[2]]})
Gain(C, a, b) == Joined(Swapped(C, a, b), Affected(C)) - Joined(reg, Affected(C))

ExploreCost(C) == MapThenSumSet(LAMBDA v : Cardinality(Neighbors(v)), C)
GainCost(C) == MapThenSumSet(LAMBDA v : Cardinality(Preferred(v)), C) + Cardinality(Affected(C))

\* Work exhausted: improvePhiLocations returns with the locations as they are.
GiveUp == phase' = "done" /\ UNCHANGED <<graph, reg, slot, todo, moves, round, changed, work>>

SwapSkip ==
    /\ phase = "swap"
    /\ \E m \in moves : FirstMove(m) /\ ~Swappable(m) /\ moves' = moves \ {m}
    /\ UNCHANGED <<graph, reg, slot, phase, todo, round, changed, work>>

SwapCost(m) ==
    LET C == MoveComponent(m)
    IN  ExploreCost(C) + (IF Target(m) \in C THEN 0 ELSE GainCost(C))

SwapGiveUp ==
    /\ phase = "swap"
    /\ \E m \in moves : FirstMove(m) /\ Swappable(m) /\ work + SwapCost(m) > MaxWork
    /\ GiveUp

\* The exchange would not coalesce this edge, or not pay.
SwapRefused ==
    /\ phase = "swap"
    /\ \E m \in moves :
          LET C == MoveComponent(m) IN
          /\ FirstMove(m) /\ Swappable(m) /\ work + SwapCost(m) <= MaxWork
          /\ Target(m) \in C \/ Gain(C, reg[Source(m)], reg[Target(m)]) <= 0
          /\ moves' = moves \ {m} /\ work' = work + SwapCost(m)
    /\ UNCHANGED <<graph, reg, slot, phase, todo, round, changed>>

Swap ==
    /\ phase = "swap"
    /\ \E m \in moves :
          LET C == MoveComponent(m)
              a == reg[Source(m)]
              b == reg[Target(m)]
          IN  /\ FirstMove(m) /\ Swappable(m) /\ work + SwapCost(m) <= MaxWork
              /\ Target(m) \notin C /\ Gain(C, a, b) > 0
              /\ reg' = Swapped(C, a, b)
              /\ moves' = moves \ {m} /\ work' = work + SwapCost(m)
    /\ changed' = TRUE
    /\ UNCHANGED <<graph, slot, phase, todo, round>>

SwapRound ==
    /\ phase = "swap" /\ moves = {}
    /\ \/ /\ changed /\ round < Rounds
          /\ round' = round + 1 /\ moves' = Directed /\ changed' = FALSE
          /\ UNCHANGED <<phase, todo>>
       \/ /\ ~(changed /\ round < Rounds)
          /\ phase' = "reslot" /\ round' = 1 /\ todo' = Value /\ changed' = FALSE
          /\ UNCHANGED moves
    /\ UNCHANGED <<graph, reg, slot, work>>

-----------------------------------------------------------------------------
FirstId(v) == v \in todo /\ \A w \in todo : v <= w

ScanCost(v) == Cardinality(Neighbors(v)) + Cardinality(Preferred(v))
ScoreCost(v) == Cardinality(Preferred(v)) + 1
SlotChoices(v) == {slot[v]} \cup {slot[w] : w \in PreferredSlots(v)}
SlotScore(v, s) == MapThenSumSet(LAMBDA w : Affinity(v, w), {w \in Preferred(v) : slot[w] = s})

\* The choices, in ascending order, that the remaining work pays for.
Budget(v) == (MaxWork - work - ScanCost(v) - ScoreCost(v)) \div ScoreCost(v)
Tried(v) == {c \in SlotChoices(v) : Cardinality({d \in SlotChoices(v) : d < c}) < Budget(v)}
BestSlot(v, s) ==
    \/ s = slot[v] /\ \A d \in Tried(v) : SlotScore(v, d) <= SlotScore(v, s)
    \/ /\ s \in Tried(v) /\ SlotScore(v, s) > SlotScore(v, slot[v])
       /\ \A d \in Tried(v) :
             /\ SlotScore(v, d) <= SlotScore(v, s)
             /\ d < s => SlotScore(v, d) < SlotScore(v, s)

ReslotSkip ==
    /\ phase = "reslot"
    /\ \E v \in Value : FirstId(v) /\ slot[v] = NoSlot /\ todo' = todo \ {v}
    /\ UNCHANGED <<graph, reg, slot, phase, moves, round, changed, work>>

ReslotGiveUp ==
    /\ phase = "reslot"
    /\ \E v \in Value :
          FirstId(v) /\ slot[v] # NoSlot /\ work + ScanCost(v) + ScoreCost(v) > MaxWork
    /\ GiveUp

Reslot ==
    /\ phase = "reslot"
    /\ \E v \in Value :
          /\ FirstId(v) /\ slot[v] # NoSlot /\ work + ScanCost(v) + ScoreCost(v) <= MaxWork
          /\ \E s \in SlotChoices(v) : BestSlot(v, s) /\ slot' = [slot EXCEPT ![v] = s]
          /\ work' = work + ScanCost(v) + ScoreCost(v) * (1 + Cardinality(Tried(v)))
          /\ todo' = todo \ {v}
          /\ phase' = IF Tried(v) = SlotChoices(v) THEN "reslot" ELSE "done"
    /\ UNCHANGED <<graph, reg, moves, round, changed>>

ReslotRound ==
    /\ phase = "reslot" /\ todo = {}
    /\ \/ round < Rounds /\ round' = round + 1 /\ todo' = Value /\ UNCHANGED phase
       \/ round = Rounds /\ phase' = "done" /\ UNCHANGED <<round, todo>>
    /\ UNCHANGED <<graph, reg, slot, moves, changed, work>>

improvePhiLocations ==
    \/ SwapSkip \/ SwapGiveUp \/ SwapRefused \/ Swap \/ SwapRound
    \/ ReslotSkip \/ ReslotGiveUp \/ Reslot \/ ReslotRound

Next == Color \/ Colored \/ Spill \/ Spilled \/ improvePhiLocations

Spec == Init /\ [][Next]_vars

-----------------------------------------------------------------------------
\* Every variable has its type, and the work counter never passes its limit:
\* the unsigned difference MaxWork - work that the slot loop compares with the
\* cost of the next score never wraps.
TypeOK ==
    /\ graph \in Graph
    /\ reg \in [Value -> Register \cup {NoRegister}]
    /\ slot \in [Value -> Nat \cup {NoSlot}]
    /\ phase \in {"color", "spill", "swap", "reslot", "done"}
    /\ todo \subseteq Value /\ moves \subseteq Edge \X {0, 1}
    /\ round \in 1 .. Rounds /\ changed \in BOOLEAN /\ work \in 0 .. MaxWork

\* Two values that are live together never share a register, and never share
\* a spill slot: not while colouring, not between two swaps of a chain, not
\* when the work budget cuts the improvement short.
ProperLocations ==
    \A e \in graph.interference :
        /\ HasRegister(e[1]) => reg[e[1]] # reg[e[2]]
        /\ slot[e[1]] # NoSlot => slot[e[1]] # slot[e[2]]

SlotsJoined ==
    MapThenSumSet(LAMBDA e : graph.affinity[e],
                  {e \in Edge : slot[e[1]] # NoSlot /\ slot[e[1]] = slot[e[2]]})
CopiesSaved == Joined(reg, Edge) + SlotsJoined

\* "Improve a valid coloring without introducing spills": an improvement step
\* never turns a register into a spill or back, and never adds more copies
\* than it saves over the whole function.
ImprovementPays ==
    [][(phase = "swap" \/ phase = "reslot") =>
         /\ \A v \in Value : (reg'[v] = NoRegister) = (reg[v] = NoRegister)
         /\ CopiesSaved' >= CopiesSaved]_vars
=============================================================================
