---------------------- MODULE RegisterAllocatorProofs ----------------------
(***************************************************************************)
(* For every interference graph, register set, affinity and work budget:   *)
(* values that are live together never share a home.  The argument for a   *)
(* swap is the one of Kempe chains: a component is closed under its two    *)
(* colours, so a neighbour outside it has neither of them.                 *)
(***************************************************************************)
EXTENDS RegisterAllocator, TLAPS

\* The part of the type invariant the argument needs.
HomesTyped ==
    /\ graph \in Graph
    /\ reg \in [Value -> Register \cup {NoRegister}]
    /\ slot \in [Value -> Nat \cup {NoSlot}]
    /\ moves \subseteq Edge \X {0, 1}

\* The two ends of an interference edge are each other's neighbours.
LEMMA EdgeEnds ==
    ASSUME HomesTyped, NEW e \in graph.interference
    PROVE  /\ e[1] \in Value /\ e[2] \in Value /\ e[1] # e[2]
           /\ e[2] \in Neighbors(e[1]) /\ e[1] \in Neighbors(e[2])
<1>1. e \in Edge
  BY DEF HomesTyped, Graph
<1>2. e[1] \in Value /\ e[2] \in Value /\ e[1] < e[2] /\ e = <<e[1], e[2]>>
  BY <1>1 DEF Edge
<1>3. e[1] \in Int /\ e[2] \in Int
  BY <1>2, AllocatorAssumption
<1>4. edgeKey(e[1], e[2]) = e /\ edgeKey(e[2], e[1]) = e /\ e[1] # e[2]
  BY <1>2, <1>3 DEF edgeKey
<1> QED
  BY <1>2, <1>4 DEF Neighbors

\* A component holds its source, only values of its two colours, and every
\* neighbour that has one of them.
LEMMA ComponentFacts ==
    ASSUME HomesTyped, NEW v \in Value, NEW a, NEW b, reg[v] = a
    PROVE  /\ v \in Component(v, a, b)
           /\ \A u \in Component(v, a, b) : u \in Value /\ reg[u] \in {a, b}
           /\ Closed(Component(v, a, b), a, b)
<1>1. v \in Component(v, a, b)
  BY DEF Component
<1>2. ASSUME NEW u \in Component(v, a, b)
      PROVE  u \in Value /\ reg[u] \in {a, b}
  <2> DEFINE S == {w \in Value : reg[w] \in {a, b}}
  <2>1. v \in S /\ S \in SUBSET Value
    OBVIOUS
  <2>2. Closed(S, a, b)
    BY DEF Closed, Neighbors
  <2>3. u \in S
    BY <2>1, <2>2 DEF Component
  <2> QED
    BY <2>3
<1>3. ASSUME NEW u \in Component(v, a, b), NEW w \in Neighbors(u), reg[w] \in {a, b}
      PROVE  w \in Component(v, a, b)
  <2>1. w \in Value
    BY DEF Neighbors
  <2>2. ASSUME NEW S \in SUBSET Value, v \in S, Closed(S, a, b)
        PROVE  w \in S
    <3>1. u \in S
      BY <2>2 DEF Component
    <3> QED
      BY <1>3, <2>2, <3>1 DEF Closed
  <2> QED
    BY <2>1, <2>2 DEF Component
<1> QED
  BY <1>1, <1>2, <1>3 DEF Closed

-----------------------------------------------------------------------------
RegisterProper == \A e \in graph.interference : HasRegister(e[1]) => reg[e[1]] # reg[e[2]]
SlotProper == \A e \in graph.interference : slot[e[1]] # NoSlot => slot[e[1]] # slot[e[2]]

IInv == HomesTyped /\ RegisterProper /\ SlotProper

\* Before colouring no value has a home.
LEMMA InitIInv == Init => IInv
<1> SUFFICES ASSUME Init PROVE IInv
  OBVIOUS
<1>1. HomesTyped
  BY AllocatorAssumption DEF Init, HomesTyped, NoSlot
<1>2. \A e \in graph.interference : e[1] \in Value /\ e[2] \in Value
  BY <1>1, EdgeEnds
<1> QED
  BY <1>1, <1>2 DEF Init, IInv, RegisterProper, SlotProper, HasRegister

\* Giving one value a register that none of its neighbours has keeps the
\* colouring proper.
LEMMA SetRegister ==
    ASSUME HomesTyped, RegisterProper, NEW v \in Value, NEW r \in Free(v),
           reg' = [reg EXCEPT ![v] = r], graph' = graph
    PROVE  RegisterProper'
<1> SUFFICES ASSUME NEW e \in graph.interference, reg'[e[1]] # NoRegister
             PROVE  reg'[e[1]] # reg'[e[2]]
  BY DEF RegisterProper, HasRegister
<1>1. /\ e[1] \in Value /\ e[2] \in Value /\ e[1] # e[2]
      /\ e[2] \in Neighbors(e[1]) /\ e[1] \in Neighbors(e[2])
  BY EdgeEnds
<1>2. \A w \in Neighbors(v) : reg[w] # r
  BY DEF Free, Occupied
<1>3. r \in Register /\ r # NoRegister
  BY AllocatorAssumption DEF Free
<1>4. CASE e[1] = v
  BY <1>1, <1>2, <1>4 DEF HomesTyped
<1>5. CASE e[2] = v
  BY <1>1, <1>2, <1>5 DEF HomesTyped
<1>6. CASE e[1] # v /\ e[2] # v
  BY <1>1, <1>6 DEF HomesTyped, RegisterProper, HasRegister
<1> QED
  BY <1>4, <1>5, <1>6

\* The same for a spill slot.
LEMMA SetSlot ==
    ASSUME HomesTyped, SlotProper, NEW v \in Value, NEW s \in Nat,
           s \notin OccupiedSlots(v) \/ s = slot[v],
           slot' = [slot EXCEPT ![v] = s], graph' = graph
    PROVE  SlotProper'
<1> SUFFICES ASSUME NEW e \in graph.interference, slot'[e[1]] # NoSlot
             PROVE  slot'[e[1]] # slot'[e[2]]
  BY DEF SlotProper, NoSlot
<1>1. /\ e[1] \in Value /\ e[2] \in Value /\ e[1] # e[2]
      /\ e[2] \in Neighbors(e[1]) /\ e[1] \in Neighbors(e[2])
  BY EdgeEnds
<1>2. s # NoSlot
  BY DEF NoSlot
<1>3. CASE s = slot[v]
  <2>1. slot' = slot
    BY <1>3 DEF HomesTyped
  <2> QED
    BY <2>1 DEF SlotProper
<1>4. CASE s \notin OccupiedSlots(v)
  <2>1. \A w \in Neighbors(v) : slot[w] # s
    BY <1>2, <1>4 DEF OccupiedSlots
  <2>2. CASE e[1] = v
    BY <1>1, <2>1, <2>2 DEF HomesTyped
  <2>3. CASE e[2] = v
    BY <1>1, <2>1, <2>3 DEF HomesTyped
  <2>4. CASE e[1] # v /\ e[2] # v
    BY <1>1, <2>4 DEF HomesTyped, SlotProper
  <2> QED
    BY <2>2, <2>3, <2>4
<1> QED
  BY <1>3, <1>4

\* Exchanging the two colours of a whole component keeps the colouring proper
\* and gives no register to, and takes none from, any value.
LEMMA SwapProper ==
    ASSUME HomesTyped, RegisterProper, NEW v \in Value, NEW a \in Register, NEW b \in Register,
           reg[v] = a, a # b,
           reg' = Swapped(Component(v, a, b), a, b), graph' = graph
    PROVE  /\ RegisterProper'
           /\ reg' \in [Value -> Register \cup {NoRegister}]
           /\ \A u \in Value : (reg'[u] = NoRegister) = (reg[u] = NoRegister)
<1> DEFINE C == Component(v, a, b)
<1>1. /\ \A u \in C : u \in Value /\ reg[u] \in {a, b}
      /\ Closed(C, a, b)
  BY ComponentFacts
<1>2. a # NoRegister /\ b # NoRegister
  BY AllocatorAssumption
<1> HIDE DEF C
<1>3. reg' = [u \in Value |-> IF u \notin C THEN reg[u] ELSE IF reg[u] = a THEN b ELSE a]
  BY DEF Swapped, C
<1>4. reg' \in [Value -> Register \cup {NoRegister}]
  BY <1>3 DEF HomesTyped
<1>5. \A u \in Value : (reg'[u] = NoRegister) = (reg[u] = NoRegister)
  BY <1>1, <1>2, <1>3
<1>6. ASSUME NEW e \in graph.interference, reg'[e[1]] # NoRegister
      PROVE  reg'[e[1]] # reg'[e[2]]
  <2>1. /\ e[1] \in Value /\ e[2] \in Value
        /\ e[2] \in Neighbors(e[1]) /\ e[1] \in Neighbors(e[2])
    BY EdgeEnds
  <2>2. reg[e[1]] # NoRegister /\ reg[e[1]] # reg[e[2]]
    BY <1>5, <1>6, <2>1 DEF RegisterProper, HasRegister
  <2>3. CASE e[1] \in C /\ e[2] \in C
    BY <1>1, <1>3, <2>1, <2>2, <2>3
  <2>4. CASE e[1] \in C /\ e[2] \notin C
    <3>1. reg[e[2]] \notin {a, b}
      BY <1>1, <2>1, <2>4 DEF Closed
    <3> QED
      BY <1>3, <2>1, <2>4, <3>1
  <2>5. CASE e[1] \notin C /\ e[2] \in C
    <3>1. reg[e[1]] \notin {a, b}
      BY <1>1, <2>1, <2>5 DEF Closed
    <3> QED
      BY <1>3, <2>1, <2>5, <3>1
  <2>6. CASE e[1] \notin C /\ e[2] \notin C
    BY <1>3, <2>1, <2>2, <2>6
  <2> QED
    BY <2>3, <2>4, <2>5, <2>6
<1> QED
  BY <1>4, <1>5, <1>6 DEF RegisterProper, HasRegister

-----------------------------------------------------------------------------
\* The source and the target of a pending swap are values of the graph.
LEMMA MoveEnds ==
    ASSUME HomesTyped, NEW m \in moves
    PROVE  Source(m) \in Value /\ Target(m) \in Value
<1>1. m \in Edge \X {0, 1}
  BY DEF HomesTyped
<1>2. m[1] \in Value \X Value /\ m[2] \in {0, 1}
  BY <1>1 DEF Edge
<1> QED
  BY <1>2 DEF Source, Target

\* Every step of the allocator preserves the invariant, one case per action.
LEMMA NextIInv == IInv /\ [Next]_vars => IInv'
<1> SUFFICES ASSUME IInv, [Next]_vars PROVE IInv'
  OBVIOUS
<1> USE DEF IInv
<1>0. Directed \subseteq Edge \X {0, 1}
  BY DEF Directed
<1>1. CASE Color
  <2>1. PICK v \in Value : \/ UNCHANGED reg
                           \/ \E r \in Free(v) : reg' = [reg EXCEPT ![v] = r]
    BY <1>1 DEF Color
  <2>2. UNCHANGED <<graph, slot, moves>>
    BY <1>1 DEF Color
  <2>3. CASE UNCHANGED reg
    BY <2>2, <2>3 DEF HomesTyped, RegisterProper, SlotProper, HasRegister
  <2>4. CASE \E r \in Free(v) : reg' = [reg EXCEPT ![v] = r]
    <3>1. PICK r \in Free(v) : reg' = [reg EXCEPT ![v] = r]
      BY <2>4
    <3>2. RegisterProper'
      BY <2>2, <3>1, SetRegister
    <3>3. r \in Register
      BY DEF Free
    <3> QED
      BY <2>2, <3>1, <3>2, <3>3 DEF HomesTyped, SlotProper
  <2> QED
    BY <2>1, <2>3, <2>4
<1>2. CASE Spill
  <2>1. PICK v \in Value : \/ UNCHANGED slot
                           \/ \E s \in 0 .. Cardinality(Value) :
                                 SpillSlot(v, s) /\ slot' = [slot EXCEPT ![v] = s]
    BY <1>2 DEF Spill
  <2>2. UNCHANGED <<graph, reg, moves>>
    BY <1>2 DEF Spill
  <2>3. CASE UNCHANGED slot
    BY <2>2, <2>3 DEF HomesTyped, RegisterProper, SlotProper, HasRegister
  <2>4. CASE \E s \in 0 .. Cardinality(Value) :
                SpillSlot(v, s) /\ slot' = [slot EXCEPT ![v] = s]
    <3>1. PICK s \in 0 .. Cardinality(Value) :
                 SpillSlot(v, s) /\ slot' = [slot EXCEPT ![v] = s]
      BY <2>4
    <3>2. s \in Nat
      OBVIOUS
    <3>3. s \notin OccupiedSlots(v)
      BY <3>1 DEF SpillSlot, PreferredSlots
    <3>4. SlotProper'
      BY <2>2, <3>1, <3>2, <3>3, SetSlot
    <3> QED
      BY <2>2, <3>1, <3>2, <3>4 DEF HomesTyped, RegisterProper, HasRegister
  <2> QED
    BY <2>1, <2>3, <2>4
<1>3. CASE Swap
  <2>1. PICK m \in moves :
           /\ Swappable(m)
           /\ reg' = Swapped(MoveComponent(m), reg[Source(m)], reg[Target(m)])
           /\ moves' = moves \ {m}
    BY <1>3 DEF Swap
  <2>2. UNCHANGED <<graph, slot>>
    BY <1>3 DEF Swap
  <2>3. Source(m) \in Value /\ Target(m) \in Value
    BY MoveEnds
  <2>4. /\ reg[Source(m)] \in Register /\ reg[Target(m)] \in Register
        /\ reg[Source(m)] # reg[Target(m)]
    BY <2>1, <2>3 DEF Swappable, HasRegister, HomesTyped
  <2>5. RegisterProper' /\ reg' \in [Value -> Register \cup {NoRegister}]
    BY <2>1, <2>2, <2>3, <2>4, SwapProper DEF MoveComponent
  <2> QED
    BY <2>1, <2>2, <2>5 DEF HomesTyped, SlotProper
<1>4. CASE Reslot
  <2>0. PICK v \in Value :
           /\ slot[v] # NoSlot
           /\ \E s \in SlotChoices(v) : slot' = [slot EXCEPT ![v] = s]
    BY <1>4 DEF Reslot
  <2>1. PICK s \in SlotChoices(v) : slot' = [slot EXCEPT ![v] = s]
    BY <2>0
  <2>2. UNCHANGED <<graph, reg, moves>>
    BY <1>4 DEF Reslot
  <2>3. s \in Nat /\ (s \notin OccupiedSlots(v) \/ s = slot[v])
    BY <2>0 DEF SlotChoices, PreferredSlots, Preferred, HomesTyped
  <2>4. SlotProper'
    BY <2>1, <2>2, <2>3, SetSlot
  <2> QED
    BY <2>1, <2>2, <2>3, <2>4 DEF HomesTyped, RegisterProper, HasRegister
<1>5. CASE \/ Colored \/ Spilled \/ SwapSkip \/ SwapGiveUp \/ SwapRefused \/ SwapRound
           \/ ReslotSkip \/ ReslotGiveUp \/ ReslotRound
  <2>1. UNCHANGED <<graph, reg, slot>>
    BY <1>5 DEF Colored, Spilled, SwapSkip, SwapGiveUp, SwapRefused, SwapRound,
                ReslotSkip, ReslotGiveUp, ReslotRound, GiveUp
  <2>2. moves' \subseteq Edge \X {0, 1}
    BY <1>0, <1>5 DEF HomesTyped, Colored, Spilled, SwapSkip, SwapGiveUp, SwapRefused,
                      SwapRound, ReslotSkip, ReslotGiveUp, ReslotRound, GiveUp
  <2> QED
    BY <2>1, <2>2 DEF HomesTyped, RegisterProper, SlotProper, HasRegister
<1>6. CASE UNCHANGED vars
  BY <1>6 DEF vars, HomesTyped, RegisterProper, SlotProper, HasRegister
<1> QED
  BY <1>1, <1>2, <1>3, <1>4, <1>5, <1>6 DEF Next, improvePhiLocations

\* Two values that are live together never share a register or a spill slot,
\* at any moment of runGlobalImpl and of improvePhiLocations.
THEOREM HomesStayProper == Spec => []ProperLocations
<1>1. IInv => ProperLocations
  BY DEF IInv, RegisterProper, SlotProper, ProperLocations
<1> QED
  BY <1>1, InitIInv, NextIInv, PTL DEF Spec
=============================================================================
