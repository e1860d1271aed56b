------------------------- MODULE ControlFlowProofs -------------------------
(***************************************************************************)
(* For every function, of any size and with its blocks in any order: what  *)
(* the dominator rounds settle on is dominance by paths, and what the      *)
(* liveness rounds settle on is liveness by paths.                         *)
(*                                                                         *)
(* Dominator sets start too large and live sets start empty, and a step    *)
(* keeps them on their side of the truth.  A round that changes nothing    *)
(* shows that every block satisfies its equation, and then the blocks a    *)
(* dominator is missing from, or the blocks a value is live into, form a   *)
(* closed set, which brings the other side.                                *)
(*                                                                         *)
(* From the dominators: the recorded parents are immediate dominators, the *)
(* walks up the tree pass exactly the blocks of the frontiers, and the     *)
(* worklists of the back edges find the natural loops.                     *)
(***************************************************************************)
EXTENDS ControlFlow, FiniteSetTheorems, NaturalsInduction, WellFoundedInduction, TLAPS

Reached == phase \in {"dominators", "frontier", "loops", "liveness", "ready"}

\* What the argument needs of the function under analysis.
Analysable ==
    /\ function.n \in Nat /\ function.entry \in Blocks(function) /\ function.value_count \in Nat

\* The part of the type invariant the argument needs.
Typed ==
    /\ Analysable
    /\ phase \in {"begin", "reach", "dominators", "frontier", "loops", "liveness", "ready", "rejected"}
    /\ successors \in [Blocks(function) -> SUBSET Blocks(function)]
    /\ reachable \subseteq Blocks(function)
    /\ m_dominators \in [Blocks(function) -> SUBSET Blocks(function)]
    /\ live_in = [b \in Blocks(function) |-> live_in[b]]
    /\ live_out = [b \in Blocks(function) |-> live_out[b]]
    /\ phase = "reach" => work \subseteq Blocks(function)
    /\ position \in 0 .. function.n
    /\ changed \in BOOLEAN

\* Blocks that control cannot leave once it has entered the function.
Closed(S) == function.entry \in S /\ \A b \in S : successors[b] \subseteq S

ReachInv ==
    /\ phase = "begin" => reachable = {}
    /\ phase = "reach" =>
          /\ function.entry \in reachable \cup work
          /\ \A b \in reachable : successors[b] \subseteq reachable \cup work
          /\ \A S \in SUBSET Blocks(function) : Closed(S) => reachable \cup work \subseteq S
    /\ Reached =>
          /\ Closed(reachable)
          /\ \A S \in SUBSET Blocks(function) : Closed(S) => reachable \subseteq S

DomInv ==
    /\ Reached =>
          /\ m_dominators[function.entry] = {function.entry}
          /\ \A b \in reachable, d \in Blocks(function) : OnEveryPath(d, b) => d \in m_dominators[b]
    /\ phase = "dominators" /\ ~changed =>
          \A b \in reachable \ {function.entry} : b < position => m_dominators[b] = Met(b)
    /\ HasTree => \A b \in reachable \ {function.entry} : m_dominators[b] = Met(b)

\* Some edge out of b needs v.
Needed(v, b) ==
    \E s \in successors[b] : \/ v \in EdgeOperands(function, b, s)
                             \/ Live(v, s) /\ v \notin PhiDefs(function, s)

LiveInv ==
    /\ phase \in {"begin", "reach", "dominators", "frontier", "loops"} =>
          \A b \in Blocks(function) : live_in[b] = {} /\ live_out[b] = {}
    /\ phase \in {"liveness", "ready"} =>
          \A b \in reachable : /\ \A v \in live_in[b] : Live(v, b)
                               /\ \A v \in live_out[b] : Needed(v, b)
    /\ phase = "liveness" /\ ~changed =>
          \A b \in reachable : b >= position => live_in[b] = LiveIn(b) /\ live_out[b] = LiveOut(b)
    /\ phase = "ready" =>
          \A b \in reachable : live_in[b] = LiveIn(b) /\ live_out[b] = LiveOut(b)

Inv == Typed /\ ReachInv /\ DomInv /\ LiveInv

-----------------------------------------------------------------------------
\* Blocks are numbered from 0 and the entry is one of them.
LEMMA FunctionFacts ==
    ASSUME Analysable
    PROVE  /\ function.n \in Nat /\ function.entry \in Blocks(function)
           /\ \A b \in Blocks(function) : b \in Nat /\ b < function.n /\ b + 1 \in 0 .. function.n
           /\ \A k \in 0 .. function.n : k < function.n => k \in Blocks(function)
           /\ \A k \in 0 .. function.n : k > 0 => k - 1 \in Blocks(function)
<1>1. function.n \in Nat /\ function.entry \in Blocks(function)
  BY DEF Analysable
<1> QED
  BY <1>1 DEF Blocks

\* The constructor is about to run: nothing is recorded yet.
Fresh ==
    /\ phase = "begin" /\ reachable = {}
    /\ successors = [b \in Blocks(function) |-> {}]
    /\ m_dominators = [b \in Blocks(function) |-> {}]
    /\ natural = [b \in Blocks(function) |-> [blocks |-> {}, latches |-> {}]]
    /\ live_in = [b \in Blocks(function) |-> {}] /\ live_out = [b \in Blocks(function) |-> {}]
    /\ position = 0 /\ changed = FALSE

\* The invariant holds before the constructor runs.
LEMMA FreshInv ==
    ASSUME Analysable, Fresh
    PROVE  Inv
<1>1. Typed
  <2>1. 0 \in 0 .. function.n
    BY FunctionFacts
  <2> QED
    BY <2>1 DEF Fresh, Typed
<1>2. ReachInv /\ DomInv /\ LiveInv
  BY DEF Fresh, ReachInv, DomInv, LiveInv, Reached, HasTree
<1> QED
  BY <1>1, <1>2 DEF Inv

\* The initial state satisfies the invariant.
LEMMA InitInv == Init => Inv
<1>1. Init => Analysable /\ Fresh
  BY FunctionsAssumption DEF Init, Analysable, Fresh
<1> QED
  BY <1>1, FreshInv

-----------------------------------------------------------------------------
\* Every step keeps the types.
LEMMA TypedStep ==
    ASSUME Typed, Next
    PROVE  Typed'
<1> USE DEF Analysable, graphVars, treeVars, loopVars, liveVars, roundVars
<1>0. function.n \in Nat /\ function.entry \in Blocks(function) /\ function.n \in 0 .. function.n
      /\ 0 \in 0 .. function.n
  BY FunctionFacts DEF Typed
<1>1. CASE Begin
  BY <1>0, <1>1 DEF Begin, Typed
<1>2. CASE Visit
  BY <1>2 DEF Visit, Typed
<1>3. CASE StartDominators
  BY <1>0, <1>3 DEF StartDominators, Typed
<1>4. CASE DominatorRound
  BY <1>0, <1>4 DEF DominatorRound, Typed
<1>5. CASE DominatorBlock
  <2>1. position + 1 \in 0 .. function.n /\ position \in Blocks(function)
    BY <1>5, FunctionFacts DEF DominatorBlock, Typed
  <2>2. Met(position) \subseteq Blocks(function)
    BY <2>1 DEF Met, Typed
  <2>3. m_dominators' \in [Blocks(function) -> SUBSET Blocks(function)] /\ changed' \in BOOLEAN
    BY <1>5, <2>1, <2>2 DEF DominatorBlock, Typed
  <2> QED
    BY <1>5, <2>1, <2>3 DEF DominatorBlock, Typed
<1>6. CASE BuildTree
  BY <1>6 DEF BuildTree, Typed
<1>7. CASE BuildFrontier
  BY <1>7 DEF BuildFrontier, Typed
<1>8. CASE OpenLoop
  BY <1>8 DEF OpenLoop, Typed
<1>9. CASE GrowLoop
  BY <1>9 DEF GrowLoop, Typed
<1>10. CASE StartLiveness
  BY <1>0, <1>10 DEF StartLiveness, Typed
<1>11. CASE LivenessRound
  BY <1>0, <1>11 DEF LivenessRound, Typed
<1>12. CASE LivenessBlock
  <2>1. position - 1 \in 0 .. function.n
    BY <1>12, FunctionFacts DEF LivenessBlock, Typed
  <2>2. /\ live_in' = [b \in Blocks(function) |-> live_in'[b]]
        /\ live_out' = [b \in Blocks(function) |-> live_out'[b]]
        /\ changed' \in BOOLEAN /\ phase' \in {phase, "rejected"}
    BY <1>12 DEF LivenessBlock, Typed
  <2> QED
    BY <1>12, <2>1, <2>2 DEF LivenessBlock, Typed
<1>13. CASE Finish
  BY <1>13 DEF Finish, Typed
<1> QED
  BY <1>1, <1>2, <1>3, <1>4, <1>5, <1>6, <1>7, <1>8, <1>9, <1>10, <1>11, <1>12, <1>13 DEF Next

\* The actions that come after the dominators leave the graph alone.
LaterAction == BuildTree \/ BuildFrontier \/ OpenLoop \/ GrowLoop \/ StartLiveness
               \/ LivenessRound \/ LivenessBlock \/ Finish

\* What they keep: the graph, the dominators and the order of the phases.
LEMMA LaterKeeps ==
    ASSUME Typed, LaterAction
    PROVE  /\ function' = function /\ successors' = successors /\ reachable' = reachable
           /\ m_dominators' = m_dominators
           /\ Reached /\ phase' \notin {"begin", "reach", "dominators"}
           /\ phase = "dominators" => ~changed /\ position = function.n
<1> USE DEF graphVars, treeVars, loopVars, liveVars, roundVars, Reached
<1>1. CASE BuildTree
  BY <1>1 DEF BuildTree
<1>2. CASE BuildFrontier
  BY <1>2 DEF BuildFrontier
<1>3. CASE OpenLoop
  BY <1>3 DEF OpenLoop
<1>4. CASE GrowLoop
  BY <1>4 DEF GrowLoop
<1>5. CASE StartLiveness
  BY <1>5 DEF StartLiveness
<1>6. CASE LivenessRound
  BY <1>6 DEF LivenessRound
<1>7. CASE LivenessBlock
  BY <1>7 DEF LivenessBlock
<1>8. CASE Finish
  BY <1>8 DEF Finish
<1> QED
  BY <1>1, <1>2, <1>3, <1>4, <1>5, <1>6, <1>7, <1>8 DEF LaterAction

\* The worklist finds the least closed set of blocks.
LEMMA ReachStep ==
    ASSUME Typed, ReachInv, Next
    PROVE  ReachInv'
<1> USE DEF graphVars, treeVars, loopVars, liveVars, roundVars, Reached
<1>0. Analysable /\ function.entry \in Blocks(function)
  BY FunctionFacts DEF Typed
<1>1. CASE Begin
  <2>1. CASE phase' = "rejected"
    BY <2>1 DEF ReachInv
  <2>2. CASE phase' = "reach"
    <3>1. reachable' = {} /\ work' = {function.entry} /\ function' = function
      BY <1>1, <2>2 DEF Begin, ReachInv
    <3> QED
      BY <2>2, <3>1 DEF ReachInv, Closed
  <2> QED
    BY <1>1, <2>1, <2>2 DEF Begin
<1>2. CASE Visit
  <2>1. phase = "reach" /\ phase' = "reach" /\ function' = function /\ successors' = successors
    BY <1>2 DEF Visit
  <2>2. PICK b \in work :
          /\ work' = (work \ {b}) \cup (IF b \in reachable THEN {} ELSE successors[b])
          /\ reachable' = reachable \cup {b}
    BY <1>2 DEF Visit
  <2>3. b \in Blocks(function)
    BY <2>1 DEF Typed
  <2>4. function.entry \in reachable' \cup work'
    BY <2>1, <2>2 DEF ReachInv
  <2>5. \A c \in reachable' : successors[c] \subseteq reachable' \cup work'
    BY <2>1, <2>2 DEF ReachInv
  <2>6. ASSUME NEW S \in SUBSET Blocks(function), Closed(S)
        PROVE  reachable' \cup work' \subseteq S
    BY <2>1, <2>2, <2>6 DEF ReachInv, Closed
  <2> QED
    BY <2>1, <2>4, <2>5, <2>6 DEF ReachInv, Closed
<1>3. CASE StartDominators
  BY <1>3 DEF StartDominators, ReachInv, Closed
<1>4. CASE DominatorRound \/ DominatorBlock
  <2>1. /\ function' = function /\ successors' = successors /\ reachable' = reachable
        /\ Reached /\ phase' \in {"dominators", "rejected"}
    BY <1>4 DEF DominatorRound, DominatorBlock
  <2> QED
    BY <2>1 DEF ReachInv, Closed
<1>5. CASE LaterAction
  BY <1>5, LaterKeeps DEF ReachInv, Closed
<1> QED
  BY <1>1, <1>2, <1>3, <1>4, <1>5 DEF Next, LaterAction

-----------------------------------------------------------------------------
\* Dominance by paths depends on the graph only.
LEMMA PathsKept ==
    ASSUME function' = function, successors' = successors, NEW d, NEW b
    PROVE  OnEveryPath(d, b)' <=> OnEveryPath(d, b)
BY DEF OnEveryPath, ClosedAvoiding, Blocks

\* Only the entry is on every path to the entry.
LEMMA EntryDominated ==
    ASSUME Typed, NEW d \in Blocks(function), OnEveryPath(d, function.entry)
    PROVE  d = function.entry
BY DEF OnEveryPath, ClosedAvoiding

\* What is on every path to a reachable block is reachable.
LEMMA OnPathReachable ==
    ASSUME Typed, ReachInv, Reached, NEW b \in reachable, NEW d \in Blocks(function),
           OnEveryPath(d, b)
    PROVE  d \in reachable
<1> SUFFICES ASSUME d \notin reachable PROVE FALSE
  OBVIOUS
<1>1. PICK S \in SUBSET Blocks(function) : ClosedAvoiding(S, d) /\ b \notin S
  BY DEF OnEveryPath
<1>2. Closed(S \cap reachable)
  BY <1>1 DEF ClosedAvoiding, Closed, ReachInv
<1> QED
  BY <1>1, <1>2 DEF ReachInv

\* What is on every path to b, other than b, is on every path to each of its
\* predecessors.
LEMMA OnPathBefore ==
    ASSUME Typed, NEW b \in Blocks(function), NEW d \in Blocks(function), d # b,
           NEW p \in Incoming(b), OnEveryPath(d, b)
    PROVE  OnEveryPath(d, p)
<1>1. PICK S \in SUBSET Blocks(function) : ClosedAvoiding(S, d) /\ b \notin S
  BY DEF OnEveryPath
<1>2. b \in successors[p] /\ p \in Blocks(function)
  BY DEF Incoming, Predecessors
<1>3. p \notin S
  BY <1>1, <1>2 DEF ClosedAvoiding
<1> QED
  BY <1>1, <1>3 DEF OnEveryPath

\* The meet over the predecessors loses no dominator.
LEMMA MetCovers ==
    ASSUME Typed, ReachInv, DomInv, Reached, NEW b \in reachable, NEW d \in Blocks(function),
           OnEveryPath(d, b)
    PROVE  d \in Met(b)
<1>1. d \in reachable
  BY OnPathReachable
<1>2. b \in Blocks(function)
  BY DEF Typed
<1>3. ASSUME d # b, NEW p \in Incoming(b) PROVE d \in m_dominators[p]
  <2>1. OnEveryPath(d, p) /\ p \in reachable
    BY <1>2, <1>3, OnPathBefore DEF Incoming
  <2> QED
    BY <2>1 DEF DomInv
<1> QED
  BY <1>1, <1>3 DEF Met

\* Every step keeps the dominator sets on the large side, and a quiet round
\* leaves every block it passed with its equation.
LEMMA DomStep ==
    ASSUME Typed, ReachInv, DomInv, Next
    PROVE  DomInv'
<1> USE DEF graphVars, treeVars, loopVars, liveVars, roundVars
<1>0. Analysable /\ function.n \in Nat /\ function.entry \in Blocks(function)
  BY FunctionFacts DEF Typed
<1>1. CASE Begin \/ Visit
  <2>1. phase' \in {"reach", "rejected"}
    BY <1>1 DEF Begin, Visit
  <2> QED
    BY <2>1 DEF DomInv, Reached, HasTree
<1>2. CASE StartDominators
  <2>1. /\ function' = function /\ successors' = successors /\ reachable' = reachable
        /\ phase' = "dominators" /\ changed' = TRUE
        /\ m_dominators' = [b \in Blocks(function) |->
                              IF b = function.entry THEN {b}
                              ELSE IF b \in reachable THEN reachable ELSE {}]
    BY <1>2 DEF StartDominators
  <2>2. Typed' /\ ReachInv'
    BY TypedStep, ReachStep
  <2>3. ASSUME NEW b \in reachable, NEW d \in Blocks(function), OnEveryPath(d, b)
        PROVE  d \in m_dominators'[b]
    <3>1. d \in reachable
      <4>1. PICK S \in SUBSET Blocks(function) : ClosedAvoiding(S, d) /\ b \notin S
        BY <2>3 DEF OnEveryPath
      <4>2. SUFFICES ASSUME d \notin reachable PROVE FALSE
        OBVIOUS
      <4>3. function.entry \in reachable /\ \A c \in reachable : successors[c] \subseteq reachable
        BY <2>1, <2>2 DEF ReachInv, Reached, Closed
      <4>4. Closed(S \cap reachable)
        BY <4>1, <4>2, <4>3 DEF ClosedAvoiding, Closed
      <4>5. reachable \subseteq S \cap reachable
        BY <1>2, <4>4 DEF StartDominators, ReachInv
      <4> QED
        BY <4>1, <4>5
    <3>2. b \in Blocks(function)
      BY DEF Typed
    <3>3. CASE b = function.entry
      BY <1>0, <2>1, <2>3, <3>2, <3>3, EntryDominated
    <3>4. CASE b # function.entry
      BY <2>1, <3>1, <3>2, <3>4
    <3> QED
      BY <3>3, <3>4
  <2>4. \A b, d : OnEveryPath(d, b)' <=> OnEveryPath(d, b)
    BY <2>1, PathsKept
  <2>5. m_dominators'[function.entry] = {function.entry}
    BY <1>0, <2>1
  <2> QED
    BY <2>1, <2>3, <2>4, <2>5 DEF DomInv, HasTree
<1>3. CASE DominatorRound
  <2>1. /\ function' = function /\ successors' = successors /\ reachable' = reachable
        /\ m_dominators' = m_dominators /\ phase = "dominators"
        /\ phase' \in {"dominators", "rejected"} /\ position' = 0
    BY <1>3 DEF DominatorRound
  <2>2. \A b, d : OnEveryPath(d, b)' <=> OnEveryPath(d, b)
    BY <2>1, PathsKept
  <2>3. \A b \in reachable : ~(b < 0)
    BY <1>0 DEF Typed, Blocks
  <2> QED
    BY <2>1, <2>2, <2>3 DEF DomInv, HasTree, Reached
<1>4. CASE DominatorBlock
  <2>1. /\ function' = function /\ successors' = successors /\ reachable' = reachable
        /\ phase = "dominators" /\ phase' = "dominators" /\ position' = position + 1
        /\ position \in Blocks(function) /\ Reached
    BY <1>4, FunctionFacts DEF DominatorBlock, Typed, Reached
  <2>2. \A b, d : OnEveryPath(d, b)' <=> OnEveryPath(d, b)
    BY <2>1, PathsKept
  <2>3. \A b \in reachable, d \in Blocks(function) : OnEveryPath(d, b) => d \in m_dominators'[b]
    BY <1>4, <2>1, MetCovers DEF DominatorBlock, DomInv, Typed
  <2>4. m_dominators'[function.entry] = {function.entry}
    BY <1>0, <1>4, <2>1 DEF DominatorBlock, DomInv, Typed
  <2>5. ASSUME ~changed', NEW b \in reachable \ {function.entry}, b < position + 1
        PROVE  m_dominators'[b] = Met(b)'
    <3>1. ~changed /\ m_dominators' = m_dominators
          /\ (position \in reachable \ {function.entry} => Met(position) = m_dominators[position])
      BY <1>4, <2>1, <2>5 DEF DominatorBlock, Typed
    <3>2. Met(b)' = Met(b)
      BY <2>1, <3>1 DEF Met, Incoming, Predecessors, Blocks
    <3>3. b \in Nat /\ position \in Nat
      BY <1>0 DEF Typed, Blocks
    <3>4. b < position \/ b = position
      BY <2>5, <3>3
    <3> QED
      BY <2>1, <3>1, <3>2, <3>4 DEF DomInv
  <2> QED
    BY <2>1, <2>2, <2>3, <2>4, <2>5 DEF DomInv, HasTree
<1>5. CASE LaterAction
  <2>1. \A b, d : OnEveryPath(d, b)' <=> OnEveryPath(d, b)
    BY <1>5, LaterKeeps, PathsKept
  <2>2. \A b : Met(b)' = Met(b)
    BY <1>5, LaterKeeps DEF Met, Incoming, Predecessors, Blocks
  <2>3. \A b \in reachable \ {function.entry} : m_dominators[b] = Met(b)
    <3>1. CASE phase = "dominators"
      <4>1. \A b \in reachable : b < position
        BY <1>5, <3>1, LaterKeeps, FunctionFacts DEF Typed
      <4> QED
        BY <1>5, <3>1, <4>1, LaterKeeps DEF DomInv
    <3>2. CASE phase # "dominators"
      BY <1>5, <3>2, LaterKeeps DEF DomInv, HasTree, Reached
    <3> QED
      BY <3>1, <3>2
  <2> QED
    BY <1>5, <2>1, <2>2, <2>3, LaterKeeps DEF DomInv, Reached, HasTree
<1> QED
  BY <1>1, <1>2, <1>3, <1>4, <1>5 DEF Next, LaterAction

-----------------------------------------------------------------------------
\* Liveness by paths depends on the function and its reachable graph only.
LEMMA LivePathsKept ==
    ASSUME function' = function, successors' = successors, reachable' = reachable, NEW v, NEW b
    PROVE  /\ Live(v, b)' <=> Live(v, b)
           /\ Needed(v, b)' <=> Needed(v, b)
<1>1. \A c : Uses(function, c)' = Uses(function, c) /\ Defs(function, c)' = Defs(function, c)
             /\ PhiDefs(function, c)' = PhiDefs(function, c)
  BY DEF Uses, Defs, PhiDefs, Results
<1>2. \A c, s : EdgeOperands(function, c, s)' = EdgeOperands(function, c, s)
  BY DEF EdgeOperands, LeadingPhis
<1>3. \A S : Keeps(S, v)' <=> Keeps(S, v)
  BY <1>1, <1>2 DEF Keeps
<1>4. \A c : Live(v, c)' <=> Live(v, c)
  BY <1>3 DEF Live, Blocks
<1> QED
  BY <1>1, <1>2, <1>4 DEF Needed

\* The equations of a block depend on the live sets only.
LEMMA EquationsKept ==
    ASSUME function' = function, successors' = successors, live_in' = live_in, NEW b
    PROVE  LiveIn(b)' = LiveIn(b) /\ LiveOut(b)' = LiveOut(b)
<1>1. /\ \A c : Uses(function, c)' = Uses(function, c) /\ Defs(function, c)' = Defs(function, c)
                /\ PhiDefs(function, c)' = PhiDefs(function, c)
  BY DEF Uses, Defs, PhiDefs, Results
<1>2. \A c, s : EdgeOperands(function, c, s)' = EdgeOperands(function, c, s)
  BY DEF EdgeOperands, LeadingPhis
<1>3. LiveOut(b)' = LiveOut(b)
  BY <1>1, <1>2 DEF LiveOut
<1> QED
  BY <1>1, <1>3 DEF LiveIn

\* What an equation adds is live.
LEMMA EquationsSound ==
    ASSUME Typed, ReachInv, Reached, NEW b \in reachable,
           \A c \in reachable : \A v \in live_in[c] : Live(v, c)
    PROVE  /\ \A v \in LiveOut(b) : Needed(v, b)
           /\ \A v \in LiveIn(b) : Live(v, b)
<1>1. successors[b] \subseteq reachable
  BY DEF ReachInv, Closed
<1>2. ASSUME NEW v \in LiveOut(b) PROVE Needed(v, b)
  <2>1. PICK s \in successors[b] :
          v \in (live_in[s] \ PhiDefs(function, s)) \cup EdgeOperands(function, b, s)
    BY DEF LiveOut
  <2> QED
    BY <1>1, <2>1 DEF Needed
<1>3. ASSUME NEW v \in LiveIn(b) PROVE Live(v, b)
  <2> SUFFICES ASSUME NEW S \in SUBSET Blocks(function), Keeps(S, v) PROVE b \in S
    BY DEF Live
  <2>1. CASE v \in Uses(function, b)
    BY <2>1 DEF Keeps
  <2>2. CASE v \in LiveOut(b) /\ v \notin Defs(function, b)
    <3>1. PICK s \in successors[b] : \/ v \in EdgeOperands(function, b, s)
                                     \/ Live(v, s) /\ v \notin PhiDefs(function, s)
      BY <1>2, <2>2 DEF Needed
    <3>2. v \in EdgeOperands(function, b, s) \/ (s \in S /\ v \notin PhiDefs(function, s))
      BY <3>1 DEF Live
    <3> QED
      BY <2>2, <3>2 DEF Keeps
  <2> QED
    BY <2>1, <2>2 DEF LiveIn
<1> QED
  BY <1>2, <1>3

\* Every step keeps the live sets on the small side, and a quiet round leaves
\* every block it passed with its equations.
LEMMA LiveStep ==
    ASSUME Typed, ReachInv, LiveInv, Next
    PROVE  LiveInv'
<1> USE DEF graphVars, treeVars, loopVars, liveVars, roundVars
<1>0. Analysable /\ function.n \in Nat /\ function.entry \in Blocks(function)
      /\ \A b \in reachable : b \in Blocks(function) /\ b \in Nat /\ b < function.n
  BY FunctionFacts DEF Typed
<1>1. CASE Begin \/ Visit \/ StartDominators \/ DominatorRound \/ DominatorBlock
           \/ BuildTree \/ BuildFrontier \/ OpenLoop \/ GrowLoop
  <2>1. /\ function' = function /\ live_in' = live_in /\ live_out' = live_out
        /\ phase \in {"begin", "reach", "dominators", "frontier", "loops"}
        /\ phase' \in {"begin", "reach", "dominators", "frontier", "loops", "rejected"}
    <3>1. CASE Begin \/ Visit \/ StartDominators \/ DominatorRound \/ DominatorBlock
      BY <3>1 DEF Begin, Visit, StartDominators, DominatorRound, DominatorBlock
    <3>2. CASE BuildTree \/ BuildFrontier
      BY <3>2 DEF BuildTree, BuildFrontier
    <3>3. CASE OpenLoop
      BY <3>3 DEF OpenLoop
    <3>4. CASE GrowLoop
      BY <3>4 DEF GrowLoop
    <3> QED
      BY <1>1, <3>1, <3>2, <3>3, <3>4
  <2> QED
    BY <2>1 DEF LiveInv, Blocks
<1>2. CASE StartLiveness
  BY <1>0, <1>2 DEF StartLiveness, LiveInv
<1>3. CASE LivenessRound
  <2>1. /\ function' = function /\ successors' = successors /\ reachable' = reachable
        /\ live_in' = live_in /\ live_out' = live_out /\ position' = function.n
        /\ phase = "liveness" /\ phase' \in {"liveness", "rejected"}
    BY <1>3 DEF LivenessRound
  <2>2. \A b, v : (Live(v, b)' <=> Live(v, b)) /\ (Needed(v, b)' <=> Needed(v, b))
    BY <2>1, LivePathsKept
  <2>3. \A b \in reachable : ~(b >= function.n)
    BY <1>0
  <2> QED
    BY <2>1, <2>2, <2>3 DEF LiveInv
<1>4. CASE LivenessBlock
  <2> DEFINE at == position - 1
  <2>1. /\ function' = function /\ successors' = successors /\ reachable' = reachable
        /\ phase = "liveness" /\ phase' \in {"liveness", "rejected"} /\ position' = at
        /\ at \in Nat /\ at \in Blocks(function) /\ Reached
    BY <1>0, <1>4, FunctionFacts DEF LivenessBlock, Typed, Reached
  <2>2. \A b, v : (Live(v, b)' <=> Live(v, b)) /\ (Needed(v, b)' <=> Needed(v, b))
    BY <2>1, LivePathsKept
  <2>3. CASE at \in reachable
    <3>1. /\ live_in' = [live_in EXCEPT ![at] = LiveIn(at)]
          /\ live_out' = [live_out EXCEPT ![at] = LiveOut(at)]
          /\ changed' = (changed \/ LiveIn(at) # live_in[at] \/ LiveOut(at) # live_out[at])
      BY <1>4, <2>1, <2>3 DEF LivenessBlock
    <3>2. (\A v \in LiveOut(at) : Needed(v, at)) /\ (\A v \in LiveIn(at) : Live(v, at))
      BY <2>1, <2>3, EquationsSound DEF LiveInv
    <3>3. \A b \in reachable : (\A v \in live_in'[b] : Live(v, b)) /\ (\A v \in live_out'[b] : Needed(v, b))
      BY <1>0, <2>1, <3>1, <3>2 DEF LiveInv, Typed
    <3>4. ASSUME phase' = "liveness", ~changed', NEW b \in reachable, b >= at
          PROVE  live_in'[b] = LiveIn(b)' /\ live_out'[b] = LiveOut(b)'
      <4>1. ~changed /\ LiveIn(at) = live_in[at] /\ LiveOut(at) = live_out[at]
        BY <3>1, <3>4 DEF Typed
      <4>2. live_in' = live_in /\ live_out' = live_out
        BY <2>1, <3>1, <4>1 DEF Typed
      <4>3. LiveIn(b)' = LiveIn(b) /\ LiveOut(b)' = LiveOut(b)
        BY <2>1, <4>2, EquationsKept
      <4>4. b = at \/ b >= position
        BY <1>0, <2>1, <3>4 DEF Typed
      <4> QED
        BY <2>1, <4>1, <4>2, <4>3, <4>4 DEF LiveInv
    <3> QED
      BY <2>1, <2>2, <3>3, <3>4 DEF LiveInv
  <2>4. CASE at \notin reachable
    <3>1. live_in' = live_in /\ live_out' = live_out /\ changed' = changed
      BY <1>4, <2>1, <2>4 DEF LivenessBlock
    <3>2. \A b : LiveIn(b)' = LiveIn(b) /\ LiveOut(b)' = LiveOut(b)
      BY <2>1, <3>1, EquationsKept
    <3>3. \A b \in reachable : b >= at => b >= position
      BY <1>0, <2>1, <2>4 DEF Typed
    <3> QED
      BY <2>1, <2>2, <3>1, <3>2, <3>3 DEF LiveInv
  <2> QED
    BY <2>3, <2>4
<1>5. CASE Finish
  <2>1. /\ function' = function /\ successors' = successors /\ reachable' = reachable
        /\ live_in' = live_in /\ live_out' = live_out
        /\ phase = "liveness" /\ phase' = "ready" /\ position = 0 /\ ~changed
    BY <1>5 DEF Finish
  <2>2. \A b, v : (Live(v, b)' <=> Live(v, b)) /\ (Needed(v, b)' <=> Needed(v, b))
    BY <2>1, LivePathsKept
  <2>3. \A b : LiveIn(b)' = LiveIn(b) /\ LiveOut(b)' = LiveOut(b)
    BY <2>1, EquationsKept
  <2>4. \A b \in reachable : b >= position
    BY <1>0, <2>1
  <2> QED
    BY <2>1, <2>2, <2>3, <2>4 DEF LiveInv
<1> QED
  BY <1>1, <1>2, <1>3, <1>4, <1>5 DEF Next

-----------------------------------------------------------------------------
\* A step of something else keeps the invariant.
LEMMA InvKept ==
    ASSUME Inv, UNCHANGED vars
    PROVE  Inv'
<1>1. /\ function' = function /\ phase' = phase /\ successors' = successors
      /\ reachable' = reachable /\ m_dominators' = m_dominators
      /\ live_in' = live_in /\ live_out' = live_out /\ work' = work
      /\ position' = position /\ changed' = changed
  BY DEF vars, graphVars, treeVars, loopVars, liveVars, roundVars
<1>2. \A b, d : OnEveryPath(d, b)' <=> OnEveryPath(d, b)
  BY <1>1, PathsKept
<1>3. \A b, v : (Live(v, b)' <=> Live(v, b)) /\ (Needed(v, b)' <=> Needed(v, b))
  BY <1>1, LivePathsKept
<1>4. \A b : LiveIn(b)' = LiveIn(b) /\ LiveOut(b)' = LiveOut(b)
  BY <1>1, EquationsKept
<1>5. \A b : Met(b)' = Met(b)
  BY <1>1 DEF Met, Incoming, Predecessors, Blocks
<1>6. Typed'
  BY <1>1 DEF Inv, Typed, Analysable, Blocks
<1>7. ReachInv'
  BY <1>1 DEF Inv, ReachInv, Reached, Closed, Blocks
<1>8. DomInv'
  BY <1>1, <1>2, <1>5 DEF Inv, DomInv, Reached, HasTree, Blocks
<1>9. LiveInv'
  BY <1>1, <1>3, <1>4 DEF Inv, LiveInv, Blocks
<1> QED
  BY <1>6, <1>7, <1>8, <1>9 DEF Inv

\* Every reachable state of the analysis satisfies the invariant.
THEOREM AnalysisInvariant == Spec => []Inv
<1>1. Init => Inv
  BY InitInv
<1>2. Inv /\ [Next]_vars => Inv'
  BY InvKept, TypedStep, ReachStep, DomStep, LiveStep DEF Inv
<1> QED
  BY <1>1, <1>2, PTL DEF Spec

\* A quiet round makes the recorded dominators dominance by paths.
LEMMA ExactDominators ==
    ASSUME Inv
    PROVE  DominatorsExact
<1> SUFFICES ASSUME HasTree, NEW b \in reachable, NEW d \in Blocks(function)
             PROVE  dominates(d, b) <=> OnEveryPath(d, b)
  BY DEF DominatorsExact
<1>1. Reached /\ Closed(reachable)
  BY DEF HasTree, Reached, Inv, ReachInv
<1>2. OnEveryPath(d, b) => dominates(d, b)
  BY <1>1 DEF Inv, DomInv, dominates
<1>3. ASSUME d \in m_dominators[b] PROVE OnEveryPath(d, b)
  <2> DEFINE S == {c \in reachable : d \notin m_dominators[c]}
  <2>1. function.entry # d => function.entry \in S
    BY <1>1 DEF Inv, DomInv, Closed
  <2>2. ASSUME NEW c \in S, NEW s \in successors[c], s # d PROVE s \in S
    <3>1. s \in reachable /\ c \in Blocks(function) /\ c \in Incoming(s)
      BY <1>1 DEF Closed, Inv, Typed, Incoming, Predecessors
    <3>2. CASE s = function.entry
      BY <1>1, <2>2, <3>1, <3>2 DEF Inv, DomInv
    <3>3. CASE s # function.entry
      BY <2>2, <3>1, <3>3 DEF Inv, DomInv, Met
    <3> QED
      BY <3>2, <3>3
  <2>3. ClosedAvoiding(S, d) /\ b \notin S /\ S \in SUBSET Blocks(function)
    BY <1>3, <2>1, <2>2 DEF ClosedAvoiding, Inv, Typed
  <2> QED
    BY <2>3 DEF OnEveryPath
<1> QED
  BY <1>2, <1>3 DEF dominates

\* When the dominator rounds stop, the recorded sets are dominance by paths, for
\* every function and every order of its blocks: code motion, value numbering
\* and SSA construction never see a dominator that a path avoids, nor miss one.
THEOREM DominatorsAreExact == Spec => []DominatorsExact
<1>1. Inv => DominatorsExact
  BY ExactDominators
<1> QED
  BY <1>1, AnalysisInvariant, PTL

\* When the liveness rounds stop, the recorded sets are liveness by paths, PHI
\* operands being read on their edges: the allocator's conflicts rest on sets
\* that miss no live value and hold no dead one.
THEOREM LivenessIsExact == Spec => []LivenessExact
<1>1. Inv => LivenessExact
  <2> SUFFICES ASSUME Inv, phase = "ready", NEW b \in reachable, NEW v \in Values
               PROVE  /\ v \in live_in[b] <=> Live(v, b)
                      /\ v \in live_out[b] <=> Needed(v, b)
    BY DEF LivenessExact, Needed
  <2>1. \A c \in reachable : /\ live_in[c] = LiveIn(c) /\ live_out[c] = LiveOut(c)
                             /\ successors[c] \subseteq reachable
    BY DEF Inv, LiveInv, ReachInv, Reached, Closed
  <2>2. (v \in live_in[b] => Live(v, b)) /\ (v \in live_out[b] => Needed(v, b))
    BY DEF Inv, LiveInv
  <2>3. ASSUME NEW c \in reachable, Live(v, c) PROVE v \in live_in[c]
    <3> DEFINE S == {x \in reachable : v \in live_in[x]}
    <3>1. ASSUME NEW x \in reachable,
                 \/ v \in Uses(function, x)
                 \/ /\ v \notin Defs(function, x)
                    /\ \E s \in successors[x] :
                          \/ v \in EdgeOperands(function, x, s)
                          \/ s \in S /\ v \notin PhiDefs(function, s)
          PROVE  x \in S
      BY <2>1, <3>1 DEF LiveIn, LiveOut
    <3>2. Keeps(S, v) /\ S \in SUBSET Blocks(function)
      BY <3>1 DEF Keeps, Inv, Typed
    <3> QED
      BY <2>3, <3>2 DEF Live
  <2>4. ASSUME Needed(v, b) PROVE v \in live_out[b]
    BY <2>1, <2>3, <2>4 DEF Needed, LiveOut
  <2> QED
    BY <2>2, <2>3, <2>4
<1> QED
  BY <1>1, AnalysisInvariant, PTL

-----------------------------------------------------------------------------
\* A set of numbers that is not empty has a least element.
LEMMA LeastNumber ==
    ASSUME NEW S, S \subseteq Nat, S # {}
    PROVE  \E i \in S : \A j \in S : i <= j
<1> DEFINE R == OpToRel(<, Nat)
<1>1. IsWellFoundedOn(R, Nat)
  BY NatLessThanWellFounded
<1>2. \A i, j \in Nat : <<j, i>> \notin R => i <= j
  BY DEF OpToRel
<1> HIDE DEF R
<1>3. \E i \in S : \A j \in S : <<j, i>> \notin R
  BY <1>1, WFMin
<1> QED
  BY <1>2, <1>3

\* Among finitely many blocks, the ranks have a least and a greatest member.
LEMMA ExtremeRanks ==
    ASSUME NEW S, S # {}, NEW r, NEW top \in Nat, \A b \in S : r[b] \in 0 .. top
    PROVE  /\ \E b \in S : \A c \in S : r[b] <= r[c]
           /\ \E b \in S : \A c \in S : r[c] <= r[b]
<1>1. \E b \in S : \A c \in S : r[b] <= r[c]
  <2> DEFINE V == {r[b] : b \in S}
  <2>1. V \subseteq Nat /\ V # {}
    BY SMT
  <2>2. \E i \in V : \A j \in V : i <= j
    <3> HIDE DEF V
    <3> QED
      BY <2>1, LeastNumber
  <2> QED
    BY <2>2
<1>2. \E b \in S : \A c \in S : r[c] <= r[b]
  <2> DEFINE V == {top - r[b] : b \in S}
  <2>1. V \subseteq Nat /\ V # {}
    BY SMT
  <2>2. \E i \in V : \A j \in V : i <= j
    <3> HIDE DEF V
    <3> QED
      BY <2>1, LeastNumber
  <2>3. PICK b \in S : \A c \in S : top - r[b] <= top - r[c]
    BY <2>2
  <2>4. \A c \in S : r[b] \in 0 .. top /\ r[c] \in 0 .. top /\ top - r[b] <= top - r[c]
    BY <2>3
  <2>5. \A c \in S : r[c] <= r[b]
    BY <2>4, SMT
  <2> QED
    BY <2>5
<1> QED
  BY <1>1, <1>2

-----------------------------------------------------------------------------
\* Dominance by paths is an order in which the dominators of a block form a
\* chain, argued with closed sets instead of paths.
LEMMA PathsReflexive ==
    ASSUME Typed, NEW b \in Blocks(function)
    PROVE  OnEveryPath(b, b)
<1> DEFINE S == Blocks(function) \ {b}
<1>1. function.entry \in Blocks(function)
  BY FunctionFacts DEF Typed
<1>2. ClosedAvoiding(S, b)
  BY <1>1 DEF ClosedAvoiding, Typed
<1> QED
  BY <1>2 DEF OnEveryPath

\* The entry is on every path.
LEMMA EntryOnPaths ==
    ASSUME NEW b
    PROVE  OnEveryPath(function.entry, b)
<1>1. ClosedAvoiding({}, function.entry)
  BY DEF ClosedAvoiding
<1> QED
  BY <1>1 DEF OnEveryPath

\* What is on every path to y is on every path to what y is on every path to.
LEMMA PathsTransitive ==
    ASSUME Typed, NEW x, NEW y, NEW b, OnEveryPath(x, y), OnEveryPath(y, b)
    PROVE  OnEveryPath(x, b)
<1>1. PICK S \in SUBSET Blocks(function) : ClosedAvoiding(S, x) /\ y \notin S
  BY DEF OnEveryPath
<1>2. PICK T \in SUBSET Blocks(function) : ClosedAvoiding(T, y) /\ b \notin T
  BY DEF OnEveryPath
<1>3. ClosedAvoiding(S \cap T, x)
  BY <1>1, <1>2 DEF ClosedAvoiding
<1>4. S \cap T \in SUBSET Blocks(function) /\ b \notin S \cap T
  BY <1>1, <1>2
<1> QED
  BY <1>3, <1>4 DEF OnEveryPath

\* Two blocks on every path to each other are one, if they are reachable.
LEMMA PathsAntisymmetric ==
    ASSUME Typed, ReachInv, Reached, NEW d, NEW e \in reachable,
           OnEveryPath(d, e), OnEveryPath(e, d)
    PROVE  d = e
<1> SUFFICES ASSUME d # e PROVE FALSE
  OBVIOUS
<1>1. PICK S \in SUBSET Blocks(function) : ClosedAvoiding(S, d) /\ e \notin S
  BY DEF OnEveryPath
<1>2. PICK T \in SUBSET Blocks(function) : ClosedAvoiding(T, e) /\ d \notin T
  BY DEF OnEveryPath
<1>3. Closed(S \cap T)
  BY <1>1, <1>2 DEF ClosedAvoiding, Closed
<1>4. S \cap T \in SUBSET Blocks(function) /\ e \notin S \cap T
  BY <1>1, <1>2
<1> QED
  BY <1>3, <1>4 DEF ReachInv

\* Two blocks on every path to a reachable block: one is on every path to the other.
LEMMA PathsChain ==
    ASSUME Typed, ReachInv, Reached, NEW b \in reachable, NEW d, NEW e,
           OnEveryPath(d, b), OnEveryPath(e, b)
    PROVE  OnEveryPath(d, e) \/ OnEveryPath(e, d)
<1> SUFFICES ASSUME ~OnEveryPath(d, e), ~OnEveryPath(e, d) PROVE FALSE
  OBVIOUS
<1>1. PICK S \in SUBSET Blocks(function) : ClosedAvoiding(S, d) /\ b \notin S
  BY DEF OnEveryPath
<1>2. PICK T \in SUBSET Blocks(function) : ClosedAvoiding(T, e) /\ b \notin T
  BY DEF OnEveryPath
<1>3. e \in S /\ d \in T
  BY <1>1, <1>2 DEF OnEveryPath
<1>4. Closed(S \cup T)
  BY <1>1, <1>2, <1>3 DEF ClosedAvoiding, Closed
<1>5. S \cup T \in SUBSET Blocks(function) /\ b \notin S \cup T
  BY <1>1, <1>2
<1> QED
  BY <1>4, <1>5 DEF ReachInv

-----------------------------------------------------------------------------
\* What the two steps after the dominator rounds record.
TreeInv ==
    /\ HasTree => immediate_dominator =
          [b \in Blocks(function) |->
             IF b \in reachable \ {function.entry} THEN Parent(b) ELSE Invalid]
    /\ phase \in {"loops", "liveness", "ready"} => frontier =
          [x \in Blocks(function) |->
             {b \in reachable : /\ Cardinality(Predecessors(b)) > 1
                                /\ \E p \in Incoming(b) : x \in Walk(p, b)}]

\* Both are kept to the end.
LEMMA TreeStep ==
    ASSUME Typed, TreeInv, Next
    PROVE  TreeInv'
<1> USE DEF graphVars, treeVars, loopVars, liveVars, roundVars, HasTree
<1>1. CASE Begin \/ Visit \/ StartDominators \/ DominatorRound \/ DominatorBlock
  <2>1. phase' \in {"begin", "reach", "dominators", "rejected"}
    BY <1>1 DEF Begin, Visit, StartDominators, DominatorRound, DominatorBlock
  <2> QED
    BY <2>1 DEF TreeInv
<1>2. CASE BuildTree
  <2>1. phase' = "frontier" /\ function' = function /\ reachable' = reachable
        /\ m_dominators' = m_dominators
        /\ immediate_dominator' = [b \in Blocks(function) |->
              IF b \in reachable \ {function.entry} THEN Parent(b) ELSE Invalid]
    BY <1>2 DEF BuildTree
  <2>2. \A b : Parent(b)' = Parent(b)
    BY <2>1 DEF Parent, dominates, rank, Blocks
  <2> QED
    BY <2>1, <2>2 DEF TreeInv, Blocks
<1>3. CASE BuildFrontier
  <2>1. phase = "frontier" /\ phase' = "loops" /\ function' = function /\ reachable' = reachable
        /\ m_dominators' = m_dominators /\ successors' = successors
        /\ immediate_dominator' = immediate_dominator
    BY <1>3 DEF BuildFrontier
  <2>2. \A b : Parent(b)' = Parent(b)
    BY <2>1 DEF Parent, dominates, rank, Blocks
  <2>3. \A b : Predecessors(b)' = Predecessors(b) /\ Incoming(b)' = Incoming(b)
    BY <2>1 DEF Predecessors, Incoming, Blocks
  <2>4. \A p, b : Walk(p, b)' = Walk(p, b)
    BY <2>1 DEF Walk, Climbs, Stops, Blocks
  <2>5. frontier' = [x \in Blocks(function) |->
             {b \in reachable : /\ Cardinality(Predecessors(b)) > 1
                                /\ \E p \in Incoming(b) : x \in Walk(p, b)}]
    BY <1>3 DEF BuildFrontier
  <2> QED
    BY <2>1, <2>2, <2>3, <2>4, <2>5 DEF TreeInv, Blocks
<1>4. CASE OpenLoop \/ GrowLoop \/ StartLiveness \/ LivenessRound \/ LivenessBlock \/ Finish
  <2>1. /\ phase \in {"loops", "liveness"} /\ phase' \in {"loops", "liveness", "ready", "rejected"}
        /\ function' = function /\ reachable' = reachable
        /\ m_dominators' = m_dominators /\ successors' = successors
        /\ immediate_dominator' = immediate_dominator /\ frontier' = frontier
    BY <1>4 DEF OpenLoop, GrowLoop, StartLiveness, LivenessRound, LivenessBlock, Finish
  <2>2. \A b : Parent(b)' = Parent(b)
    BY <2>1 DEF Parent, dominates, rank, Blocks
  <2>3. \A b : Predecessors(b)' = Predecessors(b) /\ Incoming(b)' = Incoming(b)
    BY <2>1 DEF Predecessors, Incoming, Blocks
  <2>4. \A p, b : Walk(p, b)' = Walk(p, b)
    BY <2>1 DEF Walk, Climbs, Stops, Blocks
  <2> QED
    BY <2>1, <2>2, <2>3, <2>4 DEF TreeInv, Blocks
<1> QED
  BY <1>1, <1>2, <1>3, <1>4 DEF Next

\* The rank of a block grows strictly along dominance.
LEMMA RankFacts ==
    ASSUME Inv, HasTree
    PROVE  /\ \A b \in Blocks(function) : rank(b) \in 0 .. function.n
           /\ \A d, e \in reachable : OnEveryPath(d, e) /\ d # e => rank(d) < rank(e)
<1>0. function.n \in Nat /\ Typed /\ Reached /\ ReachInv
  BY FunctionFacts DEF Inv, Typed, HasTree, Reached
<1>1. IsFiniteSet(Blocks(function)) /\ Cardinality(Blocks(function)) <= function.n
  <2>1. function.n - 1 \in Int /\ 0 \in Int
    BY <1>0
  <2>2. IsFiniteSet(0 .. function.n - 1)
        /\ Cardinality(0 .. function.n - 1) = IF 0 > function.n - 1 THEN 0 ELSE function.n - 1 - 0 + 1
    BY <2>1, FS_Interval
  <2> QED
    BY <1>0, <2>2 DEF Blocks
<1>2. \A b \in Blocks(function) : m_dominators[b] \in SUBSET Blocks(function)
  BY <1>0 DEF Typed
<1>3. ASSUME NEW b \in Blocks(function)
      PROVE  IsFiniteSet(m_dominators[b]) /\ rank(b) \in 0 .. function.n
  <2>1. IsFiniteSet(m_dominators[b]) /\ Cardinality(m_dominators[b]) <= Cardinality(Blocks(function))
    BY <1>1, <1>2, FS_Subset
  <2>2. Cardinality(m_dominators[b]) \in Nat /\ Cardinality(Blocks(function)) \in Nat
    BY <1>1, <2>1, FS_CardinalityType
  <2> QED
    BY <1>0, <1>1, <2>1, <2>2 DEF rank
<1>4. ASSUME NEW d \in reachable, NEW e \in reachable, OnEveryPath(d, e), d # e
      PROVE  rank(d) < rank(e)
  <2>1. d \in Blocks(function) /\ e \in Blocks(function)
    BY <1>0 DEF Typed
  <2>2. DominatorsExact
    BY ExactDominators
  <2>3. /\ \A x \in Blocks(function) : x \in m_dominators[d] <=> OnEveryPath(x, d)
        /\ \A x \in Blocks(function) : x \in m_dominators[e] <=> OnEveryPath(x, e)
    BY <2>2 DEF DominatorsExact, dominates
  <2>4. m_dominators[d] \in SUBSET m_dominators[e]
    BY <1>0, <1>2, <1>4, <2>1, <2>3, PathsTransitive
  <2>5. e \in m_dominators[e] /\ e \notin m_dominators[d]
    BY <1>0, <1>4, <2>1, <2>3, PathsReflexive, PathsAntisymmetric
  <2>6. Cardinality(m_dominators[d]) <= Cardinality(m_dominators[e])
        /\ Cardinality(m_dominators[e]) # Cardinality(m_dominators[d])
    BY <1>3, <2>1, <2>4, <2>5, FS_Subset
  <2>7. rank(d) \in 0 .. function.n /\ rank(e) \in 0 .. function.n
    BY <1>3, <2>1
  <2> QED
    BY <1>0, <2>6, <2>7 DEF rank
<1> QED
  BY <1>3, <1>4

\* The recorded parent is the strict dominator that all the others dominate.
LEMMA ParentFacts ==
    ASSUME Inv, HasTree, TreeInv, NEW b \in reachable \ {function.entry}
    PROVE  LET parent == immediate_dominator[b]
           IN  /\ parent \in reachable /\ parent # b /\ OnEveryPath(parent, b)
               /\ \A d \in Blocks(function) \ {b} : OnEveryPath(d, b) => OnEveryPath(d, parent)
<1>0. function.n \in Nat /\ function.entry \in Blocks(function) /\ Typed /\ Reached /\ ReachInv
      /\ b \in Blocks(function) /\ reachable \subseteq Blocks(function)
  BY FunctionFacts DEF Inv, Typed, HasTree, Reached
<1>1. immediate_dominator[b] = Parent(b)
  BY <1>0 DEF TreeInv
<1> DEFINE candidates == {function.entry} \cup {d \in Blocks(function) \ {b} : dominates(d, b)}
<1>2. Parent(b) = CHOOSE d \in candidates : \A e \in candidates : rank(e) <= rank(d)
  BY DEF Parent
<1>3. \A d \in Blocks(function) : dominates(d, b) <=> OnEveryPath(d, b)
  BY ExactDominators DEF DominatorsExact
<1>4. candidates = {d \in Blocks(function) \ {b} : OnEveryPath(d, b)}
  BY <1>0, <1>3, EntryOnPaths
<1>5. candidates \subseteq reachable
  BY <1>0, <1>4, OnPathReachable
<1>6. candidates # {}
  OBVIOUS
<1> HIDE DEF candidates
<1>7. \E d \in candidates : \A e \in candidates : rank(e) <= rank(d)
  <2> DEFINE r == [d \in Blocks(function) |-> rank(d)]
  <2>1. \A d \in candidates : r[d] = rank(d) /\ rank(d) \in 0 .. function.n
    BY <1>0, <1>5, RankFacts
  <2> HIDE DEF r
  <2>2. \E d \in candidates : \A e \in candidates : r[e] <= r[d]
    <3>1. \A d \in candidates : r[d] \in 0 .. function.n
      BY <2>1
    <3>2. PICK top \in Nat : top = function.n
      BY <1>0
    <3> QED
      BY <1>6, <3>1, <3>2, ExtremeRanks
  <2> QED
    BY <2>1, <2>2
<1>8. PICK m : m = Parent(b)
  OBVIOUS
<1>9. m \in candidates /\ \A e \in candidates : rank(e) <= rank(m)
  BY <1>2, <1>7, <1>8
<1>10. ASSUME NEW d \in Blocks(function) \ {b}, OnEveryPath(d, b) PROVE OnEveryPath(d, m)
  <2>1. d \in candidates /\ d \in reachable /\ m \in reachable
    BY <1>4, <1>5, <1>9, <1>10
  <2>2. OnEveryPath(d, m) \/ OnEveryPath(m, d)
    BY <1>0, <1>4, <1>9, <1>10, PathsChain
  <2>3. ASSUME OnEveryPath(m, d), d # m PROVE FALSE
    <3>1. rank(m) < rank(d) /\ rank(d) <= rank(m)
      BY <1>9, <2>1, <2>3, RankFacts
    <3>2. rank(m) \in 0 .. function.n /\ rank(d) \in 0 .. function.n
      BY <1>0, <2>1, RankFacts
    <3> QED
      BY <1>0, <3>1, <3>2
  <2>4. OnEveryPath(m, m)
    BY <1>0, <2>1, PathsReflexive
  <2> QED
    BY <2>2, <2>3, <2>4
<1>11. m \in reachable /\ m # b /\ OnEveryPath(m, b)
  BY <1>4, <1>5, <1>9
<1> QED
  BY <1>1, <1>8, <1>10, <1>11

\* The walk from a predecessor p of b up the tree passes the dominators of p
\* that do not strictly dominate b.
LEMMA WalkFacts ==
    ASSUME Inv, HasTree, TreeInv, NEW b \in reachable, NEW p \in Incoming(b), NEW x \in reachable
    PROVE  x \in Walk(p, b) <=> OnEveryPath(x, p) /\ (x = b \/ ~OnEveryPath(x, b))
<1>0. function.n \in Nat /\ function.entry \in Blocks(function) /\ Typed /\ Reached /\ ReachInv
      /\ b \in Blocks(function) /\ reachable \subseteq Blocks(function) /\ p \in reachable
      /\ Invalid \notin Blocks(function) /\ function.entry \in reachable
  <2>1. function.n \in Nat /\ function.entry \in Blocks(function) /\ Typed /\ Reached /\ ReachInv
    BY FunctionFacts DEF Inv, Typed, HasTree, Reached
  <2>2. Invalid \notin Blocks(function)
    BY <2>1 DEF Invalid, Blocks
  <2> QED
    BY <2>1, <2>2 DEF Incoming, ReachInv, Closed, Typed
<1> DEFINE Strict(y) == y # b /\ OnEveryPath(y, b)
           T == {y \in reachable : OnEveryPath(y, p) /\ ~Strict(y)}
           idom == immediate_dominator
<1>1. \A y \in reachable \ {function.entry} :
         /\ idom[y] \in reachable /\ idom[y] # y /\ OnEveryPath(idom[y], y)
         /\ \A d \in Blocks(function) \ {y} : OnEveryPath(d, y) => OnEveryPath(d, idom[y])
  BY ParentFacts
<1>2. \A y \in Blocks(function) : y \notin reachable \ {function.entry} => idom[y] = Invalid
  BY DEF TreeInv
<1>3. \A y \in reachable : Strict(y) => OnEveryPath(y, p)
  BY <1>0, OnPathBefore
\* A strict dominator of b dominates the parent of b, and the parent is one.
<1>4. \A y \in reachable : Strict(y) => b # function.entry /\ OnEveryPath(y, idom[b])
  BY <1>0, <1>1, EntryDominated
<1>5. b # function.entry => Strict(idom[b]) /\ idom[b] \in reachable
  BY <1>0, <1>1
<1>6. \A y \in reachable : y \in Stops(b) => Strict(y)
  <2>1. b = function.entry => idom[b] = Invalid
    BY <1>0, <1>2
  <2> QED
    BY <1>0, <1>5, <2>1 DEF Stops
<1>7. Climbs(T, p, b)
  <2>1. p \in T \cup Stops(b)
    <3>1. OnEveryPath(p, p)
      BY <1>0, PathsReflexive
    <3>2. ASSUME Strict(p) PROVE p = idom[b]
      <4>1. b # function.entry /\ OnEveryPath(p, idom[b])
        BY <1>0, <1>4, <3>2
      <4>2. OnEveryPath(idom[b], p) /\ idom[b] \in reachable
        BY <1>3, <1>5, <4>1
      <4> QED
        BY <1>0, <4>1, <4>2, PathsAntisymmetric
    <3> QED
      BY <1>0, <3>1, <3>2 DEF Stops
  <2>2. ASSUME NEW y \in T PROVE idom[y] \in T \cup Stops(b)
    <3>1. CASE y = function.entry
      BY <1>0, <1>2, <3>1 DEF Stops
    <3>2. CASE y # function.entry
      <4>1. PICK z : z = idom[y]
        OBVIOUS
      <4>2. z \in reachable /\ OnEveryPath(z, y) /\ OnEveryPath(y, p) /\ ~Strict(y)
        BY <1>1, <3>2, <4>1
      <4>3. OnEveryPath(z, p)
        BY <1>0, <4>2, PathsTransitive
      <4>4. ASSUME Strict(z) PROVE z = idom[b]
        <5>1. PICK i : i = idom[b]
          OBVIOUS
        <5>2. b # function.entry /\ OnEveryPath(z, i)
          BY <1>4, <4>2, <4>4, <5>1
        <5>3. Strict(i) /\ i \in reachable /\ OnEveryPath(i, p)
          BY <1>3, <1>5, <5>1, <5>2
        <5>4. i # y
          BY <4>2, <5>3
        <5>5. OnEveryPath(i, y) \/ OnEveryPath(y, i)
          BY <1>0, <4>2, <5>3, PathsChain
        <5>6. ~OnEveryPath(y, i)
          <6>1. SUFFICES ASSUME OnEveryPath(y, i) PROVE FALSE
            OBVIOUS
          <6>2. OnEveryPath(y, b)
            BY <1>0, <5>3, <6>1, PathsTransitive
          <6>3. y = b
            BY <4>2, <6>2
          <6>4. i = b
            BY <1>0, <5>3, <6>1, <6>3, PathsAntisymmetric
          <6> QED
            BY <5>3, <6>4
        <5>7. OnEveryPath(i, z)
          BY <1>0, <1>1, <3>2, <4>1, <5>3, <5>4, <5>5, <5>6
        <5>8. z = i
          BY <1>0, <5>2, <5>3, <5>7, PathsAntisymmetric
        <5> QED
          BY <5>1, <5>8
      <4> QED
        BY <4>1, <4>2, <4>3, <4>4 DEF Stops
    <3> QED
      BY <3>1, <3>2
  <2> QED
    BY <2>1, <2>2 DEF Climbs
<1>8. ASSUME NEW S \in SUBSET Blocks(function), Climbs(S, p, b) PROVE T \subseteq S
  <2> SUFFICES ASSUME T \ S # {} PROVE FALSE
    OBVIOUS
  <2> DEFINE r == [d \in Blocks(function) |-> rank(d)]
  <2>0. \A d \in reachable : r[d] = rank(d) /\ rank(d) \in 0 .. function.n /\ r[d] \in 0 .. function.n
    BY <1>0, RankFacts
  <2>00. PICK top \in Nat : top = function.n
    BY <1>0
  <2> HIDE DEF r
  <2>1. PICK y \in T \ S : \A c \in T \ S : r[c] <= r[y]
    <3>1. \A d \in T \ S : r[d] \in 0 .. top
      BY <2>0, <2>00
    <3>2. PICK U : U = T \ S
      OBVIOUS
    <3>3. \E d \in U : \A c \in U : r[c] <= r[d]
      BY <2>00, <3>1, <3>2, ExtremeRanks
    <3> QED
      BY <3>2, <3>3
  <2>2. y \in reachable /\ OnEveryPath(y, p) /\ ~Strict(y) /\ y \notin S
    OBVIOUS
  <2>3. y \notin Stops(b)
    BY <1>6, <2>2
  <2>4. y # p
    <3> SUFFICES ASSUME y = p PROVE FALSE
      OBVIOUS
    <3> QED
      BY <1>8, <2>2, <2>3 DEF Climbs
  <2> DEFINE Z == {z \in reachable \ {y} : OnEveryPath(y, z) /\ OnEveryPath(z, p)}
  <2>5. p \in Z
    BY <1>0, <2>2, <2>4, PathsReflexive
  <2>6. PICK z \in Z : \A c \in Z : r[z] <= r[c]
    <3>1. \A d \in Z : r[d] \in 0 .. top
      BY <2>0, <2>00
    <3>2. PICK U : U = Z
      OBVIOUS
    <3>3. \E d \in U : \A c \in U : r[d] <= r[c]
      BY <2>00, <2>5, <3>1, <3>2, ExtremeRanks
    <3> QED
      BY <3>2, <3>3
  <2>7. z \in reachable /\ z # y /\ OnEveryPath(y, z) /\ OnEveryPath(z, p)
    OBVIOUS
  <2>8. z # function.entry
    <3> SUFFICES ASSUME z = function.entry PROVE FALSE
      OBVIOUS
    <3> QED
      BY <1>0, <2>2, <2>7, EntryDominated
  <2>9. PICK i : i = idom[z]
    OBVIOUS
  <2>10. i \in reachable /\ i # z /\ OnEveryPath(i, z) /\ OnEveryPath(y, i)
    BY <1>0, <1>1, <2>2, <2>7, <2>8, <2>9
  <2>11. i = y
    <3> SUFFICES ASSUME i # y PROVE FALSE
      OBVIOUS
    <3>1. OnEveryPath(i, p)
      BY <1>0, <2>7, <2>10, PathsTransitive
    <3>2. i \in Z
      BY <2>10, <3>1
    <3>3. rank(i) < rank(z) /\ r[z] <= r[i]
      BY <2>6, <2>7, <2>10, <3>2, RankFacts
    <3>4. r[z] = rank(z) /\ r[i] = rank(i) /\ rank(z) \in 0 .. function.n /\ rank(i) \in 0 .. function.n
      BY <2>0, <2>7, <2>10
    <3> QED
      BY <1>0, <3>3, <3>4
  <2>12. ~Strict(z)
    <3> SUFFICES ASSUME z # b, OnEveryPath(z, b) PROVE FALSE
      OBVIOUS
    <3>1. OnEveryPath(y, b)
      BY <1>0, <2>7, PathsTransitive
    <3>2. y = b
      BY <2>2, <3>1
    <3> QED
      BY <1>0, <2>7, <3>2, PathsAntisymmetric
  <2>13. z \in T
    BY <2>7, <2>12
  <2>14. rank(y) < rank(z)
    BY <2>2, <2>7, RankFacts
  <2>15. z \in S
    <3> SUFFICES ASSUME z \notin S PROVE FALSE
      OBVIOUS
    <3>1. r[z] <= r[y]
      BY <2>1, <2>13
    <3>2. r[z] = rank(z) /\ r[y] = rank(y) /\ rank(z) \in 0 .. function.n /\ rank(y) \in 0 .. function.n
      BY <2>0, <2>2, <2>7
    <3> QED
      BY <1>0, <2>14, <3>1, <3>2
  <2> QED
    BY <1>8, <2>2, <2>3, <2>9, <2>11, <2>15 DEF Climbs
<1>9. T \in SUBSET Blocks(function)
  BY <1>0
<1>10. x \in Walk(p, b) <=> x \in T
  <2> HIDE DEF T
  <2> QED
    BY <1>0, <1>7, <1>8, <1>9 DEF Walk
<1> QED
  BY <1>10

\* The tree and the frontiers are what SSA construction takes them for.
LEMMA ExactFrontiers ==
    ASSUME Inv, TreeInv
    PROVE  FrontierExact
<1> SUFFICES ASSUME phase \in {"loops", "liveness", "ready"} PROVE FrontierExact
  BY DEF FrontierExact
<1>0. HasTree /\ reachable \subseteq Blocks(function)
  BY DEF HasTree, Inv, Typed
<1>1. ASSUME NEW b \in reachable \ {function.entry}
      PROVE  LET parent == immediate_dominator[b]
             IN  /\ parent # b /\ OnEveryPath(parent, b)
                 /\ \A d \in Blocks(function) \ {b} : OnEveryPath(d, b) => OnEveryPath(d, parent)
  BY <1>0, ParentFacts
<1>2. ASSUME NEW x \in reachable, NEW b \in reachable, Cardinality(Predecessors(b)) > 1
      PROVE  b \in frontier[x] <=> /\ \E p \in Incoming(b) : OnEveryPath(x, p)
                                   /\ x = b \/ ~OnEveryPath(x, b)
  <2>1. b \in frontier[x] <=> \E p \in Incoming(b) : x \in Walk(p, b)
    BY <1>0, <1>2 DEF TreeInv
  <2>2. \A p \in Incoming(b) : x \in Walk(p, b) <=> OnEveryPath(x, p) /\ (x = b \/ ~OnEveryPath(x, b))
    BY <1>0, WalkFacts
  <2> QED
    BY <2>1, <2>2
<1> QED
  BY <1>1, <1>2 DEF FrontierExact

-----------------------------------------------------------------------------
\* What is still to be followed for the loop of h.
Pending(h) == IF h = header THEN work ELSE {}

\* The latches of h whose back edges have been taken so far.
TakenLatches(h) == {b \in reachable : <<b, h>> \in BackEdges \ backedges}

\* The loop of h, as far as it has been built: it holds nothing that does not
\* reach a latch around h, and what it misses is pending.
LoopPart(h) ==
    /\ natural[h].latches = TakenLatches(h)
    /\ natural[h].blocks # {} <=> natural[h].latches # {}
    /\ natural[h].latches # {} => h \in natural[h].blocks
    /\ natural[h].latches \subseteq natural[h].blocks \cup Pending(h)
    /\ \A x \in natural[h].blocks \ {h} : Incoming(x) \subseteq natural[h].blocks \cup Pending(h)
    /\ \A x \in (natural[h].blocks \cup Pending(h)) \ {h} :
          x \in reachable /\ \E b \in natural[h].latches : ReachesAround(x, b, h)

LoopInv ==
    /\ natural \in [Blocks(function) -> [blocks : SUBSET Blocks(function),
                                         latches : SUBSET Blocks(function)]]
    /\ phase \in {"begin", "reach", "dominators", "frontier"} =>
          \A h \in Blocks(function) : natural[h].blocks = {} /\ natural[h].latches = {}
    /\ phase \in {"dominators", "frontier"} => work = {}
    /\ phase \in {"loops", "liveness", "ready"} =>
          /\ backedges \subseteq BackEdges
          /\ work # {} => header \in Blocks(function) /\ natural[header].latches # {}
          /\ \A h \in Blocks(function) : LoopPart(h)
    /\ phase \in {"liveness", "ready"} =>
          /\ work = {} /\ backedges = {}
          /\ \A b \in Blocks(function) :
                loop_depth[b] = Cardinality({h \in Blocks(function) : b \in natural[h].blocks})

\* What a block's predecessors reach around h, if the block itself does.
LEMMA AroundBackwards ==
    ASSUME Typed, NEW x, NEW b, NEW h, ReachesAround(x, b, h), x # h, NEW p \in Incoming(x)
    PROVE  p \in reachable /\ ReachesAround(p, b, h)
<1>1. p \in reachable /\ x \in successors[p]
  BY DEF Incoming, Predecessors
<1>2. ASSUME NEW S \in SUBSET Blocks(function), p \in S,
             \A c \in S \ {b} : successors[c] \ {h} \subseteq S
      PROVE  b \in S
  <2>1. CASE p = b
    BY <1>2, <2>1
  <2>2. CASE p # b
    <3>1. x \in S
      BY <1>1, <1>2, <2>2
    <3> QED
      BY <1>2, <3>1 DEF ReachesAround
  <2> QED
    BY <2>1, <2>2
<1> QED
  BY <1>1, <1>2 DEF ReachesAround

\* The next back edge joins the loop of its header.
LEMMA OpenLoopStep ==
    ASSUME Typed, LoopInv, OpenLoop
    PROVE  LoopInv'
<1> USE DEF graphVars, treeVars, loopVars, liveVars, roundVars
<1>1. /\ phase = "loops" /\ phase' = "loops" /\ work = {} /\ function' = function
      /\ successors' = successors /\ reachable' = reachable /\ m_dominators' = m_dominators
  BY DEF OpenLoop
<1>2. PICK e \in backedges :
         /\ backedges' = backedges \ {e}
         /\ natural' = [natural EXCEPT ![e[2]].blocks = @ \cup {e[2]}, ![e[2]].latches = @ \cup {e[1]}]
         /\ header' = e[2] /\ work' = {e[1]}
  BY DEF OpenLoop
<1>3. BackEdges' = BackEdges /\ \A x : Incoming(x)' = Incoming(x)
  BY <1>1 DEF BackEdges, dominates, Incoming, Predecessors, Blocks
<1>4. PICK l, g : l = e[1] /\ g = e[2]
  OBVIOUS
<1>5. e \in BackEdges /\ backedges \subseteq BackEdges
  BY <1>1, <1>2 DEF LoopInv
<1>6. e = <<l, g>> /\ l \in reachable /\ g \in reachable
  BY <1>4, <1>5 DEF BackEdges
<1>7. l \in Blocks(function) /\ g \in Blocks(function)
  BY <1>6 DEF Typed
<1>8. natural \in [Blocks(function) -> [blocks : SUBSET Blocks(function),
                                        latches : SUBSET Blocks(function)]]
  BY DEF LoopInv
<1>9. /\ natural' \in [Blocks(function) -> [blocks : SUBSET Blocks(function),
                                            latches : SUBSET Blocks(function)]]
      /\ natural'[g].blocks = natural[g].blocks \cup {g}
      /\ natural'[g].latches = natural[g].latches \cup {l}
      /\ \A h \in Blocks(function) \ {g} : natural'[h] = natural[h]
  BY <1>2, <1>4, <1>7, <1>8
<1>10. \A h \in Blocks(function) : Pending(h) = {} /\ Pending(h)' = IF h = g THEN {l} ELSE {}
  BY <1>1, <1>2, <1>4 DEF Pending
<1>11. \A x, b, h : ReachesAround(x, b, h)' <=> ReachesAround(x, b, h)
  BY <1>1 DEF ReachesAround, Blocks
<1>12. \A h \in Blocks(function) : TakenLatches(h)' = TakenLatches(h) \cup (IF h = g THEN {l} ELSE {})
  <2>1. \A h : TakenLatches(h)' = {b \in reachable : <<b, h>> \in BackEdges \ (backedges \ {<<l, g>>})}
    BY <1>1, <1>2, <1>3, <1>6 DEF TakenLatches
  <2> QED
    BY <1>5, <1>6, <2>1 DEF TakenLatches
<1>13. ASSUME NEW h \in Blocks(function) PROVE LoopPart(h)'
  <2>1. LoopPart(h)
    BY <1>1 DEF LoopInv
  <2>2. CASE h # g
    <3>1. natural'[h] = natural[h] /\ Pending(h)' = Pending(h) /\ TakenLatches(h)' = TakenLatches(h)
      <4>1. natural'[h] = natural[h] /\ Pending(h)' = Pending(h)
        BY <1>9, <1>10, <2>2
      <4>2. TakenLatches(h)' = TakenLatches(h)
        BY <1>12, <2>2
      <4> QED
        BY <4>1, <4>2
    <3> QED
      BY <1>1, <1>3, <1>11, <2>1, <3>1 DEF LoopPart
  <2>3. CASE h = g
    <3>1. /\ natural'[h].blocks = natural[h].blocks \cup {h}
          /\ natural'[h].latches = natural[h].latches \cup {l}
          /\ Pending(h) = {} /\ Pending(h)' = {l}
      BY <1>9, <1>10, <2>3
    <3>2. ReachesAround(l, l, h)
      BY DEF ReachesAround
    <3>3. natural'[h].latches = TakenLatches(h)'
      BY <1>12, <2>1, <2>3, <3>1 DEF LoopPart
    <3>4. /\ natural'[h].blocks # {} <=> natural'[h].latches # {}
          /\ natural'[h].latches # {} => h \in natural'[h].blocks
          /\ natural'[h].latches \subseteq natural'[h].blocks \cup Pending(h)'
      BY <2>1, <3>1 DEF LoopPart
    <3>5. \A x \in natural'[h].blocks \ {h} : Incoming(x)' \subseteq natural'[h].blocks \cup Pending(h)'
      BY <1>3, <2>1, <3>1 DEF LoopPart
    <3>6. \A x \in (natural'[h].blocks \cup Pending(h)') \ {h} :
             x \in reachable /\ \E b \in natural'[h].latches : ReachesAround(x, b, h)
      BY <1>6, <2>1, <3>1, <3>2 DEF LoopPart
    <3> QED
      BY <1>1, <1>11, <3>3, <3>4, <3>5, <3>6 DEF LoopPart
  <2> QED
    BY <2>2, <2>3
<1>14. backedges' \subseteq BackEdges' /\ header' \in Blocks(function) /\ natural'[header'].latches # {}
  BY <1>2, <1>3, <1>4, <1>5, <1>7, <1>9
<1> QED
  BY <1>1, <1>9, <1>13, <1>14 DEF LoopInv, Blocks

\* One pop of the worklist that fills a loop.
LEMMA GrowLoopStep ==
    ASSUME Typed, LoopInv, GrowLoop
    PROVE  LoopInv'
<1> USE DEF graphVars, treeVars, loopVars, liveVars, roundVars
<1>1. /\ phase = "loops" /\ phase' = "loops" /\ function' = function /\ header' = header
      /\ successors' = successors /\ reachable' = reachable /\ m_dominators' = m_dominators
      /\ backedges' = backedges
  BY DEF GrowLoop
<1>2. PICK c \in work :
         IF c \in natural[header].blocks
         THEN work' = work \ {c} /\ UNCHANGED natural
         ELSE /\ natural' = [natural EXCEPT ![header].blocks = @ \cup {c}]
              /\ work' = (work \ {c}) \cup Incoming(c)
  BY DEF GrowLoop
<1>3. BackEdges' = BackEdges /\ \A x : Incoming(x)' = Incoming(x)
  BY <1>1 DEF BackEdges, dominates, Incoming, Predecessors, Blocks
<1>4. backedges \subseteq BackEdges /\ header \in Blocks(function) /\ natural[header].latches # {}
  BY <1>1, <1>2 DEF LoopInv
<1>5. natural \in [Blocks(function) -> [blocks : SUBSET Blocks(function),
                                        latches : SUBSET Blocks(function)]]
  BY DEF LoopInv
<1>6. LoopPart(header) /\ Pending(header) = work /\ Pending(header)' = work'
  BY <1>1, <1>4 DEF LoopInv, Pending
<1>7. c = header \/ (c \in reachable /\ \E b \in natural[header].latches : ReachesAround(c, b, header))
  BY <1>6 DEF LoopPart
<1>8. header \in natural[header].blocks
  BY <1>4, <1>6 DEF LoopPart
<1>9. c \in Blocks(function)
  BY <1>4, <1>7 DEF Typed
<1>10. /\ natural' \in [Blocks(function) -> [blocks : SUBSET Blocks(function),
                                             latches : SUBSET Blocks(function)]]
       /\ natural'[header].blocks = natural[header].blocks \cup {c}
       /\ natural'[header].latches = natural[header].latches
       /\ \A h \in Blocks(function) \ {header} : natural'[h] = natural[h]
  <2>1. CASE c \in natural[header].blocks
    BY <1>2, <1>5, <2>1
  <2>2. CASE c \notin natural[header].blocks
    BY <1>2, <1>4, <1>5, <1>9, <2>2
  <2> QED
    BY <2>1, <2>2
<1>11. \A x, b, h : ReachesAround(x, b, h)' <=> ReachesAround(x, b, h)
  BY <1>1 DEF ReachesAround, Blocks
<1>12. \A h : TakenLatches(h)' = TakenLatches(h)
  BY <1>1, <1>3 DEF TakenLatches
<1>13. ASSUME NEW h \in Blocks(function) PROVE LoopPart(h)'
  <2>1. LoopPart(h)
    BY <1>1 DEF LoopInv
  <2>2. CASE h # header
    <3>1. natural'[h] = natural[h] /\ Pending(h)' = Pending(h)
      BY <1>1, <1>10, <2>2 DEF Pending
    <3> QED
      BY <1>1, <1>3, <1>11, <1>12, <2>1, <3>1 DEF LoopPart
  <2>3. CASE h = header
    <3>1. /\ natural'[h].blocks = natural[h].blocks \cup {c}
          /\ natural'[h].latches = natural[h].latches /\ h \in natural[h].blocks
          /\ Pending(h) = work /\ Pending(h)' = work'
      BY <1>1, <1>8, <1>10, <2>3 DEF Pending
    <3>2. work \ {c} \subseteq work' /\ work' \subseteq work \cup Incoming(c)
      BY <1>2
    <3>3. c \notin natural[h].blocks => Incoming(c) \subseteq work' /\ c # h
      BY <1>2, <1>8, <2>3
    <3>4. c \in natural[h].blocks => work' = work \ {c}
      BY <1>2, <2>3
    <3>5. /\ natural'[h].latches = TakenLatches(h)'
          /\ natural'[h].blocks # {} <=> natural'[h].latches # {}
          /\ natural'[h].latches # {} => h \in natural'[h].blocks
          /\ natural'[h].latches \subseteq natural'[h].blocks \cup Pending(h)'
      BY <1>4, <1>12, <2>1, <2>3, <3>1, <3>2 DEF LoopPart
    <3>6. ASSUME NEW x \in natural'[h].blocks \ {h}
          PROVE  Incoming(x) \subseteq natural'[h].blocks \cup Pending(h)'
      <4>1. CASE x \in natural[h].blocks
        BY <2>1, <3>1, <3>2, <3>6, <4>1 DEF LoopPart
      <4>2. CASE x \notin natural[h].blocks
        BY <3>1, <3>3, <3>6, <4>2
      <4> QED
        BY <4>1, <4>2
    <3>7. ASSUME NEW x \in (natural'[h].blocks \cup Pending(h)') \ {h}
          PROVE  x \in reachable /\ \E b \in natural[h].latches : ReachesAround(x, b, h)
      <4>1. CASE x \in natural[h].blocks \cup work
        BY <2>1, <3>1, <3>7, <4>1 DEF LoopPart
      <4>2. CASE x \notin natural[h].blocks \cup work
        <5>1. x \in Incoming(c) /\ c # h
          BY <3>1, <3>2, <3>3, <3>4, <3>7, <4>2
        <5>2. PICK b \in natural[h].latches : ReachesAround(c, b, h)
          BY <1>7, <2>3, <5>1
        <5> QED
          BY <5>1, <5>2, AroundBackwards
      <4> QED
        BY <4>1, <4>2
    <3> QED
      BY <1>1, <1>3, <1>11, <3>1, <3>5, <3>6, <3>7 DEF LoopPart
  <2> QED
    BY <2>2, <2>3
<1>14. backedges' \subseteq BackEdges' /\ header' \in Blocks(function) /\ natural'[header'].latches # {}
  BY <1>1, <1>3, <1>4, <1>10
<1> QED
  BY <1>1, <1>10, <1>13, <1>14 DEF LoopInv, Blocks

\* Every step of the analysis keeps the loop invariant.
LEMMA LoopStep ==
    ASSUME Typed, LoopInv, Next
    PROVE  LoopInv'
<1> USE DEF graphVars, treeVars, loopVars, liveVars, roundVars
<1>1. CASE Begin \/ Visit \/ StartDominators \/ DominatorRound \/ DominatorBlock \/ BuildTree
  <2>1. /\ phase \in {"begin", "reach", "dominators"}
        /\ phase' \in {"reach", "dominators", "frontier", "rejected"}
        /\ function' = function /\ natural' = natural
    BY <1>1 DEF Begin, Visit, StartDominators, DominatorRound, DominatorBlock, BuildTree
  <2>2. phase' \in {"dominators", "frontier"} => work' = {}
    <3>1. CASE Begin \/ Visit
      BY <3>1 DEF Begin, Visit
    <3>2. CASE StartDominators
      BY <3>2 DEF StartDominators
    <3>3. CASE DominatorRound \/ DominatorBlock \/ BuildTree
      <4>1. phase = "dominators" /\ work' = work
        BY <3>3 DEF DominatorRound, DominatorBlock, BuildTree
      <4> QED
        BY <4>1 DEF LoopInv
    <3> QED
      BY <1>1, <3>1, <3>2, <3>3
  <2> QED
    BY <2>1, <2>2 DEF LoopInv, Blocks
<1>2. CASE BuildFrontier
  <2>1. /\ phase = "frontier" /\ phase' = "loops" /\ function' = function /\ natural' = natural
        /\ successors' = successors /\ reachable' = reachable /\ m_dominators' = m_dominators
        /\ backedges' = BackEdges /\ work' = work
    BY <1>2 DEF BuildFrontier
  <2>2. BackEdges' = BackEdges
    BY <2>1 DEF BackEdges, dominates
  <2>3. work' = {} /\ \A h \in Blocks(function) : natural[h].blocks = {} /\ natural[h].latches = {}
    BY <2>1 DEF LoopInv
  <2>4. ASSUME NEW h \in Blocks(function) PROVE LoopPart(h)'
    <3>1. TakenLatches(h)' = {} /\ Pending(h)' = {}
      BY <2>1, <2>2, <2>3 DEF TakenLatches, Pending
    <3>2. natural'[h].blocks = {} /\ natural'[h].latches = {}
      BY <2>1, <2>3
    <3> QED
      BY <3>1, <3>2 DEF LoopPart
  <2> QED
    BY <2>1, <2>2, <2>3, <2>4 DEF LoopInv, Blocks
<1>3. CASE StartLiveness \/ LivenessRound \/ LivenessBlock \/ Finish
  <2>1. /\ phase \in {"loops", "liveness"} /\ phase' \in {"liveness", "ready", "rejected"}
        /\ function' = function /\ natural' = natural /\ header' = header
        /\ successors' = successors /\ reachable' = reachable /\ m_dominators' = m_dominators
        /\ backedges' = backedges /\ work' = work
    BY <1>3 DEF StartLiveness, LivenessRound, LivenessBlock, Finish
  <2>2. work = {} /\ backedges = {}
    BY <1>3 DEF StartLiveness, LivenessRound, LivenessBlock, Finish, LoopInv
  <2>3. BackEdges' = BackEdges /\ \A x : Incoming(x)' = Incoming(x)
    BY <2>1 DEF BackEdges, dominates, Incoming, Predecessors, Blocks
  <2>4. \A x, b, h : ReachesAround(x, b, h)' <=> ReachesAround(x, b, h)
    BY <2>1 DEF ReachesAround, Blocks
  <2>5. \A h : TakenLatches(h)' = TakenLatches(h) /\ Pending(h)' = Pending(h)
    BY <2>1, <2>3 DEF TakenLatches, Pending
  <2>6. \A h \in Blocks(function) : LoopPart(h)'
    <3>1. \A h \in Blocks(function) : LoopPart(h)
      BY <2>1 DEF LoopInv
    <3> QED
      BY <2>1, <2>3, <2>4, <2>5, <3>1 DEF LoopPart
  <2>7. phase' \in {"liveness", "ready"} => \A b \in Blocks(function) :
           loop_depth'[b] = Cardinality({h \in Blocks(function) : b \in natural[h].blocks})
    <3>1. CASE StartLiveness
      BY <3>1 DEF StartLiveness
    <3>2. CASE LivenessRound \/ LivenessBlock \/ Finish
      BY <3>2 DEF LivenessRound, LivenessBlock, Finish, LoopInv
    <3> QED
      BY <1>3, <3>1, <3>2
  <2> QED
    BY <2>1, <2>2, <2>3, <2>6, <2>7 DEF LoopInv, Blocks
<1> QED
  BY <1>1, <1>2, <1>3, OpenLoopStep, GrowLoopStep DEF Next

\* Nothing is recorded before the constructor runs.
LEMMA FreshStructure ==
    ASSUME Fresh
    PROVE  TreeInv /\ LoopInv
BY DEF Fresh, LoopInv, TreeInv, HasTree

\* A finished loop holds every reachable block that reaches a latch around the
\* header: those it misses would be a set that control cannot leave.
LEMMA ExactLoops ==
    ASSUME Inv, LoopInv
    PROVE  LoopsExact
<1> SUFFICES ASSUME phase \in {"liveness", "ready"} PROVE LoopsExact
  BY DEF LoopsExact
<1>0. /\ HasTree /\ reachable \subseteq Blocks(function) /\ Closed(reachable) /\ Typed
      /\ work = {} /\ backedges = {}
  BY DEF HasTree, Inv, Typed, LoopInv, ReachInv, Reached
<1>1. ASSUME NEW h \in Blocks(function)
      PROVE  LET latches == {b \in reachable : h \in successors[b] /\ OnEveryPath(h, b)}
             IN  /\ natural[h].latches = latches
                 /\ natural[h].blocks =
                       IF latches = {} THEN {}
                       ELSE {h} \cup {x \in reachable \ {h} : \E b \in latches : ReachesAround(x, b, h)}
  <2> DEFINE latches == {b \in reachable : h \in successors[b] /\ OnEveryPath(h, b)}
  <2>1. LoopPart(h) /\ Pending(h) = {}
    BY <1>0 DEF LoopInv, Pending
  <2>2. \A b \in reachable : dominates(h, b) <=> OnEveryPath(h, b)
    BY <1>0, ExactDominators DEF DominatorsExact
  <2>3. TakenLatches(h) = latches
    <3>1. \A b \in reachable : <<b, h>> \in BackEdges <=> h \in successors[b] /\ dominates(h, b)
      BY <1>0 DEF BackEdges, Closed
    <3> QED
      BY <1>0, <2>2, <3>1 DEF TakenLatches
  <2>4. natural[h].latches = latches
    BY <2>1, <2>3 DEF LoopPart
  <2> HIDE DEF latches
  <2>5. ASSUME NEW x \in reachable \ {h}, NEW b \in latches, ReachesAround(x, b, h),
               x \notin natural[h].blocks
        PROVE  FALSE
    <3> DEFINE S == reachable \ natural[h].blocks
    <3>1. ASSUME NEW c \in S, NEW s \in successors[c], s # h PROVE s \in S
      <4>1. s \in reachable /\ c \in Incoming(s)
        BY <1>0 DEF Closed, Incoming, Predecessors
      <4> QED
        BY <2>1, <3>1, <4>1 DEF LoopPart
    <3>2. b \in S
      BY <1>0, <2>5, <3>1 DEF ReachesAround
    <3> QED
      BY <2>1, <2>4, <3>2 DEF LoopPart
  <2>6. natural[h].blocks = IF latches = {} THEN {}
                            ELSE {h} \cup {x \in reachable \ {h} : \E b \in latches : ReachesAround(x, b, h)}
    <3>1. CASE latches = {}
      BY <2>1, <2>4, <3>1 DEF LoopPart
    <3>2. CASE latches # {}
      <4>1. h \in natural[h].blocks
        BY <2>1, <2>4, <3>2 DEF LoopPart
      <4>2. \A x \in natural[h].blocks \ {h} :
               x \in reachable /\ \E b \in latches : ReachesAround(x, b, h)
        BY <2>1, <2>4 DEF LoopPart
      <4> QED
        BY <2>5, <3>2, <4>1, <4>2
    <3> QED
      BY <3>1, <3>2
  <2> QED
    BY <2>4, <2>6 DEF latches
<1>2. \A b \in Blocks(function) :
         loop_depth[b] = Cardinality({h \in Blocks(function) : b \in natural[h].blocks})
  BY DEF LoopInv
<1> QED
  BY <1>1, <1>2 DEF LoopsExact

\* A step of something else keeps the tree and the loops.
LEMMA StructureKept ==
    ASSUME TreeInv, LoopInv, UNCHANGED vars
    PROVE  TreeInv' /\ LoopInv'
<1>1. /\ function' = function /\ phase' = phase /\ successors' = successors
      /\ reachable' = reachable /\ m_dominators' = m_dominators
      /\ immediate_dominator' = immediate_dominator /\ frontier' = frontier
      /\ natural' = natural /\ loop_depth' = loop_depth /\ header' = header
      /\ backedges' = backedges /\ work' = work
  BY DEF vars, graphVars, treeVars, loopVars, liveVars, roundVars
<1>2. \A b : Parent(b)' = Parent(b)
  BY <1>1 DEF Parent, dominates, rank, Blocks
<1>3. \A b : Predecessors(b)' = Predecessors(b) /\ Incoming(b)' = Incoming(b)
  BY <1>1 DEF Predecessors, Incoming, Blocks
<1>4. \A p, b : Walk(p, b)' = Walk(p, b)
  BY <1>1 DEF Walk, Climbs, Stops, Blocks
<1>5. TreeInv'
  BY <1>1, <1>2, <1>3, <1>4 DEF TreeInv, HasTree, Blocks
<1>6. BackEdges' = BackEdges
  BY <1>1 DEF BackEdges, dominates
<1>7. \A x, b, h : ReachesAround(x, b, h)' <=> ReachesAround(x, b, h)
  BY <1>1 DEF ReachesAround, Blocks
<1>8. \A h : TakenLatches(h)' = TakenLatches(h) /\ Pending(h)' = Pending(h)
  BY <1>1, <1>6 DEF TakenLatches, Pending
<1>9. \A h : LoopPart(h)' <=> LoopPart(h)
  BY <1>1, <1>3, <1>7, <1>8 DEF LoopPart
<1>10. LoopInv'
  BY <1>1, <1>6, <1>9 DEF LoopInv, Blocks
<1> QED
  BY <1>5, <1>10

\* Every reachable state satisfies the invariants of the tree and of the loops.
THEOREM StructureInvariant == Spec => [](Inv /\ TreeInv /\ LoopInv)
<1>1. Init => TreeInv /\ LoopInv
  <2>1. Init => Fresh
    BY DEF Init, Fresh
  <2> QED
    BY <2>1, FreshStructure
<1>2. Inv /\ TreeInv /\ LoopInv /\ [Next]_vars => TreeInv' /\ LoopInv'
  BY StructureKept, TreeStep, LoopStep DEF Inv
<1> QED
  BY <1>1, <1>2, AnalysisInvariant, PTL DEF Spec

\* The dominator tree and the dominance frontiers are those of the paths, for
\* every function: SSA construction puts a PHI exactly where a join can be
\* reached both through a definition and around it.
THEOREM FrontiersAreExact == Spec => []FrontierExact
<1>1. Inv /\ TreeInv => FrontierExact
  BY ExactFrontiers
<1> QED
  BY <1>1, StructureInvariant, PTL

\* The loops and the loop depths are those of the paths, for every function and
\* every order in which the back edges and the worklist are taken: code motion
\* leaves no block of a loop behind, and spill weights count every loop.
THEOREM LoopsAreExact == Spec => []LoopsExact
<1>1. Inv /\ LoopInv => LoopsExact
  BY ExactLoops
<1> QED
  BY <1>1, StructureInvariant, PTL
=============================================================================
