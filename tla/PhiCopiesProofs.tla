-------------------------- MODULE PhiCopiesProofs ---------------------------
(***************************************************************************)
(* For every list of PHIs and every assignment of registers and slots: the *)
(* moves emitted one after the other are one parallel copy that leaves the *)
(* stack balanced, and R6 is written only on edges for which that was      *)
(* predicted.  The heart is a counting argument: when no move is ready,    *)
(* every pending move reads the destination of exactly one other, so none  *)
(* is saved and one value in R6 or on the stack opens the cycle.           *)
(***************************************************************************)
EXTENDS PhiCopies, FiniteSetTheorems, WellFoundedInduction, TLAPS

Value == Home \cup Literal \cup {R0, R6}

\* Pending moves are moves of this edge, saved ones are pending.
PhiTypes ==
    /\ phis \in Edges /\ moves \subseteq Moves(phis) /\ saved \subseteq moves
    /\ register_only \in BOOLEAN /\ register_only = RegisterOnly(phis)
    /\ mem \in [Home \cup {R0, R6} -> Value] /\ stack \in Seq(Value)

\* A result holds its operand's old value once its move is emitted, and its
\* own until then; no other home changes.
HomesSoFar ==
    /\ \A k \in 1 .. Len(phis) : mem[dst(k)] = IF k \in moves THEN dst(k) ELSE src(k)
    /\ \A l \in Home : (\A k \in 1 .. Len(phis) : dst(k) # l) => mem[l] = l

\* What an unsaved move will read is still there.
SourcesIntact == \A k \in moves \ saved : src(k) \in Home => mem[src(k)] = src(k)

\* At most one move is saved, and its value is in R6 or alone on the stack.
OneSaved ==
    /\ \A j, k \in saved : j = k
    /\ \A k \in saved : /\ src(k) \in Home
                        /\ register_only => mem[R6] = src(k)
                        /\ ~register_only => stack = <<src(k)>>
    /\ register_only \/ saved = {} => stack = <<>>

CopyInv == PhiTypes /\ HomesSoFar /\ SourcesIntact /\ OneSaved /\ R6Predicted

-----------------------------------------------------------------------------
\* A PHI list of an edge: positions, homes and distinct results.
LEMMA EdgeFacts ==
    ASSUME PhiTypes
    PROVE  /\ phis \in Seq(Phi) /\ Len(phis) \in Nat /\ moves \subseteq 1 .. Len(phis)
           /\ \A k \in 1 .. Len(phis) : dst(k) \in Home /\ src(k) \in Home \cup Literal
           /\ \A j, k \in 1 .. Len(phis) : dst(j) = dst(k) => j = k
           /\ \A k \in moves : dst(k) # src(k)
           /\ IsFiniteSet(moves)
<1>1. phis \in Seq(Phi) /\ Distinct(phis)
  BY PhiAssumption DEF PhiTypes
<1>2. Len(phis) \in Nat /\ moves \subseteq 1 .. Len(phis) /\ \A k \in moves : dst(k) # src(k)
  BY <1>1 DEF PhiTypes, Moves, dst, src
<1>3. \A k \in 1 .. Len(phis) : dst(k) \in Home /\ src(k) \in Home \cup Literal
  <2>1. \A k \in 1 .. Len(phis) : phis[k] \in Phi
    BY <1>1
  <2> QED
    BY <2>1 DEF Phi, dst, src
<1>4. \A j, k \in 1 .. Len(phis) : dst(j) = dst(k) => j = k
  BY <1>1 DEF Distinct, dst
<1>5. IsFiniteSet(moves)
  <2>1. IsFiniteSet(1 .. Len(phis))
    BY <1>2, FS_Interval
  <2> QED
    BY <1>2, <2>1, FS_Subset
<1> QED
  BY <1>1, <1>2, <1>3, <1>4, <1>5

\* When every pending move waits, all of them are unsaved and the destination
\* of each is read by exactly one.
LEMMA StuckIsPermutation ==
    ASSUME PhiTypes, Stuck
    PROVE  saved = {} /\ \A m \in moves : \E r \in moves : Readers(dst(m)) = {r}
<1>1. /\ moves \subseteq 1 .. Len(phis) /\ IsFiniteSet(moves) /\ saved \subseteq moves
      /\ \A j, k \in 1 .. Len(phis) : dst(j) = dst(k) => j = k
  BY EdgeFacts DEF PhiTypes
<1>2. \A m \in moves : \E k \in moves \ saved : dst(m) = src(k)
  BY DEF Stuck, Needed
<1> DEFINE f == [m \in moves |-> CHOOSE k \in moves \ saved : dst(m) = src(k)]
<1>3. \A m \in moves : f[m] \in moves \ saved /\ dst(m) = src(f[m])
  BY <1>2
<1> HIDE DEF f
<1>4. f \in [moves -> moves]
  BY <1>3 DEF f
<1>5. \A j, k \in moves : f[j] = f[k] => j = k
  BY <1>1, <1>3
<1>6. f \in Injection(moves, moves)
  BY <1>4, <1>5 DEF Injection, IsInjective
<1>7. f \in Surjection(moves, moves)
  BY <1>1, <1>6, FS_Injection
<1>8. \A k \in moves : \E m \in moves : f[m] = k
  BY <1>7 DEF Surjection
<1>9. saved = {}
  BY <1>1, <1>3, <1>8
<1>10. ASSUME NEW m \in moves PROVE Readers(dst(m)) = {f[m]}
  <2>1. f[m] \in Readers(dst(m))
    BY <1>3 DEF Readers
  <2>2. ASSUME NEW k \in Readers(dst(m)) PROVE k = f[m]
    <3>1. PICK x \in moves : f[x] = k
      BY <1>8 DEF Readers
    <3>2. dst(x) = dst(m)
      BY <1>3, <3>1 DEF Readers
    <3> QED
      BY <1>1, <3>1, <3>2
  <2> QED
    BY <2>1, <2>2
<1> QED
  BY <1>3, <1>9, <1>10

\* The first pending move exists.
LEMMA FirstPending ==
    ASSUME PhiTypes, moves # {}
    PROVE  First \in moves
<1> DEFINE R == OpToRel(<, Nat)
<1>1. moves \subseteq Nat
  BY EdgeFacts
<1>2. IsWellFoundedOn(R, Nat)
  BY NatLessThanWellFounded
<1>3. \A i, j \in Nat : <<j, i>> \notin R => i <= j
  BY DEF OpToRel
<1> HIDE DEF R
<1>4. \E i \in moves : \A j \in moves : <<j, i>> \notin R
  BY <1>1, <1>2, WFMin
<1>5. \E m \in moves : \A k \in moves : m <= k
  BY <1>1, <1>3, <1>4
<1> QED
  BY <1>5 DEF First

\* A register-only cycle is one the prediction sees: the moves that wait for
\* each other are moves of the edge.
LEMMA StuckIsCyclic ==
    ASSUME PhiTypes, Stuck
    PROVE  Cyclic(phis)
<1>1. moves \in SUBSET Moves(phis) /\ moves # {}
  BY DEF PhiTypes, Stuck
<1>2. \A m \in moves : \E k \in moves \ {m} : phis[m].result = phis[k].operand
  BY DEF Stuck, Needed, dst, src
<1> QED
  BY <1>1, <1>2 DEF Cyclic

-----------------------------------------------------------------------------
\* Before the first move every home holds its own value.
LEMMA InitCopyInv == Init => CopyInv
<1> SUFFICES ASSUME Init PROVE CopyInv
  OBVIOUS
<1>1. PhiTypes
  BY DEF Init, PhiTypes, RegisterOnly, Value, Moves
<1>2. /\ Len(phis) \in Nat /\ moves \subseteq 1 .. Len(phis)
      /\ \A k \in 1 .. Len(phis) : dst(k) \in Home /\ src(k) \in Home \cup Literal
  BY <1>1, EdgeFacts
<1>3. \A l \in Home \cup {R0, R6} : mem[l] = l
  BY DEF Init
<1>4. HomesSoFar
  <2>1. \A k \in 1 .. Len(phis) : k \notin moves => dst(k) = src(k)
    BY DEF Init, Moves, dst, src
  <2> QED
    BY <1>2, <1>3, <2>1 DEF HomesSoFar
<1>5. SourcesIntact /\ R6Predicted
  BY <1>3 DEF SourcesIntact, R6Predicted
<1>6. OneSaved
  BY DEF Init, OneSaved
<1> QED
  BY <1>1, <1>4, <1>5, <1>6 DEF CopyInv

\* Opening a cycle saves the one value that the first move will overwrite.
LEMMA BreakCopyInv ==
    ASSUME CopyInv, BreakInRegister \/ BreakOnStack
    PROVE  CopyInv'
<1> USE DEF CopyInv
<1>1. PhiTypes /\ Stuck /\ moves # {}
  BY DEF BreakInRegister, BreakOnStack, Stuck
<1>2. /\ Len(phis) \in Nat /\ moves \subseteq 1 .. Len(phis)
      /\ \A k \in 1 .. Len(phis) : dst(k) \in Home /\ src(k) \in Home \cup Literal
      /\ \A j, k \in 1 .. Len(phis) : dst(j) = dst(k) => j = k
  BY <1>1, EdgeFacts
<1> DEFINE x == dst(First)
<1>3. First \in moves /\ x \in Home /\ mem[x] = x
  <2>1. First \in moves
    BY <1>1, FirstPending
  <2> QED
    BY <1>2, <2>1 DEF HomesSoFar
<1>4. saved = {} /\ stack = <<>>
  BY <1>1, StuckIsPermutation DEF OneSaved
<1>5. PICK r \in moves : Readers(x) = {r}
  BY <1>1, <1>3, StuckIsPermutation
<1>6. src(r) = x
  BY <1>5 DEF Readers
<1>7. /\ saved' = {r} /\ moves' = moves /\ phis' = phis /\ register_only' = register_only
  BY <1>4, <1>5 DEF BreakInRegister, BreakOnStack
<1>8. \A k : dst(k)' = dst(k) /\ src(k)' = src(k)
  BY <1>7 DEF dst, src
<1> HIDE DEF x
<1>9. CASE BreakInRegister
  <2>1. register_only /\ mem' = [mem EXCEPT ![R6] = x] /\ stack' = stack
    BY <1>3, <1>9 DEF BreakInRegister, x
  <2>2. /\ mem' \in [Home \cup {R0, R6} -> Value] /\ mem'[R6] = x
        /\ \A l \in Home : mem'[l] = mem[l]
    BY <1>3, <2>1, PhiAssumption DEF PhiTypes, Value
  <2>3. PhiTypes'
    BY <1>5, <1>7, <2>1, <2>2 DEF PhiTypes
  <2>4. HomesSoFar' /\ SourcesIntact'
    <3>1. \A k \in 1 .. Len(phis) : mem'[dst(k)] = mem[dst(k)]
      BY <1>2, <2>2
    <3>2. HomesSoFar'
      <4>1. \A k \in 1 .. Len(phis) : mem'[dst(k)] = IF k \in moves' THEN dst(k) ELSE src(k)
        BY <1>7, <3>1 DEF HomesSoFar
      <4>2. \A l \in Home : (\A k \in 1 .. Len(phis) : dst(k) # l) => mem'[l] = l
        BY <2>2 DEF HomesSoFar
      <4> QED
        BY <1>7, <1>8, <4>1, <4>2 DEF HomesSoFar
    <3>3. ASSUME NEW k \in moves' \ saved', src(k) \in Home PROVE mem'[src(k)] = src(k)
      BY <1>4, <1>7, <2>2, <3>3 DEF SourcesIntact
    <3> QED
      BY <1>8, <3>2, <3>3 DEF SourcesIntact
  <2>5. OneSaved'
    BY <1>3, <1>4, <1>6, <1>7, <1>8, <2>1, <2>2 DEF OneSaved
  <2>6. phiCopiesUseR6(phis)
    BY <1>1, <2>1, StuckIsCyclic DEF phiCopiesUseR6, PhiTypes
  <2>7. R6Predicted'
    BY <1>7, <2>6 DEF R6Predicted
  <2> QED
    BY <2>3, <2>4, <2>5, <2>7
<1>10. CASE BreakOnStack
  <2>1. Cardinality(Readers(x)) = 1
    BY <1>5, FS_Singleton
  <2>2. /\ ~register_only /\ mem' = [mem EXCEPT ![R0] = x]
        /\ stack' = stack \o [k \in 1 .. Cardinality(Readers(x)) |-> x]
    BY <1>3, <1>10 DEF BreakOnStack, x
  <2>3. stack' = <<x>>
    <3>1. x \in Value /\ [k \in 1 .. 1 |-> x] = <<x>>
      BY <1>3 DEF Value
    <3>2. stack' = <<>> \o <<x>>
      BY <1>4, <2>1, <2>2, <3>1
    <3> QED
      BY <3>2
  <2>4. /\ mem' \in [Home \cup {R0, R6} -> Value] /\ mem'[R6] = mem[R6]
        /\ \A l \in Home : mem'[l] = mem[l]
    BY <1>3, <2>2, PhiAssumption DEF PhiTypes, Value
  <2>5. PhiTypes'
    BY <1>3, <1>5, <1>7, <2>3, <2>4 DEF PhiTypes, Value
  <2>6. HomesSoFar' /\ SourcesIntact'
    <3>1. \A k \in 1 .. Len(phis) : mem'[dst(k)] = mem[dst(k)]
      BY <1>2, <2>4
    <3>2. HomesSoFar'
      <4>1. \A k \in 1 .. Len(phis) : mem'[dst(k)] = IF k \in moves' THEN dst(k) ELSE src(k)
        BY <1>7, <3>1 DEF HomesSoFar
      <4>2. \A l \in Home : (\A k \in 1 .. Len(phis) : dst(k) # l) => mem'[l] = l
        BY <2>4 DEF HomesSoFar
      <4> QED
        BY <1>7, <1>8, <4>1, <4>2 DEF HomesSoFar
    <3>3. ASSUME NEW k \in moves' \ saved', src(k) \in Home PROVE mem'[src(k)] = src(k)
      BY <1>4, <1>7, <2>4, <3>3 DEF SourcesIntact
    <3> QED
      BY <1>8, <3>2, <3>3 DEF SourcesIntact
  <2>7. OneSaved'
    BY <1>3, <1>6, <1>7, <1>8, <2>2, <2>3 DEF OneSaved
  <2>8. R6Predicted'
    BY <1>7, <2>4 DEF R6Predicted
  <2> QED
    BY <2>5, <2>6, <2>7, <2>8
<1> QED
  BY <1>9, <1>10

\* Emitting a ready move destroys nothing that another move will read.
LEMMA EmitCopyInv ==
    ASSUME CopyInv, NEW m \in moves, Ready(m), Erase(m),
           mem' \in [Home \cup {R0, R6} -> Value], stack' \in Seq(Value),
           mem'[dst(m)] = src(m), mem'[R6] = mem[R6],
           \A l \in Home : l # dst(m) => mem'[l] = mem[l],
           stack' = IF m \in saved /\ ~register_only THEN <<>> ELSE stack
    PROVE  CopyInv'
<1> USE DEF CopyInv
<1>1. /\ Len(phis) \in Nat /\ moves \subseteq 1 .. Len(phis)
      /\ \A k \in 1 .. Len(phis) : dst(k) \in Home /\ src(k) \in Home \cup Literal
      /\ \A j, k \in 1 .. Len(phis) : dst(j) = dst(k) => j = k
      /\ \A k \in moves : dst(k) # src(k)
  BY EdgeFacts
<1>2. moves' = moves \ {m} /\ saved' = saved \ {m} /\ phis' = phis /\ register_only' = register_only
  BY DEF Erase
<1>3. \A k : dst(k)' = dst(k) /\ src(k)' = src(k)
  BY <1>2 DEF dst, src
<1>4. PhiTypes'
  BY <1>2 DEF PhiTypes
<1>5. HomesSoFar'
  <2>1. ASSUME NEW k \in 1 .. Len(phis) PROVE mem'[dst(k)] = IF k \in moves' THEN dst(k) ELSE src(k)
    <3>1. CASE k = m
      BY <1>2, <3>1
    <3>2. CASE k # m
      BY <1>1, <1>2, <3>2 DEF HomesSoFar
    <3> QED
      BY <3>1, <3>2
  <2>2. ASSUME NEW l \in Home, \A k \in 1 .. Len(phis) : dst(k) # l PROVE mem'[l] = l
    BY <1>1, <2>2 DEF HomesSoFar
  <2> QED
    BY <1>2, <1>3, <2>1, <2>2 DEF HomesSoFar
<1>6. SourcesIntact'
  <2> SUFFICES ASSUME NEW k \in moves' \ saved', src(k) \in Home PROVE mem'[src(k)] = src(k)
    BY <1>2, <1>3 DEF SourcesIntact
  <2>1. k \in moves \ saved /\ k # m
    BY <1>2
  <2>2. src(k) # dst(m)
    BY <2>1 DEF Ready, Needed
  <2> QED
    BY <2>1, <2>2 DEF SourcesIntact
<1>7. OneSaved'
  BY <1>2, <1>3 DEF OneSaved
<1>8. R6Predicted'
  BY <1>2 DEF R6Predicted
<1> QED
  BY <1>4, <1>5, <1>6, <1>7, <1>8

\* What an unsaved move copies is the old value of its operand.
LEMMA OperandRead ==
    ASSUME CopyInv, NEW m \in moves, m \notin saved
    PROVE  ValueOf(m) = src(m) /\ src(m) \in Value /\ dst(m) \in Home
<1>1. src(m) \in Home \cup Literal /\ dst(m) \in Home
  BY EdgeFacts DEF CopyInv
<1> QED
  BY <1>1 DEF CopyInv, SourcesIntact, ValueOf, Value

\* Every step of the emission preserves the invariant.
LEMMA NextCopyInv == CopyInv /\ [Next]_vars => CopyInv'
<1> SUFFICES ASSUME CopyInv, [Next]_vars PROVE CopyInv'
  OBVIOUS
<1> USE DEF CopyInv
<1>0. /\ mem \in [Home \cup {R0, R6} -> Value] /\ stack \in Seq(Value)
      /\ {R0, R6} \cap Home = {} /\ R0 # R6
  BY PhiAssumption DEF PhiTypes
<1>1. CASE BreakInRegister \/ BreakOnStack
  BY <1>1, BreakCopyInv
<1>2. CASE EmitDirect
  <2>1. PICK m \in moves : /\ Ready(m) /\ Direct(m) /\ Erase(m) /\ stack' = stack
                           /\ mem' = [mem EXCEPT ![dst(m)] = ValueOf(m)]
    BY <1>2 DEF EmitDirect
  <2>2. m \notin saved
    BY <2>1 DEF Direct
  <2>3. ValueOf(m) = src(m) /\ src(m) \in Value /\ dst(m) \in Home
    BY <2>2, OperandRead
  <2>4. /\ mem' \in [Home \cup {R0, R6} -> Value] /\ mem'[dst(m)] = src(m) /\ mem'[R6] = mem[R6]
        /\ \A l \in Home : l # dst(m) => mem'[l] = mem[l]
    BY <1>0, <2>1, <2>3
  <2> QED
    BY <1>0, <2>1, <2>2, <2>4, EmitCopyInv
<1>3. CASE EmitThroughR0
  <2>1. PICK m \in moves : /\ Ready(m) /\ m \notin saved /\ Erase(m) /\ stack' = stack
                           /\ mem' = [mem EXCEPT ![R0] = ValueOf(m), ![dst(m)] = ValueOf(m)]
    BY <1>3 DEF EmitThroughR0
  <2>3. ValueOf(m) = src(m) /\ src(m) \in Value /\ dst(m) \in Home
    BY <2>1, OperandRead
  <2>4. /\ mem' \in [Home \cup {R0, R6} -> Value] /\ mem'[dst(m)] = src(m) /\ mem'[R6] = mem[R6]
        /\ \A l \in Home : l # dst(m) => mem'[l] = mem[l]
    BY <1>0, <2>1, <2>3
  <2> QED
    BY <1>0, <2>1, <2>4, EmitCopyInv
<1>4. CASE EmitFromR6
  <2>1. PICK m \in moves : /\ Ready(m) /\ m \in saved /\ register_only /\ Erase(m) /\ stack' = stack
                           /\ mem' = [mem EXCEPT ![dst(m)] = mem[R6]]
    BY <1>4 DEF EmitFromR6
  <2>2. mem[R6] = src(m) /\ mem[R6] \in Value /\ dst(m) \in Home
    BY <1>0, <2>1, EdgeFacts DEF OneSaved
  <2>4. /\ mem' \in [Home \cup {R0, R6} -> Value] /\ mem'[dst(m)] = src(m) /\ mem'[R6] = mem[R6]
        /\ \A l \in Home : l # dst(m) => mem'[l] = mem[l]
    BY <1>0, <2>1, <2>2
  <2> QED
    BY <1>0, <2>1, <2>4, EmitCopyInv
<1>5. CASE EmitFromStack
  <2>1. PICK m \in moves :
           /\ Ready(m) /\ m \in saved /\ ~register_only /\ Erase(m)
           /\ mem' = [mem EXCEPT ![R0] = stack[Len(stack)], ![dst(m)] = stack[Len(stack)]]
           /\ stack' = SubSeq(stack, 1, Len(stack) - 1)
    BY <1>5 DEF EmitFromStack
  <2>2. stack = <<src(m)>> /\ src(m) \in Value /\ dst(m) \in Home
    BY <2>1, EdgeFacts DEF OneSaved, Value
  <2>3. stack[Len(stack)] = src(m) /\ stack' = <<>>
    BY <2>1, <2>2
  <2>4. /\ mem' \in [Home \cup {R0, R6} -> Value] /\ mem'[dst(m)] = src(m) /\ mem'[R6] = mem[R6]
        /\ \A l \in Home : l # dst(m) => mem'[l] = mem[l]
    BY <1>0, <2>1, <2>2, <2>3
  <2>5. stack' \in Seq(Value)
    BY <2>3
  <2> QED
    BY <2>1, <2>3, <2>4, <2>5, EmitCopyInv
<1>6. CASE UNCHANGED vars
  BY <1>6 DEF vars, PhiTypes, HomesSoFar, SourcesIntact, OneSaved, R6Predicted, dst, src
<1> QED
  BY <1>1, <1>2, <1>3, <1>4, <1>5, <1>6 DEF Next, emitPhiCopies

\* The inductive invariant of the emission.
THEOREM CopyInvariant == Spec => []CopyInv
<1> QED
  BY InitCopyInv, NextCopyInv, PTL DEF Spec

\* R6 changes only on edges for which phiCopiesUseR6 answers yes, whatever the
\* number of PHIs and the order of their moves.
THEOREM R6IsPredicted == Spec => []R6Predicted
<1>1. CopyInv => R6Predicted
  BY DEF CopyInv
<1> QED
  BY <1>1, CopyInvariant, PTL

-----------------------------------------------------------------------------
\* The first state of the emission is a first state of the parallel copy.
LEMMA InitIsAtomic == Init => Atomic!Init
<1> SUFFICES ASSUME Init PROVE Atomic!Init
  OBVIOUS
<1>1. phis \in Seq(Phi) /\ Distinct(phis)
  BY PhiAssumption DEF Init
<1>2. (moves = {}) = \A k \in 1 .. Len(phis) : phis[k].result = phis[k].operand
  BY DEF Init, Moves
<1>3. \A l \in Home : mem[l] = l
  BY DEF Init
<1>4. stack = <<>>
  BY DEF Init
<1> QED
  BY <1>1, <1>2, <1>3, <1>4 DEF Atomic!Init, Phi, Distinct

\* Every step is the parallel copy, if it emits the last move, or a stutter.
LEMMA StepIsAtomic == CopyInv /\ [Next]_vars => [Atomic!Copy]_(Atomic!vars)
<1> SUFFICES ASSUME CopyInv, [Next]_vars PROVE [Atomic!Copy]_(Atomic!vars)
  OBVIOUS
<1>1. CopyInv'
  BY NextCopyInv
<1>2. phis' = phis
  BY DEF Next, emitPhiCopies, BreakInRegister, BreakOnStack, EmitDirect, EmitFromR6,
     EmitFromStack, EmitThroughR0, Erase, vars
<1>3. CASE moves = {}
  <2>1. UNCHANGED vars
    BY <1>3 DEF Next, emitPhiCopies, BreakInRegister, BreakOnStack, Stuck, EmitDirect, EmitFromR6,
       EmitFromStack, EmitThroughR0
  <2> QED
    BY <2>1 DEF vars, Atomic!vars
<1>4. CASE moves # {} /\ moves' # {}
  BY <1>2, <1>4 DEF Atomic!vars
<1>5. CASE moves # {} /\ moves' = {}
  <2>1. stack' = <<>>
    BY <1>1, <1>5 DEF CopyInv, PhiTypes, OneSaved
  <2>2. /\ Len(phis) \in Nat /\ \A k \in 1 .. Len(phis) : dst(k) \in Home
        /\ \A j, k \in 1 .. Len(phis) : dst(j) = dst(k) => j = k
    BY EdgeFacts DEF CopyInv
  <2>3. /\ \A k \in 1 .. Len(phis) : mem'[phis[k].result] = phis[k].operand
        /\ \A l \in Home : (\A k \in 1 .. Len(phis) : phis[k].result # l) => mem'[l] = l
    BY <1>1, <1>2, <1>5 DEF CopyInv, HomesSoFar, dst, src
  <2>4. ASSUME NEW l \in Home
        PROVE  mem'[l] = IF l \in Atomic!Results(phis) THEN Atomic!OperandOf(phis, l) ELSE l
    <3>1. CASE l \in Atomic!Results(phis)
      <4> DEFINE k == CHOOSE j \in 1 .. Len(phis) : phis[j].result = l
      <4>1. k \in 1 .. Len(phis) /\ phis[k].result = l
        BY <3>1 DEF Atomic!Results
      <4>2. Atomic!OperandOf(phis, l) = phis[k].operand
        BY DEF Atomic!OperandOf
      <4> HIDE DEF k
      <4> QED
        BY <2>3, <3>1, <4>1, <4>2
    <3>2. CASE l \notin Atomic!Results(phis)
      BY <2>3, <3>2 DEF Atomic!Results
    <3> QED
      BY <3>1, <3>2
  <2>5. [l \in Home |-> IF moves' = {} THEN mem'[l] ELSE l] =
           [l \in Home |-> IF l \in Atomic!Results(phis) THEN Atomic!OperandOf(phis, l)
                           ELSE [h \in Home |-> IF moves = {} THEN mem[h] ELSE h][l]]
    BY <1>5, <2>4
  <2> QED
    BY <1>2, <1>5, <2>1, <2>5 DEF Atomic!Copy
<1> QED
  BY <1>3, <1>4, <1>5

\* The emitted moves implement the parallel assignment: the safety part of
\* ImplementsParallelCopy, for every PHI list.
THEOREM CopiesAreParallel == Spec => Atomic!Init /\ [][Atomic!Copy]_(Atomic!vars)
<1> QED
  BY InitIsAtomic, CopyInvariant, StepIsAtomic, PTL DEF Spec
=============================================================================
