----------------------- MODULE BlockTransformsProofs -----------------------
(***************************************************************************)
(* The rewrites of IRControlFlow keep the program, give every edge into    *)
(* PHIs its own block, keep hardware loops paired and lay every natural    *)
(* loop out in one piece, for every function the verifier accepts.         *)
(*                                                                         *)
(* Each rewrite is first described without its loops over blocks, as a     *)
(* relation between the old and the new function: Renaming (layout),       *)
(* Splitting (new blocks on edges) and Exposing (blocks cut into pieces).  *)
(* What the verifier checks is carried over each relation, reachability    *)
(* and dominance as sets that control cannot leave; the last sections put  *)
(* the loops in order and prove the invariant.                             *)
(***************************************************************************)
EXTENDS BlockTransforms, ControlFlowProofs, FunctionTheorems, SequenceTheorems

\* The order R on a finite set S numbers its members from 0.
LEMMA RanksNumber ==
    ASSUME NEW S, IsFiniteSet(S), NEW R,
           \A x \in S : <<x, x>> \notin R,
           \A x, y, z \in S : <<x, y>> \in R /\ <<y, z>> \in R => <<x, z>> \in R,
           \A x, y \in S : x # y => <<x, y>> \in R \/ <<y, x>> \in R,
           NEW r, r = [x \in S |-> Cardinality({y \in S : <<y, x>> \in R})]
    PROVE  /\ r \in [S -> 0 .. Cardinality(S) - 1]
           /\ \A x, y \in S : <<x, y>> \in R <=> r[x] < r[y]
           /\ \A x, y \in S : r[x] = r[y] => x = y
<1> DEFINE below(x) == {y \in S : <<y, x>> \in R}
<1>1. Cardinality(S) \in Nat
  BY FS_CardinalityType
<1>2. ASSUME NEW x \in S
      PROVE  /\ IsFiniteSet(below(x)) /\ Cardinality(below(x)) \in Nat
             /\ Cardinality(below(x)) \in 0 .. Cardinality(S) - 1
  <2>1. below(x) \in SUBSET S /\ x \notin below(x)
    OBVIOUS
  <2> HIDE DEF below
  <2>2. /\ IsFiniteSet(below(x)) /\ Cardinality(below(x)) <= Cardinality(S)
        /\ Cardinality(S) = Cardinality(below(x)) => S = below(x)
    BY <2>1, FS_Subset
  <2>3. Cardinality(below(x)) \in Nat
    BY <2>2, FS_CardinalityType
  <2> QED
    BY <1>1, <2>1, <2>2, <2>3
<1>3. ASSUME NEW x \in S, NEW y \in S, <<x, y>> \in R
      PROVE  Cardinality(below(x)) < Cardinality(below(y))
  <2>1. below(x) \in SUBSET below(y) /\ x \in below(y) /\ x \notin below(x)
    BY <1>3
  <2>2. IsFiniteSet(below(y)) /\ Cardinality(below(y)) \in Nat /\ Cardinality(below(x)) \in Nat
    BY <1>2
  <2> HIDE DEF below
  <2>3. /\ Cardinality(below(x)) <= Cardinality(below(y))
        /\ Cardinality(below(y)) = Cardinality(below(x)) => below(y) = below(x)
    BY <2>1, <2>2, FS_Subset
  <2> QED
    BY <2>1, <2>2, <2>3
<1>4. \A x \in S : r[x] = Cardinality(below(x))
  OBVIOUS
<1> HIDE DEF below
<1>5. r \in [S -> 0 .. Cardinality(S) - 1]
  BY <1>2, <1>4
<1>6. \A x \in S : r[x] \in Int
  BY <1>5
<1>7. \A x, y \in S : r[x] = r[y] => x = y
  <2> SUFFICES ASSUME NEW x \in S, NEW y \in S, r[x] = r[y], x # y PROVE FALSE
    OBVIOUS
  <2>1. r[x] < r[y] \/ r[y] < r[x]
    BY <1>3, <1>4
  <2> QED
    BY <1>6, <2>1
<1>8. ASSUME NEW x \in S, NEW y \in S PROVE <<x, y>> \in R <=> r[x] < r[y]
  <2>1. <<x, y>> \in R => r[x] < r[y]
    BY <1>3, <1>4
  <2>2. <<y, x>> \in R => r[y] < r[x]
    BY <1>3, <1>4
  <2>3. r[x] \in Int /\ r[y] \in Int
    BY <1>6
  <2> QED
    BY <2>1, <2>2, <2>3
<1> QED
  BY <1>5, <1>7, <1>8

\* The numbers below n are n.
LEMMA NumbersBelow ==
    ASSUME NEW n \in Nat
    PROVE  IsFiniteSet(0 .. n - 1) /\ Cardinality(0 .. n - 1) = n
<1>1. 0 \in Int /\ n - 1 \in Int
  OBVIOUS
<1>2. IsFiniteSet(0 .. n - 1) /\ Cardinality(0 .. n - 1) = IF 0 > n - 1 THEN 0 ELSE (n - 1) - 0 + 1
  BY ONLY <1>1, FS_Interval
<1>3. (IF 0 > n - 1 THEN 0 ELSE (n - 1) - 0 + 1) = n
  OBVIOUS
<1> QED
  BY <1>2, <1>3

\* A numbering of a finite set that repeats no number leaves none out.
LEMMA RanksOnto ==
    ASSUME NEW S, IsFiniteSet(S), NEW r \in [S -> 0 .. Cardinality(S) - 1],
           \A x, y \in S : r[x] = r[y] => x = y,
           NEW k \in 0 .. Cardinality(S) - 1
    PROVE  \E x \in S : r[x] = k
<1> DEFINE T == 0 .. Cardinality(S) - 1
<1>1. Cardinality(S) \in Nat
  BY FS_CardinalityType
<1>2. IsFiniteSet(T) /\ Cardinality(T) = Cardinality(S)
  BY <1>1, NumbersBelow
<1>3. r \in Injection(S, T)
  BY Fun_IsInj
<1>4. k \in T
  OBVIOUS
<1> HIDE DEF T
<1>5. r \in Surjection(S, T)
  BY <1>2, <1>3, FS_Injection
<1> QED
  BY <1>4, <1>5, Fun_SurjectionProperties

-----------------------------------------------------------------------------
\* An edge leaves a block where some instruction other than a PHI names it.
LEMMA EdgeNamed ==
    ASSUME NEW f, NEW b, NEW t
    PROVE  t \in EdgesFrom(f, b) <=>
             \E k \in DOMAIN f.blocks[b] :
                /\ f.blocks[b][k].opcode # "phi"
                /\ \E e \in DOMAIN f.blocks[b][k].targets : t = f.blocks[b][k].targets[e]
BY DEF EdgesFrom, Items, Instructions

\* The types of an instruction's fields.
LEMMA InstructionTypes ==
    ASSUME NEW i \in IRInstruction
    PROVE  /\ i.opcode \in Opcodes /\ i.result \in Nat /\ i.operands \in Seq(Nat)
           /\ i.targets \in Seq(Nat) /\ i.loop_id \in Nat /\ i.loop_target \in Nat \cup {Invalid}
           /\ Len(i.targets) \in Nat /\ DOMAIN i.targets = 1 .. Len(i.targets)
           /\ i.targets = <<>> <=> Len(i.targets) = 0
<1>1. i.targets \in Seq(Nat)
  BY DEF IRInstruction
<1>2. Len(i.targets) \in Nat /\ DOMAIN i.targets = 1 .. Len(i.targets)
      /\ (i.targets = <<>> <=> Len(i.targets) = 0)
  BY <1>1, EmptySeq, LenProperties
<1> QED
  BY <1>1, <1>2 DEF IRInstruction

\* The parts of a verified function, as the proofs use them.
LEMMA FormFacts ==
    ASSUME NEW f, WellFormed(f)
    PROVE  /\ f.n \in Nat /\ f.n > 0 /\ f.entry = 0 /\ 0 \in Blocks(f) /\ f.value_count \in Nat
           /\ \A b \in Blocks(f) :
                 /\ b \in Nat /\ f.blocks[b] \in Seq(IRInstruction)
                 /\ Len(f.blocks[b]) \in Nat /\ Len(f.blocks[b]) > 0
                 /\ DOMAIN f.blocks[b] = 1 .. Len(f.blocks[b])
                 /\ Len(f.blocks[b]) \in DOMAIN f.blocks[b] /\ 1 \in DOMAIN f.blocks[b]
           /\ \A b \in Blocks(f) : \A k \in DOMAIN f.blocks[b] :
                 /\ f.blocks[b][k] \in IRInstruction
                 /\ \A e \in DOMAIN f.blocks[b][k].targets : f.blocks[b][k].targets[e] \in Blocks(f)
<1>1. f.n \in Nat /\ f.n > 0 /\ f.entry = 0 /\ 0 \in Blocks(f) /\ f.value_count \in Nat
  BY DEF WellFormed, Blocks
<1>2. ASSUME NEW b \in Blocks(f)
      PROVE  /\ b \in Nat /\ f.blocks[b] \in Seq(IRInstruction)
             /\ Len(f.blocks[b]) \in Nat /\ Len(f.blocks[b]) > 0
             /\ DOMAIN f.blocks[b] = 1 .. Len(f.blocks[b])
             /\ Len(f.blocks[b]) \in DOMAIN f.blocks[b] /\ 1 \in DOMAIN f.blocks[b]
  <2>1. f.blocks[b] \in Seq(IRInstruction) /\ f.blocks[b] # <<>>
    BY DEF WellFormed
  <2>2. Len(f.blocks[b]) \in Nat /\ DOMAIN f.blocks[b] = 1 .. Len(f.blocks[b])
    BY <2>1, LenProperties
  <2>3. Len(f.blocks[b]) # 0
    BY <2>1, EmptySeq
  <2>4. Len(f.blocks[b]) > 0 /\ Len(f.blocks[b]) \in 1 .. Len(f.blocks[b])
        /\ 1 \in 1 .. Len(f.blocks[b])
    BY <2>2, <2>3
  <2>5. b \in Nat
    BY <1>1 DEF Blocks
  <2> QED
    BY <2>1, <2>2, <2>4, <2>5
<1>3. ASSUME NEW b \in Blocks(f), NEW k \in DOMAIN f.blocks[b]
      PROVE  f.blocks[b][k] \in IRInstruction
  <2>1. f.blocks[b] \in Seq(IRInstruction)
    BY <1>2
  <2> QED
    BY <1>2, <2>1, ElementOfSeq
<1>4. ASSUME NEW b \in Blocks(f), NEW k \in DOMAIN f.blocks[b],
             NEW e \in DOMAIN f.blocks[b][k].targets
      PROVE  f.blocks[b][k].targets[e] \in Blocks(f)
  <2>1. Items(f.blocks[b][k].targets) \subseteq Blocks(f)
    BY DEF WellFormed, WellPlaced
  <2> QED
    BY <2>1 DEF Items
<1> QED
  BY <1>1, <1>2, <1>3, <1>4

\* The edges of a block are the targets of its last instruction.
LEMMA TerminalEdges ==
    ASSUME NEW f, WellFormed(f), NEW b \in Blocks(f)
    PROVE  /\ EdgesFrom(f, b) = Items(Terminal(f, b).targets)
           /\ EdgesFrom(f, b) \subseteq Blocks(f)
<1>1. /\ DOMAIN f.blocks[b] = 1 .. Len(f.blocks[b]) /\ Len(f.blocks[b]) \in DOMAIN f.blocks[b]
      /\ \A k \in DOMAIN f.blocks[b] : f.blocks[b][k] \in IRInstruction
      /\ \A k \in DOMAIN f.blocks[b] : \A e \in DOMAIN f.blocks[b][k].targets :
            f.blocks[b][k].targets[e] \in Blocks(f)
  BY FormFacts
<1>2. Terminal(f, b) = f.blocks[b][Len(f.blocks[b])] /\ Terminal(f, b).opcode # "phi"
  BY DEF Terminal, WellFormed
<1>3. ASSUME NEW k \in DOMAIN f.blocks[b], f.blocks[b][k].opcode # "phi",
             NEW e \in DOMAIN f.blocks[b][k].targets
      PROVE  k = Len(f.blocks[b])
  <2>1. f.blocks[b][k].targets # <<>>
    BY <1>1, <1>3, InstructionTypes
  <2> QED
    BY <1>3, <2>1 DEF WellFormed, WellPlaced
<1>4. ASSUME NEW t PROVE t \in EdgesFrom(f, b) <=> t \in Items(Terminal(f, b).targets)
  BY <1>1, <1>2, <1>3, EdgeNamed DEF Items
<1>5. EdgesFrom(f, b) = Items(Terminal(f, b).targets)
  BY <1>4
<1> QED
  BY <1>1, <1>2, <1>5 DEF Items

-----------------------------------------------------------------------------
\* An instruction with its blocks renamed by r.
Follows(r, new, old) ==
    /\ new.opcode = old.opcode /\ new.result = old.result
    /\ new.operands = old.operands /\ new.loop_id = old.loop_id
    /\ DOMAIN new.targets = DOMAIN old.targets
    /\ \A e \in DOMAIN old.targets : new.targets[e] = r[old.targets[e]]
    /\ new.loop_target = IF old.loop_target = Invalid THEN Invalid ELSE r[old.loop_target]

Permutes(r, S) ==
    /\ r \in [S -> S]
    /\ \A b, c \in S : r[b] = r[c] => b = c
    /\ \A c \in S : \E b \in S : r[b] = c

\* g is f with its blocks renamed by r.
Renaming(f, g, r) ==
    /\ Permutes(r, Blocks(f))
    /\ g.n = f.n /\ g.entry = r[f.entry] /\ g.value_count = f.value_count
    /\ g.blocks \in [Blocks(f) -> Seq(IRInstruction)]
    /\ \A b \in Blocks(f) :
          /\ Len(g.blocks[r[b]]) = Len(f.blocks[b])
          /\ DOMAIN g.blocks[r[b]] = DOMAIN f.blocks[b]
          /\ \A k \in DOMAIN f.blocks[b] : Follows(r, g.blocks[r[b]][k], f.blocks[b][k])

\* An instruction that follows its blocks is one.
LEMMA RemappedFollows ==
    ASSUME WellFormed(function), Permutes(ids, Blocks(function)),
           NEW b \in Blocks(function), NEW k \in DOMAIN function.blocks[b]
    PROVE  /\ Remapped(function.blocks[b][k]) \in IRInstruction
           /\ Follows(ids, Remapped(function.blocks[b][k]), function.blocks[b][k])
<1>1. PICK i : i = function.blocks[b][k]
  OBVIOUS
<1>2. i \in IRInstruction /\ \A e \in DOMAIN i.targets : i.targets[e] \in Blocks(function)
  BY <1>1, FormFacts
<1>3. i.loop_target = Invalid \/ i.loop_target \in Blocks(function)
  BY <1>1 DEF WellFormed, WellPlaced
<1>4. \A c \in Blocks(function) : c \in Nat /\ ids[c] \in Blocks(function)
  BY FormFacts DEF Permutes
<1> DEFINE T == [e \in DOMAIN i.targets |-> ids[i.targets[e]]]
           l == IF i.loop_target = Invalid THEN Invalid ELSE ids[i.loop_target]
<1>5. T \in Seq(Nat) /\ DOMAIN T = DOMAIN i.targets
      /\ \A e \in DOMAIN i.targets : T[e] = ids[i.targets[e]]
  <2>1. Len(i.targets) \in Nat /\ DOMAIN i.targets = 1 .. Len(i.targets)
    BY <1>2, InstructionTypes
  <2>2. T \in [1 .. Len(i.targets) -> Nat]
    BY <1>2, <1>4, <2>1
  <2> QED
    BY <2>1, <2>2, IsASeq
<1>6. l \in Nat \cup {Invalid}
  BY <1>3, <1>4
<1>7. Remapped(i) = [i EXCEPT !.targets = T, !.loop_target = l]
  BY DEF Remapped
<1> HIDE DEF T, l
<1>8. Remapped(i) \in IRInstruction
  BY <1>2, <1>5, <1>6, <1>7 DEF IRInstruction
<1>9. /\ Remapped(i).opcode = i.opcode /\ Remapped(i).result = i.result
      /\ Remapped(i).operands = i.operands /\ Remapped(i).loop_id = i.loop_id
      /\ Remapped(i).targets = T /\ Remapped(i).loop_target = l
  BY <1>2, <1>7 DEF IRInstruction
<1> QED
  BY <1>1, <1>5, <1>8, <1>9 DEF Follows, l

\* The final layout renames the blocks by their places.
LEMMA LaidOutRenames ==
    ASSUME WellFormed(function), Permutes(ids, Blocks(function))
    PROVE  Renaming(function, LaidOut, ids)
<1> DEFINE B == Blocks(function)
<1>1. \A k \in B : order(k) \in B /\ ids[order(k)] = k
  BY DEF order, Permutes
<1>2. \A b \in B : ids[b] \in B /\ order(ids[b]) = b
  BY <1>1 DEF Permutes
<1>3. /\ LaidOut.n = function.n /\ LaidOut.entry = ids[function.entry]
      /\ LaidOut.value_count = function.value_count
      /\ LaidOut.blocks = [k \in B |->
            [j \in DOMAIN function.blocks[order(k)] |-> Remapped(function.blocks[order(k)][j])]]
  BY DEF LaidOut
<1> HIDE DEF B
<1>4. ASSUME NEW b \in B
      PROVE  /\ LaidOut.blocks[ids[b]] = [j \in DOMAIN function.blocks[b] |-> Remapped(function.blocks[b][j])]
             /\ LaidOut.blocks[ids[b]] \in Seq(IRInstruction)
             /\ Len(LaidOut.blocks[ids[b]]) = Len(function.blocks[b])
             /\ DOMAIN LaidOut.blocks[ids[b]] = DOMAIN function.blocks[b]
             /\ \A k \in DOMAIN function.blocks[b] :
                   Follows(ids, LaidOut.blocks[ids[b]][k], function.blocks[b][k])
  <2>1. LaidOut.blocks[ids[b]] = [j \in DOMAIN function.blocks[b] |-> Remapped(function.blocks[b][j])]
    BY <1>2, <1>3
  <2>2. PICK n \in Nat : n = Len(function.blocks[b]) /\ DOMAIN function.blocks[b] = 1 .. n
    BY FormFacts DEF B
  <2>3. \A k \in 1 .. n : /\ Remapped(function.blocks[b][k]) \in IRInstruction
                          /\ Follows(ids, Remapped(function.blocks[b][k]), function.blocks[b][k])
    BY <2>2, RemappedFollows DEF B
  <2>4. LaidOut.blocks[ids[b]] \in [1 .. n -> IRInstruction]
    BY <2>1, <2>2, <2>3
  <2>5. LaidOut.blocks[ids[b]] \in Seq(IRInstruction) /\ Len(LaidOut.blocks[ids[b]]) = n
    BY <2>4, IsASeq, LenProperties
  <2> QED
    BY <2>1, <2>2, <2>3, <2>5
<1>5. LaidOut.blocks \in [B -> Seq(IRInstruction)]
  BY <1>1, <1>3, <1>4
<1> QED
  BY <1>3, <1>4, <1>5 DEF Renaming, B

\* A renaming carries the edges along.
LEMMA RenamedEdges ==
    ASSUME NEW f, NEW g, NEW r, WellFormed(f), Renaming(f, g, r)
    PROVE  /\ Blocks(g) = Blocks(f)
           /\ \A b \in Blocks(f) : r[b] \in Blocks(f)
           /\ \A b \in Blocks(f) : EdgesFrom(f, b) \subseteq Blocks(f)
           /\ \A b \in Blocks(f) : EdgesFrom(g, r[b]) = {r[t] : t \in EdgesFrom(f, b)}
           /\ \A b, p \in Blocks(f) : r[b] \in EdgesFrom(g, r[p]) <=> b \in EdgesFrom(f, p)
           /\ \A b \in Blocks(f) : EdgesInto(g, r[b]) = {r[p] : p \in EdgesInto(f, b)}
<1>1. Blocks(g) = Blocks(f)
  BY DEF Renaming, Blocks
<1>2. \A b \in Blocks(f) : r[b] \in Blocks(f)
  BY DEF Renaming, Permutes
<1>3. \A b \in Blocks(f) : EdgesFrom(f, b) \subseteq Blocks(f)
  BY TerminalEdges
<1>4. ASSUME NEW b \in Blocks(f), NEW t
      PROVE  t \in EdgesFrom(g, r[b]) <=> \E u \in EdgesFrom(f, b) : t = r[u]
  <2>1. DOMAIN g.blocks[r[b]] = DOMAIN f.blocks[b]
        /\ \A k \in DOMAIN f.blocks[b] : Follows(r, g.blocks[r[b]][k], f.blocks[b][k])
    BY DEF Renaming
  <2>2. \A k \in DOMAIN f.blocks[b] :
           /\ g.blocks[r[b]][k].opcode = f.blocks[b][k].opcode
           /\ DOMAIN g.blocks[r[b]][k].targets = DOMAIN f.blocks[b][k].targets
           /\ \A e \in DOMAIN f.blocks[b][k].targets :
                 g.blocks[r[b]][k].targets[e] = r[f.blocks[b][k].targets[e]]
    BY <2>1 DEF Follows
  <2>3. ASSUME t \in EdgesFrom(g, r[b]) PROVE \E u \in EdgesFrom(f, b) : t = r[u]
    <3>1. PICK k \in DOMAIN g.blocks[r[b]] :
             /\ g.blocks[r[b]][k].opcode # "phi"
             /\ \E e \in DOMAIN g.blocks[r[b]][k].targets : t = g.blocks[r[b]][k].targets[e]
      BY <2>3, EdgeNamed
    <3>2. PICK e \in DOMAIN f.blocks[b][k].targets : t = r[f.blocks[b][k].targets[e]]
      BY <2>1, <2>2, <3>1
    <3>3. f.blocks[b][k].targets[e] \in EdgesFrom(f, b)
      BY <2>1, <2>2, <3>1, EdgeNamed
    <3> QED
      BY <3>2, <3>3
  <2>4. ASSUME NEW u \in EdgesFrom(f, b), t = r[u] PROVE t \in EdgesFrom(g, r[b])
    <3>1. PICK k \in DOMAIN f.blocks[b] :
             /\ f.blocks[b][k].opcode # "phi"
             /\ \E e \in DOMAIN f.blocks[b][k].targets : u = f.blocks[b][k].targets[e]
      BY EdgeNamed
    <3>2. \E e \in DOMAIN g.blocks[r[b]][k].targets : t = g.blocks[r[b]][k].targets[e]
      BY <2>2, <2>4, <3>1
    <3> QED
      BY <2>1, <2>2, <3>1, <3>2, EdgeNamed
  <2> QED
    BY <2>3, <2>4
<1>5. \A b \in Blocks(f) : EdgesFrom(g, r[b]) = {r[t] : t \in EdgesFrom(f, b)}
  BY <1>4
<1>6. \A b, c \in Blocks(f) : r[b] = r[c] => b = c
  BY DEF Renaming, Permutes
<1>7. \A b, p \in Blocks(f) : r[b] \in EdgesFrom(g, r[p]) <=> b \in EdgesFrom(f, p)
  BY <1>3, <1>4, <1>6
<1>8. ASSUME NEW b \in Blocks(f), NEW q
      PROVE  q \in EdgesInto(g, r[b]) <=> \E p \in EdgesInto(f, b) : q = r[p]
  <2>1. \A c \in Blocks(f) : \E p \in Blocks(f) : c = r[p]
    BY DEF Renaming, Permutes
  <2> QED
    BY <1>1, <1>2, <1>7, <2>1 DEF EdgesInto
<1> QED
  BY <1>1, <1>2, <1>3, <1>5, <1>7, <1>8

\* A renaming that keeps the entry keeps the rules of the verifier.
LEMMA RenamedForm ==
    ASSUME NEW f, NEW g, NEW r, WellFormed(f), Renaming(f, g, r), r[0] = 0
    PROVE  WellFormed(g)
<1>1. /\ Blocks(g) = Blocks(f) /\ \A b \in Blocks(f) : r[b] \in Blocks(f)
      /\ \A b \in Blocks(f) : EdgesInto(g, r[b]) = {r[p] : p \in EdgesInto(f, b)}
  BY RenamedEdges
<1>2. g.n \in Nat \ {0} /\ g.entry = 0 /\ g.value_count \in Nat
      /\ g.blocks \in [Blocks(g) -> Seq(IRInstruction)]
  BY <1>1 DEF Renaming, WellFormed
<1>3. \A c \in Blocks(g) : \E b \in Blocks(f) : c = r[b]
  BY <1>1 DEF Renaming, Permutes
<1>4. ASSUME NEW b \in Blocks(f)
      PROVE  /\ g.blocks[r[b]] # <<>> /\ Terminal(g, r[b]).opcode # "phi"
             /\ \A k \in DOMAIN g.blocks[r[b]] : WellPlaced(g, r[b], k)
  <2>1. /\ DOMAIN g.blocks[r[b]] = DOMAIN f.blocks[b] /\ Len(g.blocks[r[b]]) = Len(f.blocks[b])
        /\ \A k \in DOMAIN f.blocks[b] : Follows(r, g.blocks[r[b]][k], f.blocks[b][k])
    BY DEF Renaming
  <2>2. /\ DOMAIN f.blocks[b] = 1 .. Len(f.blocks[b]) /\ Len(f.blocks[b]) \in DOMAIN f.blocks[b]
        /\ Len(f.blocks[b]) \in Nat /\ Len(f.blocks[b]) > 0
        /\ \A k \in DOMAIN f.blocks[b] : f.blocks[b][k] \in IRInstruction
    BY FormFacts
  <2>3. g.blocks[r[b]] # <<>>
    BY <2>1, <2>2, EmptySeq
  <2>4. Terminal(g, r[b]).opcode # "phi"
    <3>1. Terminal(g, r[b]).opcode = Terminal(f, b).opcode
      BY <2>1, <2>2 DEF Terminal, Follows
    <3> QED
      BY <3>1 DEF WellFormed
  <2>5. ASSUME NEW k \in DOMAIN f.blocks[b] PROVE WellPlaced(g, r[b], k)
    <3>1. PICK i, j : i = f.blocks[b][k] /\ j = g.blocks[r[b]][k]
      OBVIOUS
    <3>2. /\ Follows(r, j, i) /\ i \in IRInstruction /\ j \in IRInstruction
      <4>1. g.blocks[r[b]] \in Seq(IRInstruction)
        BY <1>1, <1>2
      <4> QED
        BY <2>1, <2>2, <3>1, <4>1, ElementOfSeq
    <3>3. /\ Items(i.targets) \subseteq Blocks(f)
          /\ i.opcode # "phi" /\ i.targets # <<>> => k = Len(f.blocks[b])
          /\ i.opcode = "phi" => k \in LeadingPhis(f, b) /\ Items(i.targets) = EdgesInto(f, b)
          /\ i.loop_target # Invalid =>
                i.opcode = "loop" /\ i.targets # <<>> /\ i.loop_target \in Blocks(f)
      BY <3>1 DEF WellFormed, WellPlaced
    <3>4. Items(j.targets) = {r[t] : t \in Items(i.targets)}
      BY <3>2 DEF Items, Follows
    <3>5. j.targets = <<>> <=> i.targets = <<>>
      <4>1. DOMAIN j.targets = DOMAIN i.targets
        BY <3>2 DEF Follows
      <4>2. /\ Len(i.targets) \in Nat /\ DOMAIN i.targets = 1 .. Len(i.targets)
            /\ i.targets = <<>> <=> Len(i.targets) = 0
            /\ Len(j.targets) \in Nat /\ DOMAIN j.targets = 1 .. Len(j.targets)
            /\ j.targets = <<>> <=> Len(j.targets) = 0
        BY <3>2, InstructionTypes
      <4> QED
        BY <4>1, <4>2
    <3>6. Items(j.targets) \subseteq Blocks(g)
      BY <1>1, <3>3, <3>4
    <3>7. j.opcode # "phi" /\ j.targets # <<>> => k = Len(g.blocks[r[b]])
      BY <2>1, <3>2, <3>3, <3>5 DEF Follows
    <3>8. ASSUME j.opcode = "phi"
          PROVE  k \in LeadingPhis(g, r[b]) /\ Items(j.targets) = EdgesInto(g, r[b])
      <4>1. k \in LeadingPhis(f, b) /\ Items(i.targets) = EdgesInto(f, b)
        BY <3>2, <3>3, <3>8 DEF Follows
      <4>2. \A m \in 1 .. k : m \in DOMAIN f.blocks[b]
        BY <2>2, <2>5
      <4>3. k \in LeadingPhis(g, r[b])
        BY <2>1, <2>5, <4>1, <4>2 DEF LeadingPhis, Follows
      <4> QED
        BY <1>1, <3>4, <4>1, <4>3
    <3>9. j.loop_target # Invalid =>
             j.opcode = "loop" /\ j.targets # <<>> /\ j.loop_target \in Blocks(g)
      BY <1>1, <3>2, <3>3, <3>5 DEF Follows
    <3> QED
      BY <3>1, <3>6, <3>7, <3>8, <3>9 DEF WellPlaced
  <2> QED
    BY <2>1, <2>3, <2>4, <2>5
<1>5. ASSUME NEW c \in Blocks(g)
      PROVE  /\ g.blocks[c] # <<>> /\ Terminal(g, c).opcode # "phi"
             /\ \A k \in DOMAIN g.blocks[c] : WellPlaced(g, c, k)
  BY <1>3, <1>4
<1> QED
  BY <1>2, <1>5 DEF WellFormed

\* Blocks from which b is reached without passing h, in function f.
Around(f, x, b, h) ==
    \A S \in SUBSET Blocks(f) :
        x \in S /\ (\A c \in S \ {b} : EdgesFrom(f, c) \ {h} \subseteq S) => b \in S

\* A renaming carries the paths along.
LEMMA RenamedPaths ==
    ASSUME NEW f, NEW g, NEW r, WellFormed(f), Renaming(f, g, r)
    PROVE  /\ \A b \in Blocks(f) : Reaches(g, r[b]) <=> Reaches(f, b)
           /\ \A d, b \in Blocks(f) : Passes(g, r[d], r[b]) <=> Passes(f, d, b)
           /\ \A x, b, h \in Blocks(f) : Around(g, r[x], r[b], r[h]) <=> Around(f, x, b, h)
<1> DEFINE B == Blocks(f)
           into(S) == {r[x] : x \in S}
           back(S) == {x \in B : r[x] \in S}
<1>1. /\ Blocks(g) = B /\ \A b \in B : r[b] \in B
      /\ \A b \in B : EdgesFrom(f, b) \subseteq B
      /\ \A b \in B : EdgesFrom(g, r[b]) = {r[t] : t \in EdgesFrom(f, b)}
  BY RenamedEdges
<1>2. /\ \A b, c \in B : r[b] = r[c] => b = c
      /\ \A c \in B : \E b \in B : r[b] = c
  BY DEF Renaming, Permutes
<1>3. f.entry \in B /\ g.entry = r[f.entry]
  BY FormFacts DEF Renaming
<1>4. /\ \A S \in SUBSET B : into(S) \in SUBSET B
      /\ \A S \in SUBSET B : \A b \in B : r[b] \in into(S) <=> b \in S
      /\ \A S \in SUBSET B : \A c \in into(S) : \E b \in S : c = r[b]
  BY <1>1, <1>2
<1>5. \A S : back(S) \in SUBSET B /\ \A b \in B : b \in back(S) <=> r[b] \in S
  OBVIOUS
<1> HIDE DEF B, into, back
<1>6. ASSUME NEW b \in B, Reaches(f, b) PROVE Reaches(g, r[b])
  <2> SUFFICES ASSUME NEW S \in SUBSET B, g.entry \in S, \A c \in S : EdgesFrom(g, c) \subseteq S
               PROVE  r[b] \in S
    BY <1>1 DEF Reaches
  <2>1. f.entry \in back(S)
    BY <1>3, <1>5
  <2>2. ASSUME NEW c \in back(S), NEW t \in EdgesFrom(f, c) PROVE t \in back(S)
    <3>1. c \in B /\ r[c] \in S /\ t \in B
      BY <1>1, <1>5
    <3>2. r[t] \in EdgesFrom(g, r[c])
      BY <1>1, <3>1
    <3> QED
      BY <1>5, <3>1, <3>2
  <2> QED
    BY <1>5, <1>6, <2>1, <2>2 DEF Reaches, B
<1>7. ASSUME NEW b \in B, Reaches(g, r[b]) PROVE Reaches(f, b)
  <2> SUFFICES ASSUME NEW S \in SUBSET B, f.entry \in S, \A c \in S : EdgesFrom(f, c) \subseteq S
               PROVE  b \in S
    BY DEF Reaches, B
  <2>1. g.entry \in into(S) /\ into(S) \in SUBSET B
    BY <1>3, <1>4
  <2>2. ASSUME NEW c \in into(S), NEW u \in EdgesFrom(g, c) PROVE u \in into(S)
    <3>1. PICK b0 \in S : c = r[b0]
      BY <1>4
    <3>2. PICK t \in EdgesFrom(f, b0) : u = r[t]
      BY <1>1, <3>1
    <3> QED
      BY <1>1, <1>4, <3>2
  <2> QED
    BY <1>1, <1>4, <1>7, <2>1, <2>2 DEF Reaches
<1>8. ASSUME NEW d \in B, NEW b \in B, Passes(f, d, b) PROVE Passes(g, r[d], r[b])
  <2>1. PICK S \in SUBSET B : Avoiding(f, S, d) /\ b \notin S
    BY <1>8 DEF Passes, B
  <2>2. Avoiding(g, into(S), r[d])
    <3>1. g.entry # r[d] => g.entry \in into(S)
      BY <1>3, <1>4, <2>1 DEF Avoiding
    <3>2. ASSUME NEW c \in into(S), NEW u \in EdgesFrom(g, c) \ {r[d]} PROVE u \in into(S)
      <4>1. PICK b0 \in S : c = r[b0]
        BY <1>4
      <4>2. PICK t \in EdgesFrom(f, b0) : u = r[t]
        BY <1>1, <4>1
      <4>3. t \in S
        BY <2>1, <4>2 DEF Avoiding
      <4> QED
        BY <1>4, <4>2, <4>3
    <3> QED
      BY <3>1, <3>2 DEF Avoiding
  <2>3. into(S) \in SUBSET B /\ r[b] \notin into(S)
    BY <1>4, <2>1
  <2> QED
    BY <1>1, <2>2, <2>3 DEF Passes
<1>9. ASSUME NEW d \in B, NEW b \in B, Passes(g, r[d], r[b]) PROVE Passes(f, d, b)
  <2>1. PICK S \in SUBSET B : Avoiding(g, S, r[d]) /\ r[b] \notin S
    BY <1>1, <1>9 DEF Passes
  <2>2. Avoiding(f, back(S), d)
    <3>1. f.entry # d => f.entry \in back(S)
      BY <1>2, <1>3, <1>5, <2>1 DEF Avoiding
    <3>2. ASSUME NEW c \in back(S), NEW t \in EdgesFrom(f, c) \ {d} PROVE t \in back(S)
      <4>1. c \in B /\ r[c] \in S /\ t \in B /\ r[t] # r[d]
        BY <1>1, <1>2, <1>5
      <4>2. r[t] \in EdgesFrom(g, r[c])
        BY <1>1, <4>1
      <4> QED
        BY <1>5, <2>1, <4>1, <4>2 DEF Avoiding
    <3> QED
      BY <3>1, <3>2 DEF Avoiding
  <2> QED
    BY <1>5, <2>1, <2>2 DEF Passes, B
<1>10. ASSUME NEW x \in B, NEW b \in B, NEW h \in B, Around(f, x, b, h)
       PROVE  Around(g, r[x], r[b], r[h])
  <2> SUFFICES ASSUME NEW S \in SUBSET B, r[x] \in S,
                      \A c \in S \ {r[b]} : EdgesFrom(g, c) \ {r[h]} \subseteq S
               PROVE  r[b] \in S
    BY <1>1 DEF Around
  <2>1. x \in back(S)
    BY <1>5
  <2>2. ASSUME NEW c \in back(S) \ {b}, NEW t \in EdgesFrom(f, c) \ {h} PROVE t \in back(S)
    <3>1. c \in B /\ r[c] \in S \ {r[b]} /\ t \in B /\ r[t] # r[h]
      BY <1>1, <1>2, <1>5
    <3>2. r[t] \in EdgesFrom(g, r[c])
      BY <1>1, <3>1
    <3> QED
      BY <1>5, <3>1, <3>2
  <2> QED
    BY <1>5, <1>10, <2>1, <2>2 DEF Around, B
<1>11. ASSUME NEW x \in B, NEW b \in B, NEW h \in B, Around(g, r[x], r[b], r[h])
       PROVE  Around(f, x, b, h)
  <2> SUFFICES ASSUME NEW S \in SUBSET B, x \in S,
                      \A c \in S \ {b} : EdgesFrom(f, c) \ {h} \subseteq S
               PROVE  b \in S
    BY DEF Around, B
  <2>1. r[x] \in into(S) /\ into(S) \in SUBSET B
    BY <1>4
  <2>2. ASSUME NEW c \in into(S) \ {r[b]}, NEW u \in EdgesFrom(g, c) \ {r[h]} PROVE u \in into(S)
    <3>1. PICK b0 \in S : c = r[b0]
      BY <1>4
    <3>2. PICK t \in EdgesFrom(f, b0) : u = r[t]
      BY <1>1, <3>1
    <3>3. t \in S
      BY <3>1, <3>2
    <3> QED
      BY <1>4, <3>2, <3>3
  <2> QED
    BY <1>1, <1>4, <1>11, <2>1, <2>2 DEF Around
<1> QED
  BY <1>6, <1>7, <1>8, <1>9, <1>10, <1>11 DEF B

\* A renaming keeps the hardware loops.
LEMMA RenamedLoops ==
    ASSUME NEW f, NEW g, NEW r, WellFormed(f), Renaming(f, g, r)
    PROVE  /\ OneEach(f) => OneEach(g)
           /\ Exposed(f) => Exposed(g)
           /\ Exposed(f) /\ Paired(f) => Paired(g)
<1> DEFINE B == Blocks(f)
<1>1. Blocks(g) = B /\ (\A b \in B : r[b] \in B) /\ \A c \in B : \E b \in B : c = r[b]
  <2>1. Blocks(g) = B /\ \A b \in B : r[b] \in B
    BY RenamedEdges
  <2>2. \A c \in B : \E b \in B : c = r[b]
    BY DEF Renaming, Permutes
  <2> QED
    BY <2>1, <2>2
<1>2. ASSUME NEW b \in B
      PROVE  /\ DOMAIN g.blocks[r[b]] = DOMAIN f.blocks[b] /\ Len(g.blocks[r[b]]) = Len(f.blocks[b])
             /\ \A k \in DOMAIN f.blocks[b] : Follows(r, g.blocks[r[b]][k], f.blocks[b][k])
  BY DEF Renaming
<1>3. ASSUME NEW b \in B, NEW k \in DOMAIN f.blocks[b]
      PROVE  /\ IsHardware(g.blocks[r[b]][k]) <=> IsHardware(f.blocks[b][k])
             /\ g.blocks[r[b]][k].opcode = f.blocks[b][k].opcode
             /\ g.blocks[r[b]][k].loop_id = f.blocks[b][k].loop_id
             /\ DOMAIN g.blocks[r[b]][k].targets = DOMAIN f.blocks[b][k].targets
             /\ f.blocks[b][k] \in IRInstruction
             /\ f.blocks[b][k].targets # <<>> => g.blocks[r[b]][k].targets # <<>>
  <2>1. Follows(r, g.blocks[r[b]][k], f.blocks[b][k]) /\ f.blocks[b][k] \in IRInstruction
    BY <1>2, FormFacts
  <2>2. f.blocks[b][k].targets # <<>> => DOMAIN f.blocks[b][k].targets # {}
    <3>1. PICK t : t = f.blocks[b][k].targets
      OBVIOUS
    <3>2. Len(t) \in Nat /\ DOMAIN t = 1 .. Len(t) /\ (t = <<>> <=> Len(t) = 0)
      BY <2>1, <3>1, InstructionTypes
    <3>3. Len(t) # 0 => 1 \in 1 .. Len(t)
      BY <3>2
    <3> QED
      BY <3>1, <3>2, <3>3
  <2> QED
    BY <2>1, <2>2 DEF Follows, IsHardware
<1> HIDE DEF B
<1>4. ASSUME OneEach(f) PROVE OneEach(g)
  <2> SUFFICES ASSUME NEW x \in B, NEW y \in B,
                      NEW k \in DOMAIN g.blocks[x], NEW l \in DOMAIN g.blocks[y],
                      IsHardware(g.blocks[x][k]),
                      g.blocks[x][k].opcode = g.blocks[y][l].opcode,
                      g.blocks[x][k].loop_id = g.blocks[y][l].loop_id
               PROVE  x = y /\ k = l
    BY <1>1 DEF OneEach
  <2>1. PICK b \in B, c \in B : x = r[b] /\ y = r[c]
    BY <1>1
  <2>2. k \in DOMAIN f.blocks[b] /\ l \in DOMAIN f.blocks[c]
    BY <1>2, <2>1
  <2>3. /\ IsHardware(f.blocks[b][k]) /\ f.blocks[b][k].opcode = f.blocks[c][l].opcode
        /\ f.blocks[b][k].loop_id = f.blocks[c][l].loop_id
    BY <1>3, <2>1, <2>2
  <2> QED
    BY <1>4, <2>1, <2>2, <2>3 DEF OneEach, B
<1>5. ASSUME Exposed(f) PROVE Exposed(g)
  <2> SUFFICES ASSUME NEW b \in B, NEW k \in DOMAIN f.blocks[b], IsHardware(g.blocks[r[b]][k])
               PROVE  g.blocks[r[b]][k].targets # <<>>
    BY <1>1, <1>2 DEF Exposed, Instructions, Items
  <2> QED
    BY <1>3, <1>5 DEF Exposed, Instructions, Items, B
<1>6. ASSUME Exposed(f), Paired(f) PROVE Paired(g)
  <2> SUFFICES ASSUME NEW x \in B, NEW k \in DOMAIN g.blocks[x], g.blocks[x][k].opcode = "loop"
               PROVE  \E p \in B : PairedAt(g, x, g.blocks[x][k], p)
    BY <1>1 DEF Paired, Instructions, Items
  <2>0. PICK b \in B : x = r[b] /\ k \in DOMAIN f.blocks[b]
    BY <1>1, <1>2
  <2>1. PICK setup, new : setup = f.blocks[b][k] /\ new = g.blocks[r[b]][k]
    OBVIOUS
  <2>2. setup \in Instructions(f, b) /\ setup.opcode = "loop" /\ new.loop_id = setup.loop_id
    BY <1>3, <2>0, <2>1 DEF Instructions, Items
  <2>3. PICK p \in B : PairedAt(f, b, setup, p)
    BY <1>6, <2>2 DEF Paired, B
  <2>4. PICK q \in B : /\ Reaches(f, q) /\ Passes(f, p, q)
                       /\ \E i \in Instructions(f, q) : i.opcode = "leave" /\ i.loop_id = setup.loop_id
    BY <2>3 DEF PairedAt, B
  <2>5. Reaches(g, r[p]) /\ Passes(g, r[b], r[p]) /\ Reaches(g, r[q]) /\ Passes(g, r[p], r[q])
    BY <2>3, <2>4, RenamedPaths DEF PairedAt, B
  <2>6. \E i \in Instructions(g, r[q]) : i.opcode = "leave" /\ i.loop_id = new.loop_id
    <3>1. PICK m \in DOMAIN f.blocks[q] :
             f.blocks[q][m].opcode = "leave" /\ f.blocks[q][m].loop_id = setup.loop_id
      BY <2>4 DEF Instructions, Items
    <3> QED
      <4>1. m \in DOMAIN g.blocks[r[q]] /\ g.blocks[r[q]][m] \in Instructions(g, r[q])
        BY <1>2, <3>1 DEF Instructions, Items
      <4>2. g.blocks[r[q]][m].opcode = "leave" /\ g.blocks[r[q]][m].loop_id = setup.loop_id
        BY <1>3, <3>1
      <4> QED
        BY <2>2, <4>1, <4>2
  <2>7. PICK m \in DOMAIN f.blocks[p] : Terminal(f, p) = f.blocks[p][m] /\ Terminal(g, r[p]) = g.blocks[r[p]][m]
    BY <1>2, FormFacts DEF Terminal, B
  <2>8. Terminal(g, r[p]).opcode = "end" /\ Terminal(g, r[p]).loop_id = new.loop_id
    BY <1>3, <2>2, <2>3, <2>7 DEF PairedAt
  <2>9. Terminal(g, r[p]).targets[1] = new.loop_target
    <3>1. f.blocks[p][m].targets # <<>> /\ f.blocks[p][m] \in IRInstruction
      <4>1. f.blocks[p][m].opcode = "end"
        BY <2>3, <2>7 DEF PairedAt
      <4> QED
        BY <1>3, <1>6, <4>1 DEF Exposed, IsHardware, Instructions, Items, B
    <3>2. 1 \in DOMAIN f.blocks[p][m].targets
      <4>1. PICK t : t = f.blocks[p][m].targets
        OBVIOUS
      <4>2. Len(t) \in Nat /\ DOMAIN t = 1 .. Len(t) /\ (t = <<>> <=> Len(t) = 0)
        BY <3>1, <4>1, InstructionTypes
      <4> QED
        BY <3>1, <4>1, <4>2
    <3>3. Terminal(g, r[p]).targets[1] = r[f.blocks[p][m].targets[1]]
      BY <1>2, <2>7, <3>2 DEF Follows
    <3>4. f.blocks[p][m].targets[1] = setup.loop_target /\ f.blocks[p][m].targets[1] \in Nat
      <4>1. f.blocks[p][m].targets[1] \in Blocks(f) /\ \A c \in Blocks(f) : c \in Nat
        BY <3>2, FormFacts DEF B
      <4> QED
        BY <2>3, <2>7, <4>1 DEF PairedAt
    <3>5. setup.loop_target # Invalid
      BY <3>4 DEF Invalid
    <3>6. new.loop_target = r[setup.loop_target]
      BY <1>2, <2>0, <2>1, <3>5 DEF Follows
    <3> QED
      BY <3>3, <3>4, <3>6
  <2>10. PairedAt(g, r[b], new, r[p])
    BY <1>1, <2>4, <2>5, <2>6, <2>8, <2>9 DEF PairedAt
  <2> QED
    BY <1>1, <2>0, <2>1, <2>10
<1> QED
  BY <1>4, <1>5, <1>6

\* A renaming that keeps the entry keeps the flow, when the origins move along.
LEMMA RenamedFlow ==
    ASSUME NEW f, NEW g, NEW r, NEW o, NEW q, NEW from,
           WellFormed(f), Renaming(f, g, r), r[0] = 0, SameFlow(f, o, from),
           DOMAIN q = Blocks(f), \A b \in Blocks(f) : q[r[b]] = o[b]
    PROVE  SameFlow(g, q, from)
<1> DEFINE B == Blocks(f)
<1>1. /\ Blocks(g) = B /\ \A b \in B : r[b] \in B
      /\ \A b \in B : EdgesFrom(f, b) \subseteq B
      /\ \A b \in B : EdgesFrom(g, r[b]) = {r[t] : t \in EdgesFrom(f, b)}
      /\ \A b \in B : EdgesInto(g, r[b]) = {r[p] : p \in EdgesInto(f, b)}
  <2>1. Blocks(g) = B /\ \A b \in B : r[b] \in B
    BY RenamedEdges
  <2>2. \A b \in B : EdgesFrom(f, b) \subseteq B
    BY RenamedEdges
  <2>3. \A b \in B : EdgesFrom(g, r[b]) = {r[t] : t \in EdgesFrom(f, b)}
    BY RenamedEdges
  <2>4. \A b \in B : EdgesInto(g, r[b]) = {r[p] : p \in EdgesInto(f, b)}
    BY RenamedEdges
  <2> QED
    BY <2>1, <2>2, <2>3, <2>4
<1>2. /\ \A b, c \in B : r[b] = r[c] => b = c
      /\ \A c \in B : \E b \in B : c = r[b]
  BY DEF Renaming, Permutes
<1>3. /\ 0 \in B /\ g.entry = 0 /\ f.entry = 0 /\ \A b \in B : b \in Nat
  BY FormFacts DEF Renaming
<1>4. q[0] = <<from.entry>>
  BY <1>3 DEF SameFlow
<1>5. \A b, c \in B : q[b] = q[c] => b = c
  <2> SUFFICES ASSUME NEW x \in B, NEW y \in B, q[x] = q[y] PROVE x = y
    OBVIOUS
  <2>1. PICK b \in B, c \in B : x = r[b] /\ y = r[c]
    BY <1>2
  <2>2. o[b] = o[c]
    BY <2>1
  <2> QED
    BY <2>1, <2>2 DEF SameFlow
<1>6. \A b \in Blocks(from) : \E c \in B : q[c] = <<b>>
  <2> SUFFICES ASSUME NEW b \in Blocks(from) PROVE \E c \in B : q[c] = <<b>>
    OBVIOUS
  <2>1. PICK c \in B : o[c] = <<b>>
    BY DEF SameFlow
  <2> QED
    BY <1>1, <2>1
<1>7. \A b \in B : Landing(q, r[b]) = Landing(o, b)
  BY <1>1, <1>3 DEF Landing, Invalid
<1>8. ASSUME NEW b \in B, Len(o[b]) = 1 PROVE SameBlock(g, q, from, r[b])
  <2>1. PICK s : s = o[b][1] /\ s = q[r[b]][1]
    OBVIOUS
  <2>2. SameBlock(f, o, from, b)
    BY <1>8 DEF SameFlow
  <2>3. /\ Len(g.blocks[r[b]]) = Len(f.blocks[b]) /\ DOMAIN g.blocks[r[b]] = DOMAIN f.blocks[b]
        /\ \A k \in DOMAIN f.blocks[b] : Follows(r, g.blocks[r[b]][k], f.blocks[b][k])
    BY DEF Renaming
  <2>4. ASSUME NEW k \in DOMAIN f.blocks[b]
        PROVE  SameInstruction(q, g.blocks[r[b]][k], from.blocks[s][k], s)
    <3>1. PICK i, j, old : i = f.blocks[b][k] /\ j = g.blocks[r[b]][k] /\ old = from.blocks[s][k]
      OBVIOUS
    <3>2. Follows(r, j, i) /\ SameInstruction(o, i, old, s)
      BY <2>1, <2>2, <2>3, <3>1 DEF SameBlock
    <3>3. /\ \A e \in DOMAIN i.targets : i.targets[e] \in B
          /\ i.loop_target = Invalid \/ i.loop_target \in B
      BY <3>1, FormFacts DEF WellFormed, WellPlaced
    <3>4. Landing(q, j.loop_target) = old.loop_target
      <4>1. CASE i.loop_target = Invalid
        BY <3>2, <4>1 DEF Follows, SameInstruction, Landing
      <4>2. CASE i.loop_target # Invalid
        BY <1>7, <3>2, <3>3, <4>2 DEF Follows, SameInstruction
      <4> QED
        BY <4>1, <4>2
    <3>5. ASSUME NEW e \in DOMAIN j.targets
          PROVE  IF j.opcode = "phi"
                 THEN q[j.targets[e]] \in {<<old.targets[e]>>, <<old.targets[e], s>>}
                 ELSE Landing(q, j.targets[e]) = old.targets[e]
      <4>1. e \in DOMAIN i.targets /\ j.targets[e] = r[i.targets[e]] /\ i.targets[e] \in B
            /\ j.opcode = i.opcode
        BY <3>2, <3>3 DEF Follows
      <4>2. CASE i.opcode = "phi"
        <5>1. o[i.targets[e]] \in {<<old.targets[e]>>, <<old.targets[e], s>>}
          BY <3>2, <4>1, <4>2 DEF SameInstruction
        <5> QED
          BY <4>1, <4>2, <5>1
      <4>3. CASE i.opcode # "phi"
        <5>1. Landing(o, i.targets[e]) = old.targets[e]
          BY <3>2, <4>1, <4>3 DEF SameInstruction
        <5> QED
          BY <1>7, <4>1, <4>3, <5>1
      <4> QED
        BY <4>2, <4>3
    <3>6. /\ j.opcode = old.opcode /\ j.result = old.result /\ j.operands = old.operands
          /\ j.loop_id = old.loop_id /\ DOMAIN j.targets = DOMAIN old.targets
      BY <3>2 DEF Follows, SameInstruction
    <3> QED
      BY <3>1, <3>4, <3>5, <3>6 DEF SameInstruction
  <2> QED
    BY <2>1, <2>2, <2>3, <2>4 DEF SameBlock
<1>9. ASSUME NEW b \in B, Len(o[b]) # 1 PROVE OnlyAnEdge(g, q, r[b])
  <2>1. /\ {o[p] : p \in EdgesInto(f, b)} = {<<o[b][1]>>}
        /\ {o[t] : t \in EdgesFrom(f, b)} = {<<o[b][2]>>}
    BY <1>9 DEF SameFlow, OnlyAnEdge
  <2>2. {q[p] : p \in EdgesInto(g, r[b])} = {o[p] : p \in EdgesInto(f, b)}
    <3>1. EdgesInto(f, b) \subseteq B
      BY DEF EdgesInto
    <3> QED
      BY <1>1, <3>1
  <2>3. {q[t] : t \in EdgesFrom(g, r[b])} = {o[t] : t \in EdgesFrom(f, b)}
    BY <1>1
  <2> QED
    BY <2>1, <2>2, <2>3 DEF OnlyAnEdge
<1>10. ASSUME NEW c \in B
       PROVE  IF Len(q[c]) = 1 THEN SameBlock(g, q, from, c) ELSE OnlyAnEdge(g, q, c)
  BY <1>2, <1>8, <1>9
<1> QED
  BY <1>1, <1>3, <1>4, <1>5, <1>6, <1>10 DEF SameFlow

\* A renaming keeps the edges of the PHIs private.
LEMMA RenamedPhis ==
    ASSUME NEW f, NEW g, NEW r, WellFormed(f), Renaming(f, g, r), PrivatePhis(f)
    PROVE  PrivatePhis(g)
<1> DEFINE B == Blocks(f)
<1>1. /\ Blocks(g) = B /\ \A b \in B : r[b] \in B
      /\ \A b \in B : EdgesFrom(g, r[b]) = {r[t] : t \in EdgesFrom(f, b)}
      /\ \A b \in B : EdgesInto(g, r[b]) = {r[p] : p \in EdgesInto(f, b)}
  <2>1. Blocks(g) = B /\ \A b \in B : r[b] \in B
    BY RenamedEdges
  <2>2. \A b \in B : EdgesFrom(f, b) \subseteq B
    BY RenamedEdges
  <2>3. \A b \in B : EdgesFrom(g, r[b]) = {r[t] : t \in EdgesFrom(f, b)}
    BY RenamedEdges
  <2>4. \A b \in B : EdgesInto(g, r[b]) = {r[p] : p \in EdgesInto(f, b)}
    BY RenamedEdges
  <2> QED
    BY <2>1, <2>2, <2>3, <2>4
<1>2. \A c \in B : \E b \in B : c = r[b]
  BY DEF Renaming, Permutes
<1>3. ASSUME NEW b \in B, NEW k \in DOMAIN f.blocks[b], f.blocks[b][k].opcode = "phi"
      PROVE  /\ Items(g.blocks[r[b]][k].targets) = EdgesInto(g, r[b])
             /\ \A p \in EdgesInto(g, r[b]) : EdgesFrom(g, p) = {r[b]}
  <2>1. /\ Items(f.blocks[b][k].targets) = EdgesInto(f, b)
        /\ \A p \in EdgesInto(f, b) : EdgesFrom(f, p) = {b}
    BY <1>3 DEF PrivatePhis, Instructions, Items
  <2>2. Items(g.blocks[r[b]][k].targets) = {r[t] : t \in Items(f.blocks[b][k].targets)}
    <3>1. Follows(r, g.blocks[r[b]][k], f.blocks[b][k])
      BY DEF Renaming
    <3> QED
      BY <3>1 DEF Follows, Items
  <2>3. ASSUME NEW p \in EdgesInto(g, r[b]) PROVE EdgesFrom(g, p) = {r[b]}
    <3>1. PICK x \in EdgesInto(f, b) : p = r[x]
      BY <1>1
    <3>2. x \in B /\ EdgesFrom(f, x) = {b}
      BY <2>1 DEF EdgesInto
    <3> QED
      BY <1>1, <3>1, <3>2
  <2> QED
    BY <1>1, <2>1, <2>2, <2>3
<1>4. ASSUME NEW c \in B, NEW i \in Instructions(g, c), i.opcode = "phi"
      PROVE  /\ Items(i.targets) = EdgesInto(g, c)
             /\ \A p \in EdgesInto(g, c) : EdgesFrom(g, p) = {c}
  <2>1. PICK b \in B, k \in DOMAIN g.blocks[c] : c = r[b] /\ i = g.blocks[c][k]
    BY <1>2 DEF Instructions, Items
  <2>2. k \in DOMAIN f.blocks[b] /\ f.blocks[b][k].opcode = "phi"
    BY <1>4, <2>1 DEF Renaming, Follows
  <2> QED
    BY <1>3, <2>1, <2>2
<1> QED
  BY <1>1, <1>4 DEF PrivatePhis

-----------------------------------------------------------------------------
\* What the analysis and the verifier say of the function that is split.
Splittable ==
    /\ WellFormed(function) /\ Exposed(function) /\ OneEach(function) /\ Paired(function)
    /\ successors = [b \in Blocks(function) |-> EdgesFrom(function, b)]

\* The edges that are split are edges into PHIs.
LEMMA SplitEdgeFacts ==
    ASSUME Splittable
    PROVE  /\ IsFiniteSet(SplitEdges) /\ Cardinality(SplitEdges) \in Nat
           /\ \A e \in SplitEdges :
                 /\ e = <<e[1], e[2]>> /\ e[1] \in Blocks(function) /\ e[2] \in Blocks(function)
                 /\ e[2] \in EdgesFrom(function, e[1]) /\ StartsWithPhi(function, e[2])
           /\ \A p, s \in Blocks(function) :
                 s \in EdgesFrom(function, p) /\ StartsWithPhi(function, s) /\ <<p, s>> \notin SplitEdges =>
                    EdgesFrom(function, p) = {s}
<1>1. \A p, s \in Blocks(function) : p \in Predecessors(s) <=> s \in EdgesFrom(function, p)
  BY DEF Predecessors, Splittable
<1>2. IsFiniteSet(SplitEdges) /\ Cardinality(SplitEdges) \in Nat
  <2>1. IsFiniteSet(Blocks(function))
    BY FormFacts, FS_Interval DEF Splittable, Blocks
  <2>2. IsFiniteSet(Blocks(function) \X Blocks(function))
    BY <2>1, FS_Product
  <2>3. SplitEdges \in SUBSET (Blocks(function) \X Blocks(function))
    BY DEF SplitEdges
  <2> QED
    BY <2>2, <2>3, FS_Subset, FS_CardinalityType
<1>3. ASSUME NEW e \in SplitEdges
      PROVE  /\ e = <<e[1], e[2]>> /\ e[1] \in Blocks(function) /\ e[2] \in Blocks(function)
             /\ e[2] \in EdgesFrom(function, e[1]) /\ StartsWithPhi(function, e[2])
  <2>1. e \in Blocks(function) \X Blocks(function) /\ Splits(e[1], e[2])
    BY DEF SplitEdges
  <2> QED
    BY <1>1, <2>1 DEF Splits
<1>4. ASSUME NEW p \in Blocks(function), NEW s \in Blocks(function),
             s \in EdgesFrom(function, p), StartsWithPhi(function, s), <<p, s>> \notin SplitEdges
      PROVE  EdgesFrom(function, p) = {s}
  <2>1. ~Splits(p, s)
    BY <1>4 DEF SplitEdges
  <2>2. Cardinality(successors[p]) = 1
    BY <1>1, <1>4, <2>1 DEF Splits
  <2>3. successors[p] = EdgesFrom(function, p) /\ EdgesFrom(function, p) \subseteq Blocks(function)
    BY TerminalEdges DEF Splittable
  <2>4. IsFiniteSet(Blocks(function))
    BY FormFacts, FS_Interval DEF Splittable, Blocks
  <2>5. IsFiniteSet(EdgesFrom(function, p))
    BY <2>3, <2>4, FS_Subset
  <2>6. PICK x : EdgesFrom(function, p) = {x}
    BY <2>2, <2>3, <2>5, FS_Singleton
  <2> QED
    BY <1>4, <2>6
<1> QED
  BY <1>2, <1>3, <1>4

\* The new blocks are numbered after the old ones, one for each edge.
LEMMA SplitNumbers ==
    ASSUME Splittable
    PROVE  /\ \A e \in SplitEdges : /\ EdgeBlock(e) \in Nat /\ EdgeBlock(e) >= function.n
                                    /\ EdgeBlock(e) < function.n + Cardinality(SplitEdges)
                                    /\ EdgeBlock(e) \notin Blocks(function)
           /\ \A d, e \in SplitEdges : EdgeBlock(d) = EdgeBlock(e) => d = e
           /\ \A k \in 0 .. function.n + Cardinality(SplitEdges) - 1 :
                 k >= function.n => EdgeAt(k) \in SplitEdges /\ EdgeBlock(EdgeAt(k)) = k
           /\ \A e \in SplitEdges : EdgeAt(EdgeBlock(e)) = e
<1>1. PICK n \in Nat : n = function.n
  BY FormFacts DEF Splittable
<1>2. PICK E, m : E = SplitEdges /\ m = Cardinality(E) /\ IsFiniteSet(E) /\ m \in Nat
  BY SplitEdgeFacts
<1>3. \A e \in E : e[1] \in Nat /\ e[2] \in Nat /\ e = <<e[1], e[2]>>
  BY <1>2, SplitEdgeFacts, FormFacts DEF Splittable
<1> DEFINE R == {x \in E \X E : EdgeBefore(x[1], x[2])}
           r == [e \in E |-> Cardinality({d \in E : <<d, e>> \in R})]
<1>4. \A d, e \in E : <<d, e>> \in R <=> EdgeBefore(d, e)
  OBVIOUS
<1> HIDE DEF R
<1>5. \A x \in E : <<x, x>> \notin R
  BY <1>3, <1>4 DEF EdgeBefore
<1>6. \A x, y, z \in E : <<x, y>> \in R /\ <<y, z>> \in R => <<x, z>> \in R
  BY <1>3, <1>4 DEF EdgeBefore
<1>7. \A x, y \in E : x # y => <<x, y>> \in R \/ <<y, x>> \in R
  <2> SUFFICES ASSUME NEW x \in E, NEW y \in E, ~EdgeBefore(x, y), ~EdgeBefore(y, x) PROVE x = y
    BY <1>4
  <2>1. x[1] = y[1] /\ x[2] = y[2]
    BY <1>3 DEF EdgeBefore
  <2> QED
    BY <1>3, <2>1
<1>8. /\ r \in [E -> 0 .. m - 1]
      /\ \A x, y \in E : r[x] = r[y] => x = y
      /\ \A k \in 0 .. m - 1 : \E x \in E : r[x] = k
  <2> HIDE DEF r
  <2>1. r = [x \in E |-> Cardinality({y \in E : <<y, x>> \in R})]
    BY DEF r
  <2>2. IsFiniteSet(E)
    BY <1>2
  <2>3. r \in [E -> 0 .. Cardinality(E) - 1] /\ \A x, y \in E : r[x] = r[y] => x = y
    BY <2>2, <1>5, <1>6, <1>7, <2>1, RanksNumber
  <2>4. ASSUME NEW k \in 0 .. Cardinality(E) - 1 PROVE \E x \in E : r[x] = k
    BY <2>2, <2>3, RanksOnto
  <2> QED
    BY <1>2, <2>3, <2>4
<1>9. \A e \in E : EdgeBlock(e) = n + r[e]
  <2> SUFFICES ASSUME NEW e \in E PROVE EdgeBlock(e) = n + r[e]
    OBVIOUS
  <2>1. {d \in E : EdgeBefore(d, e)} = {d \in E : <<d, e>> \in R}
    BY <1>4
  <2> QED
    BY <1>1, <1>2, <2>1 DEF EdgeBlock
<1> HIDE DEF r
<1>10. ASSUME NEW e \in E
       PROVE  /\ EdgeBlock(e) \in Nat /\ EdgeBlock(e) >= n /\ EdgeBlock(e) < n + m
              /\ EdgeBlock(e) \notin Blocks(function)
  <2>1. r[e] \in 0 .. m - 1 /\ EdgeBlock(e) = n + r[e]
    BY <1>8, <1>9
  <2> QED
    BY <1>1, <1>2, <2>1 DEF Blocks
<1>11. ASSUME NEW d \in E, NEW e \in E, EdgeBlock(d) = EdgeBlock(e) PROVE d = e
  <2>1. r[d] \in 0 .. m - 1 /\ r[e] \in 0 .. m - 1 /\ n + r[d] = n + r[e]
    BY <1>8, <1>9, <1>11
  <2> QED
    BY <1>2, <1>8, <2>1
<1>12. ASSUME NEW k \in 0 .. n + m - 1, k >= n PROVE EdgeAt(k) \in E /\ EdgeBlock(EdgeAt(k)) = k
  <2>1. k - n \in 0 .. m - 1
    BY <1>2, <1>12
  <2>2. PICK e \in E : r[e] = k - n
    BY <1>8, <2>1
  <2>3. EdgeBlock(e) = k
    BY <1>9, <1>12, <2>2
  <2> QED
    BY <1>2, <2>3 DEF EdgeAt
<1>13. ASSUME NEW e \in E PROVE EdgeAt(EdgeBlock(e)) = e
  <2>1. EdgeAt(EdgeBlock(e)) \in E /\ EdgeBlock(EdgeAt(EdgeBlock(e))) = EdgeBlock(e)
    BY <1>2 DEF EdgeAt
  <2> QED
    BY <1>11, <2>1
<1> QED
  BY <1>1, <1>2, <1>10, <1>11, <1>12, <1>13

\* The end of the edge from p to s, or the block x has put on that edge.
Via(E, x, p, s, end) == IF <<p, s>> \in E THEN x[<<p, s>>] ELSE end

\* An instruction of block b whose edges in E pass their own blocks.
Reroutes(E, x, b, new, old) ==
    /\ new \in IRInstruction
    /\ new.opcode = old.opcode /\ new.result = old.result
    /\ new.operands = old.operands /\ new.loop_id = old.loop_id
    /\ DOMAIN new.targets = DOMAIN old.targets
    /\ \A e \in DOMAIN old.targets :
          new.targets[e] = IF old.opcode = "phi"
                           THEN Via(E, x, old.targets[e], b, old.targets[e])
                           ELSE Via(E, x, b, old.targets[e], old.targets[e])
    /\ old.opcode # "loop" => new.loop_target = old.loop_target

\* g is f with a block x[e] of its own for each edge e in E.
Splitting(f, g, E, x) ==
    /\ g.n \in Nat /\ g.n > 0 /\ g.entry = 0 /\ g.value_count = f.value_count
    /\ g.blocks = [c \in Blocks(g) |-> g.blocks[c]]
    /\ \A e \in E : /\ e = <<e[1], e[2]>> /\ e[1] \in Blocks(f) /\ e[2] \in Blocks(f)
                    /\ e[2] \in EdgesFrom(f, e[1]) /\ StartsWithPhi(f, e[2])
                    /\ x[e] \in Blocks(g) /\ x[e] \notin Blocks(f)
                    /\ g.blocks[x[e]] = <<BranchTo(e[2])>>
    /\ \A d, e \in E : x[d] = x[e] => d = e
    /\ Blocks(g) = Blocks(f) \cup {x[e] : e \in E}
    /\ \A b \in Blocks(f) :
          /\ g.blocks[b] \in Seq(IRInstruction) /\ Len(g.blocks[b]) = Len(f.blocks[b])
          /\ DOMAIN g.blocks[b] = DOMAIN f.blocks[b]
          /\ \A k \in DOMAIN f.blocks[b] : Reroutes(E, x, b, g.blocks[b][k], f.blocks[b][k])
    /\ \A b \in Blocks(f) : \A k \in DOMAIN f.blocks[b] : \A p \in Blocks(f) :
          f.blocks[b][k].opcode = "loop" /\ PairedAt(f, b, f.blocks[b][k], p) =>
             g.blocks[b][k].loop_target = Via(E, x, p, f.blocks[b][k].loop_target, f.blocks[b][k].loop_target)
    /\ \A p, s \in Blocks(f) :
          s \in EdgesFrom(f, p) /\ StartsWithPhi(f, s) /\ <<p, s>> \notin E => EdgesFrom(f, p) = {s}

\* The targets of an instruction after splitting are blocks.
LEMMA ReroutedBlocks ==
    ASSUME Splittable, NEW p, NEW s, NEW end \in Blocks(function)
    PROVE  Rerouted(p, s, end) \in Nat
BY SplitNumbers, FormFacts DEF Rerouted, Splittable

\* Replacing the targets of an instruction keeps the other fields.
LEMMA NewTargets ==
    ASSUME NEW i \in IRInstruction, NEW T \in Seq(Nat), NEW j, j = [i EXCEPT !.targets = T]
    PROVE  /\ j.opcode = i.opcode /\ j.result = i.result /\ j.operands = i.operands
           /\ j.loop_id = i.loop_id /\ j.targets = T /\ j.loop_target = i.loop_target
           /\ j \in IRInstruction
BY DEF IRInstruction

\* Replacing the destination of a setup keeps the other fields.
LEMMA NewLoopTarget ==
    ASSUME NEW i \in IRInstruction, NEW l \in Nat \cup {Invalid}, NEW j, j = [i EXCEPT !.loop_target = l]
    PROVE  /\ j.opcode = i.opcode /\ j.result = i.result /\ j.operands = i.operands
           /\ j.loop_id = i.loop_id /\ j.targets = i.targets /\ j.loop_target = l
           /\ j \in IRInstruction
BY DEF IRInstruction

\* A PHI follows the edges of its block.
LEMMA SplitPhiFollows ==
    ASSUME Splittable, NEW b \in Blocks(function), NEW i \in IRInstruction,
           \A e \in DOMAIN i.targets : i.targets[e] \in Blocks(function)
    PROVE  LET j == SplitPhi(i, b)
           IN  /\ j \in IRInstruction /\ j.opcode = i.opcode /\ j.result = i.result
               /\ j.operands = i.operands /\ j.loop_id = i.loop_id /\ j.loop_target = i.loop_target
               /\ DOMAIN j.targets = DOMAIN i.targets
               /\ \A e \in DOMAIN i.targets : j.targets[e] = Rerouted(i.targets[e], b, i.targets[e])
<1> DEFINE T == [e \in DOMAIN i.targets |-> Rerouted(i.targets[e], b, i.targets[e])]
<1>1. T \in Seq(Nat)
  <2>1. Len(i.targets) \in Nat /\ DOMAIN i.targets = 1 .. Len(i.targets)
    BY InstructionTypes
  <2>2. T \in [1 .. Len(i.targets) -> Nat]
    BY <2>1, ReroutedBlocks
  <2> QED
    BY <2>1, <2>2, IsASeq
<1>2. DOMAIN T = DOMAIN i.targets
      /\ \A e \in DOMAIN i.targets : T[e] = Rerouted(i.targets[e], b, i.targets[e])
  OBVIOUS
<1>3. PICK j : j = SplitPhi(i, b) /\ j = [i EXCEPT !.targets = T]
  BY DEF SplitPhi
<1> HIDE DEF T
<1>4. /\ j.opcode = i.opcode /\ j.result = i.result /\ j.operands = i.operands
      /\ j.loop_id = i.loop_id /\ j.targets = T /\ j.loop_target = i.loop_target
      /\ j \in IRInstruction
  BY <1>1, <1>3, NewTargets
<1> QED
  BY <1>2, <1>3, <1>4

\* A terminator follows the edges it names.
LEMMA SplitTerminalFollows ==
    ASSUME Splittable, NEW b \in Blocks(function), NEW i \in IRInstruction,
           \A e \in DOMAIN i.targets : i.targets[e] \in Blocks(function)
    PROVE  LET j == SplitTerminal(i, b)
           IN  /\ j \in IRInstruction /\ j.opcode = i.opcode /\ j.result = i.result
               /\ j.operands = i.operands /\ j.loop_id = i.loop_id /\ j.loop_target = i.loop_target
               /\ DOMAIN j.targets = DOMAIN i.targets
               /\ \A e \in DOMAIN i.targets : j.targets[e] = Rerouted(b, i.targets[e], i.targets[e])
<1> DEFINE T == [e \in DOMAIN i.targets |-> Rerouted(b, i.targets[e], i.targets[e])]
<1>1. T \in Seq(Nat)
  <2>1. Len(i.targets) \in Nat /\ DOMAIN i.targets = 1 .. Len(i.targets)
    BY InstructionTypes
  <2>2. T \in [1 .. Len(i.targets) -> Nat]
    BY <2>1, ReroutedBlocks
  <2> QED
    BY <2>1, <2>2, IsASeq
<1>2. DOMAIN T = DOMAIN i.targets
      /\ \A e \in DOMAIN i.targets : T[e] = Rerouted(b, i.targets[e], i.targets[e])
  OBVIOUS
<1>3. PICK j : j = SplitTerminal(i, b) /\ j = [i EXCEPT !.targets = T]
  BY DEF SplitTerminal
<1> HIDE DEF T
<1>4. /\ j.opcode = i.opcode /\ j.result = i.result /\ j.operands = i.operands
      /\ j.loop_id = i.loop_id /\ j.targets = T /\ j.loop_target = i.loop_target
      /\ j \in IRInstruction
  BY <1>1, <1>3, NewTargets
<1> QED
  BY <1>2, <1>3, <1>4
\* A setup follows the back edge of the end of its loop.
LEMMA SplitSetupFollows ==
    ASSUME Splittable, NEW b \in Blocks(function), NEW setup \in Instructions(function, b),
           setup.opcode = "loop",
           NEW j \in IRInstruction, j.loop_id = setup.loop_id, j.loop_target = setup.loop_target,
           NEW p \in Blocks(function), PairedAt(function, b, setup, p)
    PROVE  /\ SplitSetup(j).opcode = j.opcode /\ SplitSetup(j).result = j.result
           /\ SplitSetup(j).operands = j.operands /\ SplitSetup(j).loop_id = j.loop_id
           /\ SplitSetup(j).targets = j.targets /\ SplitSetup(j) \in IRInstruction
           /\ SplitSetup(j).loop_target = Rerouted(p, setup.loop_target, setup.loop_target)
<1> DEFINE ends == {q \in Blocks(function) : /\ Terminal(function, q).opcode = "end"
                                             /\ Terminal(function, q).loop_id = j.loop_id
                                             /\ \E e \in SplitEdges : e[1] = q}
<1>1. PICK i : /\ i = Terminal(function, p) /\ i.opcode = "end" /\ i.loop_id = j.loop_id
               /\ i.targets[1] = setup.loop_target
  BY DEF PairedAt
<1>2. ASSUME NEW q \in ends PROVE q = p
  <2>1. /\ Len(function.blocks[p]) \in DOMAIN function.blocks[p]
        /\ Len(function.blocks[q]) \in DOMAIN function.blocks[q]
    BY FormFacts DEF Splittable
  <2>2. /\ Terminal(function, q).opcode = "end" /\ Terminal(function, q).loop_id = j.loop_id
        /\ q \in Blocks(function)
    OBVIOUS
  <2> QED
    BY <1>1, <2>1, <2>2 DEF Splittable, OneEach, Terminal, IsHardware
<1>3. /\ i \in IRInstruction /\ \A e \in DOMAIN i.targets : i.targets[e] \in Blocks(function)
      /\ i \in Instructions(function, p)
  BY <1>1, FormFacts DEF Splittable, Terminal, Instructions, Items
<1>4. 1 \in DOMAIN i.targets
  <2>1. i.targets # <<>>
    BY <1>1, <1>3 DEF Splittable, Exposed, IsHardware
  <2>2. PICK t : t = i.targets
    OBVIOUS
  <2>3. Len(t) \in Nat /\ DOMAIN t = 1 .. Len(t) /\ Len(t) # 0
    BY <1>3, <2>1, <2>2, InstructionTypes
  <2>4. 1 \in 1 .. Len(t)
    BY <2>3
  <2> QED
    BY <2>2, <2>3, <2>4
<1>5. setup.loop_target \in Blocks(function)
  BY <1>1, <1>3, <1>4
<1>6. SplitTerminal(i, p).targets[1] = Rerouted(p, setup.loop_target, setup.loop_target)
  BY <1>1, <1>3, <1>4, SplitTerminalFollows
<1>7. Rerouted(p, setup.loop_target, setup.loop_target) \in Nat
  BY <1>5, ReroutedBlocks
<1>8. SplitSetup(j) = IF ends = {} THEN j
                      ELSE LET q == CHOOSE q \in ends : TRUE
                           IN  [j EXCEPT !.loop_target = SplitTerminal(Terminal(function, q), q).targets[1]]
  BY DEF SplitSetup
<1>9. ends = {} => Rerouted(p, setup.loop_target, setup.loop_target) = setup.loop_target
  <2>1. ASSUME <<p, setup.loop_target>> \in SplitEdges PROVE p \in ends
    BY <1>1, <2>1
  <2> QED
    BY <2>1 DEF Rerouted
<1> HIDE DEF ends
<1>10. CASE ends = {}
  <2>1. SplitSetup(j) = j
    BY <1>8, <1>10
  <2> QED
    BY <1>9, <1>10, <2>1
<1>11. CASE ends # {}
  <2>1. (CHOOSE q \in ends : TRUE) = p
    BY <1>2, <1>11
  <2>2. PICK l \in Nat : l = Rerouted(p, setup.loop_target, setup.loop_target)
    BY <1>7
  <2>3. SplitSetup(j) = [j EXCEPT !.loop_target = l]
    BY <1>1, <1>6, <1>8, <1>11, <2>1, <2>2
  <2>4. PICK new : new = SplitSetup(j)
    OBVIOUS
  <2>5. /\ new.opcode = j.opcode /\ new.result = j.result /\ new.operands = j.operands
        /\ new.loop_id = j.loop_id /\ new.targets = j.targets /\ new.loop_target = l
        /\ new \in IRInstruction
    BY <2>3, <2>4, NewLoopTarget
  <2> QED
    BY <2>2, <2>4, <2>5
<1> QED
  BY <1>10, <1>11

\* Every instruction of the function that is split passes the new blocks.
LEMMA SplitInstructionReroutes ==
    ASSUME Splittable, NEW b \in Blocks(function), NEW k \in DOMAIN function.blocks[b],
           NEW x, x = [e \in SplitEdges |-> EdgeBlock(e)]
    PROVE  /\ Reroutes(SplitEdges, x, b, SplitInstruction(b, k), function.blocks[b][k])
           /\ \A p \in Blocks(function) :
                 function.blocks[b][k].opcode = "loop" /\ PairedAt(function, b, function.blocks[b][k], p) =>
                    SplitInstruction(b, k).loop_target =
                       Via(SplitEdges, x, p, function.blocks[b][k].loop_target, function.blocks[b][k].loop_target)
<1>1. PICK i : i = function.blocks[b][k]
  OBVIOUS
<1>2. /\ i \in IRInstruction /\ \A e \in DOMAIN i.targets : i.targets[e] \in Blocks(function)
      /\ i \in Instructions(function, b)
  BY <1>1, FormFacts DEF Splittable, Instructions, Items
<1>3. \A p, s, end : Via(SplitEdges, x, p, s, end) = Rerouted(p, s, end)
  BY DEF Via, Rerouted
<1>4. /\ i.opcode = "phi" <=> k \in LeadingPhis(function, b)
      /\ i.opcode # "phi" /\ i.targets # <<>> => k = Len(function.blocks[b])
  <2>1. WellPlaced(function, b, k)
    BY DEF Splittable, WellFormed
  <2>2. DOMAIN function.blocks[b] = 1 .. Len(function.blocks[b]) /\ Len(function.blocks[b]) \in Nat
    BY FormFacts DEF Splittable
  <2>3. k \in 1 .. k
    BY <2>2
  <2>4. k \in LeadingPhis(function, b) => i.opcode = "phi"
    BY <1>1, <2>3 DEF LeadingPhis
  <2> QED
    BY <1>1, <2>1, <2>4 DEF WellPlaced
<1>5. CASE i.opcode = "phi"
  <2>1. PICK new : new = SplitInstruction(b, k) /\ new = SplitPhi(i, b)
    BY <1>1, <1>4, <1>5 DEF SplitInstruction
  <2>2. /\ new \in IRInstruction /\ new.opcode = i.opcode /\ new.result = i.result
        /\ new.operands = i.operands /\ new.loop_id = i.loop_id /\ new.loop_target = i.loop_target
        /\ DOMAIN new.targets = DOMAIN i.targets
        /\ \A e \in DOMAIN i.targets : new.targets[e] = Rerouted(i.targets[e], b, i.targets[e])
    BY <1>2, <2>1, SplitPhiFollows
  <2> QED
    BY <1>1, <1>3, <1>5, <2>1, <2>2 DEF Reroutes
<1>6. CASE i.opcode # "phi"
  <2> DEFINE j == IF k = Len(function.blocks[b]) THEN SplitTerminal(i, b) ELSE i
  <2>1. SplitInstruction(b, k) = IF i.opcode = "loop" THEN SplitSetup(j) ELSE j
    BY <1>1, <1>4, <1>6 DEF SplitInstruction
  <2>2. /\ j \in IRInstruction /\ j.opcode = i.opcode /\ j.result = i.result
        /\ j.operands = i.operands /\ j.loop_id = i.loop_id /\ j.loop_target = i.loop_target
        /\ DOMAIN j.targets = DOMAIN i.targets
        /\ \A e \in DOMAIN i.targets : j.targets[e] = Rerouted(b, i.targets[e], i.targets[e])
    <3>1. CASE k = Len(function.blocks[b])
      <4>1. j = SplitTerminal(i, b)
        BY <3>1
      <4> HIDE DEF j
      <4> QED
        BY <1>2, <4>1, SplitTerminalFollows
    <3>2. CASE k # Len(function.blocks[b])
      <4>1. j = i
        BY <3>2
      <4>2. DOMAIN i.targets = {}
        <5>1. Len(i.targets) = 0 /\ DOMAIN i.targets = 1 .. Len(i.targets)
          BY <1>2, <1>4, <1>6, <3>2, InstructionTypes
        <5> QED
          BY <5>1
      <4> QED
        BY <1>2, <4>1, <4>2
    <3> QED
      BY <3>1, <3>2
  <2> HIDE DEF j
  <2>3. CASE i.opcode # "loop"
    BY <1>1, <1>3, <1>6, <2>1, <2>2, <2>3 DEF Reroutes
  <2>4. CASE i.opcode = "loop"
    <3>1. PICK new : new = SplitInstruction(b, k) /\ new = SplitSetup(j)
      BY <2>1, <2>4
    <3>2. ASSUME NEW p \in Blocks(function), PairedAt(function, b, i, p)
          PROVE  /\ new.opcode = j.opcode /\ new.result = j.result /\ new.operands = j.operands
                 /\ new.loop_id = j.loop_id /\ new.targets = j.targets /\ new \in IRInstruction
                 /\ new.loop_target = Rerouted(p, i.loop_target, i.loop_target)
      BY <1>2, <2>2, <2>4, <3>1, <3>2, SplitSetupFollows
    <3>3. \E p \in Blocks(function) : PairedAt(function, b, i, p)
      BY <1>2, <2>4 DEF Splittable, Paired
    <3>4. /\ new.opcode = j.opcode /\ new.result = j.result /\ new.operands = j.operands
          /\ new.loop_id = j.loop_id /\ new.targets = j.targets /\ new \in IRInstruction
      BY <3>2, <3>3
    <3>5. Reroutes(SplitEdges, x, b, new, i)
      BY <1>3, <1>6, <2>2, <2>4, <3>4 DEF Reroutes
    <3>6. \A p \in Blocks(function) : PairedAt(function, b, i, p) =>
             new.loop_target = Via(SplitEdges, x, p, i.loop_target, i.loop_target)
      BY <1>3, <3>2
    <3> QED
      BY <1>1, <3>1, <3>5, <3>6
  <2> QED
    BY <2>3, <2>4
<1> QED
  BY <1>5, <1>6

\* splitPhiEdges puts a block on each edge it splits.
LEMMA SplitsFunction ==
    ASSUME Splittable, NEW x, x = [e \in SplitEdges |-> EdgeBlock(e)]
    PROVE  Splitting(function, SplitPhiEdges, SplitEdges, x)
<1>1. PICK g : g = SplitPhiEdges
  OBVIOUS
<1>2. PICK n \in Nat, m \in Nat : n = function.n /\ m = Cardinality(SplitEdges) /\ n > 0
  BY SplitEdgeFacts, FormFacts DEF Splittable
<1>3. /\ g.n = n + m /\ g.entry = 0 /\ g.value_count = function.value_count
      /\ g.blocks = [b \in 0 .. n + m - 1 |->
                       IF b < n THEN [k \in DOMAIN function.blocks[b] |-> SplitInstruction(b, k)]
                       ELSE <<BranchTo(EdgeAt(b)[2])>>]
  BY <1>1, <1>2, FormFacts DEF SplitPhiEdges, Splittable
<1>4. Blocks(g) = 0 .. n + m - 1 /\ Blocks(function) = 0 .. n - 1
  BY <1>2, <1>3 DEF Blocks
<1>5. /\ \A e \in SplitEdges : x[e] = EdgeBlock(e) /\ x[e] \in n .. n + m - 1
      /\ \A k \in n .. n + m - 1 : EdgeAt(k) \in SplitEdges /\ x[EdgeAt(k)] = k
      /\ \A e \in SplitEdges : EdgeAt(x[e]) = e
      /\ \A d, e \in SplitEdges : x[d] = x[e] => d = e
  <2>1. \A e \in SplitEdges : x[e] = EdgeBlock(e)
    OBVIOUS
  <2>2. \A e \in SplitEdges : EdgeBlock(e) \in Nat /\ EdgeBlock(e) >= n /\ EdgeBlock(e) < n + m
    BY <1>2, SplitNumbers
  <2>3. \A k \in n .. n + m - 1 : EdgeAt(k) \in SplitEdges /\ EdgeBlock(EdgeAt(k)) = k
    BY <1>2, SplitNumbers
  <2>4. \A e \in SplitEdges : EdgeAt(EdgeBlock(e)) = e
    BY SplitNumbers
  <2>5. \A d, e \in SplitEdges : EdgeBlock(d) = EdgeBlock(e) => d = e
    BY SplitNumbers
  <2> QED
    BY <1>2, <2>1, <2>2, <2>3, <2>4, <2>5
<1>6. ASSUME NEW e \in SplitEdges
      PROVE  /\ x[e] \in Blocks(g) /\ x[e] \notin Blocks(function)
             /\ g.blocks[x[e]] = <<BranchTo(e[2])>>
  <2>1. x[e] \in n .. n + m - 1 /\ EdgeAt(x[e]) = e
    BY <1>5
  <2>2. PICK y : y = x[e]
    OBVIOUS
  <2>3. y \in 0 .. n + m - 1 /\ y \notin 0 .. n - 1 /\ ~(y < n)
    BY <1>2, <2>1, <2>2
  <2>4. g.blocks[y] = <<BranchTo(EdgeAt(y)[2])>>
    BY <1>3, <2>3
  <2> QED
    BY <1>4, <2>1, <2>2, <2>3, <2>4
<1>7. Blocks(g) = Blocks(function) \cup {x[e] : e \in SplitEdges}
  <2>1. ASSUME NEW y \in Blocks(g), y \notin Blocks(function) PROVE \E e \in SplitEdges : y = x[e]
    <3>1. y \in n .. n + m - 1
      BY <1>2, <1>4, <2>1
    <3> QED
      BY <1>5, <3>1
  <2>2. Blocks(function) \subseteq Blocks(g)
    BY <1>2, <1>4
  <2> QED
    BY <1>6, <2>1, <2>2
<1>8. ASSUME NEW b \in Blocks(function)
      PROVE  /\ g.blocks[b] \in Seq(IRInstruction) /\ Len(g.blocks[b]) = Len(function.blocks[b])
             /\ DOMAIN g.blocks[b] = DOMAIN function.blocks[b]
             /\ \A k \in DOMAIN function.blocks[b] : g.blocks[b][k] = SplitInstruction(b, k)
  <2>1. b \in 0 .. n + m - 1 /\ b < n
    BY <1>2, <1>4
  <2>2. g.blocks[b] = [k \in DOMAIN function.blocks[b] |-> SplitInstruction(b, k)]
    BY <1>3, <2>1
  <2>3. PICK l \in Nat : l = Len(function.blocks[b]) /\ DOMAIN function.blocks[b] = 1 .. l
    BY FormFacts DEF Splittable
  <2>4. \A k \in 1 .. l : SplitInstruction(b, k) \in IRInstruction
    BY <2>3, SplitInstructionReroutes DEF Reroutes
  <2>5. g.blocks[b] \in [1 .. l -> IRInstruction]
    BY <2>2, <2>3, <2>4
  <2>6. g.blocks[b] \in Seq(IRInstruction) /\ Len(g.blocks[b]) = l
    BY <2>5, IsASeq, LenProperties
  <2> QED
    BY <2>2, <2>3, <2>6
<1>9. ASSUME NEW b \in Blocks(function), NEW k \in DOMAIN function.blocks[b]
      PROVE  /\ Reroutes(SplitEdges, x, b, g.blocks[b][k], function.blocks[b][k])
             /\ \A p \in Blocks(function) :
                   function.blocks[b][k].opcode = "loop" /\ PairedAt(function, b, function.blocks[b][k], p) =>
                      g.blocks[b][k].loop_target =
                        Via(SplitEdges, x, p, function.blocks[b][k].loop_target, function.blocks[b][k].loop_target)
  BY <1>8, SplitInstructionReroutes
<1>10. g.blocks = [c \in Blocks(g) |-> g.blocks[c]] /\ g.n \in Nat /\ g.n > 0
  BY <1>2, <1>3, <1>4
<1>11. \A e \in SplitEdges : /\ e = <<e[1], e[2]>> /\ e[1] \in Blocks(function) /\ e[2] \in Blocks(function)
                             /\ e[2] \in EdgesFrom(function, e[1]) /\ StartsWithPhi(function, e[2])
  BY SplitEdgeFacts
<1>12. \A p, s \in Blocks(function) :
          s \in EdgesFrom(function, p) /\ StartsWithPhi(function, s) /\ <<p, s>> \notin SplitEdges =>
             EdgesFrom(function, p) = {s}
  BY SplitEdgeFacts
<1>13. /\ g.n \in Nat /\ g.n > 0 /\ g.entry = 0 /\ g.value_count = function.value_count
       /\ g.blocks = [c \in Blocks(g) |-> g.blocks[c]]
       /\ \A d, e \in SplitEdges : x[d] = x[e] => d = e
  BY <1>3, <1>5, <1>10
<1>14. \A e \in SplitEdges : /\ e = <<e[1], e[2]>> /\ e[1] \in Blocks(function) /\ e[2] \in Blocks(function)
                             /\ e[2] \in EdgesFrom(function, e[1]) /\ StartsWithPhi(function, e[2])
                             /\ x[e] \in Blocks(g) /\ x[e] \notin Blocks(function)
                             /\ g.blocks[x[e]] = <<BranchTo(e[2])>>
  BY <1>6, <1>11
<1>15. \A b \in Blocks(function) :
          /\ g.blocks[b] \in Seq(IRInstruction) /\ Len(g.blocks[b]) = Len(function.blocks[b])
          /\ DOMAIN g.blocks[b] = DOMAIN function.blocks[b]
          /\ \A k \in DOMAIN function.blocks[b] :
                Reroutes(SplitEdges, x, b, g.blocks[b][k], function.blocks[b][k])
  BY <1>8, <1>9
<1>16. \A b \in Blocks(function) : \A k \in DOMAIN function.blocks[b] : \A p \in Blocks(function) :
          function.blocks[b][k].opcode = "loop" /\ PairedAt(function, b, function.blocks[b][k], p) =>
             g.blocks[b][k].loop_target =
               Via(SplitEdges, x, p, function.blocks[b][k].loop_target, function.blocks[b][k].loop_target)
  BY <1>9
<1>17. Splitting(function, g, SplitEdges, x)
  BY <1>7, <1>12, <1>13, <1>14, <1>15, <1>16 DEF Splitting
<1> QED
  BY <1>1, <1>17

\* Instructions that differ only in the blocks they name.
SameKind(f, new, old) ==
    /\ new \in IRInstruction /\ old \in IRInstruction
    /\ new.opcode = old.opcode /\ new.loop_id = old.loop_id
    /\ DOMAIN new.targets = DOMAIN old.targets
    /\ \A e \in DOMAIN old.targets : old.targets[e] \in Blocks(f)
    /\ IsHardware(new) <=> IsHardware(old)
    /\ new.targets = <<>> <=> old.targets = <<>>

\* What splitting says of one instruction and of one new block.
LEMMA SplittingFacts ==
    ASSUME NEW f, NEW g, NEW E, NEW x, WellFormed(f), Splitting(f, g, E, x)
    PROVE  /\ \A b \in Blocks(f) : b \in Blocks(g) /\ DOMAIN g.blocks[b] = DOMAIN f.blocks[b]
           /\ \A b \in Blocks(f) : Len(g.blocks[b]) = Len(f.blocks[b])
           /\ \A b \in Blocks(f) : \A k \in DOMAIN f.blocks[b] :
                 SameKind(f, g.blocks[b][k], f.blocks[b][k])
           /\ \A e \in E : /\ Len(g.blocks[x[e]]) = 1 /\ DOMAIN g.blocks[x[e]] = {1}
                           /\ g.blocks[x[e]][1] = BranchTo(e[2])
           /\ \A p, s, end : Via(E, x, p, s, end) = end \/ (<<p, s>> \in E /\ Via(E, x, p, s, end) = x[<<p, s>>])
           /\ \A p, s : \A end \in Blocks(f) : Via(E, x, p, s, end) \in Blocks(g)
           /\ \A c \in Blocks(g) : c \in Blocks(f) \/ \E e \in E : c = x[e]
<1>1. /\ Blocks(g) = Blocks(f) \cup {x[e] : e \in E}
      /\ \A b \in Blocks(f) :
          /\ Len(g.blocks[b]) = Len(f.blocks[b])
          /\ DOMAIN g.blocks[b] = DOMAIN f.blocks[b]
          /\ \A k \in DOMAIN f.blocks[b] : Reroutes(E, x, b, g.blocks[b][k], f.blocks[b][k])
      /\ \A e \in E : x[e] \in Blocks(g) /\ g.blocks[x[e]] = <<BranchTo(e[2])>>
  BY DEF Splitting
<1>2. ASSUME NEW b \in Blocks(f), NEW k \in DOMAIN f.blocks[b], NEW new, NEW old,
             new = g.blocks[b][k], old = f.blocks[b][k]
      PROVE  SameKind(f, new, old)
  <2>1. Reroutes(E, x, b, new, old)
    BY <1>1, <1>2
  <2>2. /\ new \in IRInstruction /\ new.opcode = old.opcode /\ new.loop_id = old.loop_id
        /\ DOMAIN new.targets = DOMAIN old.targets
    BY <2>1 DEF Reroutes
  <2>3. old \in IRInstruction /\ \A e \in DOMAIN old.targets : old.targets[e] \in Blocks(f)
    BY <1>2, FormFacts
  <2>4. new.targets = <<>> <=> old.targets = <<>>
    <3>1. PICK s, t : s = new.targets /\ t = old.targets
      OBVIOUS
    <3>2. Len(t) \in Nat /\ DOMAIN t = 1 .. Len(t) /\ (t = <<>> <=> Len(t) = 0)
      BY <2>3, <3>1, InstructionTypes
    <3>3. Len(s) \in Nat /\ DOMAIN s = 1 .. Len(s) /\ (s = <<>> <=> Len(s) = 0)
      BY <2>2, <3>1, InstructionTypes
    <3>4. (1 \in 1 .. Len(s) <=> Len(s) # 0) /\ (1 \in 1 .. Len(t) <=> Len(t) # 0)
      BY <3>2, <3>3
    <3>5. 1 .. Len(s) = 1 .. Len(t)
      BY <2>2, <3>1, <3>2, <3>3
    <3> QED
      BY <3>1, <3>2, <3>3, <3>4, <3>5
  <2> QED
    BY <2>2, <2>3, <2>4 DEF SameKind, IsHardware
<1>3. \A e \in E : /\ Len(g.blocks[x[e]]) = 1 /\ DOMAIN g.blocks[x[e]] = {1}
                   /\ g.blocks[x[e]][1] = BranchTo(e[2])
  <2> SUFFICES ASSUME NEW e \in E
               PROVE  /\ Len(g.blocks[x[e]]) = 1 /\ DOMAIN g.blocks[x[e]] = {1}
                      /\ g.blocks[x[e]][1] = BranchTo(e[2])
    OBVIOUS
  <2>1. PICK i : g.blocks[x[e]] = <<i>> /\ i = BranchTo(e[2])
    BY <1>1
  <2>2. Len(<<i>>) = 1 /\ DOMAIN <<i>> = {1} /\ <<i>>[1] = i
    <3>1. DOMAIN <<i>> = 1 .. 1
      OBVIOUS
    <3> QED
      BY <3>1
  <2> QED
    BY <2>1, <2>2
<1>4. \A p, s, end : Via(E, x, p, s, end) = end \/ (<<p, s>> \in E /\ Via(E, x, p, s, end) = x[<<p, s>>])
  BY DEF Via
<1>5. \A p, s : \A end \in Blocks(f) : Via(E, x, p, s, end) \in Blocks(g)
  BY <1>1 DEF Via
<1>6. \A b \in Blocks(f) : \A k \in DOMAIN f.blocks[b] : SameKind(f, g.blocks[b][k], f.blocks[b][k])
  BY <1>2
<1>7. /\ \A b \in Blocks(f) : b \in Blocks(g) /\ DOMAIN g.blocks[b] = DOMAIN f.blocks[b]
      /\ \A b \in Blocks(f) : Len(g.blocks[b]) = Len(f.blocks[b])
      /\ \A c \in Blocks(g) : c \in Blocks(f) \/ \E e \in E : c = x[e]
  BY <1>1
<1> QED
  BY <1>3, <1>4, <1>5, <1>6, <1>7

\* Splitting puts each new block between the two ends of its edge.
LEMMA SplitGraph ==
    ASSUME NEW f, NEW g, NEW E, NEW x, WellFormed(f), Splitting(f, g, E, x)
    PROVE  /\ \A b \in Blocks(f) : EdgesFrom(g, b) = {Via(E, x, b, t, t) : t \in EdgesFrom(f, b)}
           /\ \A e \in E : EdgesFrom(g, x[e]) = {e[2]}
           /\ \A s \in Blocks(f) : EdgesInto(g, s) = {Via(E, x, p, s, p) : p \in EdgesInto(f, s)}
           /\ \A e \in E : EdgesInto(g, x[e]) = {e[1]}
           /\ \A b \in Blocks(f) : EdgesFrom(f, b) \subseteq Blocks(f)
           /\ \A c \in Blocks(g) : EdgesFrom(g, c) \subseteq Blocks(g)
<1>1. ASSUME NEW b \in Blocks(f), NEW t
      PROVE  t \in EdgesFrom(g, b) <=> \E u \in EdgesFrom(f, b) : t = Via(E, x, b, u, u)
  <2>1. /\ DOMAIN g.blocks[b] = DOMAIN f.blocks[b]
        /\ \A k \in DOMAIN f.blocks[b] :
              /\ g.blocks[b][k].opcode = f.blocks[b][k].opcode
              /\ DOMAIN g.blocks[b][k].targets = DOMAIN f.blocks[b][k].targets
              /\ f.blocks[b][k].opcode # "phi" =>
                   \A e \in DOMAIN f.blocks[b][k].targets :
                      g.blocks[b][k].targets[e] = Via(E, x, b, f.blocks[b][k].targets[e], f.blocks[b][k].targets[e])
    BY DEF Splitting, Reroutes
  <2>2. ASSUME t \in EdgesFrom(g, b) PROVE \E u \in EdgesFrom(f, b) : t = Via(E, x, b, u, u)
    <3>1. PICK k \in DOMAIN g.blocks[b] :
             /\ g.blocks[b][k].opcode # "phi"
             /\ \E e \in DOMAIN g.blocks[b][k].targets : t = g.blocks[b][k].targets[e]
      BY <2>2, EdgeNamed
    <3>2. PICK e \in DOMAIN f.blocks[b][k].targets :
             t = Via(E, x, b, f.blocks[b][k].targets[e], f.blocks[b][k].targets[e])
      BY <2>1, <3>1
    <3>3. f.blocks[b][k].targets[e] \in EdgesFrom(f, b)
      BY <2>1, <3>1, EdgeNamed
    <3> QED
      BY <3>2, <3>3
  <2>3. ASSUME NEW u \in EdgesFrom(f, b), t = Via(E, x, b, u, u) PROVE t \in EdgesFrom(g, b)
    <3>1. PICK k \in DOMAIN f.blocks[b] :
             /\ f.blocks[b][k].opcode # "phi"
             /\ \E e \in DOMAIN f.blocks[b][k].targets : u = f.blocks[b][k].targets[e]
      BY EdgeNamed
    <3>2. \E e \in DOMAIN g.blocks[b][k].targets : t = g.blocks[b][k].targets[e]
      BY <2>1, <2>3, <3>1
    <3> QED
      BY <2>1, <3>1, <3>2, EdgeNamed
  <2> QED
    BY <2>2, <2>3
<1>2. \A b \in Blocks(f) : EdgesFrom(g, b) = {Via(E, x, b, t, t) : t \in EdgesFrom(f, b)}
  BY <1>1
<1>3. \A e \in E : EdgesFrom(g, x[e]) = {e[2]}
  <2> SUFFICES ASSUME NEW e \in E, NEW t PROVE t \in EdgesFrom(g, x[e]) <=> t = e[2]
    OBVIOUS
  <2>1. DOMAIN g.blocks[x[e]] = {1} /\ g.blocks[x[e]][1] = BranchTo(e[2])
    BY SplittingFacts
  <2>2. /\ BranchTo(e[2]).opcode = "br" /\ DOMAIN BranchTo(e[2]).targets = {1}
        /\ BranchTo(e[2]).targets[1] = e[2]
    BY DEF BranchTo
  <2> QED
    BY <2>1, <2>2, EdgeNamed
<1>4. \A b \in Blocks(f) : EdgesFrom(f, b) \subseteq Blocks(f)
  BY TerminalEdges
<1>5. /\ \A c \in Blocks(g) : c \in Blocks(f) \/ \E e \in E : c = x[e]
      /\ \A b \in Blocks(f) : b \in Blocks(g)
      /\ \A e \in E : /\ e[2] \in Blocks(f) /\ e[1] \in Blocks(f) /\ e[2] \in EdgesFrom(f, e[1])
                      /\ e = <<e[1], e[2]>> /\ x[e] \in Blocks(g) /\ x[e] \notin Blocks(f)
      /\ \A d, e \in E : x[d] = x[e] => d = e
  BY DEF Splitting
<1>6. \A c \in Blocks(g) : EdgesFrom(g, c) \subseteq Blocks(g)
  <2> SUFFICES ASSUME NEW c \in Blocks(g), NEW t \in EdgesFrom(g, c) PROVE t \in Blocks(g)
    OBVIOUS
  <2>1. CASE c \in Blocks(f)
    BY <1>1, <1>4, <2>1, SplittingFacts
  <2>2. CASE \E e \in E : c = x[e]
    BY <1>3, <1>5, <2>2
  <2> QED
    BY <1>5, <2>1, <2>2
<1>7. ASSUME NEW s \in Blocks(f), NEW q
      PROVE  q \in EdgesInto(g, s) <=> \E p \in EdgesInto(f, s) : q = Via(E, x, p, s, p)
  <2>1. ASSUME q \in EdgesInto(g, s) PROVE \E p \in EdgesInto(f, s) : q = Via(E, x, p, s, p)
    <3>1. q \in Blocks(g) /\ s \in EdgesFrom(g, q)
      BY <2>1 DEF EdgesInto
    <3>2. CASE q \in Blocks(f)
      <4>1. PICK u \in EdgesFrom(f, q) : s = Via(E, x, q, u, u)
        BY <1>1, <3>1, <3>2
      <4>2. u = s /\ <<q, s>> \notin E
        BY <1>5, <4>1 DEF Via
      <4> QED
        BY <3>2, <4>1, <4>2 DEF EdgesInto, Via
    <3>3. ASSUME NEW e \in E, q = x[e] PROVE \E p \in EdgesInto(f, s) : q = Via(E, x, p, s, p)
      <4>1. s = e[2]
        BY <1>3, <3>1, <3>3
      <4>2. <<e[1], s>> = e
        BY <1>5, <4>1
      <4>3. e[1] \in EdgesInto(f, s) /\ q = Via(E, x, e[1], s, e[1])
        BY <1>5, <3>3, <4>1, <4>2 DEF EdgesInto, Via
      <4> QED
        BY <4>3
    <3> QED
      BY <1>5, <3>1, <3>2, <3>3
  <2>2. ASSUME NEW p \in EdgesInto(f, s), q = Via(E, x, p, s, p) PROVE q \in EdgesInto(g, s)
    <3>1. p \in Blocks(f) /\ s \in EdgesFrom(f, p)
      BY DEF EdgesInto
    <3>2. CASE <<p, s>> \in E
      <4>1. PICK e \in E : e = <<p, s>>
        BY <3>2
      <4>2. q = x[e] /\ EdgesFrom(g, x[e]) = {s}
        BY <1>3, <2>2, <3>2, <4>1 DEF Via
      <4> QED
        BY <1>5, <4>2 DEF EdgesInto
    <3>3. CASE <<p, s>> \notin E
      <4>1. q = p /\ s = Via(E, x, p, s, s)
        BY <2>2, <3>3 DEF Via
      <4>2. s \in EdgesFrom(g, p)
        BY <1>1, <3>1, <4>1
      <4> QED
        BY <1>5, <3>1, <4>1, <4>2 DEF EdgesInto
    <3> QED
      BY <3>2, <3>3
  <2> QED
    BY <2>1, <2>2
<1>8. \A s \in Blocks(f) : EdgesInto(g, s) = {Via(E, x, p, s, p) : p \in EdgesInto(f, s)}
  BY <1>7
<1>9. \A e \in E : EdgesInto(g, x[e]) = {e[1]}
  <2> SUFFICES ASSUME NEW e \in E, NEW q PROVE q \in EdgesInto(g, x[e]) <=> q = e[1]
    OBVIOUS
  <2>1. ASSUME q \in EdgesInto(g, x[e]) PROVE q = e[1]
    <3>1. q \in Blocks(g) /\ x[e] \in EdgesFrom(g, q)
      BY <2>1 DEF EdgesInto
    <3>2. q \in Blocks(f)
      BY <1>3, <1>5, <3>1
    <3>3. PICK u \in EdgesFrom(f, q) : x[e] = Via(E, x, q, u, u)
      BY <1>1, <3>1, <3>2
    <3>4. u \in Blocks(f)
      BY <1>4, <3>2, <3>3
    <3>5. <<q, u>> \in E /\ x[e] = x[<<q, u>>]
      BY <1>5, <3>3, <3>4 DEF Via
    <3>6. <<q, u>> = e
      BY <1>5, <3>5
    <3> QED
      BY <3>6
  <2>2. e[1] \in EdgesInto(g, x[e])
    <3>1. Via(E, x, e[1], e[2], e[2]) = x[e]
      BY <1>5 DEF Via
    <3>2. x[e] \in EdgesFrom(g, e[1])
      BY <1>1, <1>5, <3>1
    <3> QED
      BY <1>5, <3>2 DEF EdgesInto
  <2> QED
    BY <2>1, <2>2
<1> QED
  BY <1>2, <1>3, <1>4, <1>6, <1>8, <1>9

\* A setup that is paired names a block, and an end of its loop is a terminator.
LEMMA PairedSetup ==
    ASSUME NEW f, WellFormed(f), Exposed(f), NEW b \in Blocks(f), NEW setup, NEW p \in Blocks(f),
           PairedAt(f, b, setup, p)
    PROVE  /\ 1 \in DOMAIN Terminal(f, p).targets
           /\ Terminal(f, p).targets[1] = setup.loop_target
           /\ setup.loop_target \in Blocks(f) /\ setup.loop_target # Invalid
           /\ setup.loop_target \in EdgesFrom(f, p)
<1>1. PICK i : i = Terminal(f, p) /\ i.opcode = "end" /\ i.targets[1] = setup.loop_target
  BY DEF PairedAt
<1>2. /\ i \in IRInstruction /\ (\A e \in DOMAIN i.targets : i.targets[e] \in Blocks(f))
      /\ i \in Instructions(f, p) /\ \A c \in Blocks(f) : c \in Nat
  BY <1>1, FormFacts DEF Terminal, Instructions, Items
<1>3. PICK t : t = i.targets
  OBVIOUS
<1>4. Len(t) \in Nat /\ DOMAIN t = 1 .. Len(t) /\ Len(t) # 0
  <2>1. i.targets # <<>>
    BY <1>1, <1>2 DEF Exposed, IsHardware
  <2> QED
    BY <1>2, <1>3, <2>1, InstructionTypes
<1>5. 1 \in DOMAIN t
  BY <1>4
<1>6. setup.loop_target \in Blocks(f) /\ setup.loop_target \in EdgesFrom(f, p)
  BY <1>1, <1>2, <1>3, <1>5, TerminalEdges DEF Items
<1> QED
  BY <1>1, <1>2, <1>3, <1>5, <1>6 DEF Invalid

\* Splitting keeps what the verifier checks of each instruction.
LEMMA SplitForm ==
    ASSUME NEW f, NEW g, NEW E, NEW x, WellFormed(f), Exposed(f), Paired(f), Splitting(f, g, E, x)
    PROVE  WellFormed(g) /\ Exposed(g)
<1>1. /\ \A b \in Blocks(f) : b \in Blocks(g) /\ DOMAIN g.blocks[b] = DOMAIN f.blocks[b]
      /\ \A b \in Blocks(f) : Len(g.blocks[b]) = Len(f.blocks[b])
      /\ \A c \in Blocks(g) : c \in Blocks(f) \/ \E e \in E : c = x[e]
      /\ \A e \in E : /\ Len(g.blocks[x[e]]) = 1 /\ DOMAIN g.blocks[x[e]] = {1}
                      /\ g.blocks[x[e]][1] = BranchTo(e[2])
  BY SplittingFacts
<1>2. \A b \in Blocks(f) : \A k \in DOMAIN f.blocks[b] : SameKind(f, g.blocks[b][k], f.blocks[b][k])
  BY SplittingFacts
<1>3. ASSUME NEW e \in E
      PROVE  /\ BranchTo(e[2]) \in IRInstruction /\ BranchTo(e[2]).opcode = "br"
             /\ BranchTo(e[2]).loop_target = Invalid /\ Items(BranchTo(e[2]).targets) \subseteq Blocks(g)
             /\ g.blocks[x[e]] \in Seq(IRInstruction) /\ g.blocks[x[e]] # <<>>
  <2>1. e[2] \in Blocks(f) /\ e[2] \in Blocks(g) /\ e[2] \in Nat
    BY <1>1, FormFacts DEF Splitting
  <2>2. PICK i : i = BranchTo(e[2]) /\ g.blocks[x[e]] = <<i>>
    <3>1. g.blocks[x[e]] = <<BranchTo(e[2])>>
      BY DEF Splitting
    <3> QED
      BY <3>1
  <2>3. <<e[2]>> \in Seq(Nat) /\ Items(<<e[2]>>) = {e[2]} /\ <<>> \in Seq(Nat)
    BY <2>1 DEF Items
  <2>4. i \in IRInstruction /\ i.opcode = "br" /\ i.loop_target = Invalid /\ i.targets = <<e[2]>>
    <3>1. PICK T \in Seq(Nat), none \in Seq(Nat) : T = <<e[2]>> /\ none = <<>>
      BY <2>3
    <3>2. i = [opcode |-> "br", result |-> 0, operands |-> none, targets |-> T,
               loop_id |-> 0, loop_target |-> Invalid]
      BY <2>2, <3>1 DEF BranchTo, NoValue
    <3>3. i.opcode = "br" /\ i.loop_target = Invalid /\ i.targets = T
      BY <3>2
    <3>4. i \in IRInstruction
      BY <3>2 DEF IRInstruction, Opcodes
    <3> QED
      BY <3>1, <3>3, <3>4
  <2>5. <<i>> \in Seq(IRInstruction) /\ <<i>> # <<>>
    BY <2>4
  <2> QED
    BY <2>1, <2>2, <2>3, <2>4, <2>5
<1>4. /\ g.n \in Nat \ {0} /\ g.entry = 0 /\ g.value_count \in Nat
  BY FormFacts DEF Splitting
<1>5. ASSUME NEW b \in Blocks(f)
      PROVE  /\ g.blocks[b] \in Seq(IRInstruction) /\ g.blocks[b] # <<>>
             /\ Terminal(g, b).opcode = Terminal(f, b).opcode /\ Terminal(f, b).opcode # "phi"
  <2>1. g.blocks[b] \in Seq(IRInstruction)
    BY DEF Splitting
  <2>2. Len(g.blocks[b]) = Len(f.blocks[b]) /\ Len(f.blocks[b]) > 0 /\ Len(f.blocks[b]) \in DOMAIN f.blocks[b]
    BY <1>1, FormFacts
  <2>3. g.blocks[b] # <<>>
    BY <2>1, <2>2, EmptySeq
  <2>4. Terminal(g, b).opcode = Terminal(f, b).opcode
    BY <1>2, <2>2 DEF Terminal, SameKind
  <2> QED
    BY <2>1, <2>3, <2>4 DEF WellFormed
<1>6. g.blocks \in [Blocks(g) -> Seq(IRInstruction)]
  <2>1. \A c \in Blocks(g) : g.blocks[c] \in Seq(IRInstruction)
    BY <1>1, <1>3, <1>5
  <2>2. g.blocks = [c \in Blocks(g) |-> g.blocks[c]]
    BY DEF Splitting
  <2> QED
    BY <2>1, <2>2
<1>7. ASSUME NEW e \in E, NEW k \in DOMAIN g.blocks[x[e]] PROVE WellPlaced(g, x[e], k)
  <2>1. PICK i : i = g.blocks[x[e]][k] /\ i = BranchTo(e[2]) /\ k = Len(g.blocks[x[e]])
    BY <1>1, <1>7
  <2>2. i.opcode = "br" /\ i.loop_target = Invalid /\ Items(i.targets) \subseteq Blocks(g)
    BY <1>3, <2>1
  <2> QED
    BY <2>1, <2>2 DEF WellPlaced
<1>8. ASSUME NEW b \in Blocks(f), NEW k \in DOMAIN g.blocks[b] PROVE WellPlaced(g, b, k)
  <2>1. PICK new, old : new = g.blocks[b][k] /\ old = f.blocks[b][k]
    OBVIOUS
  <2>2. k \in DOMAIN f.blocks[b] /\ SameKind(f, new, old) /\ Reroutes(E, x, b, new, old)
    BY <1>1, <1>2, <2>1 DEF Splitting
  <2>3. WellPlaced(f, b, k)
    BY <2>2 DEF WellFormed
  <2>4. Items(new.targets) \subseteq Blocks(g)
    <3> SUFFICES ASSUME NEW e \in DOMAIN old.targets PROVE new.targets[e] \in Blocks(g)
      BY <2>2 DEF SameKind, Items
    <3>1. old.targets[e] \in Blocks(f)
      BY <2>2 DEF SameKind
    <3>2. \E p, s : new.targets[e] = Via(E, x, p, s, old.targets[e])
      BY <2>2 DEF Reroutes
    <3> QED
      BY <3>1, <3>2, SplittingFacts
  <2>5. new.opcode # "phi" /\ new.targets # <<>> => k = Len(g.blocks[b])
    BY <1>1, <2>1, <2>2, <2>3 DEF SameKind, WellPlaced
  <2>6. ASSUME new.opcode = "phi" PROVE k \in LeadingPhis(g, b) /\ Items(new.targets) = EdgesInto(g, b)
    <3>1. old.opcode = "phi" /\ k \in LeadingPhis(f, b) /\ Items(old.targets) = EdgesInto(f, b)
      BY <2>1, <2>2, <2>3, <2>6 DEF SameKind, WellPlaced
    <3>2. \A j \in DOMAIN f.blocks[b] : g.blocks[b][j].opcode = f.blocks[b][j].opcode
      BY <1>2 DEF SameKind
    <3>3. k \in LeadingPhis(g, b)
      <4>1. DOMAIN f.blocks[b] = 1 .. Len(f.blocks[b]) /\ Len(f.blocks[b]) \in Nat
        BY FormFacts
      <4>2. \A j \in 1 .. k : j \in DOMAIN f.blocks[b]
        BY <2>2, <4>1
      <4> QED
        BY <1>1, <3>1, <3>2, <4>2 DEF LeadingPhis
    <3>4. EdgesInto(g, b) = {Via(E, x, p, b, p) : p \in EdgesInto(f, b)}
      BY SplitGraph
    <3>5. \A e \in DOMAIN old.targets : new.targets[e] = Via(E, x, old.targets[e], b, old.targets[e])
      BY <2>2, <3>1 DEF Reroutes
    <3>6. Items(new.targets) = {Via(E, x, p, b, p) : p \in Items(old.targets)}
      BY <2>2, <3>5 DEF SameKind, Items
    <3> QED
      BY <3>1, <3>3, <3>4, <3>6
  <2>7. ASSUME new.loop_target # Invalid
        PROVE  new.opcode = "loop" /\ new.targets # <<>> /\ new.loop_target \in Blocks(g)
    <3>1. old.opcode = "loop"
      BY <2>1, <2>2, <2>3, <2>7 DEF Reroutes, WellPlaced
    <3>2. PICK p \in Blocks(f) : PairedAt(f, b, old, p)
      BY <2>1, <2>2, <3>1 DEF Paired, Instructions, Items
    <3>3. old.loop_target \in Blocks(f) /\ old.loop_target # Invalid
      BY <3>2, PairedSetup
    <3>4. new.loop_target = Via(E, x, p, old.loop_target, old.loop_target)
      BY <2>1, <2>2, <3>1, <3>2 DEF Splitting
    <3>5. new.targets # <<>>
      BY <2>1, <2>2, <2>3, <3>3 DEF SameKind, WellPlaced
    <3> QED
      BY <2>2, <3>1, <3>3, <3>4, <3>5, SplittingFacts DEF SameKind
  <2> QED
    BY <2>1, <2>4, <2>5, <2>6, <2>7 DEF WellPlaced
<1>9. \A c \in Blocks(g) : g.blocks[c] # <<>> /\ Terminal(g, c).opcode # "phi"
  <2>1. \A e \in E : Terminal(g, x[e]).opcode = "br"
    BY <1>1, <1>3 DEF Terminal
  <2> QED
    BY <1>1, <1>3, <1>5, <2>1
<1>10. \A c \in Blocks(g) : \A k \in DOMAIN g.blocks[c] : WellPlaced(g, c, k)
  BY <1>1, <1>7, <1>8
<1>11. WellFormed(g)
  BY <1>4, <1>6, <1>9, <1>10 DEF WellFormed
<1>12. ASSUME NEW c \in Blocks(g), NEW k \in DOMAIN g.blocks[c], IsHardware(g.blocks[c][k])
       PROVE  g.blocks[c][k].targets # <<>>
  <2>1. c \in Blocks(f)
    BY <1>1, <1>3, <1>12 DEF IsHardware
  <2>2. k \in DOMAIN f.blocks[c] /\ SameKind(f, g.blocks[c][k], f.blocks[c][k])
    BY <1>1, <1>2, <2>1
  <2>3. f.blocks[c][k].targets # <<>>
    BY <1>12, <2>1, <2>2 DEF SameKind, Exposed, Instructions, Items
  <2> QED
    BY <2>2, <2>3 DEF SameKind
<1> QED
  BY <1>11, <1>12 DEF Exposed, Instructions, Items

\* A block holds a hardware loop's instruction after splitting where it held
\* one before.
LEMMA SplitOneEach ==
    ASSUME NEW f, NEW g, NEW E, NEW x, WellFormed(f), Splitting(f, g, E, x), OneEach(f)
    PROVE  OneEach(g)
<1>1. ASSUME NEW b \in Blocks(g), NEW k \in DOMAIN g.blocks[b], g.blocks[b][k].opcode \in {"loop", "end"}
      PROVE  /\ b \in Blocks(f) /\ k \in DOMAIN f.blocks[b] /\ IsHardware(f.blocks[b][k])
             /\ f.blocks[b][k].opcode = g.blocks[b][k].opcode
             /\ f.blocks[b][k].loop_id = g.blocks[b][k].loop_id
  <2>1. b \in Blocks(f)
    <3>1. ASSUME NEW e \in E, b = x[e] PROVE FALSE
      <4>1. g.blocks[b][k] = BranchTo(e[2])
        BY <3>1, SplittingFacts
      <4> QED
        BY <1>1, <4>1 DEF BranchTo
    <3> QED
      BY <3>1, SplittingFacts
  <2>2. k \in DOMAIN f.blocks[b] /\ SameKind(f, g.blocks[b][k], f.blocks[b][k])
    BY <2>1, SplittingFacts
  <2> QED
    BY <1>1, <2>1, <2>2 DEF SameKind, IsHardware
<1> QED
  BY <1>1 DEF OneEach, IsHardware

\* After splitting, the edges into a block with PHIs are private.
LEMMA SplitPhis ==
    ASSUME NEW f, NEW g, NEW E, NEW x, WellFormed(f), Splitting(f, g, E, x), WellFormed(g)
    PROVE  PrivatePhis(g)
<1> SUFFICES ASSUME NEW b \in Blocks(g), NEW k \in DOMAIN g.blocks[b], g.blocks[b][k].opcode = "phi"
             PROVE  /\ Items(g.blocks[b][k].targets) = EdgesInto(g, b)
                    /\ \A p \in EdgesInto(g, b) : EdgesFrom(g, p) = {b}
  BY DEF PrivatePhis, Instructions, Items
<1>1. Items(g.blocks[b][k].targets) = EdgesInto(g, b)
  BY DEF WellFormed, WellPlaced
<1>2. b \in Blocks(f)
  <2>1. ASSUME NEW e \in E, b = x[e] PROVE FALSE
    <3>1. g.blocks[b][k] = BranchTo(e[2])
      BY <2>1, SplittingFacts
    <3> QED
      BY <3>1 DEF BranchTo
  <2> QED
    BY <2>1, SplittingFacts
<1>3. StartsWithPhi(f, b)
  <2>1. k \in DOMAIN f.blocks[b] /\ f.blocks[b][k].opcode = "phi"
    BY <1>2, SplittingFacts DEF SameKind
  <2>2. k \in LeadingPhis(f, b)
    BY <1>2, <2>1 DEF WellFormed, WellPlaced
  <2>3. 1 \in 1 .. k
    <3>1. DOMAIN f.blocks[b] = 1 .. Len(f.blocks[b]) /\ Len(f.blocks[b]) \in Nat
      BY <1>2, FormFacts
    <3> QED
      BY <2>1, <3>1
  <2> QED
    BY <2>2, <2>3 DEF LeadingPhis, StartsWithPhi
<1>4. ASSUME NEW q \in EdgesInto(g, b) PROVE EdgesFrom(g, q) = {b}
  <2>1. PICK p \in EdgesInto(f, b) : q = Via(E, x, p, b, p)
    <3>1. EdgesInto(g, b) = {Via(E, x, p, b, p) : p \in EdgesInto(f, b)}
      BY <1>2, SplitGraph
    <3> QED
      BY <3>1
  <2>2. p \in Blocks(f) /\ b \in EdgesFrom(f, p)
    BY DEF EdgesInto
  <2>3. CASE <<p, b>> \in E
    <3>1. PICK e \in E : e = <<p, b>> /\ q = x[e]
      BY <2>1, <2>3 DEF Via
    <3>2. EdgesFrom(g, x[e]) = {e[2]}
      BY SplitGraph
    <3> QED
      BY <3>1, <3>2
  <2>4. CASE <<p, b>> \notin E
    <3>1. q = p /\ EdgesFrom(f, p) = {b}
      BY <1>2, <1>3, <2>1, <2>2, <2>4 DEF Via, Splitting
    <3>2. EdgesFrom(g, p) = {Via(E, x, p, t, t) : t \in EdgesFrom(f, p)}
      BY <2>2, SplitGraph
    <3>3. Via(E, x, p, b, b) = b
      BY <2>4 DEF Via
    <3> QED
      BY <3>1, <3>2, <3>3
  <2> QED
    BY <2>3, <2>4
<1> QED
  BY <1>1, <1>4

\* Control still reaches the blocks it reached, and still cannot avoid the
\* blocks it could not avoid.
LEMMA SplitPaths ==
    ASSUME NEW f, NEW g, NEW E, NEW x, WellFormed(f), Splitting(f, g, E, x)
    PROVE  /\ \A b \in Blocks(f) : Reaches(f, b) => Reaches(g, b)
           /\ \A d, b \in Blocks(f) : Passes(f, d, b) => Passes(g, d, b)
<1>1. /\ \A e \in E : /\ e[1] \in Blocks(f) /\ e[2] \in Blocks(f) /\ e = <<e[1], e[2]>>
                      /\ e[2] \in EdgesFrom(f, e[1]) /\ x[e] \in Blocks(g) /\ x[e] \notin Blocks(f)
      /\ \A b \in Blocks(f) : b \in Blocks(g)
      /\ f.entry = 0 /\ g.entry = 0 /\ 0 \in Blocks(f)
  BY FormFacts DEF Splitting
<1>2. \A b \in Blocks(f) : EdgesFrom(g, b) = {Via(E, x, b, t, t) : t \in EdgesFrom(f, b)}
  BY SplitGraph
<1>3. \A e \in E : EdgesFrom(g, x[e]) = {e[2]}
  BY SplitGraph
<1>4. \A b \in Blocks(f) : EdgesFrom(f, b) \subseteq Blocks(f)
  BY SplitGraph
<1>5. ASSUME NEW b \in Blocks(f), Reaches(f, b) PROVE Reaches(g, b)
  <2> SUFFICES ASSUME NEW S \in SUBSET Blocks(g), g.entry \in S,
                      \A c \in S : EdgesFrom(g, c) \subseteq S
               PROVE  b \in S
    BY DEF Reaches
  <2> DEFINE T == S \cap Blocks(f)
  <2>1. f.entry \in T
    BY <1>1
  <2>2. ASSUME NEW c \in T, NEW t \in EdgesFrom(f, c) PROVE t \in T
    <3>1. t \in Blocks(f) /\ Via(E, x, c, t, t) \in S
      BY <1>2, <1>4
    <3>2. CASE <<c, t>> \in E
      <4>1. PICK e \in E : e = <<c, t>> /\ x[e] \in S
        BY <3>1, <3>2 DEF Via
      <4>2. e[2] \in S
        BY <1>3, <4>1
      <4> QED
        BY <3>1, <4>1, <4>2
    <3>3. CASE <<c, t>> \notin E
      BY <3>1, <3>3 DEF Via
    <3> QED
      BY <3>2, <3>3
  <2>3. b \in T
    BY <1>5, <2>1, <2>2 DEF Reaches
  <2> QED
    BY <2>3
<1>6. ASSUME NEW d \in Blocks(f), NEW b \in Blocks(f), Passes(f, d, b) PROVE Passes(g, d, b)
  <2>1. PICK S \in SUBSET Blocks(f) : Avoiding(f, S, d) /\ b \notin S
    BY <1>6 DEF Passes
  <2> DEFINE T == S \cup {x[e] : e \in {a \in E : a[1] \in S}}
  <2>2. T \in SUBSET Blocks(g) /\ b \notin T
    BY <1>1, <2>1
  <2>3. g.entry # d => g.entry \in T
    BY <1>1, <2>1 DEF Avoiding
  <2>4. ASSUME NEW c \in T, NEW u \in EdgesFrom(g, c) \ {d} PROVE u \in T
    <3>1. CASE c \in S
      <4>1. PICK t \in EdgesFrom(f, c) : u = Via(E, x, c, t, t)
        BY <1>2, <3>1
      <4>2. CASE <<c, t>> \in E
        <5>1. PICK e \in E : e = <<c, t>> /\ u = x[e]
          BY <4>1, <4>2 DEF Via
        <5> QED
          BY <3>1, <5>1
      <4>3. CASE <<c, t>> \notin E
        BY <2>1, <2>4, <3>1, <4>1, <4>3 DEF Via, Avoiding
      <4> QED
        BY <4>2, <4>3
    <3>2. ASSUME NEW e \in E, e[1] \in S, c = x[e] PROVE u \in T
      BY <1>1, <1>3, <2>1, <2>4, <3>2 DEF Avoiding
    <3> QED
      BY <3>1, <3>2
  <2> HIDE DEF T
  <2>5. Avoiding(g, T, d)
    BY <2>3, <2>4 DEF Avoiding
  <2> QED
    BY <2>2, <2>5 DEF Passes
<1> QED
  BY <1>5, <1>6

\* Splitting keeps each hardware loop in one piece.
LEMMA SplitPaired ==
    ASSUME NEW f, NEW g, NEW E, NEW x, WellFormed(f), Exposed(f), Paired(f), Splitting(f, g, E, x)
    PROVE  Paired(g)
<1> SUFFICES ASSUME NEW b \in Blocks(g), NEW k \in DOMAIN g.blocks[b], g.blocks[b][k].opcode = "loop"
             PROVE  \E p \in Blocks(g) : PairedAt(g, b, g.blocks[b][k], p)
  BY DEF Paired, Instructions, Items
<1>1. b \in Blocks(f)
  <2>1. ASSUME NEW e \in E, b = x[e] PROVE FALSE
    <3>1. g.blocks[b][k] = BranchTo(e[2])
      BY <2>1, SplittingFacts
    <3> QED
      BY <3>1 DEF BranchTo
  <2> QED
    BY <2>1, SplittingFacts
<1>2. k \in DOMAIN f.blocks[b] /\ SameKind(f, g.blocks[b][k], f.blocks[b][k])
  BY <1>1, SplittingFacts
<1>3. PICK new, setup : /\ new = g.blocks[b][k] /\ setup = f.blocks[b][k] /\ setup.opcode = "loop"
                        /\ new.loop_id = setup.loop_id
  BY <1>2 DEF SameKind
<1>4. PICK p \in Blocks(f) : PairedAt(f, b, setup, p)
  BY <1>1, <1>2, <1>3 DEF Paired, Instructions, Items
<1>5. PICK q \in Blocks(f) : /\ Reaches(f, q) /\ Passes(f, p, q)
                             /\ \E i \in Instructions(f, q) : i.opcode = "leave" /\ i.loop_id = setup.loop_id
  BY <1>4 DEF PairedAt
<1>6. Reaches(g, p) /\ Passes(g, b, p) /\ Reaches(g, q) /\ Passes(g, p, q)
  BY <1>1, <1>4, <1>5, SplitPaths DEF PairedAt
<1>7. \E i \in Instructions(g, q) : i.opcode = "leave" /\ i.loop_id = new.loop_id
  <2>1. PICK m \in DOMAIN f.blocks[q] :
           f.blocks[q][m].opcode = "leave" /\ f.blocks[q][m].loop_id = setup.loop_id
    BY <1>5 DEF Instructions, Items
  <2>2. m \in DOMAIN g.blocks[q] /\ SameKind(f, g.blocks[q][m], f.blocks[q][m])
    BY SplittingFacts
  <2> QED
    BY <1>3, <2>1, <2>2 DEF SameKind, Instructions, Items
<1>8. PICK m \in DOMAIN f.blocks[p] : Terminal(f, p) = f.blocks[p][m] /\ Terminal(g, p) = g.blocks[p][m]
  BY SplittingFacts, FormFacts DEF Terminal
<1>9. SameKind(f, Terminal(g, p), Terminal(f, p)) /\ Reroutes(E, x, p, Terminal(g, p), Terminal(f, p))
  <2>1. SameKind(f, Terminal(g, p), Terminal(f, p))
    BY <1>8, SplittingFacts
  <2>2. Reroutes(E, x, p, Terminal(g, p), Terminal(f, p))
    BY <1>8 DEF Splitting
  <2> QED
    BY <2>1, <2>2
<1>10. Terminal(g, p).opcode = "end" /\ Terminal(g, p).loop_id = new.loop_id
  BY <1>3, <1>4, <1>9 DEF PairedAt, SameKind
<1>11. /\ 1 \in DOMAIN Terminal(f, p).targets /\ Terminal(f, p).targets[1] = setup.loop_target
  BY <1>1, <1>4, PairedSetup
<1>12. new.loop_target = Via(E, x, p, setup.loop_target, setup.loop_target)
  BY <1>1, <1>2, <1>3, <1>4 DEF Splitting
<1>13. Terminal(g, p).targets[1] = new.loop_target
  <2>1. Terminal(f, p).opcode # "phi"
    BY DEF WellFormed
  <2> QED
    BY <1>9, <1>11, <1>12, <2>1 DEF Reroutes
<1>14. PairedAt(g, b, new, p)
  <2>1. q \in Blocks(g)
    BY SplittingFacts
  <2> QED
    BY <1>6, <1>7, <1>10, <1>13, <2>1 DEF PairedAt
<1> QED
  BY <1>3, <1>14, SplittingFacts

\* Splitting keeps the flow: every new block stands for the edge it is on.
LEMMA SplitFlow ==
    ASSUME NEW f, NEW g, NEW E, NEW x, NEW q, WellFormed(f), Exposed(f), Paired(f), Splitting(f, g, E, x),
           DOMAIN q = Blocks(g), \A b \in Blocks(f) : q[b] = <<b>>, \A e \in E : q[x[e]] = e
    PROVE  SameFlow(g, q, f)
<1>1. /\ \A e \in E : /\ e[1] \in Blocks(f) /\ e[2] \in Blocks(f) /\ e = <<e[1], e[2]>>
                      /\ x[e] \in Blocks(g) /\ x[e] \notin Blocks(f)
      /\ \A b \in Blocks(f) : b \in Blocks(g) /\ b \in Nat
      /\ f.entry = 0 /\ g.entry = 0 /\ 0 \in Blocks(f)
      /\ \A c \in Blocks(g) : c \in Blocks(f) \/ \E e \in E : c = x[e]
      /\ \A d, e \in E : x[d] = x[e] => d = e
  BY FormFacts DEF Splitting
<1>2. /\ \A b \in Blocks(f) : Len(q[b]) = 1 /\ q[b][1] = b
      /\ \A e \in E : Len(q[x[e]]) = 2 /\ q[x[e]][1] = e[1] /\ q[x[e]][2] = e[2]
  <2>1. \A b \in Blocks(f) : Len(<<b>>) = 1 /\ <<b>>[1] = b
    OBVIOUS
  <2>2. \A u, v : Len(<<u, v>>) = 2 /\ <<u, v>>[1] = u /\ <<u, v>>[2] = v
    OBVIOUS
  <2> QED
    BY <1>1, <2>1, <2>2
<1>3. \A b, c \in Blocks(g) : q[b] = q[c] => b = c
  <2> SUFFICES ASSUME NEW b \in Blocks(g), NEW c \in Blocks(g), q[b] = q[c] PROVE b = c
    OBVIOUS
  <2>1. CASE b \in Blocks(f) /\ c \in Blocks(f)
    BY <1>2, <2>1
  <2>2. CASE b \in Blocks(f) /\ c \notin Blocks(f)
    BY <1>1, <1>2, <2>2
  <2>3. CASE b \notin Blocks(f) /\ c \in Blocks(f)
    BY <1>1, <1>2, <2>3
  <2>4. CASE b \notin Blocks(f) /\ c \notin Blocks(f)
    BY <1>1, <2>4
  <2> QED
    BY <2>1, <2>2, <2>3, <2>4
<1>4. \A p, s : \A t \in Blocks(f) : Via(E, x, p, t, t) # Invalid
  <2>1. \A c \in Blocks(g) : c # Invalid
    BY DEF Blocks, Invalid, Splitting
  <2>2. \A p, s : \A t \in Blocks(f) : Via(E, x, p, t, t) \in Blocks(g)
    BY SplittingFacts
  <2> QED
    BY <2>1, <2>2
<1>5. ASSUME NEW p, NEW t \in Blocks(f) PROVE Landing(q, Via(E, x, p, t, t)) = t
  <2>1. CASE <<p, t>> \in E
    <3>1. PICK e \in E : e = <<p, t>> /\ Via(E, x, p, t, t) = x[e]
      BY <2>1 DEF Via
    <3>2. x[e] # Invalid
      BY <1>4, <3>1
    <3> QED
      BY <1>2, <3>1, <3>2 DEF Landing
  <2>2. CASE <<p, t>> \notin E
    <3>1. Via(E, x, p, t, t) = t /\ t # Invalid
      BY <1>1, <2>2 DEF Via, Invalid
    <3> QED
      BY <1>2, <3>1 DEF Landing
  <2> QED
    BY <2>1, <2>2
<1>6. ASSUME NEW b \in Blocks(f), NEW k \in DOMAIN f.blocks[b]
      PROVE  SameInstruction(q, g.blocks[b][k], f.blocks[b][k], b)
  <2>1. PICK new, old : new = g.blocks[b][k] /\ old = f.blocks[b][k]
    OBVIOUS
  <2>2. SameKind(f, new, old) /\ Reroutes(E, x, b, new, old) /\ WellPlaced(f, b, k)
    <3>1. SameKind(f, new, old)
      BY <2>1, SplittingFacts
    <3>2. Reroutes(E, x, b, new, old)
      BY <2>1 DEF Splitting
    <3> QED
      BY <3>1, <3>2 DEF WellFormed
  <2>3. Landing(q, new.loop_target) = old.loop_target
    <3>1. CASE old.opcode # "loop"
      <4>1. new.loop_target = Invalid /\ old.loop_target = Invalid
        BY <2>1, <2>2, <3>1 DEF Reroutes, WellPlaced
      <4> QED
        BY <4>1 DEF Landing
    <3>2. CASE old.opcode = "loop"
      <4>1. PICK p \in Blocks(f) : PairedAt(f, b, old, p)
        BY <2>1, <3>2 DEF Paired, Instructions, Items
      <4>2. old.loop_target \in Blocks(f)
        BY <4>1, PairedSetup
      <4>3. new.loop_target = Via(E, x, p, old.loop_target, old.loop_target)
        BY <2>1, <3>2, <4>1 DEF Splitting
      <4> QED
        BY <1>5, <4>2, <4>3
    <3> QED
      BY <3>1, <3>2
  <2>4. ASSUME NEW e \in DOMAIN new.targets
        PROVE  IF new.opcode = "phi"
               THEN q[new.targets[e]] \in {<<old.targets[e]>>, <<old.targets[e], b>>}
               ELSE Landing(q, new.targets[e]) = old.targets[e]
    <3>1. e \in DOMAIN old.targets /\ old.targets[e] \in Blocks(f) /\ new.opcode = old.opcode
      BY <2>2 DEF SameKind
    <3>2. CASE old.opcode = "phi"
      <4>1. PICK t \in Blocks(f) : t = old.targets[e] /\ new.targets[e] = Via(E, x, t, b, t)
        BY <2>2, <3>1, <3>2 DEF Reroutes
      <4>2. CASE <<t, b>> \in E
        <5>1. PICK d \in E : d = <<t, b>> /\ Via(E, x, t, b, t) = x[d]
          BY <4>2 DEF Via
        <5> QED
          BY <3>1, <3>2, <4>1, <5>1
      <4>3. CASE <<t, b>> \notin E
        <5>1. Via(E, x, t, b, t) = t
          BY <4>3 DEF Via
        <5> QED
          BY <3>1, <3>2, <4>1, <5>1
      <4> QED
        BY <4>2, <4>3
    <3>3. CASE old.opcode # "phi"
      <4>1. new.targets[e] = Via(E, x, b, old.targets[e], old.targets[e])
        BY <2>2, <3>1, <3>3 DEF Reroutes
      <4> QED
        BY <1>5, <3>1, <3>3, <4>1
    <3> QED
      BY <3>2, <3>3
  <2> QED
    BY <2>1, <2>2, <2>3, <2>4 DEF SameInstruction, Reroutes
<1>7. ASSUME NEW b \in Blocks(f) PROVE SameBlock(g, q, f, b)
  <2>1. Len(g.blocks[b]) = Len(f.blocks[b]) /\ DOMAIN g.blocks[b] = DOMAIN f.blocks[b] /\ q[b][1] = b
    BY <1>2, SplittingFacts
  <2> QED
    BY <1>6, <2>1 DEF SameBlock
<1>8. ASSUME NEW e \in E PROVE OnlyAnEdge(g, q, x[e])
  <2>1. EdgesInto(g, x[e]) = {e[1]} /\ EdgesFrom(g, x[e]) = {e[2]}
    BY SplitGraph
  <2>2. q[e[1]] = <<e[1]>> /\ q[e[2]] = <<e[2]>> /\ q[x[e]][1] = e[1] /\ q[x[e]][2] = e[2]
    BY <1>1, <1>2
  <2> QED
    BY <2>1, <2>2 DEF OnlyAnEdge
<1>9. ASSUME NEW c \in Blocks(g)
      PROVE  IF Len(q[c]) = 1 THEN SameBlock(g, q, f, c) ELSE OnlyAnEdge(g, q, c)
  <2>1. CASE c \in Blocks(f)
    BY <1>2, <1>7, <2>1
  <2>2. CASE \E e \in E : c = x[e]
    BY <1>2, <1>8, <2>2
  <2> QED
    BY <1>1, <2>1, <2>2
<1>10. q[0] = <<f.entry>> /\ \A b \in Blocks(f) : \E c \in Blocks(g) : q[c] = <<b>>
  BY <1>1
<1> QED
  BY <1>1, <1>3, <1>9, <1>10 DEF SameFlow

-----------------------------------------------------------------------------
\* Lowered code: hardware loops are cut, nothing else names a block early.
LEMMA LoweredFacts ==
    ASSUME NEW f, WellFormed(f), Lowered(f), NEW b \in Blocks(f), NEW k \in DOMAIN f.blocks[b]
    PROVE  /\ k \in Nat /\ k >= 1 /\ k <= Len(f.blocks[b])
           /\ f.blocks[b][k] \in IRInstruction /\ f.blocks[b][k].opcode # "phi"
           /\ k \in Cuts(f, b) <=> IsHardware(f.blocks[b][k])
           /\ k \in Cuts(f, b) => k < Len(f.blocks[b]) /\ Reaches(f, b)
           /\ f.blocks[b][k].loop_target = Invalid
           /\ k < Len(f.blocks[b]) => f.blocks[b][k].targets = <<>>
<1>1. PICK i : i = f.blocks[b][k]
  OBVIOUS
<1>2. WellPlaced(f, b, k) /\ LoweredAt(f, b, k)
  BY DEF WellFormed, Lowered
<1>3. /\ k \in Nat /\ k >= 1 /\ k <= Len(f.blocks[b]) /\ Len(f.blocks[b]) \in Nat /\ i \in IRInstruction
  <2>1. DOMAIN f.blocks[b] = 1 .. Len(f.blocks[b]) /\ Len(f.blocks[b]) \in Nat /\ i \in IRInstruction
    BY <1>1, FormFacts
  <2> QED
    BY <2>1
<1>4. i.opcode # "phi" /\ (IsHardware(i) => i.targets = <<>> /\ k # Len(f.blocks[b]) /\ Reaches(f, b))
  BY <1>1, <1>2 DEF LoweredAt
<1>5. k \in Cuts(f, b) <=> IsHardware(i)
  BY <1>1, <1>4 DEF Cuts
<1>6. i.loop_target = Invalid
  BY <1>1, <1>2, <1>4 DEF WellPlaced, IsHardware
<1>7. k < Len(f.blocks[b]) => i.targets = <<>>
  BY <1>1, <1>2, <1>3, <1>4 DEF WellPlaced
<1> QED
  BY <1>1, <1>3, <1>4, <1>5, <1>6, <1>7

\* The places where the pieces of a block start.
LEMMA StartFacts ==
    ASSUME NEW f, WellFormed(f), Lowered(f)
    PROVE  /\ \A s \in Starts(f) :
                 /\ s = <<s[1], s[2]>> /\ s[1] \in Blocks(f) /\ s[1] \in Nat /\ s[2] \in Nat
                 /\ s[2] >= 1 /\ s[2] <= Len(f.blocks[s[1]]) /\ s[2] \in DOMAIN f.blocks[s[1]]
                 /\ s[2] = 1 \/ s[2] - 1 \in Cuts(f, s[1])
           /\ \A b \in Blocks(f) : <<b, 1>> \in Starts(f)
           /\ \A b \in Blocks(f) : \A k \in Cuts(f, b) : <<b, k + 1>> \in Starts(f)
           /\ IsFiniteSet(Starts(f))
<1>1. \A b \in Blocks(f) : <<b, 1>> \in Starts(f)
  BY DEF Starts
<1>2. ASSUME NEW b \in Blocks(f), NEW k \in Cuts(f, b) PROVE <<b, k + 1>> \in Starts(f)
  <2>1. k + 1 \in {1} \cup {c + 1 : c \in Cuts(f, b)}
    OBVIOUS
  <2>2. <<b, k + 1>> \in {<<b, m>> : m \in {1} \cup {c + 1 : c \in Cuts(f, b)}}
    BY <2>1
  <2> QED
    BY <2>2 DEF Starts
<1>3. ASSUME NEW s \in Starts(f)
      PROVE  /\ s = <<s[1], s[2]>> /\ s[1] \in Blocks(f) /\ s[1] \in Nat /\ s[2] \in Nat
             /\ s[2] >= 1 /\ s[2] <= Len(f.blocks[s[1]]) /\ s[2] \in DOMAIN f.blocks[s[1]]
             /\ s[2] = 1 \/ s[2] - 1 \in Cuts(f, s[1])
  <2>0. PICK b \in Blocks(f) : s \in {<<b, k>> : k \in {1} \cup {c + 1 : c \in Cuts(f, b)}}
    BY DEF Starts
  <2>1. PICK k \in {1} \cup {c + 1 : c \in Cuts(f, b)} : s = <<b, k>>
    BY <2>0
  <2>2. /\ b \in Nat /\ Len(f.blocks[b]) \in Nat /\ Len(f.blocks[b]) > 0
        /\ DOMAIN f.blocks[b] = 1 .. Len(f.blocks[b])
    BY FormFacts
  <2>3. k \in Nat /\ k >= 1 /\ k <= Len(f.blocks[b]) /\ (k = 1 \/ k - 1 \in Cuts(f, b))
    <3>1. CASE k = 1
      BY <2>2, <3>1
    <3>2. ASSUME NEW c \in Cuts(f, b), k = c + 1
          PROVE  k \in Nat /\ k >= 1 /\ k <= Len(f.blocks[b]) /\ k - 1 \in Cuts(f, b)
      <4>1. c \in DOMAIN f.blocks[b]
        BY DEF Cuts
      <4>2. c \in Nat /\ c >= 1 /\ c < Len(f.blocks[b])
        BY <4>1, LoweredFacts
      <4>3. k - 1 = c
        BY <3>2, <4>2
      <4> QED
        BY <2>2, <3>2, <4>2, <4>3
    <3> QED
      BY <3>1, <3>2
  <2>4. k \in 1 .. Len(f.blocks[b])
    BY <2>2, <2>3
  <2> QED
    BY <2>1, <2>2, <2>3, <2>4
<1>4. IsFiniteSet(Starts(f))
  <2>1. IsFiniteSet(Blocks(f))
    BY FormFacts, FS_Interval DEF Blocks
  <2>2. ASSUME NEW b \in Blocks(f) PROVE IsFiniteSet({<<b, k>> : k \in {1} \cup {c + 1 : c \in Cuts(f, b)}})
    <3> DEFINE K == {1} \cup {c + 1 : c \in Cuts(f, b)}
               P == {<<b, k>> : k \in K}
    <3>1. Len(f.blocks[b]) \in Nat /\ DOMAIN f.blocks[b] = 1 .. Len(f.blocks[b])
      BY FormFacts
    <3>2. K \in SUBSET (1 .. Len(f.blocks[b]) + 1)
      BY <3>1 DEF Cuts
    <3>3. IsFiniteSet(1 .. Len(f.blocks[b]) + 1)
      BY <3>1, FS_Interval
    <3>4. IsFiniteSet(K)
      BY <3>2, <3>3, FS_Subset
    <3> HIDE DEF K
    <3>5. IsFiniteSet({b}) /\ IsFiniteSet({b} \X K)
      BY <3>4, FS_Singleton, FS_Product
    <3>6. P \in SUBSET ({b} \X K)
      OBVIOUS
    <3> HIDE DEF P
    <3>7. IsFiniteSet(P)
      BY <3>5, <3>6, FS_Subset
    <3> QED
      BY <3>7 DEF P, K
  <2> DEFINE Q == {{<<b, k>> : k \in {1} \cup {c + 1 : c \in Cuts(f, b)}} : b \in Blocks(f)}
  <2>3. \A X \in Q : IsFiniteSet(X)
    BY <2>2
  <2>4. IsFiniteSet(Q)
    <3> DEFINE F == [b \in Blocks(f) |-> {<<b, k>> : k \in {1} \cup {c + 1 : c \in Cuts(f, b)}}]
    <3>1. Q = {F[b] : b \in Blocks(f)}
      OBVIOUS
    <3>2. F \in Surjection(Blocks(f), Q)
      <4>1. F \in [Blocks(f) -> Q] /\ \A X \in Q : \E b \in Blocks(f) : F[b] = X
        BY <3>1
      <4> QED
        BY <4>1, Fun_IsSurj
    <3> QED
      BY <2>1, <3>2, FS_Surjection
  <2>5. Starts(f) = UNION Q
    BY DEF Starts
  <2> HIDE DEF Q
  <2> QED
    BY <2>3, <2>4, <2>5, FS_UNION
<1> QED
  BY <1>1, <1>2, <1>3, <1>4
\* The pieces are numbered in their order.
LEMMA StartNumbers ==
    ASSUME NEW f, WellFormed(f), Lowered(f), NEW n, n = Cardinality(Starts(f))
    PROVE  /\ n \in Nat /\ n > 0
           /\ \A s \in Starts(f) : nextBlock(f, s) \in 0 .. n - 1 /\ StartOf(f, nextBlock(f, s)) = s
           /\ \A s, t \in Starts(f) : nextBlock(f, s) = nextBlock(f, t) => s = t
           /\ \A k \in 0 .. n - 1 : StartOf(f, k) \in Starts(f) /\ nextBlock(f, StartOf(f, k)) = k
           /\ nextBlock(f, <<0, 1>>) = 0
<1>1. PICK T : T = Starts(f) /\ IsFiniteSet(T)
  BY StartFacts
<1>2. \A s \in T : s = <<s[1], s[2]>> /\ s[1] \in Nat /\ s[2] \in Nat /\ s[2] >= 1
  BY <1>1, StartFacts
<1> DEFINE R == {x \in T \X T : Before(x[1], x[2])}
           r == [s \in T |-> Cardinality({t \in T : <<t, s>> \in R})]
<1>3. \A s, t \in T : <<s, t>> \in R <=> Before(s, t)
  OBVIOUS
<1> HIDE DEF R
<1>4. \A s \in T : <<s, s>> \notin R
  BY <1>2, <1>3 DEF Before
<1>5. \A s, t, u \in T : <<s, t>> \in R /\ <<t, u>> \in R => <<s, u>> \in R
  BY <1>2, <1>3 DEF Before
<1>6. \A s, t \in T : s # t => <<s, t>> \in R \/ <<t, s>> \in R
  <2> SUFFICES ASSUME NEW s \in T, NEW t \in T, ~Before(s, t), ~Before(t, s) PROVE s = t
    BY <1>3
  <2>1. s[1] = t[1] /\ s[2] = t[2]
    BY <1>2 DEF Before
  <2> QED
    BY <1>2, <2>1
<1>7. r \in [T -> 0 .. Cardinality(T) - 1] /\ \A s, t \in T : r[s] = r[t] => s = t
  <2> HIDE DEF r
  <2>1. r = [s \in T |-> Cardinality({t \in T : <<t, s>> \in R})]
    BY DEF r
  <2>2. IsFiniteSet(T)
    BY <1>1
  <2> QED
    BY <2>2, <1>4, <1>5, <1>6, <2>1, RanksNumber
<1>8. \A s \in T : nextBlock(f, s) = r[s]
  <2> SUFFICES ASSUME NEW s \in T PROVE nextBlock(f, s) = r[s]
    OBVIOUS
  <2>1. {t \in T : Before(t, s)} = {t \in T : <<t, s>> \in R}
    BY <1>3
  <2> QED
    BY <1>1, <2>1 DEF nextBlock
<1> HIDE DEF r
<1>9. n = Cardinality(T) /\ n \in Nat
  BY <1>1, FS_CardinalityType
<1>10. <<0, 1>> \in T
  BY <1>1, StartFacts, FormFacts
<1>11. \A s \in T : nextBlock(f, s) \in 0 .. n - 1
  BY <1>7, <1>8, <1>9
<1>12. \A s, t \in T : nextBlock(f, s) = nextBlock(f, t) => s = t
  BY <1>7, <1>8
<1>13. \A s \in T : StartOf(f, nextBlock(f, s)) = s
  BY <1>1, <1>12 DEF StartOf
<1>14. ASSUME NEW k \in 0 .. n - 1 PROVE StartOf(f, k) \in T /\ nextBlock(f, StartOf(f, k)) = k
  <2>1. PICK s \in T : r[s] = k
    BY <1>1, <1>7, <1>9, RanksOnto
  <2> QED
    BY <1>1, <1>8, <2>1 DEF StartOf
<1>15. nextBlock(f, <<0, 1>>) = 0
  <2>1. {t \in T : Before(t, <<0, 1>>)} = {}
    BY <1>2 DEF Before
  <2> QED
    BY <1>1, <2>1, FS_EmptySet DEF nextBlock
<1>16. n > 0
  BY <1>9, <1>10, <1>11
<1> QED
  BY <1>1, <1>9, <1>11, <1>12, <1>13, <1>14, <1>15, <1>16

\* A piece runs from its start to the next cut or to the end of its block.
LEMMA PieceFacts ==
    ASSUME NEW f, WellFormed(f), Lowered(f), NEW s \in Starts(f)
    PROVE  LET e == PieceEnd(f, s)
           IN  /\ e \in DOMAIN f.blocks[s[1]] /\ e \in Nat /\ e >= s[2] /\ e <= Len(f.blocks[s[1]])
               /\ e \in Cuts(f, s[1]) \/ e = Len(f.blocks[s[1]])
               /\ \A c \in Cuts(f, s[1]) : c >= s[2] => c >= e
<1>1. PICK b, k, n : b = s[1] /\ k = s[2] /\ n = Len(f.blocks[b])
  OBVIOUS
<1>2. b \in Blocks(f) /\ k \in Nat /\ k <= n
  BY <1>1, StartFacts
<1>3. n \in Nat /\ DOMAIN f.blocks[b] = 1 .. n /\ n \in DOMAIN f.blocks[b]
  BY <1>1, <1>2, FormFacts
<1> DEFINE K == {e \in 1 .. n : e >= k /\ (e \in Cuts(f, b) \/ e = n)}
<1>4. n \in K /\ K \subseteq Nat
  BY <1>2, <1>3
<1> HIDE DEF K
<1>5. PICK e \in K : \A m \in K : e <= m
  BY <1>4, LeastNumber
<1>6. e \in 1 .. n /\ e >= k /\ (e \in Cuts(f, b) \/ e = n)
  BY <1>5 DEF K
<1>7. \A c \in Cuts(f, b) : c >= k => c >= e
  <2> SUFFICES ASSUME NEW c \in Cuts(f, b), c >= k PROVE c >= e
    OBVIOUS
  <2>1. c \in 1 .. n
    BY <1>3 DEF Cuts
  <2>2. c \in K
    BY <2>1 DEF K
  <2> QED
    BY <1>4, <1>5, <1>6, <2>1, <2>2
<1>8. /\ PieceEnd(f, s) \in DOMAIN f.blocks[b] /\ PieceEnd(f, s) >= k
      /\ PieceEnd(f, s) \in Cuts(f, b) \/ PieceEnd(f, s) = n
      /\ \A c \in Cuts(f, b) : c >= k => c >= PieceEnd(f, s)
  BY <1>1, <1>3, <1>6, <1>7 DEF PieceEnd
<1> QED
  BY <1>1, <1>3, <1>8

\* Every instruction is in one piece, and no other piece starts inside it.
LEMMA PieceOf ==
    ASSUME NEW f, WellFormed(f), Lowered(f), NEW b \in Blocks(f), NEW k \in DOMAIN f.blocks[b]
    PROVE  \E s \in Starts(f) : s[1] = b /\ s[2] <= k /\ k <= PieceEnd(f, s)
<1>1. PICK n \in Nat : n = Len(f.blocks[b]) /\ DOMAIN f.blocks[b] = 1 .. n /\ k \in 1 .. n /\ k \in Nat
  BY FormFacts
<1> DEFINE M == {m \in 0 .. k - 1 : <<b, k - m>> \in Starts(f)}
<1>2. k - 1 \in M /\ M \subseteq Nat
  <2>1. k - (k - 1) = 1 /\ k - 1 \in 0 .. k - 1
    BY <1>1
  <2> QED
    BY <2>1, StartFacts
<1> HIDE DEF M
<1>3. PICK m \in M : \A j \in M : m <= j
  BY <1>2, LeastNumber
<1>4. m \in 0 .. k - 1 /\ <<b, k - m>> \in Starts(f)
  BY <1>3 DEF M
<1>5. PICK s \in Starts(f) : s[1] = b /\ s[2] = k - m
  BY <1>4
<1>6. PICK e \in Nat : /\ e = PieceEnd(f, s) /\ e >= s[2] /\ (e \in Cuts(f, b) \/ e = n)
  BY <1>1, <1>5, PieceFacts
<1>7. ASSUME e < k PROVE FALSE
  <2>1. e \in Cuts(f, b)
    BY <1>1, <1>6, <1>7
  <2>2. <<b, e + 1>> \in Starts(f)
    BY <2>1, StartFacts
  <2>3. k - (k - (e + 1)) = e + 1 /\ k - (e + 1) \in 0 .. k - 1
    BY <1>1, <1>6, <1>7
  <2>4. k - (e + 1) \in M
    BY <2>2, <2>3 DEF M
  <2>5. m <= k - (e + 1)
    BY <1>3, <2>4
  <2> QED
    BY <1>1, <1>4, <1>5, <1>6, <2>5
<1> QED
  BY <1>1, <1>4, <1>5, <1>6, <1>7

\* Two pieces do not overlap.
LEMMA PieceUnique ==
    ASSUME NEW f, WellFormed(f), Lowered(f), NEW s \in Starts(f), NEW t \in Starts(f),
           s[1] = t[1], s[2] <= t[2], t[2] <= PieceEnd(f, s)
    PROVE  s = t
<1>1. /\ s = <<s[1], s[2]>> /\ t = <<t[1], t[2]>> /\ s[2] \in Nat /\ t[2] \in Nat
      /\ s[2] >= 1 /\ (t[2] = 1 \/ t[2] - 1 \in Cuts(f, t[1]))
  BY StartFacts
<1>2. PieceEnd(f, s) \in Nat /\ \A c \in Cuts(f, s[1]) : c >= s[2] => c >= PieceEnd(f, s)
  BY PieceFacts
<1>3. s[2] = t[2]
  <2>1. CASE t[2] = 1
    BY <1>1, <2>1
  <2>2. CASE t[2] - 1 \in Cuts(f, t[1])
    <3>1. ~(t[2] - 1 >= s[2])
      BY <1>1, <1>2, <2>2
    <3> QED
      BY <1>1, <3>1
  <2> QED
    BY <1>1, <2>1, <2>2
<1> QED
  BY <1>1, <1>3

\* The piece that a cut ends, and that a block ends with.
LEMMA PieceEnding ==
    ASSUME NEW f, WellFormed(f), Lowered(f), NEW b \in Blocks(f), NEW e \in DOMAIN f.blocks[b],
           e \in Cuts(f, b) \/ e = Len(f.blocks[b])
    PROVE  \E s \in Starts(f) : s[1] = b /\ s[2] <= e /\ PieceEnd(f, s) = e
<1>1. PICK s \in Starts(f) : s[1] = b /\ s[2] <= e /\ e <= PieceEnd(f, s)
  BY PieceOf
<1>2. /\ PieceEnd(f, s) \in Nat /\ PieceEnd(f, s) <= Len(f.blocks[b]) /\ s[2] \in Nat
      /\ \A c \in Cuts(f, b) : c >= s[2] => c >= PieceEnd(f, s)
  BY <1>1, PieceFacts, StartFacts
<1>3. e \in Nat /\ Len(f.blocks[b]) \in Nat
  BY LoweredFacts, FormFacts
<1>4. PieceEnd(f, s) = e
  BY <1>1, <1>2, <1>3
<1> QED
  BY <1>1, <1>4

\* The body of a loop is the block after its setup.
LEMMA LoopBody ==
    ASSUME NEW f, WellFormed(f), Lowered(f), OneEach(f), NEW b, NEW k, NEW loop,
           HasLoop(f, b, k, "loop", loop)
    PROVE  /\ k \in Cuts(f, b) /\ <<b, k + 1>> \in Starts(f)
           /\ bodies(f, loop) = nextBlock(f, <<b, k + 1>>)
<1>1. b \in Blocks(f) /\ k \in DOMAIN f.blocks[b] /\ IsHardware(f.blocks[b][k])
  BY DEF HasLoop, IsHardware
<1>2. k \in Cuts(f, b)
  BY <1>1, LoweredFacts
<1>3. <<b, k + 1>> \in Starts(f)
  BY <1>1, <1>2, StartFacts
<1> DEFINE P(body) == \E c \in Blocks(f) : \E l \in Cuts(f, c) :
                         HasLoop(f, c, l, "loop", loop) /\ body = nextBlock(f, <<c, l + 1>>)
<1>4. nextBlock(f, <<b, k + 1>>) \in 0 .. Cardinality(Starts(f)) - 1
  BY <1>3, StartNumbers
<1>5. P(nextBlock(f, <<b, k + 1>>))
  BY <1>1, <1>2
<1>6. ASSUME NEW body, P(body) PROVE body = nextBlock(f, <<b, k + 1>>)
  <2>1. PICK c \in Blocks(f) : \E l \in Cuts(f, c) :
           HasLoop(f, c, l, "loop", loop) /\ body = nextBlock(f, <<c, l + 1>>)
    BY <1>6
  <2>2. PICK l \in Cuts(f, c) : HasLoop(f, c, l, "loop", loop) /\ body = nextBlock(f, <<c, l + 1>>)
    BY <2>1
  <2>3. c = b /\ l = k
    <3>1. /\ l \in DOMAIN f.blocks[c] /\ f.blocks[c][l].opcode = "loop" /\ f.blocks[c][l].loop_id = loop
          /\ f.blocks[b][k].opcode = "loop" /\ f.blocks[b][k].loop_id = loop
      BY <2>2 DEF HasLoop
    <3> QED
      BY <1>1, <3>1 DEF OneEach
  <2> QED
    BY <2>2, <2>3
<1>7. bodies(f, loop) = CHOOSE body \in 0 .. Cardinality(Starts(f)) - 1 : P(body)
  BY DEF bodies
<1> HIDE DEF P
<1>8. bodies(f, loop) = nextBlock(f, <<b, k + 1>>)
  BY <1>4, <1>5, <1>6, <1>7
<1> QED
  BY <1>2, <1>3, <1>8

\* An instruction inside a piece is what it was.
LEMMA ExposedInside ==
    ASSUME NEW f, WellFormed(f), Lowered(f), NEW b \in Blocks(f), NEW k \in DOMAIN f.blocks[b],
           k \notin Cuts(f, b), k # Len(f.blocks[b]), NEW j, j = ExposedInstruction(f, b, k)
    PROVE  /\ j \in IRInstruction /\ j.opcode # "phi" /\ ~IsHardware(j)
           /\ j.targets = <<>> /\ j.loop_target = Invalid
<1>1. PICK i : i = f.blocks[b][k]
  OBVIOUS
<1>2. /\ i \in IRInstruction /\ i.opcode # "phi" /\ ~IsHardware(i) /\ i.loop_target = Invalid
      /\ i.targets = <<>>
  <2>1. k \in Nat /\ k <= Len(f.blocks[b]) /\ Len(f.blocks[b]) \in Nat
    BY LoweredFacts, FormFacts
  <2> QED
    BY <1>1, <2>1, LoweredFacts
<1> DEFINE T == [e \in DOMAIN i.targets |-> first(f, i.targets[e])]
<1>3. j = [i EXCEPT !.targets = T]
  BY <1>1, <1>2 DEF ExposedInstruction
<1>4. T = <<>> /\ T \in Seq(Nat)
  <2>1. DOMAIN i.targets = {} /\ DOMAIN T = {}
    BY <1>2
  <2>2. T = <<>>
    BY <2>1
  <2> QED
    BY <2>2
<1> HIDE DEF T
<1>5. PICK U \in Seq(Nat) : U = T /\ j = [i EXCEPT !.targets = U]
  BY <1>3, <1>4
<1>6. /\ j.opcode = i.opcode /\ j.targets = U /\ j.loop_target = i.loop_target /\ j \in IRInstruction
  <2>1. i \in IRInstruction
    BY <1>2
  <2> QED
    BY <1>5, <2>1, NewTargets
<1> QED
  BY <1>2, <1>4, <1>5, <1>6 DEF IsHardware

\* A setup leads to the block after it and names it.
LEMMA ExposedSetup ==
    ASSUME NEW f, WellFormed(f), Lowered(f), NEW b \in Blocks(f), NEW k \in Cuts(f, b),
           f.blocks[b][k].opcode = "loop", NEW j, j = ExposedInstruction(f, b, k),
           NEW next, next = nextBlock(f, <<b, k + 1>>)
    PROVE  /\ j \in IRInstruction /\ j.opcode = "loop" /\ j.loop_id = f.blocks[b][k].loop_id
           /\ j.targets = <<next>> /\ j.loop_target = next
<1>1. PICK i : i = f.blocks[b][k] /\ i \in IRInstruction
  BY LoweredFacts DEF Cuts
<1>2. next \in Nat
  <2>1. <<b, k + 1>> \in Starts(f)
    BY StartFacts
  <2> QED
    BY <2>1, StartNumbers
<1>3. PICK T \in Seq(Nat) : T = <<next>>
  <2>1. <<next>> \in Seq(Nat)
    BY <1>2
  <2> QED
    BY <2>1
<1>4. j = [i EXCEPT !.targets = T, !.loop_target = next]
  BY <1>1, <1>3 DEF ExposedInstruction
<1>5. /\ j.opcode = i.opcode /\ j.loop_id = i.loop_id /\ j.targets = T /\ j.loop_target = next
  BY <1>1, <1>4 DEF IRInstruction
<1>6. j \in IRInstruction
  BY <1>1, <1>2, <1>3, <1>4 DEF IRInstruction
<1> QED
  BY <1>1, <1>3, <1>5, <1>6

\* An end leads back to the body and on to the block after it.
LEMMA ExposedEnd ==
    ASSUME NEW f, WellFormed(f), Lowered(f), OneEach(f), NEW b \in Blocks(f), NEW k \in Cuts(f, b),
           f.blocks[b][k].opcode = "end", NEW j, j = ExposedInstruction(f, b, k),
           NEW next, next = nextBlock(f, <<b, k + 1>>),
           NEW body, body = bodies(f, f.blocks[b][k].loop_id)
    PROVE  /\ j \in IRInstruction /\ j.opcode = "end" /\ j.loop_id = f.blocks[b][k].loop_id
           /\ j.targets = <<body, next>> /\ j.loop_target = Invalid
           /\ \E c \in Blocks(f) : \E l \in Cuts(f, c) :
                 HasLoop(f, c, l, "loop", f.blocks[b][k].loop_id) /\ body = nextBlock(f, <<c, l + 1>>)
<1>1. PICK i : i = f.blocks[b][k] /\ i \in IRInstruction /\ i.loop_target = Invalid
  BY LoweredFacts DEF Cuts
<1>2. next \in Nat
  <2>1. <<b, k + 1>> \in Starts(f)
    BY StartFacts
  <2> QED
    BY <2>1, StartNumbers
<1>3. PICK c \in Blocks(f) : \E l \in DOMAIN f.blocks[c] : HasLoop(f, c, l, "loop", i.loop_id)
  BY <1>1 DEF Lowered, LoweredAt, Cuts
<1>4. PICK l \in DOMAIN f.blocks[c] : HasLoop(f, c, l, "loop", i.loop_id)
  BY <1>3
<1>5. l \in Cuts(f, c) /\ <<c, l + 1>> \in Starts(f) /\ body = nextBlock(f, <<c, l + 1>>)
  BY <1>1, <1>4, LoopBody
<1>6. body \in Nat
  BY <1>5, StartNumbers
<1>7. PICK T \in Seq(Nat) : T = <<body, next>>
  <2>1. <<body, next>> \in Seq(Nat)
    BY <1>2, <1>6
  <2> QED
    BY <2>1
<1>8. j = [i EXCEPT !.targets = T]
  BY <1>1, <1>7 DEF ExposedInstruction
<1>9. /\ j.opcode = i.opcode /\ j.loop_id = i.loop_id /\ j.targets = T /\ j.loop_target = i.loop_target
      /\ j \in IRInstruction
  <2>1. i \in IRInstruction
    BY <1>1
  <2> QED
    BY <1>8, <2>1, NewTargets
<1> QED
  BY <1>1, <1>4, <1>5, <1>7, <1>9

\* The targets of j are the first blocks of the targets of block b.
LeadsTo(f, b, j) ==
    \A u : u \in Items(j.targets) <=> \E t \in EdgesFrom(f, b) : u = nextBlock(f, <<t, 1>>)

\* A terminator leads to the first blocks of its targets.
LEMMA ExposedTerminal ==
    ASSUME NEW f, WellFormed(f), Lowered(f), NEW b \in Blocks(f), NEW k, k = Len(f.blocks[b]),
           NEW j, j = ExposedInstruction(f, b, k)
    PROVE  /\ j \in IRInstruction /\ j.opcode # "phi" /\ ~IsHardware(j) /\ j.loop_target = Invalid
           /\ k \notin Cuts(f, b)
           /\ LeadsTo(f, b, j)
<1>1. k \in DOMAIN f.blocks[b] /\ k \in Nat
  BY FormFacts
<1>2. PICK i : /\ i = f.blocks[b][k] /\ i \in IRInstruction /\ i.loop_target = Invalid
               /\ i.opcode # "phi" /\ ~IsHardware(i) /\ k \notin Cuts(f, b)
  BY <1>1, LoweredFacts
<1>3. \A e \in DOMAIN i.targets : i.targets[e] \in Blocks(f)
  BY <1>1, <1>2, FormFacts
<1> DEFINE T == [e \in DOMAIN i.targets |-> first(f, i.targets[e])]
<1>4. j = [i EXCEPT !.targets = T]
  BY <1>2 DEF ExposedInstruction
<1>5. \A t \in Blocks(f) : first(f, t) = nextBlock(f, <<t, 1>>) /\ first(f, t) \in Nat
  <2> SUFFICES ASSUME NEW t \in Blocks(f)
               PROVE  first(f, t) = nextBlock(f, <<t, 1>>) /\ first(f, t) \in Nat
    OBVIOUS
  <2>1. <<t, 1>> \in Starts(f)
    BY StartFacts
  <2>2. nextBlock(f, <<t, 1>>) \in Nat
    BY <2>1, StartNumbers
  <2> QED
    BY <2>2 DEF first
<1>6. T \in Seq(Nat)
  <2>1. Len(i.targets) \in Nat /\ DOMAIN i.targets = 1 .. Len(i.targets)
    BY <1>2, InstructionTypes
  <2>2. T \in [1 .. Len(i.targets) -> Nat]
    BY <1>3, <1>5, <2>1
  <2> QED
    BY <2>1, <2>2, IsASeq
<1>7. \A u : u \in Items(T) <=> \E t \in Items(i.targets) : u = nextBlock(f, <<t, 1>>)
  BY <1>3, <1>5 DEF Items
<1>8. Items(i.targets) = EdgesFrom(f, b)
  BY <1>2, TerminalEdges DEF Terminal
<1> HIDE DEF T
<1>9. /\ j.opcode = i.opcode /\ j.targets = T /\ j.loop_target = i.loop_target /\ j \in IRInstruction
  <2>1. i \in IRInstruction
    BY <1>2
  <2> QED
    BY <1>4, <1>6, <2>1, NewTargets
<1> QED
  BY <1>2, <1>7, <1>8, <1>9 DEF IsHardware, LeadsTo

\* The leave of a loop.
LEMMA LeaveFacts ==
    ASSUME NEW loop \in Nat
    PROVE  /\ Leave(loop) \in IRInstruction /\ Leave(loop).opcode = "leave" /\ ~IsHardware(Leave(loop))
           /\ Leave(loop).targets = <<>> /\ Leave(loop).loop_id = loop
           /\ Leave(loop).loop_target = Invalid
<1>1. PICK none \in Seq(Nat) : none = <<>>
  <2>1. <<>> \in Seq(Nat)
    OBVIOUS
  <2> QED
    BY <2>1
<1>2. Leave(loop) = [opcode |-> "leave", result |-> 0, operands |-> none, targets |-> none,
                     loop_id |-> loop, loop_target |-> Invalid]
  BY <1>1 DEF Leave, NoValue
<1>3. PICK i : i = Leave(loop) /\ i = [opcode |-> "leave", result |-> 0, operands |-> none,
                   targets |-> none, loop_id |-> loop, loop_target |-> Invalid]
  BY <1>2
<1>4. i \in IRInstruction
  BY <1>3 DEF IRInstruction, Opcodes
<1>5. i.opcode = "leave" /\ i.targets = none /\ i.loop_id = loop /\ i.loop_target = Invalid
  BY <1>3
<1> QED
  BY <1>1, <1>3, <1>4, <1>5 DEF IsHardware

\* An instruction that neither ends a block nor belongs to a hardware loop.
Plain(i) == i \in IRInstruction /\ i.opcode # "phi" /\ ~IsHardware(i)
            /\ i.targets = <<>> /\ i.loop_target = Invalid

\* The last instruction of any piece is an instruction.
LEMMA ExposedLast ==
    ASSUME NEW f, WellFormed(f), Lowered(f), OneEach(f), NEW s \in Starts(f), NEW j,
           j = ExposedInstruction(f, s[1], PieceEnd(f, s))
    PROVE  j \in IRInstruction /\ j.opcode # "phi"
<1>1. PICK b, e : b = s[1] /\ e = PieceEnd(f, s) /\ b \in Blocks(f)
  BY StartFacts
<1>2. e \in DOMAIN f.blocks[b] /\ (e \in Cuts(f, b) \/ e = Len(f.blocks[b]))
  BY <1>1, PieceFacts
<1>3. CASE e = Len(f.blocks[b])
  BY <1>1, <1>3, ExposedTerminal
<1>4. CASE e \in Cuts(f, b)
  <2>1. f.blocks[b][e].opcode \in {"loop", "end"}
    BY <1>4 DEF Cuts, IsHardware
  <2>0. PICK next, body : /\ next = nextBlock(f, <<b, e + 1>>)
                          /\ body = bodies(f, f.blocks[b][e].loop_id)
    OBVIOUS
  <2>2. CASE f.blocks[b][e].opcode = "loop"
    <3>1. j \in IRInstruction /\ j.opcode = "loop"
      BY <1>1, <1>4, <2>0, <2>2, ExposedSetup
    <3> QED
      BY <3>1
  <2>3. CASE f.blocks[b][e].opcode = "end"
    <3>1. j \in IRInstruction /\ j.opcode = "end"
      BY <1>1, <1>4, <2>0, <2>3, ExposedEnd
    <3> QED
      BY <3>1
  <2> QED
    BY <2>1, <2>2, <2>3
<1> QED
  BY <1>2, <1>3, <1>4

\* A piece becomes a block: perhaps a leave, plain instructions, and the end.
LEMMA ExposedBlockFacts ==
    ASSUME NEW f, WellFormed(f), Lowered(f), OneEach(f), NEW s \in Starts(f), NEW B, B = ExposedBlock(f, s)
    PROVE  /\ B \in Seq(IRInstruction) /\ Len(B) \in Nat /\ Len(B) > 0 /\ DOMAIN B = 1 .. Len(B)
           /\ B[Len(B)] = ExposedInstruction(f, s[1], PieceEnd(f, s))
           /\ \A m \in DOMAIN B : m = Len(B) \/ Plain(B[m])
           /\ s[2] > 1 /\ f.blocks[s[1]][s[2] - 1].opcode = "end" =>
                 1 \in DOMAIN B /\ B[1] = Leave(f.blocks[s[1]][s[2] - 1].loop_id)
<1>1. PICK b, k, e : b = s[1] /\ k = s[2] /\ e = PieceEnd(f, s)
  OBVIOUS
<1>2. /\ b \in Blocks(f) /\ k \in Nat /\ k >= 1 /\ k <= Len(f.blocks[b]) /\ Len(f.blocks[b]) \in Nat
      /\ DOMAIN f.blocks[b] = 1 .. Len(f.blocks[b])
  BY <1>1, StartFacts, FormFacts
<1>3. /\ e \in Nat /\ e >= k /\ e <= Len(f.blocks[b])
      /\ \A c \in Cuts(f, b) : c >= k => c >= e
  BY <1>1, PieceFacts
<1>4. PICK n \in Nat : n = e - k + 1 /\ n > 0
  BY <1>2, <1>3
<1> DEFINE before == f.blocks[b][k - 1]
           leaves == k > 1 /\ before.opcode = "end"
           pre == IF leaves THEN <<Leave(before.loop_id)>> ELSE <<>>
           piece == [m \in 1 .. n |-> ExposedInstruction(f, b, k + m - 1)]
<1>5. B = pre \o piece
  BY <1>1, <1>4 DEF ExposedBlock
<1>6. \A m \in 1 .. n : m < n => Plain(ExposedInstruction(f, b, k + m - 1))
  <2> SUFFICES ASSUME NEW m \in 1 .. n, m < n PROVE Plain(ExposedInstruction(f, b, k + m - 1))
    OBVIOUS
  <2>1. PICK x : x = k + m - 1 /\ x \in 1 .. Len(f.blocks[b]) /\ x < e /\ x >= k
    BY <1>2, <1>3, <1>4
  <2>2. x \in DOMAIN f.blocks[b] /\ x # Len(f.blocks[b]) /\ x \notin Cuts(f, b)
    BY <1>2, <1>3, <2>1
  <2> QED
    BY <1>2, <2>1, <2>2, ExposedInside DEF Plain
<1>7. k + n - 1 = e /\ ExposedInstruction(f, b, e) \in IRInstruction
  BY <1>1, <1>2, <1>3, <1>4, ExposedLast
<1>8. piece \in Seq(IRInstruction) /\ Len(piece) = n /\ piece[n] = ExposedInstruction(f, b, e)
      /\ \A m \in 1 .. n : m < n => Plain(piece[m])
  <2>1. \A m \in 1 .. n : ExposedInstruction(f, b, k + m - 1) \in IRInstruction
    <3> SUFFICES ASSUME NEW m \in 1 .. n PROVE ExposedInstruction(f, b, k + m - 1) \in IRInstruction
      OBVIOUS
    <3>1. CASE m < n
      BY <1>6, <3>1 DEF Plain
    <3>2. CASE m = n
      BY <1>7, <3>2
    <3> QED
      BY <1>4, <3>1, <3>2
  <2>2. piece \in [1 .. n -> IRInstruction]
    BY <2>1
  <2>3. piece[n] = ExposedInstruction(f, b, e) /\ \A m \in 1 .. n : m < n => Plain(piece[m])
    <3>1. n \in 1 .. n
      BY <1>4
    <3> QED
      BY <1>6, <1>7, <3>1
  <2> HIDE DEF piece
  <2>4. piece \in Seq(IRInstruction)
    BY <2>2, IsASeq
  <2>5. Len(piece) = n
    BY <2>2, <2>4, LenProperties
  <2> QED
    BY <2>3, <2>4, <2>5
<1> HIDE DEF piece
<1>9. ASSUME leaves PROVE Plain(Leave(before.loop_id))
  <2>1. k - 1 \in DOMAIN f.blocks[b]
    BY <1>2, <1>9
  <2>2. before \in IRInstruction
    BY <1>2, <2>1, LoweredFacts
  <2>3. before.loop_id \in Nat
    BY <2>2, InstructionTypes
  <2> QED
    BY <2>3, LeaveFacts DEF Plain
<1>10. /\ pre \in Seq(IRInstruction) /\ Len(pre) \in Nat
       /\ Len(pre) = 0 \/ (Len(pre) = 1 /\ leaves /\ pre[1] = Leave(before.loop_id))
       /\ leaves => Len(pre) = 1
  <2>1. CASE leaves
    <3>1. PICK i \in IRInstruction : i = Leave(before.loop_id)
      BY <1>9, <2>1 DEF Plain
    <3>2. <<i>> \in Seq(IRInstruction) /\ Len(<<i>>) = 1 /\ <<i>>[1] = i
      OBVIOUS
    <3>3. pre = <<i>>
      BY <2>1, <3>1
    <3> HIDE DEF pre
    <3>4. pre \in Seq(IRInstruction) /\ Len(pre) = 1 /\ pre[1] = i
      BY <3>2, <3>3
    <3> QED
      BY <2>1, <3>1, <3>4
  <2>2. CASE ~leaves
    <3>1. pre = <<>>
      BY <2>2
    <3> HIDE DEF pre
    <3>2. pre \in Seq(IRInstruction) /\ Len(pre) = 0
      BY <3>1, EmptySeq
    <3> QED
      BY <2>2, <3>2
  <2> QED
    BY <2>1, <2>2
<1> HIDE DEF pre, leaves
<1>11. PICK p \in Seq(IRInstruction), l \in Nat :
          /\ p = pre /\ l = Len(p) /\ (l = 0 \/ (l = 1 /\ leaves /\ p[1] = Leave(before.loop_id)))
          /\ leaves => l = 1
  BY <1>10
<1>12. PICK q \in Seq(IRInstruction) : q = piece /\ Len(q) = n
  BY <1>8
<1>13. /\ B \in Seq(IRInstruction) /\ Len(B) = l + n
       /\ \A m \in 1 .. l + n : B[m] = IF m <= l THEN p[m] ELSE piece[m - l]
  <2>1. /\ p \o q \in Seq(IRInstruction) /\ Len(p \o q) = Len(p) + Len(q)
        /\ \A m \in 1 .. Len(p) + Len(q) : (p \o q)[m] = IF m <= Len(p) THEN p[m] ELSE q[m - Len(p)]
    BY ConcatProperties
  <2>2. B = p \o q
    BY <1>5, <1>11, <1>12
  <2> QED
    BY <1>11, <1>12, <2>1, <2>2
<1>14. DOMAIN B = 1 .. l + n
  BY <1>13, LenProperties
<1>15. B[l + n] = ExposedInstruction(f, b, e)
  <2>1. l + n \in 1 .. l + n /\ ~(l + n <= l) /\ (l + n) - l = n
    BY <1>4
  <2> QED
    BY <1>8, <1>13, <2>1
<1>16. ASSUME NEW m \in 1 .. l + n, m # l + n PROVE Plain(B[m])
  <2>1. CASE m <= l
    <3>1. m = 1 /\ leaves /\ p[1] = Leave(before.loop_id)
      BY <1>11, <2>1
    <3> QED
      BY <1>9, <1>13, <2>1, <3>1
  <2>2. CASE m > l
    <3>1. m - l \in 1 .. n /\ m - l < n /\ ~(m <= l)
      BY <1>4, <1>16, <2>2
    <3>2. B[m] = piece[m - l]
      BY <1>13, <3>1
    <3> QED
      BY <1>8, <3>1, <3>2
  <2> QED
    BY <2>1, <2>2
<1>17. ASSUME leaves PROVE 1 \in 1 .. l + n /\ B[1] = Leave(before.loop_id)
  <2>1. l = 1 /\ p[1] = Leave(before.loop_id)
    BY <1>11, <1>17
  <2>2. 1 \in 1 .. l + n /\ 1 <= l
    BY <1>4, <2>1
  <2> QED
    BY <1>13, <2>1, <2>2
<1> QED
  BY <1>1, <1>4, <1>11, <1>13, <1>14, <1>15, <1>16, <1>17 DEF leaves

\* g is f with a block N[s] for each piece s.
Exposing(f, g, N) ==
    /\ WellFormed(f) /\ Lowered(f) /\ OneEach(f)
    /\ g.n \in Nat /\ g.n > 0 /\ g.entry = 0 /\ g.value_count = f.value_count
    /\ N = [s \in Starts(f) |-> nextBlock(f, s)]
    /\ \A s \in Starts(f) : N[s] \in Blocks(g)
    /\ \A s, t \in Starts(f) : N[s] = N[t] => s = t
    /\ \A c \in Blocks(g) : \E s \in Starts(f) : c = N[s]
    /\ N[<<0, 1>>] = 0
    /\ g.blocks = [c \in Blocks(g) |-> g.blocks[c]]
    /\ \A s \in Starts(f) : g.blocks[N[s]] = ExposedBlock(f, s)

\* exposeHardwareLoops turns pieces into blocks.
LEMMA ExposesFunction ==
    ASSUME NEW f, WellFormed(f), Lowered(f), OneEach(f), ~\A b \in Blocks(f) : Cuts(f, b) = {},
           NEW N, N = [s \in Starts(f) |-> nextBlock(f, s)]
    PROVE  Exposing(f, ExposeHardwareLoops(f), N)
<1>1. PICK g, n : g = ExposeHardwareLoops(f) /\ n = Cardinality(Starts(f))
  OBVIOUS
<1>2. /\ g.n = n /\ g.entry = first(f, f.entry) /\ g.value_count = f.value_count
      /\ g.blocks = [id \in 0 .. n - 1 |-> ExposedBlock(f, StartOf(f, id))]
  BY <1>1 DEF ExposeHardwareLoops
<1>3. /\ n \in Nat /\ n > 0
      /\ \A s \in Starts(f) : nextBlock(f, s) \in 0 .. n - 1 /\ StartOf(f, nextBlock(f, s)) = s
  BY <1>1, StartNumbers
<1>4. \A s, t \in Starts(f) : nextBlock(f, s) = nextBlock(f, t) => s = t
  BY <1>1, StartNumbers
<1>5. \A k \in 0 .. n - 1 : StartOf(f, k) \in Starts(f) /\ nextBlock(f, StartOf(f, k)) = k
  BY <1>1, StartNumbers
<1>6. nextBlock(f, <<0, 1>>) = 0 /\ <<0, 1>> \in Starts(f) /\ f.entry = 0
  BY <1>1, StartNumbers, StartFacts, FormFacts
<1>7. Blocks(g) = 0 .. n - 1
  BY <1>2 DEF Blocks
<1>8. \A s \in Starts(f) : N[s] = nextBlock(f, s)
  OBVIOUS
<1>9. \A s \in Starts(f) : N[s] \in Blocks(g)
  BY <1>3, <1>7, <1>8
<1>10. \A s, t \in Starts(f) : N[s] = N[t] => s = t
  BY <1>4, <1>8
<1>11. \A c \in Blocks(g) : \E s \in Starts(f) : c = N[s]
  BY <1>5, <1>7, <1>8
<1>12. \A s \in Starts(f) : g.blocks[N[s]] = ExposedBlock(f, s)
  BY <1>2, <1>3, <1>8
<1>13. N[<<0, 1>>] = 0 /\ g.entry = 0
  BY <1>2, <1>6, <1>8 DEF first
<1>14. g.blocks = [c \in Blocks(g) |-> g.blocks[c]] /\ g.n \in Nat /\ g.n > 0
  BY <1>2, <1>3, <1>7
<1>15. Exposing(f, g, N)
  BY <1>2, <1>9, <1>10, <1>11, <1>12, <1>13, <1>14 DEF Exposing
<1> QED
  BY <1>1, <1>15

\* The block of a piece.
LEMMA ExposingBlock ==
    ASSUME NEW f, NEW g, NEW N, Exposing(f, g, N), NEW s \in Starts(f)
    PROVE  /\ g.blocks[N[s]] \in Seq(IRInstruction) /\ Len(g.blocks[N[s]]) > 0
           /\ Len(g.blocks[N[s]]) \in Nat /\ DOMAIN g.blocks[N[s]] = 1 .. Len(g.blocks[N[s]])
           /\ Len(g.blocks[N[s]]) \in DOMAIN g.blocks[N[s]]
           /\ Terminal(g, N[s]) = ExposedInstruction(f, s[1], PieceEnd(f, s))
           /\ \A m \in DOMAIN g.blocks[N[s]] : m = Len(g.blocks[N[s]]) \/ Plain(g.blocks[N[s]][m])
           /\ s[2] > 1 /\ f.blocks[s[1]][s[2] - 1].opcode = "end" =>
                 1 \in DOMAIN g.blocks[N[s]] /\ g.blocks[N[s]][1] = Leave(f.blocks[s[1]][s[2] - 1].loop_id)
<1>1. PICK B : B = ExposedBlock(f, s) /\ g.blocks[N[s]] = B
  BY DEF Exposing
<1>2. WellFormed(f) /\ Lowered(f) /\ OneEach(f)
  BY DEF Exposing
<1>3. /\ B \in Seq(IRInstruction) /\ Len(B) \in Nat /\ Len(B) > 0 /\ DOMAIN B = 1 .. Len(B)
      /\ B[Len(B)] = ExposedInstruction(f, s[1], PieceEnd(f, s))
  BY <1>1, <1>2, ExposedBlockFacts
<1>4. \A m \in DOMAIN B : m = Len(B) \/ Plain(B[m])
  BY <1>1, <1>2, ExposedBlockFacts
<1>5. s[2] > 1 /\ f.blocks[s[1]][s[2] - 1].opcode = "end" =>
         1 \in DOMAIN B /\ B[1] = Leave(f.blocks[s[1]][s[2] - 1].loop_id)
  BY <1>1, <1>2, ExposedBlockFacts
<1>6. Len(B) \in DOMAIN B
  BY <1>3
<1> QED
  BY <1>1, <1>3, <1>4, <1>5, <1>6 DEF Terminal

\* How a piece of block b can end, at e: in a setup, in an end, or in the
\* terminator of b; j ends the block of the piece.
SetupPiece(f, N, b, e, j) ==
    /\ e \in Cuts(f, b) /\ f.blocks[b][e].opcode = "loop" /\ <<b, e + 1>> \in Starts(f)
    /\ j.opcode = "loop" /\ j.loop_id = f.blocks[b][e].loop_id
    /\ j.targets = <<N[<<b, e + 1>>]>> /\ j.loop_target = N[<<b, e + 1>>]
EndPiece(f, N, b, e, j) ==
    /\ e \in Cuts(f, b) /\ f.blocks[b][e].opcode = "end" /\ <<b, e + 1>> \in Starts(f)
    /\ j.opcode = "end" /\ j.loop_id = f.blocks[b][e].loop_id /\ j.loop_target = Invalid
    /\ \E c \in Blocks(f) : \E l \in Cuts(f, c) :
          /\ HasLoop(f, c, l, "loop", j.loop_id) /\ <<c, l + 1>> \in Starts(f)
          /\ j.targets = <<N[<<c, l + 1>>], N[<<b, e + 1>>]>>
LastPiece(f, N, b, e, j) ==
    /\ e = Len(f.blocks[b]) /\ e \notin Cuts(f, b) /\ ~IsHardware(j) /\ j.loop_target = Invalid
    /\ \A u : u \in Items(j.targets) <=> \E t \in EdgesFrom(f, b) : u = N[<<t, 1>>]

\* Every piece ends in one of these ways.
LEMMA ExposingTerminal ==
    ASSUME NEW f, NEW g, NEW N, Exposing(f, g, N), NEW s \in Starts(f),
           NEW b, b = s[1], NEW e, e = PieceEnd(f, s), NEW j, j = Terminal(g, N[s])
    PROVE  /\ j \in IRInstruction /\ j.opcode # "phi" /\ b \in Blocks(f)
           /\ SetupPiece(f, N, b, e, j) \/ EndPiece(f, N, b, e, j) \/ LastPiece(f, N, b, e, j)
<1>1. WellFormed(f) /\ Lowered(f) /\ OneEach(f) /\ \A t \in Starts(f) : N[t] = nextBlock(f, t)
  BY DEF Exposing
<1>2. j = ExposedInstruction(f, b, e)
  BY ExposingBlock
<1>3. b \in Blocks(f) /\ (e \in Cuts(f, b) \/ e = Len(f.blocks[b]))
  BY <1>1, PieceFacts, StartFacts
<1>4. j \in IRInstruction /\ j.opcode # "phi"
  BY <1>1, <1>2, ExposedLast
<1>5. CASE e = Len(f.blocks[b])
  <2>0. \A u : u \in Items(j.targets) <=> \E t \in EdgesFrom(f, b) : u = nextBlock(f, <<t, 1>>)
    <3>1. LeadsTo(f, b, j)
      BY <1>1, <1>2, <1>3, <1>5, ExposedTerminal
    <3> QED
      BY <3>1 DEF LeadsTo
  <2>1. e \notin Cuts(f, b) /\ ~IsHardware(j) /\ j.loop_target = Invalid
    BY <1>1, <1>2, <1>3, <1>5, ExposedTerminal
  <2>2. \A t \in EdgesFrom(f, b) : <<t, 1>> \in Starts(f)
    BY <1>1, <1>3, TerminalEdges, StartFacts
  <2>3. \A u : u \in Items(j.targets) <=> \E t \in EdgesFrom(f, b) : u = N[<<t, 1>>]
    BY <1>1, <2>0, <2>2
  <2> QED
    BY <1>3, <1>4, <1>5, <2>1, <2>3 DEF LastPiece
<1>6. CASE e \in Cuts(f, b)
  <2>1. PICK next, body : /\ next = nextBlock(f, <<b, e + 1>>)
                          /\ body = bodies(f, f.blocks[b][e].loop_id)
    OBVIOUS
  <2>2. <<b, e + 1>> \in Starts(f) /\ N[<<b, e + 1>>] = next
    BY <1>1, <1>3, <1>6, <2>1, StartFacts
  <2>3. CASE f.blocks[b][e].opcode = "loop"
    <3>1. /\ j.opcode = "loop" /\ j.loop_id = f.blocks[b][e].loop_id
          /\ j.targets = <<next>> /\ j.loop_target = next
      BY <1>1, <1>2, <1>3, <1>6, <2>1, <2>3, ExposedSetup
    <3> QED
      BY <1>3, <1>4, <1>6, <2>2, <2>3, <3>1 DEF SetupPiece
  <2>4. CASE f.blocks[b][e].opcode = "end"
    <3>1. /\ j.opcode = "end" /\ j.loop_id = f.blocks[b][e].loop_id
          /\ j.targets = <<body, next>> /\ j.loop_target = Invalid
      BY <1>1, <1>2, <1>3, <1>6, <2>1, <2>4, ExposedEnd
    <3>2. PICK c \in Blocks(f) : \E l \in Cuts(f, c) :
             HasLoop(f, c, l, "loop", f.blocks[b][e].loop_id) /\ body = nextBlock(f, <<c, l + 1>>)
      BY <1>1, <1>2, <1>3, <1>6, <2>1, <2>4, ExposedEnd
    <3>3. PICK l \in Cuts(f, c) :
             HasLoop(f, c, l, "loop", f.blocks[b][e].loop_id) /\ body = nextBlock(f, <<c, l + 1>>)
      BY <3>2
    <3>4. <<c, l + 1>> \in Starts(f) /\ N[<<c, l + 1>>] = body
      BY <1>1, <3>3, StartFacts
    <3> QED
      BY <1>3, <1>4, <1>6, <2>2, <2>4, <3>1, <3>3, <3>4 DEF EndPiece
  <2>5. f.blocks[b][e].opcode \in {"loop", "end"}
    BY <1>6 DEF Cuts, IsHardware
  <2> QED
    BY <2>3, <2>4, <2>5
<1> QED
  BY <1>3, <1>5, <1>6

\* The exposed function is well formed and its hardware loops are exposed.
LEMMA ExposedForm ==
    ASSUME NEW f, NEW g, NEW N, Exposing(f, g, N)
    PROVE  WellFormed(g) /\ Exposed(g)
<1>1. /\ WellFormed(f) /\ Lowered(f) /\ OneEach(f)
      /\ g.n \in Nat /\ g.n > 0 /\ g.entry = 0 /\ g.value_count = f.value_count
      /\ g.blocks = [c \in Blocks(g) |-> g.blocks[c]]
  BY DEF Exposing
<1>2. /\ \A c \in Blocks(g) : \E s \in Starts(f) : c = N[s]
      /\ \A s \in Starts(f) : N[s] \in Blocks(g)
  BY DEF Exposing
<1>3. ASSUME NEW s \in Starts(f)
      PROVE  /\ g.blocks[N[s]] \in Seq(IRInstruction) /\ g.blocks[N[s]] # <<>>
             /\ Terminal(g, N[s]).opcode # "phi"
             /\ \A m \in DOMAIN g.blocks[N[s]] : WellPlaced(g, N[s], m)
             /\ \A m \in DOMAIN g.blocks[N[s]] :
                   IsHardware(g.blocks[N[s]][m]) => g.blocks[N[s]][m].targets # <<>>
  <2>1. PICK b, e, j, B : b = s[1] /\ e = PieceEnd(f, s) /\ j = Terminal(g, N[s]) /\ B = g.blocks[N[s]]
    OBVIOUS
  <2>2. B \in Seq(IRInstruction) /\ Len(B) > 0 /\ j = B[Len(B)]
        /\ \A m \in DOMAIN B : m = Len(B) \/ Plain(B[m])
    BY <2>1, ExposingBlock DEF Terminal
  <2>3. B # <<>>
    BY <2>2
  <2>4. /\ j \in IRInstruction /\ j.opcode # "phi" /\ Items(j.targets) \subseteq Blocks(g)
        /\ j.loop_target # Invalid => j.opcode = "loop" /\ j.targets # <<>> /\ j.loop_target \in Blocks(g)
        /\ IsHardware(j) => j.targets # <<>>
    <3>1. j \in IRInstruction /\ j.opcode # "phi" /\ b \in Blocks(f)
      BY <2>1, ExposingTerminal
    <3>2. CASE SetupPiece(f, N, b, e, j)
      <4>1. PICK n \in Blocks(g) : n = N[<<b, e + 1>>]
        BY <1>2, <3>2 DEF SetupPiece
      <4>2. Items(<<n>>) = {n} /\ <<n>> # <<>>
        BY DEF Items
      <4> QED
        BY <3>1, <3>2, <4>1, <4>2 DEF SetupPiece
    <3>3. CASE EndPiece(f, N, b, e, j)
      <4>1. PICK n \in Blocks(g), o \in Blocks(g) : j.targets = <<n, o>>
        BY <1>2, <3>3 DEF EndPiece
      <4>2. Items(<<n, o>>) = {n, o} /\ <<n, o>> # <<>>
        BY DEF Items
      <4> QED
        BY <3>1, <3>3, <4>1, <4>2 DEF EndPiece
    <3>4. CASE LastPiece(f, N, b, e, j)
      <4>1. \A t \in EdgesFrom(f, b) : <<t, 1>> \in Starts(f)
        BY <1>1, <3>1, TerminalEdges, StartFacts
      <4>2. Items(j.targets) \subseteq Blocks(g)
        BY <1>2, <3>4, <4>1 DEF LastPiece
      <4> QED
        BY <3>1, <3>4, <4>2 DEF LastPiece
    <3> QED
      BY <2>1, <3>2, <3>3, <3>4, ExposingTerminal
  <2>5. ASSUME NEW m \in DOMAIN B
        PROVE  WellPlaced(g, N[s], m) /\ (IsHardware(B[m]) => B[m].targets # <<>>)
    <3>1. CASE m = Len(B)
      <4>1. B[m] = j
        BY <2>2, <3>1
      <4> QED
        BY <2>1, <2>4, <3>1, <4>1 DEF WellPlaced
    <3>2. CASE Plain(B[m])
      <4>1. Items(<<>>) = {}
        BY DEF Items
      <4> QED
        BY <2>1, <3>2, <4>1 DEF WellPlaced, Plain
    <3> QED
      BY <2>2, <3>1, <3>2
  <2> QED
    BY <2>1, <2>2, <2>3, <2>4, <2>5
<1>4. g.blocks \in [Blocks(g) -> Seq(IRInstruction)]
  <2>1. \A c \in Blocks(g) : g.blocks[c] \in Seq(IRInstruction)
    BY <1>2, <1>3
  <2> QED
    BY <1>1, <2>1
<1>5. g.n \in Nat \ {0} /\ g.entry = 0 /\ g.value_count \in Nat
  BY <1>1, FormFacts
<1>6. \A c \in Blocks(g) : g.blocks[c] # <<>> /\ Terminal(g, c).opcode # "phi"
  BY <1>2, <1>3
<1>7. \A c \in Blocks(g) : \A m \in DOMAIN g.blocks[c] : WellPlaced(g, c, m)
  BY <1>2, <1>3
<1>8. WellFormed(g)
  BY <1>4, <1>5, <1>6, <1>7 DEF WellFormed
<1>9. Exposed(g)
  <2>1. \A c \in Blocks(g) : \A m \in DOMAIN g.blocks[c] :
           IsHardware(g.blocks[c][m]) => g.blocks[c][m].targets # <<>>
    BY <1>2, <1>3
  <2> QED
    BY <2>1 DEF Exposed, Instructions, Items
<1> QED
  BY <1>8, <1>9

\* A hardware instruction of the exposed function ends the block of the piece
\* that it ended before.
LEMMA ExposedHardware ==
    ASSUME NEW f, NEW g, NEW N, Exposing(f, g, N), NEW c \in Blocks(g), NEW m \in DOMAIN g.blocks[c],
           IsHardware(g.blocks[c][m])
    PROVE  \E s \in Starts(f) : /\ c = N[s] /\ m = Len(g.blocks[c]) /\ g.blocks[c][m] = Terminal(g, c)
                                /\ PieceEnd(f, s) \in Cuts(f, s[1])
                                /\ f.blocks[s[1]][PieceEnd(f, s)].opcode = g.blocks[c][m].opcode
                                /\ f.blocks[s[1]][PieceEnd(f, s)].loop_id = g.blocks[c][m].loop_id
<1>1. PICK s \in Starts(f) : c = N[s]
  BY DEF Exposing
<1>2. m = Len(g.blocks[c])
  BY <1>1, ExposingBlock DEF Plain
<1>3. PICK b, e, j : b = s[1] /\ e = PieceEnd(f, s) /\ j = Terminal(g, N[s])
  OBVIOUS
<1>4. g.blocks[c][m] = j /\ IsHardware(j)
  BY <1>1, <1>2, <1>3 DEF Terminal
<1>5. /\ e \in Cuts(f, b) /\ f.blocks[b][e].opcode = j.opcode /\ f.blocks[b][e].loop_id = j.loop_id
  <2>1. SetupPiece(f, N, b, e, j) \/ EndPiece(f, N, b, e, j) \/ LastPiece(f, N, b, e, j)
    BY <1>3, ExposingTerminal
  <2> QED
    BY <1>4, <2>1 DEF SetupPiece, EndPiece, LastPiece
<1> QED
  BY <1>1, <1>2, <1>3, <1>4, <1>5

\* Each setup and each end is still there once.
LEMMA ExposedOneEach ==
    ASSUME NEW f, NEW g, NEW N, Exposing(f, g, N)
    PROVE  OneEach(g)
<1>1. WellFormed(f) /\ Lowered(f) /\ OneEach(f)
  BY DEF Exposing
<1> SUFFICES ASSUME NEW c \in Blocks(g), NEW d \in Blocks(g),
                    NEW k \in DOMAIN g.blocks[c], NEW l \in DOMAIN g.blocks[d],
                    IsHardware(g.blocks[c][k]), g.blocks[c][k].opcode = g.blocks[d][l].opcode,
                    g.blocks[c][k].loop_id = g.blocks[d][l].loop_id
             PROVE  c = d /\ k = l
  BY DEF OneEach
<1>2. IsHardware(g.blocks[d][l])
  BY DEF IsHardware
<1>3. PICK s \in Starts(f) : /\ c = N[s] /\ k = Len(g.blocks[c])
                             /\ PieceEnd(f, s) \in Cuts(f, s[1])
                             /\ f.blocks[s[1]][PieceEnd(f, s)].opcode = g.blocks[c][k].opcode
                             /\ f.blocks[s[1]][PieceEnd(f, s)].loop_id = g.blocks[c][k].loop_id
  BY ExposedHardware
<1>4. PICK t \in Starts(f) : /\ d = N[t] /\ l = Len(g.blocks[d])
                             /\ PieceEnd(f, t) \in Cuts(f, t[1])
                             /\ f.blocks[t[1]][PieceEnd(f, t)].opcode = g.blocks[d][l].opcode
                             /\ f.blocks[t[1]][PieceEnd(f, t)].loop_id = g.blocks[d][l].loop_id
  BY <1>2, ExposedHardware
<1>5. s[1] = t[1] /\ PieceEnd(f, s) = PieceEnd(f, t)
  <2>1. /\ s[1] \in Blocks(f) /\ t[1] \in Blocks(f)
        /\ PieceEnd(f, s) \in DOMAIN f.blocks[s[1]] /\ PieceEnd(f, t) \in DOMAIN f.blocks[t[1]]
    BY <1>1, StartFacts, PieceFacts
  <2> QED
    BY <1>1, <1>3, <1>4, <2>1 DEF OneEach, IsHardware
<1>6. s = t
  <2>1. /\ s[2] \in Nat /\ t[2] \in Nat /\ PieceEnd(f, s) \in Nat
        /\ s[2] <= PieceEnd(f, s) /\ t[2] <= PieceEnd(f, t)
    BY <1>1, StartFacts, PieceFacts
  <2>2. CASE s[2] <= t[2]
    BY <1>1, <1>5, <2>1, <2>2, PieceUnique
  <2>3. CASE t[2] <= s[2]
    BY <1>1, <1>5, <2>1, <2>3, PieceUnique
  <2> QED
    BY <2>1, <2>2, <2>3
<1> QED
  BY <1>3, <1>4, <1>6

-----------------------------------------------------------------------------
\* The blocks control reaches without d are a set it cannot leave without d.
LEMMA LeastAvoiding ==
    ASSUME NEW f, WellFormed(f), NEW d \in Blocks(f)
    PROVE  /\ Avoiding(f, {y \in Blocks(f) : ~Passes(f, d, y)}, d)
           /\ Passes(f, d, d)
<1> DEFINE S == {y \in Blocks(f) : ~Passes(f, d, y)}
<1>1. f.entry \in Blocks(f) /\ \A b \in Blocks(f) : EdgesFrom(f, b) \subseteq Blocks(f)
  BY FormFacts, TerminalEdges
<1>2. f.entry # d => f.entry \in S
  BY <1>1 DEF Passes, Avoiding
<1>3. ASSUME NEW b \in S, NEW t \in EdgesFrom(f, b) \ {d} PROVE t \in S
  <2>1. t \in Blocks(f)
    BY <1>1
  <2>2. ASSUME NEW T \in SUBSET Blocks(f), Avoiding(f, T, d) PROVE t \in T
    <3>1. b \in T
      BY <2>2 DEF Passes
    <3> QED
      BY <2>2, <3>1 DEF Avoiding
  <2> QED
    BY <2>1, <2>2 DEF Passes
<1>4. Passes(f, d, d)
  <2>1. Avoiding(f, Blocks(f) \ {d}, d)
    BY <1>1 DEF Avoiding
  <2> QED
    BY <2>1 DEF Passes
<1> QED
  BY <1>2, <1>3, <1>4 DEF Avoiding

\* A block without which control does not reach d is reached wherever d is.
LEMMA PassesBetween ==
    ASSUME NEW f, WellFormed(f), NEW b \in Blocks(f), NEW c \in Blocks(f), NEW d \in Blocks(f),
           Passes(f, c, d), ~Passes(f, b, d)
    PROVE  ~Passes(f, b, c)
<1> SUFFICES ASSUME Passes(f, b, c) PROVE FALSE
  OBVIOUS
<1> DEFINE S == {y \in Blocks(f) : ~Passes(f, b, y)}
<1>1. Avoiding(f, S, b) /\ S \subseteq Blocks(f) /\ c \notin S
  BY LeastAvoiding
<1> HIDE DEF S
<1>2. PICK T \in SUBSET Blocks(f) : Avoiding(f, T, c) /\ d \notin T
  BY DEF Passes
<1>3. Avoiding(f, S \cap T, b)
  <2>1. f.entry # b => f.entry \in S \cap T
    BY <1>1, <1>2 DEF Avoiding
  <2>2. ASSUME NEW x \in S \cap T, NEW t \in EdgesFrom(f, x) \ {b} PROVE t \in S \cap T
    BY <1>1, <1>2 DEF Avoiding
  <2> QED
    BY <2>1, <2>2 DEF Avoiding
<1>4. Passes(f, b, d)
  <2>1. S \cap T \in SUBSET Blocks(f) /\ d \notin S \cap T
    BY <1>2
  <2> QED
    BY <1>3, <2>1 DEF Passes
<1> QED
  BY <1>4

\* Two reachable blocks cannot both come before each other.
LEMMA PassesOnce ==
    ASSUME NEW f, WellFormed(f), NEW b \in Blocks(f), NEW c \in Blocks(f),
           Passes(f, c, b), c # b, Reaches(f, b)
    PROVE  ~Passes(f, b, c)
<1> SUFFICES ASSUME Passes(f, b, c) PROVE FALSE
  OBVIOUS
<1> DEFINE S == {y \in Blocks(f) : ~Passes(f, b, y)}
<1>1. Avoiding(f, S, b) /\ S \subseteq Blocks(f) /\ c \notin S
  BY LeastAvoiding
<1> HIDE DEF S
<1>2. PICK T \in SUBSET Blocks(f) : Avoiding(f, T, c) /\ b \notin T
  BY DEF Passes
<1>3. f.entry \in S \cap T
  BY <1>1, <1>2 DEF Avoiding
<1>4. ASSUME NEW x \in S \cap T, NEW t \in EdgesFrom(f, x) PROVE t \in S \cap T
  <2>1. CASE t = c
    BY <1>1, <2>1 DEF Avoiding
  <2>2. CASE t # c
    BY <1>1, <1>2, <2>2 DEF Avoiding
  <2> QED
    BY <2>1, <2>2
<1>5. b \in S \cap T
  <2>1. S \cap T \in SUBSET Blocks(f)
    BY <1>1
  <2> QED
    BY <1>3, <1>4, <2>1 DEF Reaches
<1> QED
  BY <1>2, <1>5

\* The edges of a piece: to the next one, back to the body of the loop it ends,
\* or to the first pieces of the targets of its block.
NextEdge(f, N, b, e, t) == e \in Cuts(f, b) /\ <<b, e + 1>> \in Starts(f) /\ t = N[<<b, e + 1>>]
BackEdge(f, N, b, e, t) ==
    /\ e \in Cuts(f, b) /\ f.blocks[b][e].opcode = "end"
    /\ \E c \in Blocks(f) : \E l \in Cuts(f, c) :
          /\ HasLoop(f, c, l, "loop", f.blocks[b][e].loop_id)
          /\ <<c, l + 1>> \in Starts(f) /\ t = N[<<c, l + 1>>]
LastEdge(f, N, b, e, t) ==
    /\ e = Len(f.blocks[b]) /\ e \notin Cuts(f, b)
    /\ \E w \in EdgesFrom(f, b) : <<w, 1>> \in Starts(f) /\ t = N[<<w, 1>>]

\* These are the edges of the exposed function.
LEMMA ExposedEdges ==
    ASSUME NEW f, NEW g, NEW N, Exposing(f, g, N), NEW s \in Starts(f),
           NEW b, b = s[1], NEW e, e = PieceEnd(f, s), NEW t
    PROVE  t \in EdgesFrom(g, N[s]) <=>
              NextEdge(f, N, b, e, t) \/ BackEdge(f, N, b, e, t) \/ LastEdge(f, N, b, e, t)
<1>1. PICK j : j = Terminal(g, N[s])
  OBVIOUS
<1>2. WellFormed(g) /\ N[s] \in Blocks(g) /\ WellFormed(f) /\ Lowered(f) /\ OneEach(f)
  BY ExposedForm DEF Exposing
<1>3. EdgesFrom(g, N[s]) = Items(j.targets)
  BY <1>1, <1>2, TerminalEdges
<1>4. b \in Blocks(f)
  BY <1>1, ExposingTerminal
<1>5. CASE SetupPiece(f, N, b, e, j)
  <2>1. PICK n : n = N[<<b, e + 1>>]
    OBVIOUS
  <2>2. Items(<<n>>) = {n}
    BY DEF Items
  <2>3. t \in EdgesFrom(g, N[s]) <=> t = n
    BY <1>3, <1>5, <2>1, <2>2 DEF SetupPiece
  <2>4. ~BackEdge(f, N, b, e, t) /\ ~LastEdge(f, N, b, e, t)
    BY <1>5 DEF SetupPiece, BackEdge, LastEdge
  <2>5. NextEdge(f, N, b, e, t) <=> t = n
    BY <1>5, <2>1 DEF SetupPiece, NextEdge
  <2> QED
    BY <2>3, <2>4, <2>5
<1>6. CASE EndPiece(f, N, b, e, j)
  <2>1. PICK c \in Blocks(f) : \E l \in Cuts(f, c) :
           /\ HasLoop(f, c, l, "loop", j.loop_id) /\ <<c, l + 1>> \in Starts(f)
           /\ j.targets = <<N[<<c, l + 1>>], N[<<b, e + 1>>]>>
    BY <1>6 DEF EndPiece
  <2>2. PICK l \in Cuts(f, c) :
           /\ HasLoop(f, c, l, "loop", j.loop_id) /\ <<c, l + 1>> \in Starts(f)
           /\ j.targets = <<N[<<c, l + 1>>], N[<<b, e + 1>>]>>
    BY <2>1
  <2>3. PICK n, o : n = N[<<b, e + 1>>] /\ o = N[<<c, l + 1>>]
    OBVIOUS
  <2>4. Items(<<o, n>>) = {o, n}
    BY DEF Items
  <2>5. t \in EdgesFrom(g, N[s]) <=> t = n \/ t = o
    BY <1>3, <2>2, <2>3, <2>4
  <2>6. NextEdge(f, N, b, e, t) <=> t = n
    BY <1>6, <2>3 DEF EndPiece, NextEdge
  <2>7. ~LastEdge(f, N, b, e, t)
    BY <1>6 DEF EndPiece, LastEdge
  <2>8. t = o => BackEdge(f, N, b, e, t)
    BY <1>6, <2>2, <2>3 DEF EndPiece, BackEdge
  <2>9. ASSUME BackEdge(f, N, b, e, t) PROVE t = o
    <3>1. PICK d \in Blocks(f) : \E k \in Cuts(f, d) :
             HasLoop(f, d, k, "loop", f.blocks[b][e].loop_id) /\ t = N[<<d, k + 1>>]
      BY <2>9 DEF BackEdge
    <3>2. PICK k \in Cuts(f, d) : HasLoop(f, d, k, "loop", f.blocks[b][e].loop_id) /\ t = N[<<d, k + 1>>]
      BY <3>1
    <3>3. j.loop_id = f.blocks[b][e].loop_id
      BY <1>6 DEF EndPiece
    <3>4. d = c /\ k = l
      <4>1. /\ l \in DOMAIN f.blocks[c] /\ f.blocks[c][l].opcode = "loop" /\ f.blocks[c][l].loop_id = j.loop_id
        BY <2>2 DEF HasLoop
      <4>2. /\ k \in DOMAIN f.blocks[d] /\ f.blocks[d][k].opcode = "loop" /\ f.blocks[d][k].loop_id = j.loop_id
        BY <3>2, <3>3 DEF HasLoop
      <4> QED
        BY <1>2, <4>1, <4>2 DEF OneEach, IsHardware
    <3> QED
      BY <2>3, <3>2, <3>4
  <2> QED
    BY <2>5, <2>6, <2>7, <2>8, <2>9
<1>7. CASE LastPiece(f, N, b, e, j)
  <2>1. ~NextEdge(f, N, b, e, t) /\ ~BackEdge(f, N, b, e, t)
    BY <1>7 DEF LastPiece, NextEdge, BackEdge
  <2>2. \A w \in EdgesFrom(f, b) : <<w, 1>> \in Starts(f)
    BY <1>2, <1>4, TerminalEdges, StartFacts
  <2>3. t \in EdgesFrom(g, N[s]) <=> \E w \in EdgesFrom(f, b) : t = N[<<w, 1>>]
    BY <1>3, <1>7 DEF LastPiece
  <2>4. LastEdge(f, N, b, e, t) <=> \E w \in EdgesFrom(f, b) : t = N[<<w, 1>>]
    BY <1>7, <2>2 DEF LastPiece, LastEdge
  <2> QED
    BY <2>1, <2>3, <2>4
<1> QED
  BY <1>1, <1>5, <1>6, <1>7, ExposingTerminal

\* Control that reaches a block reaches all its pieces.
LEMMA ExposedReaches ==
    ASSUME NEW f, NEW g, NEW N, Exposing(f, g, N), NEW b \in Blocks(f), Reaches(f, b),
           NEW s \in Starts(f), s[1] = b
    PROVE  Reaches(g, N[s])
<1>1. /\ WellFormed(f) /\ Lowered(f) /\ g.entry = 0 /\ N[<<0, 1>>] = 0 /\ f.entry = 0 /\ 0 \in Blocks(f)
      /\ \A t \in Starts(f) : N[t] \in Blocks(g)
  BY FormFacts DEF Exposing
<1> SUFFICES ASSUME NEW S \in SUBSET Blocks(g), g.entry \in S, \A c \in S : EdgesFrom(g, c) \subseteq S
             PROVE  N[s] \in S
  BY DEF Reaches
<1>2. ASSUME NEW c \in Blocks(f), N[<<c, 1>>] \in S, NEW t \in Starts(f), t[1] = c PROVE N[t] \in S
  <2> DEFINE K == {k \in Nat : <<c, k>> \in Starts(f) /\ N[<<c, k>>] \notin S}
  <2> SUFFICES ASSUME N[t] \notin S PROVE FALSE
    OBVIOUS
  <2>1. t[2] \in K /\ K \subseteq Nat
    BY <1>1, <1>2, StartFacts
  <2> HIDE DEF K
  <2>2. PICK k \in K : \A m \in K : k <= m
    BY <2>1, LeastNumber
  <2>3. k \in Nat /\ <<c, k>> \in Starts(f) /\ N[<<c, k>>] \notin S
    BY <2>2 DEF K
  <2>4. PICK v \in Starts(f) : v = <<c, k>> /\ v[1] = c /\ v[2] = k
    BY <2>3
  <2>5. k # 1
    BY <1>2, <2>3
  <2>6. k - 1 \in Cuts(f, c) /\ k >= 1
    BY <1>1, <2>4, <2>5, StartFacts
  <2>7. PICK u \in Starts(f) : u[1] = c /\ u[2] <= k - 1 /\ PieceEnd(f, u) = k - 1
    <3>1. k - 1 \in DOMAIN f.blocks[c]
      BY <2>6 DEF Cuts
    <3> QED
      BY <1>1, <2>6, <3>1, PieceEnding
  <2>8. u = <<c, u[2]>> /\ u[2] \in Nat
    BY <1>1, <2>7, StartFacts
  <2>9. u[2] \notin K
    BY <2>2, <2>3, <2>7, <2>8
  <2>10. N[u] \in S
    BY <2>8, <2>9 DEF K
  <2>11. (k - 1) + 1 = k
    BY <2>3
  <2>12. NextEdge(f, N, c, k - 1, N[<<c, k>>])
    BY <2>3, <2>6, <2>11 DEF NextEdge
  <2>13. N[<<c, k>>] \in EdgesFrom(g, N[u])
    BY <2>7, <2>12, ExposedEdges
  <2> QED
    BY <2>3, <2>10, <2>13
<1> DEFINE T == {c \in Blocks(f) : N[<<c, 1>>] \in S}
<1>3. f.entry \in T
  BY <1>1
<1>4. ASSUME NEW c \in T, NEW w \in EdgesFrom(f, c) PROVE w \in T
  <2>1. w \in Blocks(f) /\ <<w, 1>> \in Starts(f)
    BY <1>1, TerminalEdges, StartFacts
  <2>2. Len(f.blocks[c]) \in DOMAIN f.blocks[c] /\ Len(f.blocks[c]) \in Nat
    BY <1>1, FormFacts
  <2>3. PICK u \in Starts(f) : u[1] = c /\ PieceEnd(f, u) = Len(f.blocks[c])
    BY <1>1, <2>2, PieceEnding
  <2>4. N[u] \in S
    BY <1>2, <2>3
  <2>5. Len(f.blocks[c]) \notin Cuts(f, c)
    BY <1>1, <2>2, LoweredFacts
  <2>6. LastEdge(f, N, c, Len(f.blocks[c]), N[<<w, 1>>])
    BY <2>1, <2>5 DEF LastEdge
  <2>7. N[<<w, 1>>] \in EdgesFrom(g, N[u])
    BY <2>3, <2>6, ExposedEdges
  <2> QED
    BY <2>1, <2>4, <2>7
<1>5. b \in T
  BY <1>3, <1>4 DEF Reaches
<1> QED
  BY <1>2, <1>5

\* A path that must pass a block passes its pieces in turn.
LEMMA ExposedPasses ==
    ASSUME NEW f, NEW g, NEW N, Exposing(f, g, N), NEW s \in Starts(f), NEW t \in Starts(f),
           NEW b, b = s[1], Reaches(f, b),
           IF t[1] = b THEN s[2] <= t[2] ELSE Passes(f, b, t[1])
    PROVE  Passes(g, N[s], N[t])
<1>1. /\ WellFormed(f) /\ Lowered(f) /\ OneEach(f) /\ g.entry = 0 /\ N[<<0, 1>>] = 0 /\ f.entry = 0
      /\ 0 \in Blocks(f) /\ <<0, 1>> \in Starts(f)
      /\ \A u \in Starts(f) : N[u] \in Blocks(g)
      /\ \A u, v \in Starts(f) : N[u] = N[v] => u = v
  BY FormFacts, StartFacts DEF Exposing
<1>2. /\ b \in Blocks(f) /\ s = <<b, s[2]>> /\ s[2] \in Nat /\ s[2] >= 1 /\ s[2] <= Len(f.blocks[b])
      /\ Len(f.blocks[b]) \in Nat
  BY <1>1, StartFacts, FormFacts
<1> DEFINE S0 == {y \in Blocks(f) : ~Passes(f, b, y)}
           U == {u \in Starts(f) : u[1] \in S0 \/ (u[1] = b /\ u[2] < s[2])}
           S == {N[u] : u \in U}
<1>3. Avoiding(f, S0, b) /\ b \notin S0
  BY <1>1, <1>2, LeastAvoiding
<1>4. S \subseteq Blocks(g)
  BY <1>1
<1>5. g.entry # N[s] => g.entry \in S
  <2>1. ASSUME s # <<0, 1>> PROVE <<0, 1>> \in U
    <3>1. CASE b # 0
      BY <1>1, <1>3, <3>1 DEF Avoiding
    <3>2. CASE b = 0
      <4>1. s[2] # 1
        BY <1>2, <2>1, <3>2
      <4>2. 1 < s[2]
        BY <1>2, <4>1
      <4> QED
        BY <1>1, <3>2, <4>2
    <3> QED
      BY <3>1, <3>2
  <2> QED
    BY <1>1, <2>1
<1>6. ASSUME NEW u \in U, NEW x \in EdgesFrom(g, N[u]), x # N[s] PROVE x \in S
  <2>1. PICK c, e : c = u[1] /\ e = PieceEnd(f, u)
    OBVIOUS
  <2>2. u \in Starts(f) /\ (c \in S0 \/ (c = b /\ u[2] < s[2]))
    BY <2>1
  <2>3. /\ c \in Blocks(f) /\ c \in Nat /\ u = <<c, u[2]>> /\ u[2] \in Nat /\ u[2] >= 1 /\ e \in Nat /\ e >= u[2]
        /\ e \in DOMAIN f.blocks[c]
    BY <1>1, <2>1, <2>2, StartFacts, PieceFacts
  <2>4. NextEdge(f, N, c, e, x) \/ BackEdge(f, N, c, e, x) \/ LastEdge(f, N, c, e, x)
    BY <2>1, <2>2, ExposedEdges
  <2>5. c = b => e < s[2]
    <3> SUFFICES ASSUME c = b, ~(e < s[2]) PROVE FALSE
      OBVIOUS
    <3>1. u[2] < s[2]
      BY <1>3, <2>2
    <3>2. u = s
      BY <1>1, <1>2, <2>1, <2>2, <2>3, <3>1, PieceUnique
    <3> QED
      BY <1>2, <3>1, <3>2
  <2>6. CASE NextEdge(f, N, c, e, x)
    <3>1. <<c, e + 1>> \in Starts(f) /\ x = N[<<c, e + 1>>]
      BY <2>6 DEF NextEdge
    <3>2. CASE c = b
      <4>1. e + 1 < s[2]
        <5>1. e + 1 # s[2]
          BY <1>2, <1>6, <3>1, <3>2
        <5> QED
          BY <1>2, <2>3, <2>5, <3>2, <5>1
      <4> QED
        BY <3>1, <3>2, <4>1
    <3> QED
      BY <2>2, <3>1, <3>2
  <2>7. CASE BackEdge(f, N, c, e, x)
    <3>0. e \in Cuts(f, c) /\ f.blocks[c][e].opcode = "end"
      BY <2>7 DEF BackEdge
    <3>1. PICK d \in Blocks(f) : \E l \in Cuts(f, d) :
             HasLoop(f, d, l, "loop", f.blocks[c][e].loop_id) /\ <<d, l + 1>> \in Starts(f) /\ x = N[<<d, l + 1>>]
      BY <2>7 DEF BackEdge
    <3>2. PICK l \in Cuts(f, d) :
             HasLoop(f, d, l, "loop", f.blocks[c][e].loop_id) /\ <<d, l + 1>> \in Starts(f) /\ x = N[<<d, l + 1>>]
      BY <3>1
    <3>3. l \in DOMAIN f.blocks[d] /\ f.blocks[d][l].opcode = "loop" /\ f.blocks[d][l].loop_id = f.blocks[c][e].loop_id
      BY <3>2 DEF HasLoop
    <3>4. LoweredAt(f, d, l) /\ l \in Nat
      BY <1>1, <3>3, LoweredFacts DEF Lowered
    <3>5. PICK p \in Blocks(f) : \E m \in DOMAIN f.blocks[p] :
             HasLoop(f, p, m, "end", f.blocks[d][l].loop_id) /\ IF d = p THEN l < m ELSE Passes(f, d, p)
      BY <3>3, <3>4 DEF LoweredAt
    <3>6. PICK m \in DOMAIN f.blocks[p] :
             HasLoop(f, p, m, "end", f.blocks[d][l].loop_id) /\ IF d = p THEN l < m ELSE Passes(f, d, p)
      BY <3>5
    <3>7. p = c /\ m = e
      <4>1. f.blocks[p][m].opcode = "end" /\ f.blocks[p][m].loop_id = f.blocks[c][e].loop_id
        BY <3>3, <3>6 DEF HasLoop
      <4> QED
        BY <1>1, <2>3, <3>0, <4>1 DEF OneEach, IsHardware
    <3>8. IF d = c THEN l < e ELSE Passes(f, d, c)
      BY <3>6, <3>7
    <3>9. d \in S0 \/ (d = b /\ l + 1 < s[2])
      <4>1. CASE c \in S0
        <5>1. CASE d = c
          BY <4>1, <5>1
        <5>2. CASE d # c
          <6>1. ~Passes(f, b, c)
            BY <4>1
          <6>2. ~Passes(f, b, d)
            BY <1>1, <1>2, <2>3, <3>8, <5>2, <6>1, PassesBetween
          <6> QED
            BY <6>2
        <5> QED
          BY <5>1, <5>2
      <4>2. CASE c = b
        <5>1. CASE d = c
          BY <1>2, <2>3, <2>5, <3>4, <3>8, <4>2, <5>1
        <5>2. CASE d # c
          BY <1>1, <1>2, <3>8, <4>2, <5>2, PassesOnce
        <5> QED
          BY <5>1, <5>2
      <4> QED
        BY <2>2, <4>1, <4>2
    <3>10. PICK v \in Starts(f) : v = <<d, l + 1>>
      BY <3>2
    <3>11. v \in U
      BY <3>9, <3>10
    <3> QED
      BY <3>2, <3>10, <3>11
  <2>8. CASE LastEdge(f, N, c, e, x)
    <3>1. PICK w \in EdgesFrom(f, c) : <<w, 1>> \in Starts(f) /\ x = N[<<w, 1>>]
      BY <2>8 DEF LastEdge
    <3>2. c # b
      <4>1. e = Len(f.blocks[c])
        BY <2>8 DEF LastEdge
      <4> QED
        BY <1>2, <2>3, <2>5, <4>1
    <3>3. c \in S0
      BY <2>2, <3>2
    <3>4. CASE w = b
      <4>1. 1 < s[2]
        <5>1. s[2] # 1
          BY <1>2, <1>6, <3>1, <3>4
        <5> QED
          BY <1>2, <5>1
      <4> QED
        BY <3>1, <3>4, <4>1
    <3>5. CASE w # b
      <4>1. w \in S0
        BY <1>3, <3>3, <3>5 DEF Avoiding
      <4> QED
        BY <3>1, <4>1
    <3> QED
      BY <3>4, <3>5
  <2> QED
    BY <2>4, <2>6, <2>7, <2>8
<1>7. N[t] \notin S
  <2>1. t \notin U
    <3>1. t[2] \in Nat
      BY <1>1, StartFacts
    <3>2. CASE t[1] = b
      BY <1>2, <1>3, <3>1, <3>2
    <3>3. CASE t[1] # b
      BY <3>3
    <3> QED
      BY <3>2, <3>3
  <2> QED
    BY <1>1, <2>1
<1>8. ASSUME NEW y \in S, NEW x \in EdgesFrom(g, y), x # N[s] PROVE x \in S
  BY <1>6, <1>8
<1> HIDE DEF S
<1>9. Avoiding(g, S, N[s])
  BY <1>5, <1>8 DEF Avoiding
<1> QED
  BY <1>4, <1>7, <1>9 DEF Passes

\* Exposing leaves every loop with its setup, its end and its leave.
LEMMA ExposedPaired ==
    ASSUME NEW f, NEW g, NEW N, Exposing(f, g, N)
    PROVE  Paired(g)
<1>1. /\ WellFormed(f) /\ Lowered(f) /\ OneEach(f) /\ WellFormed(g)
      /\ \A u \in Starts(f) : N[u] \in Blocks(g)
      /\ \A u, v \in Starts(f) : N[u] = N[v] => u = v
  BY ExposedForm DEF Exposing
<1> SUFFICES ASSUME NEW x \in Blocks(g), NEW setup \in Instructions(g, x), setup.opcode = "loop"
             PROVE  \E p \in Blocks(g) : PairedAt(g, x, setup, p)
  BY DEF Paired
<1>2. PICK m \in DOMAIN g.blocks[x] : setup = g.blocks[x][m]
  BY DEF Instructions, Items
<1>3. IsHardware(g.blocks[x][m])
  BY <1>2 DEF IsHardware
<1>4. PICK s \in Starts(f) :
         /\ x = N[s] /\ m = Len(g.blocks[x]) /\ g.blocks[x][m] = Terminal(g, x)
         /\ PieceEnd(f, s) \in Cuts(f, s[1])
         /\ f.blocks[s[1]][PieceEnd(f, s)].opcode = g.blocks[x][m].opcode
         /\ f.blocks[s[1]][PieceEnd(f, s)].loop_id = g.blocks[x][m].loop_id
  BY <1>3, ExposedHardware
<1>5. PICK b, k, id : b = s[1] /\ k = PieceEnd(f, s) /\ id = setup.loop_id
  OBVIOUS
<1>6. /\ b \in Blocks(f) /\ s = <<b, s[2]>> /\ s[2] \in Nat /\ k \in Nat /\ s[2] <= k
      /\ k \in Cuts(f, b) /\ k \in DOMAIN f.blocks[b]
  BY <1>1, <1>4, <1>5, StartFacts, PieceFacts
<1>7. f.blocks[b][k].opcode = "loop" /\ f.blocks[b][k].loop_id = id
  BY <1>2, <1>4, <1>5
<1>8. Reaches(f, b) /\ LoweredAt(f, b, k)
  BY <1>1, <1>6, LoweredFacts DEF Lowered
<1>9. PICK c \in Blocks(f) : \E l \in DOMAIN f.blocks[c] :
         HasLoop(f, c, l, "end", id) /\ IF b = c THEN k < l ELSE Passes(f, b, c)
  BY <1>7, <1>8 DEF LoweredAt
<1>10. PICK l \in DOMAIN f.blocks[c] :
         HasLoop(f, c, l, "end", id) /\ IF b = c THEN k < l ELSE Passes(f, b, c)
  BY <1>9
<1>11. f.blocks[c][l].opcode = "end" /\ f.blocks[c][l].loop_id = id
  BY <1>10 DEF HasLoop
<1>12. IsHardware(f.blocks[c][l])
  BY <1>11 DEF IsHardware
<1>13. l \in Nat /\ l >= 1 /\ l \in Cuts(f, c) /\ Reaches(f, c) /\ l + 1 > 1 /\ (l + 1) - 1 = l
  BY <1>1, <1>12, LoweredFacts
<1>14. PICK z \in Starts(f) : z[1] = c /\ z[2] <= l /\ PieceEnd(f, z) = l
  BY <1>1, <1>13, PieceEnding
<1>15. PICK v \in Starts(f) : v = <<c, l + 1>> /\ v[1] = c /\ v[2] = l + 1
  <2>1. <<c, l + 1>> \in Starts(f)
    BY <1>1, <1>13, StartFacts
  <2> QED
    BY <2>1
<1>16. z = <<c, z[2]>> /\ z[2] \in Nat
  BY <1>1, <1>14, StartFacts
<1>17. PICK p, q : p = N[z] /\ q = N[v]
  OBVIOUS
<1>18. p \in Blocks(g) /\ q \in Blocks(g) /\ Reaches(g, p) /\ Reaches(g, q)
  BY <1>1, <1>13, <1>14, <1>15, <1>17, ExposedReaches
<1>19. PICK j : j = Terminal(g, p)
  OBVIOUS
<1>20. EndPiece(f, N, c, l, j)
  <2>1. SetupPiece(f, N, c, l, j) \/ EndPiece(f, N, c, l, j) \/ LastPiece(f, N, c, l, j)
    BY <1>14, <1>17, <1>19, ExposingTerminal
  <2>2. ~SetupPiece(f, N, c, l, j) /\ ~LastPiece(f, N, c, l, j)
    BY <1>11, <1>13 DEF SetupPiece, LastPiece
  <2> QED
    BY <2>1, <2>2
<1>21. SetupPiece(f, N, b, k, setup)
  <2>1. setup = Terminal(g, N[s])
    BY <1>2, <1>4
  <2>2. SetupPiece(f, N, b, k, setup) \/ EndPiece(f, N, b, k, setup) \/ LastPiece(f, N, b, k, setup)
    BY <1>5, <2>1, ExposingTerminal
  <2>3. ~EndPiece(f, N, b, k, setup) /\ ~LastPiece(f, N, b, k, setup)
    BY <1>6, <1>7 DEF EndPiece, LastPiece
  <2> QED
    BY <2>2, <2>3
<1>22. j.opcode = "end" /\ j.loop_id = id
  BY <1>11, <1>20 DEF EndPiece
<1>23. j.targets[1] = setup.loop_target
  <2>1. PICK d \in Blocks(f) : \E o \in Cuts(f, d) :
           HasLoop(f, d, o, "loop", j.loop_id) /\ j.targets = <<N[<<d, o + 1>>], N[<<c, l + 1>>]>>
    BY <1>20 DEF EndPiece
  <2>2. PICK o \in Cuts(f, d) :
           HasLoop(f, d, o, "loop", j.loop_id) /\ j.targets = <<N[<<d, o + 1>>], N[<<c, l + 1>>]>>
    BY <2>1
  <2>3. d = b /\ o = k
    <3>1. o \in DOMAIN f.blocks[d] /\ f.blocks[d][o].opcode = "loop" /\ f.blocks[d][o].loop_id = id
      BY <1>22, <2>2 DEF HasLoop
    <3> QED
      BY <1>1, <1>6, <1>7, <3>1 DEF OneEach, IsHardware
  <2>4. setup.loop_target = N[<<b, k + 1>>]
    BY <1>21 DEF SetupPiece
  <2>5. PICK n1, n2 : n1 = N[<<d, o + 1>>] /\ n2 = N[<<c, l + 1>>]
    OBVIOUS
  <2>6. j.targets = <<n1, n2>>
    BY <2>2, <2>5
  <2> QED
    BY <2>3, <2>4, <2>5, <2>6
<1>24. Passes(g, x, p)
  <2>1. IF z[1] = b THEN s[2] <= z[2] ELSE Passes(f, b, z[1])
    <3>1. CASE c = b
      <4>1. k < l
        BY <1>10, <3>1
      <4> SUFFICES ASSUME ~(s[2] <= z[2]) PROVE FALSE
        BY <1>14, <3>1
      <4>2. z[2] <= s[2] /\ s[2] <= PieceEnd(f, z)
        BY <1>6, <1>13, <1>14, <1>16, <4>1
      <4>3. z = s
        BY <1>1, <1>5, <1>14, <3>1, <4>2, PieceUnique
      <4> QED
        BY <1>5, <1>6, <1>13, <1>14, <4>1, <4>3
    <3>2. CASE c # b
      BY <1>10, <1>14, <3>2
    <3> QED
      BY <3>1, <3>2
  <2> QED
    BY <1>4, <1>5, <1>8, <1>17, <2>1, ExposedPasses
<1>25. Passes(g, p, q)
  <2>1. IF v[1] = c THEN z[2] <= v[2] ELSE Passes(f, c, v[1])
    BY <1>13, <1>14, <1>15, <1>16
  <2> QED
    BY <1>13, <1>14, <1>17, <2>1, ExposedPasses
<1>26. \E i \in Instructions(g, q) : i.opcode = "leave" /\ i.loop_id = id
  <2>1. v[2] > 1 /\ f.blocks[v[1]][v[2] - 1].opcode = "end" /\ f.blocks[v[1]][v[2] - 1].loop_id = id
    BY <1>11, <1>13, <1>15
  <2>2. 1 \in DOMAIN g.blocks[q] /\ g.blocks[q][1] = Leave(id)
    BY <1>17, <2>1, ExposingBlock
  <2>3. g.blocks[q][1].opcode = "leave" /\ g.blocks[q][1].loop_id = id
    BY <2>2 DEF Leave
  <2> QED
    BY <2>2, <2>3 DEF Instructions, Items
<1>27. PairedAt(g, x, setup, p)
  BY <1>5, <1>18, <1>19, <1>22, <1>23, <1>24, <1>25, <1>26 DEF PairedAt
<1> QED
  BY <1>18, <1>27

\* A function without cuts has no loop to pair.
LEMMA NothingToExpose ==
    ASSUME NEW f, Verified(f), \A b \in Blocks(f) : Cuts(f, b) = {}
    PROVE  WellFormed(f) /\ Exposed(f) /\ OneEach(f) /\ Paired(f)
<1>1. WellFormed(f) /\ OneEach(f) /\ ((Exposed(f) /\ Paired(f)) \/ Lowered(f))
  BY DEF Verified
<1>2. CASE Lowered(f)
  <2>1. \A b \in Blocks(f) : \A k \in DOMAIN f.blocks[b] : ~IsHardware(f.blocks[b][k])
    BY <1>1, <1>2, LoweredFacts
  <2>2. Exposed(f)
    BY <2>1 DEF Exposed, Instructions, Items
  <2>3. Paired(f)
    BY <2>1 DEF Paired, Instructions, Items, IsHardware
  <2> QED
    BY <1>1, <2>2, <2>3
<1> QED
  BY <1>1, <1>2

\* exposeHardwareLoops hands on a function whose hardware loops are exposed and
\* paired.
LEMMA ExposeVerified ==
    ASSUME NEW f, Verified(f), NEW g, g = ExposeHardwareLoops(f)
    PROVE  WellFormed(g) /\ Exposed(g) /\ OneEach(g) /\ Paired(g)
<1>1. CASE \A b \in Blocks(f) : Cuts(f, b) = {}
  <2>1. g = f
    BY <1>1 DEF ExposeHardwareLoops
  <2> QED
    BY <1>1, <2>1, NothingToExpose
<1>2. CASE ~(\A b \in Blocks(f) : Cuts(f, b) = {})
  <2>1. WellFormed(f) /\ OneEach(f) /\ ((Exposed(f) /\ Paired(f)) \/ Lowered(f))
    BY DEF Verified
  <2>2. Lowered(f)
    <3> SUFFICES ASSUME Exposed(f) PROVE FALSE
      BY <2>1
    <3>1. PICK b \in Blocks(f) : Cuts(f, b) # {}
      BY <1>2
    <3>2. PICK k \in DOMAIN f.blocks[b] : IsHardware(f.blocks[b][k]) /\ f.blocks[b][k].targets = <<>>
      BY <3>1 DEF Cuts
    <3> QED
      BY <3>2 DEF Exposed, Instructions, Items
  <2>3. PICK N : N = [s \in Starts(f) |-> nextBlock(f, s)]
    OBVIOUS
  <2>4. Exposing(f, g, N)
    BY <1>2, <2>1, <2>2, <2>3, ExposesFunction
  <2> QED
    BY <2>4, ExposedForm, ExposedOneEach, ExposedPaired
<1> QED
  BY <1>1, <1>2

-----------------------------------------------------------------------------
\* The natural loop of a header, by paths alone.
Latches(f, h) == {b \in Blocks(f) : Reaches(f, b) /\ h \in EdgesFrom(f, b) /\ Passes(f, h, b)}
LoopOf(f, h) ==
    IF Latches(f, h) = {} THEN {}
    ELSE {h} \cup {x \in Blocks(f) \ {h} : Reaches(f, x) /\ \E b \in Latches(f, h) : Around(f, x, b, h)}
Headers(f) == {h \in Blocks(f) : LoopOf(f, h) # {}}

\* A loop holds its header, from which alone it can be entered.
LEMMA LoopFacts ==
    ASSUME NEW f, WellFormed(f), NEW h \in Blocks(f), NEW x \in LoopOf(f, h)
    PROVE  /\ x \in Blocks(f) /\ Passes(f, h, x) /\ h \in LoopOf(f, h)
           /\ Reaches(f, x) /\ Reaches(f, h)
<1>1. Latches(f, h) # {} /\ x \in Blocks(f) /\ h \in LoopOf(f, h)
  BY DEF LoopOf
<1>2. PICK c \in Blocks(f) : Reaches(f, c) /\ h \in EdgesFrom(f, c)
  BY <1>1 DEF Latches
<1>3. Reaches(f, h)
  BY <1>2 DEF Reaches
<1>4. CASE x = h
  BY <1>1, <1>3, <1>4, LeastAvoiding
<1>5. CASE x # h
  <2>1. Reaches(f, x) /\ \E b \in Latches(f, h) : Around(f, x, b, h)
    BY <1>1, <1>5 DEF LoopOf
  <2>2. PICK b \in Latches(f, h) : Around(f, x, b, h)
    BY <2>1
  <2>3. b \in Blocks(f) /\ Passes(f, h, b)
    BY DEF Latches
  <2> DEFINE S == {y \in Blocks(f) : ~Passes(f, h, y)}
  <2>4. Avoiding(f, S, h) /\ b \notin S /\ S \in SUBSET Blocks(f)
    BY <2>3, LeastAvoiding
  <2>5. x \in Blocks(f) => (x \in S <=> ~Passes(f, h, x))
    OBVIOUS
  <2> HIDE DEF S
  <2>6. x \notin S
    BY <2>2, <2>4 DEF Around, Avoiding
  <2> QED
    BY <1>1, <1>3, <2>1, <2>5, <2>6
<1> QED
  BY <1>4, <1>5

\* Two blocks that every path to a reachable block passes: every path to one
\* passes the other.
LEMMA PassesChain ==
    ASSUME NEW f, WellFormed(f), NEW g \in Blocks(f), NEW h \in Blocks(f), NEW x \in Blocks(f),
           Reaches(f, x), Passes(f, g, x), Passes(f, h, x)
    PROVE  Passes(f, g, h) \/ Passes(f, h, g)
<1> SUFFICES ASSUME ~Passes(f, g, h), ~Passes(f, h, g) PROVE FALSE
  OBVIOUS
<1> DEFINE S == {y \in Blocks(f) : ~Passes(f, g, y)}
           T == {y \in Blocks(f) : ~Passes(f, h, y)}
<1>1. Avoiding(f, S, g) /\ x \notin S /\ S \in SUBSET Blocks(f) /\ h \in S
  BY LeastAvoiding
<1>2. Avoiding(f, T, h) /\ x \notin T /\ T \in SUBSET Blocks(f) /\ g \in T
  BY LeastAvoiding
<1> HIDE DEF S, T
<1>3. f.entry \in S \cup T
  BY <1>1, <1>2 DEF Avoiding
<1>4. ASSUME NEW c \in S \cup T, NEW t \in EdgesFrom(f, c) PROVE t \in S \cup T
  BY <1>1, <1>2 DEF Avoiding
<1>5. x \in S \cup T
  BY <1>1, <1>2, <1>3, <1>4 DEF Reaches
<1> QED
  BY <1>1, <1>2, <1>5

\* A loop that meets the loop of a header above its own is inside it.
LEMMA LoopInside ==
    ASSUME NEW f, WellFormed(f), NEW g \in Blocks(f), NEW h \in Blocks(f), g # h,
           NEW x, x \in LoopOf(f, g), x \in LoopOf(f, h), Passes(f, h, g)
    PROVE  LoopOf(f, g) \subseteq LoopOf(f, h)
<1>1. /\ x \in Blocks(f) /\ Passes(f, g, x) /\ Passes(f, h, x) /\ Reaches(f, x)
      /\ Reaches(f, g) /\ Reaches(f, h)
  BY LoopFacts
<1>2. ~Passes(f, g, h)
  BY <1>1, PassesOnce
<1> DEFINE T == {z \in Blocks(f) : ~Passes(f, g, z)}
<1>3. Avoiding(f, T, g) /\ T \in SUBSET Blocks(f) /\ h \in T /\ x \notin T
  BY <1>1, <1>2, LeastAvoiding
<1>4. \A c \in Blocks(f) : c \in T <=> ~Passes(f, g, c)
  OBVIOUS
<1> HIDE DEF T
<1>5. x # h
  BY <1>1, <1>2
<1>6. PICK b \in Latches(f, h) : Around(f, x, b, h)
  BY <1>5 DEF LoopOf
<1>7. Around(f, g, b, h)
  <2> SUFFICES ASSUME NEW S \in SUBSET Blocks(f), g \in S, \A c \in S \ {b} : EdgesFrom(f, c) \ {h} \subseteq S,
                      b \notin S
               PROVE  FALSE
    BY DEF Around
  <2>1. x \notin S
    BY <1>6 DEF Around
  <2>2. f.entry \in S \cup T
    BY <1>3 DEF Avoiding
  <2>3. ASSUME NEW c \in S \cup T, NEW t \in EdgesFrom(f, c) PROVE t \in S \cup T
    BY <1>3 DEF Avoiding
  <2>4. x \in S \cup T
    BY <1>1, <1>3, <2>2, <2>3 DEF Reaches
  <2> QED
    BY <1>3, <2>1, <2>4
<1>8. ASSUME NEW y \in LoopOf(f, g) PROVE y \in LoopOf(f, h)
  <2>1. y \in Blocks(f) /\ Passes(f, g, y) /\ Reaches(f, y)
    BY LoopFacts
  <2>2. y # h
    BY <1>2, <2>1
  <2>3. Around(f, y, b, h)
    <3>1. CASE y = g
      BY <1>7, <3>1
    <3>2. CASE y # g
      <4>1. PICK c \in Latches(f, g) : Around(f, y, c, g)
        BY <3>2 DEF LoopOf
      <4>2. c \in Blocks(f) /\ g \in EdgesFrom(f, c) /\ c \notin T
        BY <1>4, <4>1 DEF Latches
      <4> SUFFICES ASSUME NEW S \in SUBSET Blocks(f), y \in S,
                          \A z \in S \ {b} : EdgesFrom(f, z) \ {h} \subseteq S, b \notin S
                   PROVE  FALSE
        BY DEF Around
      <4>3. g \notin S
        BY <1>7 DEF Around
      <4>4. ASSUME NEW z \in (S \cup T) \ {c}, NEW t \in EdgesFrom(f, z) \ {g} PROVE t \in S \cup T
        BY <1>3 DEF Avoiding
      <4>5. c \in S \cup T
        BY <1>3, <4>1, <4>4 DEF Around
      <4> QED
        BY <4>2, <4>3, <4>5
    <3> QED
      BY <3>1, <3>2
  <2> QED
    BY <1>6, <2>1, <2>2, <2>3 DEF LoopOf
<1> QED
  BY <1>8

\* Two loops are nested or disjoint.
LEMMA LoopsNest ==
    ASSUME NEW f, WellFormed(f), NEW g \in Blocks(f), NEW h \in Blocks(f),
           LoopOf(f, g) \cap LoopOf(f, h) # {}
    PROVE  LoopOf(f, g) \subseteq LoopOf(f, h) \/ LoopOf(f, h) \subseteq LoopOf(f, g)
<1>1. PICK x : x \in LoopOf(f, g) /\ x \in LoopOf(f, h)
  OBVIOUS
<1>2. x \in Blocks(f) /\ Passes(f, g, x) /\ Passes(f, h, x) /\ Reaches(f, x)
  BY <1>1, LoopFacts
<1>3. Passes(f, g, h) \/ Passes(f, h, g)
  BY <1>2, PassesChain
<1> QED
  BY <1>1, <1>3, LoopInside

\* Two headers are not in the loops of each other.
LEMMA HeadersApart ==
    ASSUME NEW f, WellFormed(f), NEW g \in Blocks(f), NEW h \in Blocks(f), g # h,
           g \in LoopOf(f, h), h \in LoopOf(f, g)
    PROVE  FALSE
<1>1. Passes(f, g, h) /\ Passes(f, h, g) /\ Reaches(f, g)
  BY LoopFacts
<1> QED
  BY <1>1, PassesOnce

\* The analysis records the edges of the function.
Graphed == successors = [b \in Blocks(function) |-> EdgesFrom(function, b)]

\* What the analysis finds by paths is what the paths of the function are.
LEMMA AnalysedPaths ==
    ASSUME Inv, Reached, Graphed
    PROVE  /\ reachable = {b \in Blocks(function) : Reaches(function, b)}
           /\ \A d, b : OnEveryPath(d, b) <=> Passes(function, d, b)
           /\ \A x, b, h \in Blocks(function) : ReachesAround(x, b, h) <=> Around(function, x, b, h)
<1>1. \A b \in Blocks(function) : successors[b] = EdgesFrom(function, b)
  BY DEF Graphed
<1>2. /\ reachable \subseteq Blocks(function) /\ Closed(reachable)
      /\ \A S \in SUBSET Blocks(function) : Closed(S) => reachable \subseteq S
  BY DEF Inv, Typed, ReachInv
<1>3. \A S \in SUBSET Blocks(function) :
         Closed(S) <=> function.entry \in S /\ \A c \in S : EdgesFrom(function, c) \subseteq S
  BY <1>1 DEF Closed
<1>4. ASSUME NEW b \in reachable PROVE b \in Blocks(function) /\ Reaches(function, b)
  BY <1>2, <1>3 DEF Reaches
<1>5. ASSUME NEW b \in Blocks(function), Reaches(function, b) PROVE b \in reachable
  BY <1>2, <1>3, <1>5 DEF Reaches
<1>6. \A d : \A S \in SUBSET Blocks(function) : ClosedAvoiding(S, d) <=> Avoiding(function, S, d)
  BY <1>1 DEF ClosedAvoiding, Avoiding
<1>7. \A d, b : OnEveryPath(d, b) <=> Passes(function, d, b)
  BY <1>6 DEF OnEveryPath, Passes
<1>8. ASSUME NEW S \in SUBSET Blocks(function), NEW b, NEW h
      PROVE  (\A c \in S \ {b} : successors[c] \ {h} \subseteq S) <=>
             (\A c \in S \ {b} : EdgesFrom(function, c) \ {h} \subseteq S)
  BY <1>1
<1>9. \A x, b, h \in Blocks(function) : ReachesAround(x, b, h) <=> Around(function, x, b, h)
  BY <1>8 DEF ReachesAround, Around
<1> QED
  BY <1>4, <1>5, <1>7, <1>9

\* The loops the analysis finds are the loops of the function.
LEMMA AnalysedLoops ==
    ASSUME Inv, LoopInv, Graphed, phase = "ready"
    PROVE  /\ \A h \in Blocks(function) : natural[h].blocks = LoopOf(function, h)
           /\ Loops = Headers(function)
<1>1. Reached
  BY DEF Reached
<1>2. LoopsExact
  BY ExactLoops
<1>3. ASSUME NEW h \in Blocks(function) PROVE natural[h].blocks = LoopOf(function, h)
  <2> DEFINE latches == {b \in reachable : h \in successors[b] /\ OnEveryPath(h, b)}
  <2>1. natural[h].blocks =
           IF latches = {} THEN {}
           ELSE {h} \cup {x \in reachable \ {h} : \E b \in latches : ReachesAround(x, b, h)}
    BY <1>2 DEF LoopsExact
  <2>2. latches = Latches(function, h)
    BY <1>1, AnalysedPaths DEF Latches, Graphed
  <2>3. \A b \in Latches(function, h) : b \in Blocks(function)
    BY DEF Latches
  <2> HIDE DEF latches
  <2>4. {x \in reachable \ {h} : \E b \in latches : ReachesAround(x, b, h)} =
        {x \in Blocks(function) \ {h} : Reaches(function, x) /\
                                        \E b \in Latches(function, h) : Around(function, x, b, h)}
    BY <1>1, <2>2, <2>3, AnalysedPaths
  <2> QED
    BY <2>1, <2>2, <2>4 DEF LoopOf
<1>4. Loops = Headers(function)
  BY <1>3 DEF Loops, Headers
<1> QED
  BY <1>3, <1>4

\* The loops of the function are nested and hold the entry only as their header,
\* so every one of them is moved.
LEMMA AllMovable ==
    ASSUME Inv, LoopInv, Graphed, phase = "ready", WellFormed(function), NEW h \in Loops
    PROVE  Movable(h)
<1>1. /\ \A g \in Blocks(function) : natural[g].blocks = LoopOf(function, g)
      /\ Loops \subseteq Blocks(function)
  BY AnalysedLoops DEF Loops
<1>2. ASSUME NEW g \in Loops, natural[h].blocks \cap natural[g].blocks # {}
      PROVE  natural[g].blocks \subseteq natural[h].blocks \/ natural[h].blocks \subseteq natural[g].blocks
  BY <1>1, <1>2, LoopsNest
<1>3. ASSUME function.entry \in natural[h].blocks PROVE h = function.entry
  <2>1. Passes(function, h, function.entry)
    BY <1>1, <1>3, LoopFacts
  <2> QED
    BY <2>1 DEF Passes, Avoiding
<1> QED
  BY <1>2, <1>3 DEF Movable

-----------------------------------------------------------------------------
\* c comes before d once L, with h in front, is pulled together in the order r.
Pulled(L, h, r, c, d) ==
    \/ c \in L /\ d \in L /\ d # h /\ (c = h \/ r[c] < r[d])
    \/ c \in L /\ d \notin L /\ \E x \in L : r[x] < r[d]
    \/ c \notin L /\ d \in L /\ \A x \in L : r[c] < r[x]
    \/ c \notin L /\ d \notin L /\ r[c] < r[d]

\* This is a strict total order.
LEMMA PulledOrder ==
    ASSUME NEW B, NEW L \in SUBSET B, NEW h \in L, NEW r \in [B -> Nat],
           \A b, c \in B : r[b] = r[c] => b = c
    PROVE  /\ \A c \in B : ~Pulled(L, h, r, c, c)
           /\ \A c, d \in B : c # d => Pulled(L, h, r, c, d) \/ Pulled(L, h, r, d, c)
           /\ \A c, d, e \in B : Pulled(L, h, r, c, d) /\ Pulled(L, h, r, d, e) => Pulled(L, h, r, c, e)
<1>0. \A c \in B : r[c] \in Nat
  OBVIOUS
<1>1. ASSUME NEW c \in B PROVE ~Pulled(L, h, r, c, c)
  BY <1>0 DEF Pulled
<1>2. ASSUME NEW c \in B, NEW d \in B, c # d PROVE Pulled(L, h, r, c, d) \/ Pulled(L, h, r, d, c)
  <2>1. r[c] \in Nat /\ r[d] \in Nat /\ r[c] # r[d]
    BY <1>2
  <2>2. r[c] < r[d] \/ r[d] < r[c]
    BY <2>1
  <2>3. \A x \in L : x # c => r[x] < r[c] \/ r[c] < r[x]
    BY <1>0
  <2>4. \A x \in L : x # d => r[x] < r[d] \/ r[d] < r[x]
    BY <1>0
  <2> QED
    BY <1>2, <2>2, <2>3, <2>4 DEF Pulled
<1>3. ASSUME NEW c \in B, NEW d \in B, NEW e \in B, Pulled(L, h, r, c, d), Pulled(L, h, r, d, e)
      PROVE  Pulled(L, h, r, c, e)
  <2>1. CASE c \in L /\ d \in L /\ e \in L
    BY <1>0, <1>3, <2>1 DEF Pulled
  <2>2. CASE c \in L /\ d \in L /\ e \notin L
    BY <1>0, <1>3, <2>2 DEF Pulled
  <2>3. CASE c \in L /\ d \notin L /\ e \in L
    BY <1>0, <1>3, <2>3 DEF Pulled
  <2>4. CASE c \in L /\ d \notin L /\ e \notin L
    BY <1>0, <1>3, <2>4 DEF Pulled
  <2>5. CASE c \notin L /\ d \in L /\ e \in L
    BY <1>0, <1>3, <2>5 DEF Pulled
  <2>6. CASE c \notin L /\ d \in L /\ e \notin L
    <3>1. PICK x \in L : r[x] < r[e]
      BY <1>3, <2>6 DEF Pulled
    <3>2. r[c] < r[x]
      BY <1>3, <2>6 DEF Pulled
    <3> QED
      BY <1>0, <2>6, <3>1, <3>2 DEF Pulled
  <2>7. CASE c \notin L /\ d \notin L /\ e \in L
    <3>1. r[c] < r[d] /\ \A x \in L : r[d] < r[x]
      BY <1>3, <2>7 DEF Pulled
    <3>2. \A x \in L : r[c] < r[x]
      BY <1>0, <3>1
    <3> QED
      BY <2>7, <3>2 DEF Pulled
  <2>8. CASE c \notin L /\ d \notin L /\ e \notin L
    BY <1>0, <1>3, <2>8 DEF Pulled
  <2> QED
    BY <2>1, <2>2, <2>3, <2>4, <2>5, <2>6, <2>7, <2>8
<1> QED
  BY <1>1, <1>2, <1>3

\* layoutHotBlocks numbers the blocks in that order.
LEMMA PullsTogether ==
    ASSUME WellFormed(function), Permutes(ids, Blocks(function)), ids[0] = 0,
           NEW h, NEW L, L = natural[h].blocks, L \subseteq Blocks(function), h \in L, 0 \in L => h = 0,
           NEW q, q = PullTogether(h)
    PROVE  /\ Permutes(q, Blocks(function)) /\ q[0] = 0
           /\ \A c, d \in Blocks(function) : q[c] < q[d] <=> Pulled(L, h, ids, c, d)
<1>1. PICK n \in Nat : n = function.n /\ n > 0
  BY FormFacts
<1>2. PICK B : B = Blocks(function) /\ B = 0 .. n - 1 /\ 0 \in B
  BY <1>1 DEF Blocks
<1>3. IsFiniteSet(B) /\ Cardinality(B) = n
  <2>1. IsFiniteSet(0 .. n - 1) /\ Cardinality(0 .. n - 1) = n
    BY NumbersBelow
  <2> QED
    BY <1>2, <2>1
<1>4. /\ ids \in [B -> Nat] /\ \A b, c \in B : ids[b] = ids[c] => b = c
  <2>1. B = Blocks(function) /\ \A b \in B : b \in Nat
    BY <1>2
  <2>2. ids \in [B -> B] /\ \A b, c \in B : ids[b] = ids[c] => b = c
    BY <2>1 DEF Permutes
  <2> QED
    BY <2>1, <2>2
<1>5. L \in SUBSET B
  BY <1>2
<1> DEFINE R == {x \in B \X B : Pulled(L, h, ids, x[1], x[2])}
<1>6. \A x, y \in B : <<x, y>> \in R <=> Pulled(L, h, ids, x, y)
  OBVIOUS
<1>7. /\ \A x \in B : ~Pulled(L, h, ids, x, x)
      /\ \A x, y \in B : x # y => Pulled(L, h, ids, x, y) \/ Pulled(L, h, ids, y, x)
      /\ \A x, y, z \in B : Pulled(L, h, ids, x, y) /\ Pulled(L, h, ids, y, z) => Pulled(L, h, ids, x, z)
  BY <1>4, <1>5, PulledOrder
<1>8. \A c, d : Ahead(h, c, d) <=> Pulled(L, h, ids, c, d)
  BY DEF Ahead, Pulled
<1>9. q = [b \in B |-> Cardinality({c \in B : <<c, b>> \in R})]
  <2>1. \A b \in B : {c \in B : Ahead(h, c, b)} = {c \in B : <<c, b>> \in R}
    BY <1>6, <1>8
  <2> QED
    BY <1>2, <2>1 DEF PullTogether
<1>10. /\ \A x \in B : <<x, x>> \notin R
       /\ \A x, y, z \in B : <<x, y>> \in R /\ <<y, z>> \in R => <<x, z>> \in R
       /\ \A x, y \in B : x # y => <<x, y>> \in R \/ <<y, x>> \in R
  BY <1>6, <1>7
<1> HIDE DEF R
<1>11. /\ q \in [B -> 0 .. Cardinality(B) - 1]
       /\ \A x, y \in B : <<x, y>> \in R <=> q[x] < q[y]
       /\ \A x, y \in B : q[x] = q[y] => x = y
  BY <1>3, <1>9, <1>10, RanksNumber
<1>12. q \in [B -> B]
  BY <1>2, <1>3, <1>11
<1>13. \A k \in B : \E b \in B : q[b] = k
  <2>1. IsFiniteSet(B)
    BY <1>3
  <2>2. q \in [B -> 0 .. Cardinality(B) - 1] /\ \A x, y \in B : q[x] = q[y] => x = y
    BY <1>11
  <2>3. ASSUME NEW k \in 0 .. Cardinality(B) - 1 PROVE \E b \in B : q[b] = k
    BY <2>1, <2>2, RanksOnto
  <2> QED
    BY <1>2, <1>3, <2>3
<1>14. Permutes(q, B)
  BY <1>11, <1>12, <1>13 DEF Permutes
<1>15. q[0] = 0
  <2>1. ASSUME NEW c \in B PROVE ~Pulled(L, h, ids, c, 0)
    <3>1. \A x \in B : ids[x] \in Nat /\ ~(ids[x] < ids[0])
      BY <1>4
    <3> QED
      BY <1>5, <3>1 DEF Pulled
  <2>2. {c \in B : <<c, 0>> \in R} = {}
    BY <1>2, <1>6, <2>1
  <2> QED
    BY <1>2, <1>9, <2>2, FS_EmptySet
<1> QED
  BY <1>2, <1>6, <1>11, <1>14, <1>15

\* A loop stands in one piece in the order r, header first.
Together(f, r, h) ==
    \A c \in LoopOf(f, h) :
        /\ r[h] <= r[c]
        /\ \A d \in LoopOf(f, h), x \in Blocks(f) : r[c] < r[x] /\ r[x] < r[d] => x \in LoopOf(f, h)

\* A loop that is pulled together is, and no larger loop is torn.
LEMMA PulledTogether ==
    ASSUME NEW f, WellFormed(f), NEW r \in [Blocks(f) -> Nat], NEW q \in [Blocks(f) -> Nat],
           \A b, c \in Blocks(f) : r[b] = r[c] => b = c,
           NEW h \in Headers(f), NEW g \in Headers(f),
           \A c, d \in Blocks(f) : q[c] < q[d] <=> Pulled(LoopOf(f, h), h, r, c, d),
           g = h \/ (Together(f, r, g) /\ Cardinality(LoopOf(f, h)) <= Cardinality(LoopOf(f, g)))
    PROVE  Together(f, q, g)
<1>1. PICK B, L, G : B = Blocks(f) /\ L = LoopOf(f, h) /\ G = LoopOf(f, g)
  OBVIOUS
<1>2. L \subseteq B /\ G \subseteq B /\ h \in L /\ g \in G /\ h \in B /\ g \in B
  BY <1>1, LoopFacts DEF Headers
<1>3. /\ \A c \in B : r[c] \in Nat /\ q[c] \in Nat
      /\ \A b, c \in B : r[b] = r[c] => b = c
      /\ \A c, d \in B : q[c] < q[d] <=> Pulled(L, h, r, c, d)
  BY <1>1
<1> SUFFICES ASSUME NEW c \in G
             PROVE  /\ q[g] <= q[c]
                    /\ \A d \in G, x \in B : q[c] < q[x] /\ q[x] < q[d] => x \in G
  BY <1>1 DEF Together
<1>4. ASSUME c # g => Pulled(L, h, r, g, c) PROVE q[g] <= q[c]
  BY <1>2, <1>3, <1>4
<1>5. CASE g = h
  <2>1. G = L
    BY <1>1, <1>5
  <2>2. c # g => Pulled(L, h, r, g, c)
    BY <1>2, <1>5, <2>1 DEF Pulled
  <2>3. ASSUME NEW d \in G, NEW x \in B, Pulled(L, h, r, c, x), Pulled(L, h, r, x, d), x \notin G PROVE FALSE
    <3>1. PICK y \in L : r[y] < r[x]
      BY <2>1, <2>3 DEF Pulled
    <3>2. r[x] < r[y]
      BY <2>1, <2>3 DEF Pulled
    <3> QED
      BY <1>2, <1>3, <3>1, <3>2
  <2> QED
    BY <1>2, <1>3, <1>4, <2>2, <2>3
<1>6. CASE g # h
  <2>1. \A a \in G : r[g] <= r[a] /\ \A d \in G, x \in B : r[a] < r[x] /\ r[x] < r[d] => x \in G
    BY <1>1, <1>6 DEF Together
  <2>2. \A a \in G : a # g => r[g] < r[a]
    BY <1>2, <1>3, <2>1
  <2>3. CASE L \cap G = {}
    <3>1. c # g => Pulled(L, h, r, g, c)
      BY <1>2, <2>2, <2>3 DEF Pulled
    <3>2. ASSUME NEW d \in G, NEW x \in B, Pulled(L, h, r, c, x), Pulled(L, h, r, x, d), x \notin G PROVE FALSE
      <4>1. CASE x \in L
        <5>1. PICK y \in L : r[y] < r[d]
          BY <2>3, <3>2, <4>1 DEF Pulled
        <5>2. r[c] < r[y]
          BY <2>3, <3>2, <4>1 DEF Pulled
        <5> QED
          BY <1>2, <2>1, <2>3, <5>1, <5>2
      <4>2. CASE x \notin L
        <5>1. r[c] < r[x] /\ r[x] < r[d]
          BY <2>3, <3>2, <4>2 DEF Pulled
        <5> QED
          BY <2>1, <3>2, <5>1
      <4> QED
        BY <4>1, <4>2
    <3> QED
      BY <1>2, <1>3, <1>4, <3>1, <3>2
  <2>4. CASE L \subseteq G
    <3>1. g \notin L
      BY <1>1, <1>2, <1>6, <2>4, HeadersApart
    <3>2. c # g => Pulled(L, h, r, g, c)
      BY <1>2, <2>2, <2>4, <3>1 DEF Pulled
    <3>3. ASSUME NEW d \in G, NEW x \in B, Pulled(L, h, r, c, x), Pulled(L, h, r, x, d), x \notin G PROVE FALSE
      <4>1. x \notin L
        BY <2>4, <3>3
      <4>2. \E a \in G : r[a] < r[x]
        BY <2>4, <3>3, <4>1 DEF Pulled
      <4>3. r[x] < r[d]
        BY <1>2, <3>3, <4>1 DEF Pulled
      <4> QED
        BY <2>1, <3>3, <4>2, <4>3
    <3> QED
      BY <1>2, <1>3, <1>4, <3>2, <3>3
  <2>5. CASE G \subseteq L
    <3>1. IsFiniteSet(B)
      BY <1>1, FormFacts, FS_Interval DEF Blocks
    <3>2. IsFiniteSet(L)
      BY <1>2, <3>1, FS_Subset
    <3>3. /\ IsFiniteSet(G) /\ Cardinality(G) <= Cardinality(L)
          /\ Cardinality(L) = Cardinality(G) => L = G
      BY <2>5, <3>2, FS_Subset
    <3>4. Cardinality(L) \in Nat /\ Cardinality(G) \in Nat
      BY <3>2, <3>3, FS_CardinalityType
    <3>5. Cardinality(L) <= Cardinality(G)
      BY <1>1, <1>6
    <3>6. L = G
      BY <3>3, <3>4, <3>5
    <3> QED
      BY <2>4, <3>6
  <2>6. L \cap G = {} \/ L \subseteq G \/ G \subseteq L
    BY <1>1, <1>2, LoopsNest
  <2> QED
    BY <2>3, <2>4, <2>5, <2>6
<1> QED
  BY <1>5, <1>6

\* Renaming carries the loops along.
LEMMA RenamedNaturals ==
    ASSUME NEW f, NEW g, NEW r, WellFormed(f), Renaming(f, g, r)
    PROVE  /\ \A h \in Blocks(f) : LoopOf(g, r[h]) = {r[x] : x \in LoopOf(f, h)}
           /\ Headers(g) = {r[h] : h \in Headers(f)}
<1> DEFINE B == Blocks(f)
<1>1. /\ Blocks(g) = B /\ \A b \in B : r[b] \in B
      /\ \A b, p \in B : r[b] \in EdgesFrom(g, r[p]) <=> b \in EdgesFrom(f, p)
  BY RenamedEdges
<1>2. /\ \A b, c \in B : r[b] = r[c] => b = c
      /\ \A c \in B : \E b \in B : r[b] = c
  BY DEF Renaming, Permutes
<1>3. /\ \A b \in B : Reaches(g, r[b]) <=> Reaches(f, b)
      /\ \A d, b \in B : Passes(g, r[d], r[b]) <=> Passes(f, d, b)
      /\ \A x, b, h \in B : Around(g, r[x], r[b], r[h]) <=> Around(f, x, b, h)
  BY RenamedPaths
<1>4. ASSUME NEW h \in B PROVE LoopOf(g, r[h]) = {r[x] : x \in LoopOf(f, h)}
  <2>1. \A b \in B : r[b] \in Latches(g, r[h]) <=> b \in Latches(f, h)
    BY <1>1, <1>3 DEF Latches
  <2>2. Latches(f, h) \subseteq B /\ Latches(g, r[h]) \subseteq B
    BY <1>1 DEF Latches
  <2>3. Latches(g, r[h]) = {} <=> Latches(f, h) = {}
    <3>1. ASSUME NEW b \in Latches(f, h) PROVE Latches(g, r[h]) # {}
      BY <2>1, <2>2
    <3>2. ASSUME NEW c \in Latches(g, r[h]) PROVE Latches(f, h) # {}
      <4>1. PICK b \in B : r[b] = c
        BY <1>2, <2>2
      <4> QED
        BY <2>1, <3>2, <4>1
    <3> QED
      BY <3>1, <3>2
  <2>4. CASE Latches(f, h) = {}
    BY <2>3, <2>4 DEF LoopOf
  <2>5. CASE Latches(f, h) # {}
    <3>1. ASSUME NEW x \in B, NEW b \in Latches(f, h), Around(f, x, b, h)
          PROVE  \E c \in Latches(g, r[h]) : Around(g, r[x], c, r[h])
      BY <1>3, <2>1, <2>2, <3>1
    <3>2. ASSUME NEW x \in B, NEW c \in Latches(g, r[h]), Around(g, r[x], c, r[h])
          PROVE  \E b \in Latches(f, h) : Around(f, x, b, h)
      <4>1. PICK b \in B : r[b] = c
        BY <1>2, <2>2
      <4> QED
        BY <1>3, <2>1, <3>2, <4>1
    <3>3. \A x \in B : r[x] \in LoopOf(g, r[h]) <=> x \in LoopOf(f, h)
      <4>1. \A x \in B : x \in LoopOf(f, h) <=>
               x = h \/ (Reaches(f, x) /\ \E b \in Latches(f, h) : Around(f, x, b, h))
        BY <2>5 DEF LoopOf
      <4>2. \A x \in B : x \in LoopOf(g, r[h]) <=>
               x = r[h] \/ (Reaches(g, x) /\ \E b \in Latches(g, r[h]) : Around(g, x, b, r[h]))
        BY <1>1, <2>3, <2>5 DEF LoopOf
      <4> QED
        BY <1>1, <1>2, <1>3, <3>1, <3>2, <4>1, <4>2
    <3>4. LoopOf(f, h) \subseteq B /\ LoopOf(g, r[h]) \subseteq B
      BY <1>1 DEF LoopOf
    <3> QED
      BY <1>2, <3>3, <3>4
  <2> QED
    BY <2>4, <2>5
<1>5. \A h \in B : r[h] \in Headers(g) <=> h \in Headers(f)
  BY <1>1, <1>4 DEF Headers
<1>6. Headers(f) \subseteq B /\ Headers(g) \subseteq B
  BY <1>1 DEF Headers
<1>7. Headers(g) = {r[h] : h \in Headers(f)}
  BY <1>2, <1>5, <1>6
<1> QED
  BY <1>4, <1>7

\* Renaming a set of blocks keeps its size.
LEMMA RenamedSize ==
    ASSUME NEW f, WellFormed(f), NEW r, Permutes(r, Blocks(f)), NEW S \in SUBSET Blocks(f)
    PROVE  IsFiniteSet(S) /\ Cardinality({r[x] : x \in S}) = Cardinality(S)
<1>1. IsFiniteSet(S)
  <2>1. IsFiniteSet(Blocks(f))
    BY FormFacts, FS_Interval DEF Blocks
  <2> QED
    BY <2>1, FS_Subset
<1> DEFINE T == {r[x] : x \in S}
           m == [x \in S |-> r[x]]
<1>2. m \in [S -> T] /\ (\A x, y \in S : m[x] = m[y] => x = y) /\ (\A t \in T : \E x \in S : m[x] = t)
  BY DEF Permutes
<1> HIDE DEF T, m
<1>3. m \in Bijection(S, T)
  BY <1>2, Fun_IsBij
<1>4. Cardinality(S) = Cardinality(T)
  BY <1>1, <1>3, FS_Bijection DEF ExistsBijection
<1> QED
  BY <1>1, <1>4 DEF T

\* A set of blocks without a gap is an interval.
LEMMA ConvexInterval ==
    ASSUME NEW S, NEW top \in Nat, S \subseteq 0 .. top, NEW m \in S, \A x \in S : m <= x,
           \A x, z \in S, y \in Nat : x < y /\ y < z => y \in S
    PROVE  S = m .. m + Cardinality(S) - 1
<1>1. PICK k \in S : \A x \in S : x <= k
  <2> DEFINE r == [x \in S |-> x]
  <2>1. S # {} /\ \A x \in S : r[x] = x /\ r[x] \in 0 .. top
    OBVIOUS
  <2> HIDE DEF r
  <2>2. \E x \in S : \A y \in S : r[y] <= r[x]
    BY <2>1, ExtremeRanks
  <2> QED
    BY <2>1, <2>2
<1>2. m \in Nat /\ k \in Nat /\ m <= k
  OBVIOUS
<1>3. ASSUME NEW y \in m .. k PROVE y \in S
  <2>1. y \in Nat /\ m <= y /\ y <= k
    BY <1>2
  <2>2. CASE y = m \/ y = k
    BY <1>1, <2>2
  <2>3. CASE ~(y = m \/ y = k)
    <3>1. m < y /\ y < k
      BY <1>2, <2>1, <2>3
    <3> QED
      BY <2>1, <3>1
  <2> QED
    BY <2>2, <2>3
<1>4. S = m .. k
  <2>1. ASSUME NEW y \in S PROVE y \in m .. k
    BY <1>1, <1>2
  <2> QED
    BY <1>3, <2>1
<1>5. Cardinality(m .. k) = k - m + 1
  BY <1>2, FS_Interval
<1>6. m + (k - m + 1) - 1 = k
  BY <1>2
<1> QED
  BY <1>4, <1>5, <1>6

\* Every loop is an interval that starts with its header.
Contiguous(f) ==
    Cardinality(Headers(f)) <= MaxLoops =>
        \A h \in Headers(f) : LoopOf(f, h) = h .. h + Cardinality(LoopOf(f, h)) - 1

\* Loops that stand together are intervals once the blocks are renamed.
LEMMA LaidOutTogether ==
    ASSUME NEW f, NEW g, NEW r, WellFormed(f), Renaming(f, g, r),
           Cardinality(Headers(f)) <= MaxLoops => \A h \in Headers(f) : Together(f, r, h)
    PROVE  Contiguous(g)
<1>1. /\ \A h \in Blocks(f) : LoopOf(g, r[h]) = {r[x] : x \in LoopOf(f, h)}
      /\ Headers(g) = {r[h] : h \in Headers(f)}
  BY RenamedNaturals
<1>2. /\ r \in [Blocks(f) -> Blocks(f)] /\ \A b, c \in Blocks(f) : r[b] = r[c] => b = c
      /\ \A c \in Blocks(f) : \E b \in Blocks(f) : r[b] = c
      /\ Permutes(r, Blocks(f))
  BY DEF Renaming, Permutes
<1>3. PICK n \in Nat : n = f.n /\ n > 0 /\ Blocks(f) = 0 .. n - 1
  BY FormFacts DEF Blocks
<1>4. Headers(f) \subseteq Blocks(f)
  BY DEF Headers
<1>5. Cardinality(Headers(g)) = Cardinality(Headers(f))
  <2>1. PICK H \in SUBSET Blocks(f) : H = Headers(f)
    BY <1>4
  <2>2. Permutes(r, Blocks(f))
    BY <1>2
  <2>3. Cardinality({r[x] : x \in H}) = Cardinality(H)
    BY <2>2, RenamedSize
  <2> QED
    BY <1>1, <2>1, <2>3
<1> SUFFICES ASSUME Cardinality(Headers(f)) <= MaxLoops, NEW k \in Headers(g)
             PROVE  LoopOf(g, k) = k .. k + Cardinality(LoopOf(g, k)) - 1
  BY <1>5 DEF Contiguous
<1>6. PICK h \in Headers(f) : k = r[h]
  BY <1>1
<1>7. PICK S, L : S = LoopOf(g, k) /\ L = LoopOf(f, h)
  OBVIOUS
<1>8. h \in Blocks(f) /\ h \in L /\ L \subseteq Blocks(f)
  BY <1>4, <1>7, LoopFacts DEF Headers
<1>9. S = {r[x] : x \in L}
  BY <1>1, <1>6, <1>7, <1>8
<1>10. PICK top \in Nat : top = n - 1 /\ Blocks(f) = 0 .. top
  <2>1. n - 1 \in Nat
    BY <1>3
  <2> QED
    BY <1>3, <2>1
<1>11. S \subseteq 0 .. top /\ k \in S
  BY <1>2, <1>6, <1>8, <1>9, <1>10
<1>12. /\ \A c \in L : r[h] <= r[c]
       /\ \A c, d \in L, x \in Blocks(f) : r[c] < r[x] /\ r[x] < r[d] => x \in L
  BY <1>7 DEF Together
<1>13. \A y \in S : k <= y
  BY <1>6, <1>9, <1>12
<1>14. ASSUME NEW x \in S, NEW z \in S, NEW y \in Nat, x < y, y < z PROVE y \in S
  <2>1. PICK c \in L : x = r[c]
    BY <1>9
  <2>2. PICK d \in L : z = r[d]
    BY <1>9
  <2>3. x \in 0 .. top /\ z \in 0 .. top
    BY <1>11
  <2>4. y \in 0 .. top
    BY <1>14, <2>3
  <2>5. PICK w \in Blocks(f) : r[w] = y
    BY <1>2, <1>10, <2>4
  <2>6. w \in L
    BY <1>12, <1>14, <2>1, <2>2, <2>5
  <2> QED
    BY <1>9, <2>5, <2>6
<1>15. S = k .. k + Cardinality(S) - 1
  BY <1>11, <1>13, <1>14, ConvexInterval
<1> QED
  BY <1>7, <1>15

-----------------------------------------------------------------------------
\* How far layoutHotBlocks is: the loops it has been through stand together,
\* and none of the others is larger.
LayoutInv ==
    /\ Permutes(ids, Blocks(function)) /\ ids[0] = 0
    /\ placed \subseteq Headers(function)
    /\ \A h \in placed : Together(function, ids, h)
    /\ \A h \in placed, g \in Headers(function) \ placed :
          Cardinality(LoopOf(function, g)) <= Cardinality(LoopOf(function, h))

\* What the verifier would still find after exposeHardwareLoops.
Sound(f) == WellFormed(f) /\ Exposed(f) /\ OneEach(f) /\ Paired(f)

TransformInv ==
    /\ Inv /\ TreeInv /\ LoopInv
    /\ stage \in {"expose", "split", "layout", "final", "rejected"}
    /\ phase \notin {"begin", "rejected"} => Graphed
    /\ IF stage = "expose" THEN Verified(function) ELSE Sound(function)
    /\ stage = "split" => source = function /\ origin = [b \in Blocks(function) |-> <<b>>]
    /\ FlowKept /\ PhiEdgesPrivate
    /\ LayoutInv
    /\ stage = "final" => Contiguous(function)

\* A function is its own flow.
LEMMA FlowOfSelf ==
    ASSUME NEW f, WellFormed(f), NEW o, o = [b \in Blocks(f) |-> <<b>>]
    PROVE  SameFlow(f, o, f)
<1>1. f.entry = 0 /\ 0 \in Blocks(f)
  BY FormFacts
<1>2. \A b \in Blocks(f) : o[b] = <<b>> /\ Len(o[b]) = 1 /\ o[b][1] = b
  OBVIOUS
<1>3. ASSUME NEW b \in Blocks(f) PROVE SameBlock(f, o, f, b)
  <2>1. ASSUME NEW k \in DOMAIN f.blocks[b], NEW i, i = f.blocks[b][k]
        PROVE  SameInstruction(o, i, i, b)
    <3>1. WellPlaced(f, b, k)
      BY <2>1 DEF WellFormed
    <3>2. i.loop_target # Invalid => i.loop_target \in Blocks(f)
      BY <2>1, <3>1 DEF WellPlaced
    <3>3. \A e \in DOMAIN i.targets : i.targets[e] \in Blocks(f)
      BY <2>1, FormFacts
    <3>4. Landing(o, i.loop_target) = i.loop_target
      BY <1>2, <3>2 DEF Landing
    <3>5. Invalid \notin Blocks(f)
      BY FormFacts DEF Blocks, Invalid
    <3>6. \A e \in DOMAIN i.targets : Landing(o, i.targets[e]) = i.targets[e]
      BY <1>2, <3>3, <3>5 DEF Landing
    <3>7. \A e \in DOMAIN i.targets : o[i.targets[e]] = <<i.targets[e]>>
      BY <1>2, <3>3
    <3> QED
      BY <3>4, <3>6, <3>7 DEF SameInstruction
  <2> QED
    BY <1>2, <2>1 DEF SameBlock
<1>4. /\ \A b, c \in Blocks(f) : o[b] = o[c] => b = c
      /\ \A b \in Blocks(f) : \E c \in Blocks(f) : o[c] = <<b>>
  BY <1>2
<1> QED
  BY <1>1, <1>2, <1>3, <1>4 DEF SameFlow

\* A fresh analysis starts with its blocks in order.
LEMMA RestartStep ==
    ASSUME NEW f, WellFormed(f), Restart(f)
    PROVE  /\ Inv' /\ TreeInv' /\ LoopInv' /\ LayoutInv'
           /\ function' = f /\ phase' = "begin"
<1>1. function' = f /\ phase' = "begin"
  BY DEF Restart
<1>2. Analysable'
  BY <1>1, FormFacts DEF Analysable
<1>3. Fresh'
  BY DEF Restart, Fresh
<1>4. Inv'
  BY <1>2, <1>3, FreshInv, PTL
<1>5. TreeInv' /\ LoopInv'
  BY <1>3, FreshStructure, PTL
<1>6. LayoutInv'
  <2>1. ids' = [b \in Blocks(f) |-> b] /\ placed' = {}
    BY DEF Restart
  <2>2. Permutes(ids, Blocks(function))'
    BY <1>1, <2>1 DEF Permutes
  <2>3. ids'[0] = 0
    BY <2>1, FormFacts
  <2> QED
    BY <2>1, <2>2, <2>3 DEF LayoutInv
<1> QED
  BY <1>1, <1>4, <1>5, <1>6

\* The constructor of the first analysis has not run.
LEMMA TransformInitInv == TransformInit => TransformInv
<1> SUFFICES ASSUME TransformInit PROVE TransformInv
  OBVIOUS
<1>1. /\ Init /\ stage = "expose" /\ source = function /\ placed = {}
      /\ origin = [b \in Blocks(function) |-> <<b>>] /\ ids = [b \in Blocks(function) |-> b]
  BY DEF TransformInit
<1>2. Verified(function)
  BY <1>1, VerifiedAssumption DEF Init
<1>3. WellFormed(function)
  BY <1>2 DEF Verified
<1>4. Inv
  BY <1>1, InitInv
<1>5. Fresh /\ phase = "begin"
  BY <1>1 DEF Init, Fresh
<1>6. TreeInv /\ LoopInv
  BY <1>5, FreshStructure
<1>7. FlowKept
  BY <1>1, <1>3, FlowOfSelf DEF FlowKept
<1>8. LayoutInv
  <2>1. Permutes(ids, Blocks(function))
    BY <1>1 DEF Permutes
  <2>2. ids[0] = 0
    BY <1>1, <1>3, FormFacts
  <2> QED
    BY <1>1, <2>1, <2>2 DEF LayoutInv
<1>9. PhiEdgesPrivate
  BY <1>1 DEF PhiEdgesPrivate
<1> QED
  BY <1>1, <1>2, <1>4, <1>5, <1>6, <1>7, <1>8, <1>9 DEF TransformInv

\* What is said of the function stays true while it stays the same.
LEMMA FunctionKept ==
    ASSUME TransformInv, function' = function, source' = source, origin' = origin,
           ids' = ids, placed' = placed,
           stage' = stage \/ (stage' = "rejected" /\ stage # "expose")
    PROVE  /\ stage' \in {"expose", "split", "layout", "final", "rejected"}
           /\ IF stage' = "expose" THEN Verified(function') ELSE Sound(function')
           /\ stage' = "split" => source' = function' /\ origin' = [b \in Blocks(function') |-> <<b>>]
           /\ FlowKept' /\ PhiEdgesPrivate' /\ LayoutInv'
           /\ stage' = "final" => Contiguous(function')
<1>1. FlowKept'
  BY DEF TransformInv, FlowKept
<1>2. PhiEdgesPrivate'
  BY DEF TransformInv, PhiEdgesPrivate
<1>3. LayoutInv'
  BY DEF TransformInv, LayoutInv
<1>4. /\ stage' \in {"expose", "split", "layout", "final", "rejected"}
      /\ IF stage' = "expose" THEN Verified(function') ELSE Sound(function')
      /\ stage' = "split" => source' = function' /\ origin' = [b \in Blocks(function') |-> <<b>>]
      /\ stage' = "final" => Contiguous(function')
  BY DEF TransformInv
<1> QED
  BY <1>1, <1>2, <1>3, <1>4

\* A step of the analysis records the edges of the function or keeps them.
LEMMA GraphStep ==
    ASSUME Next, phase \notin {"begin", "rejected"} => Graphed
    PROVE  /\ function' = function
           /\ phase' \notin {"begin", "rejected"} => Graphed'
<1> USE DEF graphVars, treeVars, loopVars, liveVars, roundVars
<1>1. CASE Begin
  <2>1. function' = function
    BY <1>1 DEF Begin
  <2>2. phase' # "rejected" => successors' = [b \in Blocks(function) |-> EdgesFrom(function, b)]
    BY <1>1 DEF Begin
  <2> QED
    BY <2>1, <2>2 DEF Graphed
<1>2. ASSUME ~Begin
      PROVE  function' = function /\ successors' = successors /\ phase \notin {"begin", "rejected"}
  <2>1. CASE Visit
    BY <2>1 DEF Visit
  <2>2. CASE StartDominators
    BY <2>2 DEF StartDominators
  <2>3. CASE DominatorRound
    BY <2>3 DEF DominatorRound
  <2>4. CASE DominatorBlock
    BY <2>4 DEF DominatorBlock
  <2>5. CASE BuildTree
    BY <2>5 DEF BuildTree
  <2>6. CASE BuildFrontier
    BY <2>6 DEF BuildFrontier
  <2>7. CASE OpenLoop
    BY <2>7 DEF OpenLoop
  <2>8. CASE GrowLoop
    BY <2>8 DEF GrowLoop
  <2>9. CASE StartLiveness
    BY <2>9 DEF StartLiveness
  <2>10. CASE LivenessRound
    BY <2>10 DEF LivenessRound
  <2>11. CASE LivenessBlock
    BY <2>11 DEF LivenessBlock
  <2>12. CASE Finish
    BY <2>12 DEF Finish
  <2> QED
    BY <1>2, <2>1, <2>2, <2>3, <2>4, <2>5, <2>6, <2>7, <2>8, <2>9, <2>10, <2>11, <2>12 DEF Next
<1>3. CASE ~Begin
  BY <1>2, <1>3 DEF Graphed
<1> QED
  BY <1>1, <1>3

\* The analysis between the rewrites changes none of them.
LEMMA AnalyseStep ==
    ASSUME TransformInv, Analyse
    PROVE  TransformInv'
<1>1. Next /\ UNCHANGED <<stage, source, origin, ids, placed>>
  BY DEF Analyse
<1>2. Inv' /\ TreeInv' /\ LoopInv'
  BY <1>1, TypedStep, ReachStep, DomStep, LiveStep, TreeStep, LoopStep DEF TransformInv, Inv
<1>3. function' = function /\ (phase' \notin {"begin", "rejected"} => Graphed')
  BY <1>1, GraphStep DEF TransformInv
<1>4. /\ stage' \in {"expose", "split", "layout", "final", "rejected"}
      /\ IF stage' = "expose" THEN Verified(function') ELSE Sound(function')
      /\ stage' = "split" => source' = function' /\ origin' = [b \in Blocks(function') |-> <<b>>]
      /\ FlowKept' /\ PhiEdgesPrivate' /\ LayoutInv'
      /\ stage' = "final" => Contiguous(function')
  BY <1>1, <1>3, FunctionKept
<1> QED
  BY <1>2, <1>3, <1>4 DEF TransformInv

\* So does a step of something else, or a rejection.
LEMMA RejectStep ==
    ASSUME TransformInv, UNCHANGED <<vars, source, origin, ids, placed>>,
           stage' = stage \/ (stage' = "rejected" /\ stage # "expose")
    PROVE  TransformInv'
<1>1. UNCHANGED vars /\ source' = source /\ origin' = origin /\ ids' = ids /\ placed' = placed
  OBVIOUS
<1>2. function' = function /\ phase' = phase /\ successors' = successors
  BY <1>1 DEF vars, graphVars
<1>3. Inv' /\ TreeInv' /\ LoopInv'
  BY <1>1, InvKept, StructureKept DEF TransformInv
<1>4. phase' \notin {"begin", "rejected"} => Graphed'
  BY <1>2 DEF TransformInv, Graphed
<1>5. /\ stage' \in {"expose", "split", "layout", "final", "rejected"}
      /\ IF stage' = "expose" THEN Verified(function') ELSE Sound(function')
      /\ stage' = "split" => source' = function' /\ origin' = [b \in Blocks(function') |-> <<b>>]
      /\ FlowKept' /\ PhiEdgesPrivate' /\ LayoutInv'
      /\ stage' = "final" => Contiguous(function')
  BY <1>1, <1>2, FunctionKept
<1> QED
  BY <1>3, <1>4, <1>5 DEF TransformInv

\* Every block is cut, every loop found.
LEMMA ExposeStep ==
    ASSUME TransformInv, exposeHardwareLoops
    PROVE  TransformInv'
<1>1. PICK g : g = ExposeHardwareLoops(function)
  OBVIOUS
<1>2. /\ stage = "expose" /\ Restart(g) /\ source' = g
      /\ origin' = [b \in Blocks(g) |-> <<b>>] /\ stage' \in {"split", "rejected"}
  BY <1>1 DEF exposeHardwareLoops
<1>3. Verified(function)
  BY <1>2 DEF TransformInv
<1>4. Sound(g)
  BY <1>1, <1>3, ExposeVerified DEF Sound
<1>5. WellFormed(g)
  BY <1>4 DEF Sound
<1>6. /\ Inv' /\ TreeInv' /\ LoopInv' /\ LayoutInv'
      /\ function' = g /\ phase' = "begin"
  BY <1>2, <1>5, RestartStep
<1>7. FlowKept'
  <2>1. SameFlow(g, origin', g)
    BY <1>2, <1>5, FlowOfSelf
  <2> QED
    BY <1>2, <1>6, <2>1 DEF FlowKept
<1>8. PhiEdgesPrivate'
  BY <1>2 DEF PhiEdgesPrivate
<1> QED
  BY <1>2, <1>4, <1>6, <1>7, <1>8 DEF TransformInv

\* Every edge into PHIs becomes private.
LEMMA SplitStep ==
    ASSUME TransformInv, splitPhiEdges
    PROVE  TransformInv'
<1>1. stage = "split" /\ phase = "ready" /\ source' = source
  BY DEF splitPhiEdges
<1>2. CASE function.n + Cardinality(SplitEdges) > MaxBlocks
  <2>1. stage' = "rejected" /\ UNCHANGED <<vars, origin, ids, placed>>
    BY <1>2 DEF splitPhiEdges
  <2> QED
    BY <1>1, <2>1, RejectStep
<1>3. CASE ~(function.n + Cardinality(SplitEdges) > MaxBlocks)
  <2>1. PICK f, g, E : f = function /\ g = SplitPhiEdges /\ E = SplitEdges
    OBVIOUS
  <2>2. /\ Restart(SplitPhiEdges) /\ stage' = "layout"
        /\ origin' = [b \in 0 .. function.n + Cardinality(SplitEdges) - 1 |->
                        IF b < function.n THEN <<b>> ELSE EdgeAt(b)]
    BY <1>3 DEF splitPhiEdges
  <2>3. /\ WellFormed(f) /\ Exposed(f) /\ OneEach(f) /\ Paired(f) /\ Graphed
    BY <1>1, <2>1 DEF TransformInv, Sound
  <2>4. Splittable
    BY <2>1, <2>3 DEF Splittable, Graphed
  <2>5. PICK x : x = [e \in E |-> EdgeBlock(e)]
    OBVIOUS
  <2>6. Splitting(f, g, E, x)
    BY <2>1, <2>4, <2>5, SplitsFunction
  <2>7. WellFormed(g) /\ Exposed(g)
    BY <2>3, <2>6, SplitForm
  <2>8. OneEach(g)
    BY <2>3, <2>6, SplitOneEach
  <2>9. Paired(g)
    BY <2>3, <2>6, SplitPaired
  <2>10. PrivatePhis(g)
    BY <2>3, <2>6, <2>7, SplitPhis
  <2>11. /\ Inv' /\ TreeInv' /\ LoopInv' /\ LayoutInv'
         /\ function' = g /\ phase' = "begin"
    <3>1. Restart(g)
      BY <2>1, <2>2
    <3> QED
      BY <2>7, <3>1, RestartStep
  <2>12. source' = f
    BY <1>1, <2>1 DEF TransformInv
  <2>13. FlowKept'
    <3>1. PICK q : q = origin'
      OBVIOUS
    <3>2. function.n \in Nat /\ Cardinality(SplitEdges) \in Nat
      BY <2>1, <2>3, <2>4, FormFacts, SplitEdgeFacts
    <3>3. Blocks(g) = 0 .. function.n + Cardinality(SplitEdges) - 1
      <4>1. SplitPhiEdges.n = function.n + Cardinality(SplitEdges)
        BY DEF SplitPhiEdges
      <4>2. g.n = function.n + Cardinality(SplitEdges)
        BY <2>1, <4>1
      <4> QED
        BY <3>2, <4>2 DEF Blocks
    <3>4. DOMAIN q = Blocks(g)
      BY <2>2, <3>1, <3>3
    <3>5. \A b \in Blocks(f) : q[b] = <<b>>
      <4>1. \A b \in Blocks(function) : b \in 0 .. function.n + Cardinality(SplitEdges) - 1 /\ b < function.n
        BY <3>2 DEF Blocks
      <4> QED
        BY <2>1, <2>2, <3>1, <4>1
    <3>6. ASSUME NEW e \in E PROVE q[x[e]] = e
      <4>1. PICK k : k = EdgeBlock(e)
        OBVIOUS
      <4>2. k \in Nat /\ k >= function.n /\ k < function.n + Cardinality(SplitEdges)
        BY <2>1, <2>4, <4>1, SplitNumbers
      <4>3. EdgeAt(k) = e
        BY <2>1, <2>4, <4>1, SplitNumbers
      <4>4. k \in 0 .. function.n + Cardinality(SplitEdges) - 1 /\ ~(k < function.n)
        BY <3>2, <4>2
      <4>5. q[k] = EdgeAt(k)
        BY <2>2, <3>1, <4>4
      <4> QED
        BY <2>5, <4>1, <4>3, <4>5
    <3>7. SameFlow(g, q, f)
      BY <2>3, <2>6, <3>4, <3>5, <3>6, SplitFlow
    <3> QED
      BY <2>11, <2>12, <3>1, <3>7 DEF FlowKept
  <2>14. PhiEdgesPrivate'
    BY <2>10, <2>11 DEF PhiEdgesPrivate
  <2> QED
    BY <2>2, <2>7, <2>8, <2>9, <2>11, <2>13, <2>14 DEF TransformInv, Sound
<1> QED
  BY <1>2, <1>3

\* The next loop is pulled together and those before it stay together.
LEMMA PlaceStep ==
    ASSUME TransformInv, placeLoop
    PROVE  TransformInv'
<1>1. stage = "layout" /\ phase = "ready" /\ UNCHANGED <<vars, stage, source, origin>>
  BY DEF placeLoop
<1>2. PICK h \in Loops \ placed :
         /\ \A g \in Loops \ placed : g = h \/ LoopBefore(h, g)
         /\ placed' = placed \cup {h}
         /\ ids' = IF Movable(h) THEN PullTogether(h) ELSE ids
  BY DEF placeLoop
<1>3. WellFormed(function) /\ Graphed /\ Inv /\ LoopInv /\ LayoutInv
  BY <1>1 DEF TransformInv, Sound
<1>4. /\ \A b \in Blocks(function) : natural[b].blocks = LoopOf(function, b)
      /\ Loops = Headers(function)
  BY <1>1, <1>3, AnalysedLoops
<1>5. Movable(h)
  BY <1>1, <1>2, <1>3, AllMovable
<1>6. PICK B, L, q, r : B = Blocks(function) /\ L = LoopOf(function, h) /\ q = PullTogether(h) /\ r = ids
  OBVIOUS
<1>7. h \in B /\ L = natural[h].blocks /\ h \in L /\ L \subseteq B /\ h \in Headers(function)
  BY <1>2, <1>3, <1>4, <1>6, LoopFacts DEF Headers
<1>8. 0 \in L => h = 0
  BY <1>3, <1>5, <1>7, FormFacts DEF Movable
<1>9. Permutes(r, B) /\ r[0] = 0
  BY <1>3, <1>6 DEF LayoutInv
<1>10. /\ Permutes(q, B) /\ q[0] = 0
       /\ \A c, d \in B : q[c] < q[d] <=> Pulled(L, h, r, c, d)
  BY <1>3, <1>6, <1>7, <1>8, <1>9, PullsTogether
<1>11. B \subseteq Nat
  BY <1>3, <1>6, FormFacts
<1>12. r \in [B -> Nat] /\ q \in [B -> Nat] /\ \A b, c \in B : r[b] = r[c] => b = c
  BY <1>9, <1>10, <1>11 DEF Permutes
<1>13. ASSUME NEW g \in Headers(function), g = h \/ g \in placed
       PROVE  Together(function, q, g)
  <2>1. g = h \/ (Together(function, r, g) /\ Cardinality(LoopOf(function, h)) <= Cardinality(LoopOf(function, g)))
    BY <1>2, <1>3, <1>4, <1>6, <1>13 DEF LayoutInv
  <2>2. \A c, d \in Blocks(function) : q[c] < q[d] <=> Pulled(LoopOf(function, h), h, r, c, d)
    BY <1>6, <1>10
  <2>3. r \in [Blocks(function) -> Nat] /\ q \in [Blocks(function) -> Nat]
    BY <1>6, <1>12
  <2>4. \A b, c \in Blocks(function) : r[b] = r[c] => b = c
    BY <1>6, <1>12
  <2> QED
    BY <1>3, <1>7, <2>1, <2>2, <2>3, <2>4, PulledTogether
<1>14. ASSUME NEW g \in Headers(function) \ placed PROVE Cardinality(LoopOf(function, g)) <= Cardinality(L)
  <2>1. CASE g = h
    <3>1. IsFiniteSet(L)
      <4>1. L \in SUBSET Blocks(function)
        BY <1>6, <1>7
      <4> QED
        BY <1>3, <1>6, <1>9, <4>1, RenamedSize
    <3>2. Cardinality(L) \in Nat
      BY <3>1, FS_CardinalityType
    <3> QED
      BY <1>6, <2>1, <3>2
  <2>2. CASE g # h
    <3>1. LoopBefore(h, g) /\ g \in B
      BY <1>2, <1>4, <1>6, <2>2 DEF Headers
    <3>2. natural[g].blocks = LoopOf(function, g)
      BY <1>4, <1>6, <3>1
    <3>3. PICK G : G = LoopOf(function, g)
      OBVIOUS
    <3>4. Cardinality(L) > Cardinality(G) \/ Cardinality(L) = Cardinality(G)
      BY <1>7, <3>1, <3>2, <3>3 DEF LoopBefore
    <3>5. G \in SUBSET Blocks(function) /\ L \in SUBSET Blocks(function)
      BY <1>3, <1>6, <1>7, <3>1, <3>3, LoopFacts
    <3>6. IsFiniteSet(G) /\ IsFiniteSet(L)
      BY <1>3, <1>6, <1>9, <3>5, RenamedSize
    <3>7. Cardinality(L) \in Nat /\ Cardinality(G) \in Nat
      BY <3>6, FS_CardinalityType
    <3> QED
      BY <3>3, <3>4, <3>7
  <2> QED
    BY <2>1, <2>2
<1>15. function' = function /\ phase' = phase /\ successors' = successors
  BY <1>1 DEF vars, graphVars
<1>16. ids' = q /\ placed' = placed \cup {h}
  BY <1>2, <1>5, <1>6
<1>17. LayoutInv'
  <2>1. placed' \subseteq Headers(function)
    BY <1>3, <1>7, <1>16 DEF LayoutInv
  <2>2. \A g \in placed' : Together(function, q, g)
    BY <1>13, <1>16, <2>1
  <2>3. \A k \in placed', g \in Headers(function) \ placed' :
           Cardinality(LoopOf(function, g)) <= Cardinality(LoopOf(function, k))
    BY <1>3, <1>6, <1>14, <1>16 DEF LayoutInv
  <2>4. Permutes(q, Blocks(function)) /\ q[0] = 0
    BY <1>6, <1>10
  <2> QED
    BY <1>15, <1>16, <2>1, <2>2, <2>3, <2>4 DEF LayoutInv
<1>18. Inv' /\ TreeInv' /\ LoopInv'
  BY <1>1, InvKept, StructureKept DEF TransformInv
<1>19. Graphed'
  BY <1>3, <1>15 DEF Graphed
<1>20. FlowKept' /\ PhiEdgesPrivate'
  BY <1>1, <1>15 DEF TransformInv, FlowKept, PhiEdgesPrivate
<1>21. Sound(function') /\ stage' = "layout"
  BY <1>1, <1>15 DEF TransformInv
<1> QED
  BY <1>17, <1>18, <1>19, <1>20, <1>21 DEF TransformInv

\* The blocks move to their places, and every reference to them follows.
LEMMA LayoutStep ==
    ASSUME TransformInv, layoutHotBlocks
    PROVE  TransformInv'
<1>1. /\ stage = "layout" /\ phase = "ready" /\ (Cardinality(Loops) > MaxLoops \/ placed = Loops)
      /\ Restart(LaidOut) /\ origin' = [k \in Blocks(function) |-> origin[order(k)]]
      /\ stage' = "final" /\ source' = source
  BY DEF layoutHotBlocks
<1>2. PICK f, g, r, o, q : f = function /\ g = LaidOut /\ r = ids /\ o = origin /\ q = origin'
  OBVIOUS
<1>3. WellFormed(f) /\ Exposed(f) /\ OneEach(f) /\ Paired(f) /\ Graphed /\ Inv /\ LoopInv /\ LayoutInv
  BY <1>1, <1>2 DEF TransformInv, Sound
<1>4. Permutes(r, Blocks(f)) /\ r[0] = 0
  BY <1>2, <1>3 DEF LayoutInv
<1>5. Renaming(f, g, r)
  BY <1>2, <1>3, <1>4, LaidOutRenames
<1>6. WellFormed(g)
  BY <1>3, <1>4, <1>5, RenamedForm
<1>7. OneEach(g) /\ Exposed(g) /\ Paired(g)
  BY <1>3, <1>5, RenamedLoops
<1>8. PrivatePhis(f) /\ SameFlow(f, o, source)
  BY <1>1, <1>2 DEF TransformInv, PhiEdgesPrivate, FlowKept
<1>9. PrivatePhis(g)
  BY <1>3, <1>5, <1>8, RenamedPhis
<1>10. DOMAIN q = Blocks(f) /\ \A b \in Blocks(f) : q[r[b]] = o[b]
  <2>1. DOMAIN q = Blocks(f)
    BY <1>1, <1>2
  <2>2. ASSUME NEW b \in Blocks(f) PROVE order(r[b]) = b /\ r[b] \in Blocks(f)
    <3>1. r[b] \in Blocks(f) /\ \A c \in Blocks(f) : r[c] = r[b] => c = b
      BY <1>4 DEF Permutes
    <3> QED
      BY <1>2, <3>1 DEF order
  <2> QED
    BY <1>1, <1>2, <2>1, <2>2
<1>11. SameFlow(g, q, source)
  BY <1>3, <1>4, <1>5, <1>8, <1>10, RenamedFlow
<1>12. /\ Inv' /\ TreeInv' /\ LoopInv' /\ LayoutInv'
       /\ function' = g /\ phase' = "begin"
  BY <1>1, <1>2, <1>6, RestartStep
<1>13. Contiguous(g)
  <2>1. Loops = Headers(f)
    BY <1>1, <1>2, <1>3, AnalysedLoops
  <2>2. ASSUME Cardinality(Headers(f)) <= MaxLoops PROVE \A h \in Headers(f) : Together(f, r, h)
    <3>1. placed = Loops
      <4>1. Headers(f) \in SUBSET Blocks(f)
        BY DEF Headers
      <4>2. PICK H \in SUBSET Blocks(f) : H = Headers(f)
        BY <4>1
      <4>3. IsFiniteSet(H)
        BY <1>3, <1>4, RenamedSize
      <4>4. Cardinality(H) \in Nat
        BY <4>3, FS_CardinalityType
      <4>5. ~(Cardinality(H) > MaxLoops)
        BY <2>2, <4>2, <4>4, MaxLoopsAssumption
      <4> QED
        BY <1>1, <2>1, <4>2, <4>5
    <3> QED
      BY <1>2, <1>3, <2>1, <3>1 DEF LayoutInv
  <2> QED
    BY <1>3, <1>5, <2>2, LaidOutTogether
<1>14. FlowKept'
  BY <1>1, <1>2, <1>11, <1>12 DEF FlowKept
<1>15. PhiEdgesPrivate'
  BY <1>9, <1>12 DEF PhiEdgesPrivate
<1> QED
  BY <1>1, <1>6, <1>7, <1>12, <1>13, <1>14, <1>15 DEF TransformInv, Sound

-----------------------------------------------------------------------------
\* Every reachable state of the rewrites and of the analyses between them
\* satisfies the invariant.
THEOREM TransformInvariant == TransformSpec => []TransformInv
<1>1. TransformInit => TransformInv
  BY TransformInitInv
<1>2. ASSUME TransformInv, [TransformNext]_allVars PROVE TransformInv'
  <2>1. CASE UNCHANGED allVars
    <3>1. UNCHANGED <<vars, source, origin, ids, placed>> /\ stage' = stage
      BY <2>1 DEF allVars
    <3> QED
      BY <1>2, <3>1, RejectStep
  <2> QED
    BY <1>2, <2>1, ExposeStep, AnalyseStep, SplitStep, PlaceStep, LayoutStep DEF TransformNext
<1> QED
  BY <1>1, <1>2, PTL DEF TransformSpec

\* Splitting edges and moving blocks keep the program, for every function the
\* verifier accepts: the entry is still block 0, every block of the function
\* splitPhiEdges was given is there once with its instructions, targets and PHI
\* operands in order, and a new block only continues its own edge.
THEOREM FlowIsKept == TransformSpec => []FlowKept
<1>1. TransformInv => FlowKept
  BY DEF TransformInv
<1> QED
  BY <1>1, TransformInvariant, PTL

\* Once splitPhiEdges has run, every predecessor of a block with PHIs leads
\* nowhere else, and each PHI names exactly those predecessors: the parallel
\* copies on an edge run for that edge only, after the layout as well.
THEOREM PhiEdgesArePrivate == TransformSpec => []PhiEdgesPrivate
<1>1. TransformInv => PhiEdgesPrivate
  BY DEF TransformInv
<1> QED
  BY <1>1, TransformInvariant, PTL

\* Through all three rewrites R13 is set to the destination of the LOOP it
\* serves, every path to the LOOP sets it up and every path to the restoring of
\* the registers passes the LOOP.
THEOREM HardwareLoopsStayPaired == TransformSpec => []HardwareLoopsPaired
<1>1. ASSUME TransformInv PROVE HardwareLoopsPaired
  <2> SUFFICES ASSUME stage # "expose", phase = "ready", NEW b \in Blocks(function),
                      NEW setup \in Instructions(function, b), setup.opcode = "loop"
               PROVE  \E p \in reachable :
                         LET latch == Terminal(function, p)
                         IN  /\ latch.opcode = "end" /\ latch.loop_id = setup.loop_id
                             /\ latch.targets[1] = setup.loop_target
                             /\ dominates(b, p)
                             /\ \E q \in reachable : /\ dominates(p, q)
                                                     /\ \E i \in Instructions(function, q) :
                                                           i.opcode = "leave" /\ i.loop_id = setup.loop_id
    BY DEF HardwareLoopsPaired
  <2>1. Inv /\ Graphed /\ Paired(function) /\ Reached /\ HasTree
    BY <1>1 DEF TransformInv, Sound, Reached, HasTree
  <2>2. PICK p \in Blocks(function) : PairedAt(function, b, setup, p)
    BY <2>1 DEF Paired
  <2>3. /\ \A c \in Blocks(function) : c \in reachable <=> Reaches(function, c)
        /\ \A d, c : OnEveryPath(d, c) <=> Passes(function, d, c)
    BY <2>1, AnalysedPaths
  <2>4. \A c \in reachable, d \in Blocks(function) : dominates(d, c) <=> Passes(function, d, c)
    BY <2>1, <2>3, ExactDominators DEF DominatorsExact
  <2>5. /\ Reaches(function, p) /\ Terminal(function, p).opcode = "end"
        /\ Terminal(function, p).loop_id = setup.loop_id
        /\ Terminal(function, p).targets[1] = setup.loop_target
        /\ Passes(function, b, p)
    BY <2>2 DEF PairedAt
  <2>6. PICK q \in Blocks(function) : /\ Reaches(function, q) /\ Passes(function, p, q)
                                      /\ \E i \in Instructions(function, q) :
                                            i.opcode = "leave" /\ i.loop_id = setup.loop_id
    BY <2>2 DEF PairedAt
  <2>7. p \in reachable /\ q \in reachable /\ dominates(b, p) /\ dominates(p, q)
    BY <2>3, <2>4, <2>5, <2>6
  <2> QED
    BY <2>5, <2>6, <2>7
<1> QED
  BY <1>1, TransformInvariant, PTL

\* The final layout keeps every natural loop of a function in one piece, header
\* first, inner loops and outer loops alike, unless there are more loops than
\* layoutHotBlocks handles.
THEOREM LoopsAreContiguous == TransformSpec => []LoopsContiguous
<1>1. ASSUME TransformInv PROVE LoopsContiguous
  <2> SUFFICES ASSUME stage = "final", phase = "ready", Cardinality(Loops) <= MaxLoops, NEW h \in Loops
               PROVE  natural[h].blocks = h .. h + Cardinality(natural[h].blocks) - 1
    BY DEF LoopsContiguous
  <2>1. Inv /\ LoopInv /\ Graphed /\ Contiguous(function)
    BY <1>1 DEF TransformInv
  <2>2. /\ \A g \in Blocks(function) : natural[g].blocks = LoopOf(function, g)
        /\ Loops = Headers(function)
    BY <2>1, AnalysedLoops
  <2>3. h \in Headers(function) /\ natural[h].blocks = LoopOf(function, h)
    BY <2>2 DEF Headers
  <2> QED
    BY <2>1, <2>2, <2>3 DEF Contiguous
<1> QED
  BY <1>1, TransformInvariant, PTL
=============================================================================
