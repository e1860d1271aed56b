------------------------ MODULE CodeEmissionProofs ------------------------
(***************************************************************************)
(* The code generator's beliefs are facts, for every function, every       *)
(* choice of locations, every frame and every stack depth: the stack       *)
(* checks that are elided were not needed (StackStaysAboveFloor), what an  *)
(* instruction reads is the value meant (ValuesAlwaysArrive), and a store  *)
(* reaches its own word (StoresAlwaysLand).                                *)
(*                                                                         *)
(* An annotation says what is known between two emitted operations:        *)
(* contents of registers, the stack, the values at home, whether the cache *)
(* is empty.  Safe(i, o, F, G): operation o of instruction i may be        *)
(* executed where F holds, and G holds afterwards; the Step lemmas show it *)
(* of the machine.  A plan is a sequence of annotations between the        *)
(* operations an instruction emits; every instruction has one (Plans), and *)
(* the inductive invariant says that what is still to be emitted has one   *)
(* from what the machine holds now.                                        *)
(***************************************************************************)
EXTENDS CodeEmission, TLAPS, SequenceTheorems

\* The credit is a lower bound of the distance from the floor.
Honest(s) ==
    /\ {"credit", "margin", "running"} \subseteq DOMAIN s
    /\ s.credit \in Nat /\ s.margin \in Int
    /\ s.credit <= s.margin

\* The operation being emitted belongs to an instruction of the block.
Placed ==
    /\ rest \in Seq(Block) /\ body \in Block /\ pos \in Nat
    /\ todo # <<>> => Here \in 1 .. Len(body.code)

CreditInvariant == Placed /\ Honest(st)

-----------------------------------------------------------------------------
\* The two bounds of GSUStackCheckCredit.
LEMMA DecreaseBound ==
    ASSUME NEW c \in Nat, NEW n \in Nat
    PROVE  decrease(c, n) \in Nat /\ decrease(c, n) <= c /\ (n <= c => decrease(c, n) = c - n)
  BY DEF decrease

\* increase of GSUStackCheckCredit never grants more than was given back.
LEMMA IncreaseBound ==
    ASSUME NEW c \in Nat, NEW n \in Nat
    PROVE  increase(c, n) \in Nat /\ increase(c, n) <= c + n
  BY DEF increase, MaxCredit

\* Moving SP keeps the credit honest when the new one is.
LEMMA ResizeHonest ==
    ASSUME NEW s, NEW k, NEW m \in Int, NEW c \in Nat, c <= m, Honest(s)
    PROVE  Honest(Resize(s, k, m, c)) /\ Resize(s, k, m, c).credit = c /\ Resize(s, k, m, c).running = s.running
  BY DEF Honest, Resize

\* A write to a register leaves the stack alone.
LEMMA WriteHonest ==
    ASSUME NEW s, NEW r, NEW v, Honest(s)
    PROVE  /\ Honest(Write(s, r, v))
           /\ Write(s, r, v).credit = s.credit /\ Write(s, r, v).margin = s.margin
           /\ Write(s, r, v).running = s.running
  BY DEF Write, Honest

\* Remembering what R0 holds leaves the stack alone.
LEMMA SnapshotHonest ==
    ASSUME NEW s, NEW v, Honest(s)
    PROVE  Honest(Snapshot(s, v))
  BY DEF Snapshot, Honest

\* A move between registers leaves the stack alone.
LEMMA MoveHonest ==
    ASSUME NEW s, NEW to, NEW from, Honest(s)
    PROVE  Honest(emitMove(s, to, from))
  BY WriteHonest DEF emitMove

\* After a check the machine has stopped or the credit covers the requirement.
LEMMA GuardHonest ==
    ASSUME NEW s, NEW n \in Nat, n <= MaxCredit, Honest(s)
    PROVE  /\ Honest(emitStackGuard(s, n))
           /\ emitStackGuard(s, n).running => n <= emitStackGuard(s, n).credit
           /\ s.running /\ n <= s.credit => emitStackGuard(s, n) = s
<1> DEFINE w == Write(s, "r3", Junk)
<1>1. Honest(w) /\ w.credit = s.credit /\ w.margin = s.margin
  BY WriteHonest
<1>2. CASE n <= s.credit
  BY <1>2 DEF emitStackGuard
<1>3. CASE ~(n <= s.credit) /\ s.margin < n
  BY <1>3 DEF emitStackGuard, Honest
<1>4. CASE ~(n <= s.credit) /\ ~(s.margin < n)
  <2> HIDE DEF w
  <2>1. emitStackGuard(s, n) =
            [w EXCEPT !.acc = None, !.credit = IF n > MaxCredit THEN MaxCredit ELSE n]
    BY <1>4 DEF emitStackGuard, w
  <2>2. (IF n > MaxCredit THEN MaxCredit ELSE n) = n
    BY DEF MaxCredit
  <2>3. emitStackGuard(s, n) = [w EXCEPT !.acc = None, !.credit = n]
    BY <2>1, <2>2
  <2> QED
    BY <2>3, <1>1, <1>4 DEF Honest
<1> QED
  BY <1>2, <1>3, <1>4

\* A push either stops the machine or was covered.
LEMMA PushHonest ==
    ASSUME NEW s, NEW r, Honest(s)
    PROVE  /\ Honest(emitPush(s, r))
           /\ s.running /\ 2 <= s.credit => emitPush(s, r).credit = s.credit - 2 /\ emitPush(s, r).running
<1> DEFINE g == emitStackGuard(s, 2)
<1>1. /\ Honest(g) /\ (g.running => 2 <= g.credit)
      /\ s.running /\ 2 <= s.credit => g = s
  BY GuardHonest DEF MaxCredit
<1>2. /\ decrease(g.credit, 2) \in Nat
      /\ 2 <= g.credit => decrease(g.credit, 2) = g.credit - 2
  BY <1>1, DecreaseBound DEF Honest
<1>3. emitPush(s, r) =
        IF g.running THEN Resize(g, Append(g.stack, g.reg[r]), g.margin - 2, decrease(g.credit, 2)) ELSE g
  BY DEF emitPush
<1> HIDE DEF g
<1>4. CASE g.running
  <2>1. g.margin - 2 \in Int /\ decrease(g.credit, 2) <= g.margin - 2
    BY <1>1, <1>2, <1>4 DEF Honest
  <2> QED
    BY <1>1, <1>2, <1>3, <1>4, <2>1, ResizeHonest
<1>5. CASE ~g.running
  BY <1>1, <1>3, <1>5
<1> QED
  BY <1>4, <1>5

\* A pop gives back the two bytes it frees, and no more.
LEMMA PopHonest ==
    ASSUME NEW s, NEW r, Honest(s)
    PROVE  Honest(emitPop(s, r))
<1>1. Honest(Write(s, r, s.stack[Len(s.stack)]))
  BY WriteHonest
<1>2. s.credit \in Nat /\ s.margin \in Int /\ s.credit <= s.margin
  BY DEF Honest
<1>3. increase(s.credit, 2) \in Nat /\ increase(s.credit, 2) <= s.credit + 2
  BY <1>2, IncreaseBound
<1>4. s.margin + 2 \in Int /\ increase(s.credit, 2) <= s.margin + 2
  BY <1>2, <1>3
<1> QED
  BY <1>1, <1>3, <1>4, ResizeHonest DEF emitPop

\* Dropping the arguments of a call gives back what it frees.
LEMMA DropHonest ==
    ASSUME NEW s, NEW n \in Nat, Honest(s)
    PROVE  Honest(DropWords(s, n))
<1>1. s.credit \in Nat /\ 2 * n \in Nat
  BY DEF Honest
<1>2. increase(s.credit, 2 * n) \in Nat /\ increase(s.credit, 2 * n) <= s.credit + 2 * n
  BY <1>1, IncreaseBound
<1> QED
  BY <1>2 DEF Honest, DropWords

\* The frame is claimed only where the prologue's check covers it.
LEMMA ClaimHonest ==
    ASSUME NEW s, NEW n \in Nat, Honest(s), 2 * n <= s.credit
    PROVE  Honest(ClaimFrame(s, n))
<1>1. decrease(s.credit, 2 * n) = s.credit - 2 * n
  BY DecreaseBound DEF Honest
<1> QED
  BY <1>1 DEF Honest, ClaimFrame

\* What the other operations leave of the stack: nothing they do moves SP.
LEMMA ClearHonest ==
    ASSUME NEW s, Honest(s)
    PROVE  Honest(Clear(s))
  BY DEF Clear, Honest

\* Access to a frame word leaves the stack alone.
LEMMA SpillHonest ==
    ASSUME NEW s, NEW v, NEW from, Honest(s)
    PROVE  Honest(SpillLoad(s, v)) /\ Honest(emitWordSpillStore(s, v, from))
<1>1. Honest(Write(s, "r3", Junk))
  BY WriteHonest
<1>2. Honest(Write(Write(s, "r3", Junk), "r0", s.ram[home[v]]))
  BY <1>1, WriteHonest
<1>3. Honest(SpillLoad(s, v))
  <2> DEFINE w == Write(Write(s, "r3", Junk), "r0", s.ram[home[v]])
  <2>1. SpillLoad(s, v) = [w EXCEPT !.at = home[v], !.latch = home[v]]
    BY DEF SpillLoad
  <2> HIDE DEF w
  <2>2. Honest(w)
    BY <1>2 DEF w
  <2> QED
    BY <2>1, <2>2 DEF Honest
<1>4. Honest(emitWordSpillStore(s, v, from))
  <2> DEFINE w == Write(s, "r3", Junk)
             sbk == [s EXCEPT !.ram[s.at] = s.reg[from]]
             stored == [w EXCEPT !.ram[home[v]] = s.reg[from], !.at = home[v], !.latch = home[v]]
  <2>1. emitWordSpillStore(s, v, from) = IF s.latch = home[v] THEN sbk ELSE stored
    BY DEF emitWordSpillStore
  <2>2. Honest(sbk)
    BY DEF Honest
  <2>3. Honest(stored)
    <3> HIDE DEF w
    <3>1. Honest(w)
      BY <1>1 DEF w
    <3> QED
      BY <3>1 DEF Honest
  <2> HIDE DEF sbk, stored
  <2> QED
    BY <2>1, <2>2, <2>3
<1> QED
  BY <1>3, <1>4

\* Keeping a copy of a spilled value leaves the stack alone.
LEMMA RetainHonest ==
    ASSUME NEW s, NEW v, NEW least, Honest(s)
    PROVE  Honest(retainSpillCopy(s, v, least))
<1> DEFINE w == emitMove(s, Choose(s), "r0")
<1>1. Honest(w)
  BY MoveHonest
<1>2. \/ retainSpillCopy(s, v, least) = s
      \/ retainSpillCopy(s, v, least) = [w EXCEPT !.copies[Choose(s)] = v]
  BY DEF retainSpillCopy
<1> HIDE DEF w
<1>3. Honest([w EXCEPT !.copies[Choose(s)] = v])
  BY <1>1 DEF Honest
<1> QED
  BY <1>2, <1>3

\* Bringing a value to R0 leaves the stack alone.
LEMMA MaterializeHonest ==
    ASSUME NEW s, NEW v, Honest(s)
    PROVE  Honest(materialize(s, v))
<1> DEFINE r == CHOOSE r \in Find(s, v) : TRUE
<1>1. /\ Honest(Write(s, "r0", v)) /\ Honest(emitMove(s, "r0", home[v])) /\ Honest(emitMove(s, "r0", r))
  BY WriteHonest, MoveHonest
<1>2. Honest(retainSpillCopy(SpillLoad(s, v), v, 1))
  BY SpillHonest, RetainHonest
<1> DEFINE x == IF home[v] = Constant THEN Write(s, "r0", v)
                ELSE IF InReg(v) THEN emitMove(s, "r0", home[v])
                ELSE IF Find(s, v) # {} THEN emitMove(s, "r0", r)
                ELSE retainSpillCopy(SpillLoad(s, v), v, 1)
<1>3. Honest(x)
  BY <1>1, <1>2
<1>4. materialize(s, v) = IF s.acc = v THEN s ELSE Snapshot(x, v)
  BY DEF materialize
<1> HIDE DEF x
<1> QED
  BY <1>3, <1>4, SnapshotHonest

\* Taking a result to its location leaves the stack alone.
LEMMA DefineHonest ==
    ASSUME NEW s, NEW v, Honest(s)
    PROVE  Honest(Define(s, v))
<1> DEFINE x == IF InReg(v) THEN emitMove(s, home[v], "r0")
                ELSE retainSpillCopy(emitWordSpillStore(s, v, "r0"), v, 2)
<1>1. Honest(emitMove(s, home[v], "r0"))
  BY MoveHonest
<1>2. Honest(retainSpillCopy(emitWordSpillStore(s, v, "r0"), v, 2))
  BY SpillHonest, RetainHonest
<1>3. Honest(x)
  BY <1>1, <1>2
<1>4. Define(s, v) = Snapshot(x, v)
  BY DEF Define
<1> HIDE DEF x
<1> QED
  BY <1>3, <1>4, SnapshotHonest

\* A store through a pointer leaves the stack alone.
LEMMA StoreHonest ==
    ASSUME NEW s, NEW a, NEW v, Honest(s)
    PROVE  Honest(emitStoreIndirect(s, a, v))
<1>1. ASSUME NEW t, NEW p, NEW q, Honest(t)
      PROVE  Honest(StoreWord(t, p, q, a, v))
  BY <1>1 DEF StoreWord, Honest
<1>2. ASSUME NEW t, NEW q, Honest(t)
      PROVE  Honest([t EXCEPT !.ram[t.at] = t.reg[q], !.acc = None, !.written[a] = v])
  BY <1>2 DEF Honest
<1> DEFINE s1 == IF InReg(v) THEN s ELSE materialize(s, v)
           s2 == IF InReg(v) THEN s1 ELSE emitMove(s1, "r6", "r0")
           q == IF InReg(v) THEN home[v] ELSE "r0"
           q6 == IF InReg(v) THEN home[v] ELSE "r6"
<1>3. Honest(s1)
  BY MaterializeHonest
<1>4. Honest(s2)
  <2> HIDE DEF s1
  <2> QED
    BY <1>3, MoveHonest
<1>5. Honest(materialize(s2, a))
  <2> HIDE DEF s2
  <2> QED
    BY <1>4, MaterializeHonest
<1>6. emitStoreIndirect(s, a, v) =
        IF s1.latch = a THEN [s1 EXCEPT !.ram[s1.at] = s1.reg[q], !.acc = None, !.written[a] = v]
        ELSE IF InReg(a) THEN StoreWord(s1, home[a], q, a, v)
        ELSE StoreWord(materialize(s2, a), "r0", q6, a, v)
  BY DEF emitStoreIndirect
<1> HIDE DEF s1, s2, q, q6
<1>7. /\ Honest([s1 EXCEPT !.ram[s1.at] = s1.reg[q], !.acc = None, !.written[a] = v])
      /\ Honest(StoreWord(s1, home[a], q, a, v))
      /\ Honest(StoreWord(materialize(s2, a), "r0", q6, a, v))
  BY <1>1, <1>2, <1>3, <1>5
<1> QED
  BY <1>6, <1>7

\* At a label the credit is forgotten: any distance is honest.
LEMMA LabelHonest ==
    ASSUME NEW s, NEW lost, NEW m \in Nat, Honest(s)
    PROVE  Honest(bindLabel(s, lost, m))
<1> DEFINE j == Joined(s, lost, m)
<1>1. Honest([j EXCEPT !.credit = 0]) /\ j.margin = m /\ {"credit", "margin", "running"} \subseteq DOMAIN j
  BY DEF Joined, Honest
<1> HIDE DEF j
<1> DEFINE c == Clear(j)
<1>2. c.margin = m /\ {"credit", "margin", "running"} \subseteq DOMAIN c
  BY <1>1 DEF Clear
<1>3. bindLabel(s, lost, m) = [c EXCEPT !.acc = None, !.latch = None, !.credit = 0]
  BY DEF bindLabel, j
<1> HIDE DEF c
<1> QED
  BY <1>2, <1>3 DEF Honest

\* The one check of a loop set up in registers is as honest as the pushes it
\* replaces.
LEMMA CapacityHonest ==
    ASSUME NEW s, NEW lost, NEW m \in Nat, Honest(s)
    PROVE  Honest(emitHardwareLoopCapacityGuard(s, lost, m))
<1> DEFINE w == Write(s, "r3", Junk)
           p == emitPush(w, "r12")
           g == IF p.running THEN emitStackGuard(p, 2) ELSE p
<1>1. Honest(w)
  BY WriteHonest
<1>2. Honest(p)
  <2> HIDE DEF w
  <2> QED
    BY <1>1, PushHonest
<1>3. Honest(g)
  <2> HIDE DEF p
  <2>1. 2 \in Nat /\ 2 <= MaxCredit
    BY DEF MaxCredit
  <2> QED
    BY <1>2, <2>1, GuardHonest
<1>4. \/ emitHardwareLoopCapacityGuard(s, lost, m) \in {s, g}
      \/ emitHardwareLoopCapacityGuard(s, lost, m) = bindLabel(w, lost, m)
      \/ emitHardwareLoopCapacityGuard(s, lost, m) = bindLabel(g, lost, m)
  BY DEF emitHardwareLoopCapacityGuard
<1> HIDE DEF w, p, g
<1> QED
  BY <1>1, <1>3, <1>4, LabelHonest

\* The single check of the prologue covers both pushes and the frame.
LEMMA PrologueHonest ==
    ASSUME NEW s, Honest(s), s.running
    PROVE  Honest(prologue(s))
<1> DEFINE n == 2 * FrameWords + 4
           g == emitStackGuard(s, n)
           p == emitPush(g, "r11")
           q == emitPush(p, "r9")
           w == Write(q, "r9", "frame")
<1>1. n \in Nat /\ n <= MaxCredit /\ FrameWords \in Nat
  BY EmissionAssumption
<1>2. Honest(g) /\ (g.running => n <= g.credit)
  <2> HIDE DEF n
  <2> QED
    BY <1>1, GuardHonest
<1>3. prologue(s) = IF g.running THEN ClaimFrame(w, FrameWords) ELSE g
  BY DEF prologue
<1>4. ASSUME g.running
      PROVE  Honest(ClaimFrame(w, FrameWords))
  <2> HIDE DEF g
  <2>1. g.credit \in Nat /\ 2 * FrameWords + 4 <= g.credit
    BY <1>1, <1>2, <1>4 DEF Honest
  <2>2. Honest(p) /\ p.credit = g.credit - 2 /\ p.running
    BY <1>1, <1>2, <1>4, <2>1, PushHonest
  <2> HIDE DEF p
  <2>3. p.credit \in Nat /\ 2 <= p.credit
    BY <1>1, <2>1, <2>2
  <2>4. Honest(q) /\ q.credit = p.credit - 2
    BY <2>2, <2>3, PushHonest
  <2> HIDE DEF q
  <2>5. Honest(w) /\ w.credit = q.credit
    BY <2>4, WriteHonest
  <2> HIDE DEF w
  <2>6. 2 * FrameWords <= w.credit
    BY <1>1, <2>1, <2>2, <2>4, <2>5
  <2> QED
    BY <1>1, <2>5, <2>6, ClaimHonest
<1> HIDE DEF g, w
<1> QED
  BY <1>2, <1>3, <1>4

\* A block starts without credit: any distance is honest.
LEMMA BlockHonest ==
    ASSUME NEW s, NEW b, NEW m \in Nat, Honest(s)
    PROVE  Honest(Arrived(emitBlock(s, b), b, m))
<1> DEFINE c == Clear(s)
           e == emitBlock(s, b)
<1>1. Honest(c)
  BY ClearHonest
<1>2. e = [c EXCEPT !.remaining = [v \in Value |-> Count(b.code, v)], !.acc = None, !.latch = None, !.credit = 0]
  BY DEF emitBlock
<1> HIDE DEF c, e
<1>3. {"credit", "margin", "running"} \subseteq DOMAIN e /\ e.credit = 0
  BY <1>1, <1>2 DEF Honest
<1>4. Honest(Arrived(e, b, m))
  BY <1>3 DEF Arrived, Honest
<1> QED
  BY <1>4 DEF e

-----------------------------------------------------------------------------
\* No step moves the emission out of its instruction.
LEMMA StaysPlaced ==
    ASSUME Placed, [Next]_vars
    PROVE  Placed'
<1> USE DEF Placed, Here
<1>1. CASE EmitPrologue
  BY <1>1 DEF EmitPrologue
<1>2. CASE EnterBlock
  BY <1>2 DEF EnterBlock
<1>3. CASE BeginInstruction
  <2>1. Len(body.code) \in Nat
    BY DEF Block
  <2> QED
    BY <1>3, <2>1 DEF BeginInstruction
<1>4. CASE Emit
  <2>1. todo # <<>> /\ UNCHANGED <<rest, body, home, pos>>
    BY <1>4 DEF Emit, EmitUse, EmitMove, EmitScratch, EmitRead, EmitResult, EmitDirect, EmitDefine,
                EmitPush, EmitPop, EmitClear, EmitFence, EmitLoad, EmitStore, EmitDrop, EmitLabel,
                EmitCapacity, EmitUnwind, EmitCall, Doing, Then
  <2> QED
    BY <2>1
<1>5. CASE UNCHANGED vars
  BY <1>5 DEF vars
<1> QED
  BY <1>1, <1>2, <1>3, <1>4, <1>5 DEF Next

\* Every step keeps the credit honest.
LEMMA StaysHonest ==
    ASSUME Placed, Honest(st), [Next]_vars
    PROVE  Honest(st')
<1>0. \A m \in Margins : m \in Nat
  BY EmissionAssumption
<1>1. CASE EmitPrologue
  BY <1>1, PrologueHonest DEF EmitPrologue
<1>2. CASE EnterBlock
  BY <1>0, <1>2, BlockHonest DEF EnterBlock
<1>3. CASE BeginInstruction
  <2> DEFINE e == Enter(st, spareRegisters(body, home, pos))
  <2>1. Honest(e)
    BY DEF Enter, Honest
  <2>2. PICK f : st' = [e EXCEPT !.remaining = f]
    BY <1>3 DEF BeginInstruction
  <2> HIDE DEF e
  <2> QED
    BY <2>1, <2>2 DEF Honest
<1>4. CASE EmitUse
  BY <1>4, MaterializeHonest DEF EmitUse, Then
<1>5. CASE EmitMove
  BY <1>5, MoveHonest DEF EmitMove, Then
<1>6. CASE EmitScratch
  <2>1. Honest(Write(st, Op.a, Junk)) /\ st' = [Write(st, Op.a, Junk) EXCEPT !.acc = None]
    BY <1>6, WriteHonest DEF EmitScratch, Then
  <2> QED
    BY <2>1 DEF Honest
<1>7. CASE EmitRead
  BY <1>7, SnapshotHonest DEF EmitRead, Then
<1>8. CASE EmitResult
  BY <1>8, WriteHonest DEF EmitResult, Then
<1>9. CASE EmitDirect
  BY <1>9, WriteHonest, SnapshotHonest DEF EmitDirect, Then
<1>10. CASE EmitDefine
  BY <1>10, DefineHonest DEF EmitDefine, Then
<1>11. CASE EmitPush
  BY <1>11, PushHonest DEF EmitPush, Then
<1>12. CASE EmitPop
  BY <1>12, PopHonest DEF EmitPop, Then
<1>13. CASE EmitClear
  <2>1. Honest(Clear(st)) /\ st' = [Clear(st) EXCEPT !.latch = None, !.acc = None]
    BY <1>13, ClearHonest DEF EmitClear, Then
  <2> QED
    BY <2>1 DEF Honest
<1>14. CASE EmitFence
  BY <1>14 DEF EmitFence, Then, Honest
<1>15. CASE EmitLoad
  <2> DEFINE w == Write(st, Op.b, Op.a)
  <2>1. Honest(w)
    BY WriteHonest
  <2>2. st' = [w EXCEPT !.acc = None, !.latch = body.code[Here].args[1], !.at = body.code[Here].args[1]]
    BY <1>15 DEF EmitLoad, Then
  <2> HIDE DEF w
  <2> QED
    BY <2>1, <2>2 DEF Honest
<1>16. CASE EmitStore
  BY <1>16, StoreHonest DEF EmitStore, Then
<1>17. CASE EmitDrop
  <2>1. Here \in 1 .. Len(body.code)
    BY <1>17 DEF EmitDrop, Doing, Placed
  <2>2. body.code[Here] \in Instruction
    BY <2>1 DEF Placed, Block
  <2>3. Len(body.code[Here].args) \in Nat
    BY <2>2 DEF Instruction
  <2> QED
    BY <1>17, <2>3, DropHonest DEF EmitDrop, Then
<1>18. CASE EmitLabel
  BY <1>0, <1>18, LabelHonest DEF EmitLabel, Then
<1>19. CASE EmitCapacity
  BY <1>0, <1>19, CapacityHonest DEF EmitCapacity, Then
<1>20. CASE EmitUnwind
  <2>1. 2 * FrameWords + (IF Open(body, Here) THEN 4 ELSE 0) \in Nat
    BY EmissionAssumption
  <2>2. st' = [st EXCEPT !.stack = SubSeq(st.stack, 1, 2), !.credit = 0, !.acc = None,
                         !.margin = st.margin + 2 * FrameWords + (IF Open(body, Here) THEN 4 ELSE 0)]
    BY <1>20 DEF EmitUnwind, Then
  <2> QED
    BY EmissionAssumption, <2>1, <2>2 DEF Honest
<1>21. CASE EmitCall
  <2>1. PICK r, m, w : st' = [st EXCEPT !.reg = r, !.ram = m, !.written = w, !.at = Junk,
                                        !.latch = None, !.acc = None, !.credit = 0]
    BY <1>21 DEF EmitCall, Then
  <2> QED
    BY <2>1 DEF Honest
<1>22. CASE UNCHANGED vars
  BY <1>22 DEF vars
<1> QED
  BY <1>1, <1>2, <1>3, <1>4, <1>5, <1>6, <1>7, <1>8, <1>9, <1>10, <1>11, <1>12, <1>13, <1>14, <1>15,
     <1>16, <1>17, <1>18, <1>19, <1>20, <1>21, <1>22 DEF Next, Emit

\* The stack pointer never passes the stack floor, whatever checks the credit
\* of emitStackGuard has elided.
THEOREM StackStaysAboveFloor == Spec => []StackNeverOverrun
<1>1. Init => CreditInvariant
  <2> SUFFICES ASSUME Init PROVE CreditInvariant
    OBVIOUS
  <2>1. Placed
    <3>1. body \in Block
      BY DEF Init, Block
    <3> QED
      BY <3>1, EmissionAssumption DEF Init, Placed
  <2>2. PICK m \in Margins : st = Start(m)
    BY DEF Init
  <2>3. m \in Nat
    BY EmissionAssumption
  <2>4. Honest(st)
    BY <2>2, <2>3 DEF Start, Honest
  <2> QED
    BY <2>1, <2>4 DEF CreditInvariant
<1>2. CreditInvariant /\ [Next]_vars => CreditInvariant'
  <2> SUFFICES ASSUME CreditInvariant, [Next]_vars PROVE CreditInvariant'
    OBVIOUS
  <2>1. Placed'
    BY StaysPlaced DEF CreditInvariant
  <2>2. Honest(st')
    BY StaysHonest DEF CreditInvariant
  <2> QED
    BY <2>1, <2>2 DEF CreditInvariant, Honest
<1>3. CreditInvariant => StackNeverOverrun
  BY DEF CreditInvariant, Honest, StackNeverOverrun
<1> QED
  BY <1>1, <1>2, <1>3, PTL DEF Spec

-----------------------------------------------------------------------------
Cache == {"r5", "r7", "r8"}
Word == Value \cup {Junk, "link", "caller", "count", "head", "inner count", "inner head"}

\* The state record has its fields, and its functions their domains.
Machine(s) ==
    /\ {"copies", "spare", "remaining", "acc", "latch", "credit", "reg", "ram", "at", "stack", "margin",
        "running", "written"} \subseteq DOMAIN s
    /\ DOMAIN s.reg = Reg /\ DOMAIN s.copies = Reg
    /\ DOMAIN s.ram = Slot \cup Value /\ DOMAIN s.written = Value

\* What the generator believes is so.
Beliefs(s) ==
    /\ \A r \in Reg : s.copies[r] # None => r \in Cache /\ s.reg[r] = s.copies[r]
    /\ s.acc # None => s.reg["r0"] = s.acc
    /\ s.latch # None => s.at = s.latch

Landed(s) == \A a \in Value : s.ram[a] = s.written[a]
Good(s) == Machine(s) /\ Beliefs(s) /\ Landed(s)

AtHome(s, v) ==
    /\ home[v] \in Reg => s.reg[home[v]] = v
    /\ home[v] \in Slot => s.ram[home[v]] = v
Plain(s) == s.spare = {} /\ \A r \in Reg : s.copies[r] = None

Homed == \A v \in Value : home[v] \in {"r2", "r4", "r5", "r7", "r8"} \cup Slot \cup {Constant}

\* From s to t only registers and frame words in W change, the cache aside.
Touches(s, t, W) ==
    /\ Good(t)
    /\ \A r \in Reg : r \notin W /\ r \notin s.spare => t.reg[r] = s.reg[r]
    /\ \A l \in Slot : l \notin W => t.ram[l] = s.ram[l]
    /\ t.stack = s.stack /\ t.spare = s.spare /\ t.running = s.running
    /\ Plain(s) => Plain(t)

-----------------------------------------------------------------------------
\* The constants are told apart.
LEMMA Distinct ==
    /\ \A v \in Value : v \notin Slot /\ v \notin Reg /\ v # None /\ v # Junk /\ v # Constant
    /\ \A l \in Slot : l \notin Reg /\ l # None /\ l # Junk /\ l # Constant
  BY EmissionAssumption

\* Two changes one after the other.
LEMMA TouchTwice ==
    ASSUME NEW s, NEW t, NEW u, NEW V, NEW W, NEW X, Touches(s, t, V), Touches(t, u, W),
           V \subseteq X, W \subseteq X
    PROVE  Touches(s, u, X)
  BY DEF Touches

\* A register is written.
LEMMA WriteTouches ==
    ASSUME NEW s, Good(s), NEW r \in Reg, NEW v
    PROVE  /\ Touches(s, Write(s, r, v), {r})
           /\ Write(s, r, v).reg[r] = v
           /\ Write(s, r, v).ram = s.ram /\ Write(s, r, v).at = s.at /\ Write(s, r, v).latch = s.latch
           /\ Write(s, r, v).written = s.written
           /\ \A q \in Reg : q # r => Write(s, r, v).reg[q] = s.reg[q]
<1> DEFINE t == Write(s, r, v)
<1>1. /\ Machine(t)
      /\ t.reg = [s.reg EXCEPT ![r] = v] /\ t.copies = [s.copies EXCEPT ![r] = None]
      /\ t.acc = IF r = "r0" THEN None ELSE s.acc
      /\ t.ram = s.ram /\ t.at = s.at /\ t.latch = s.latch /\ t.written = s.written
      /\ t.stack = s.stack /\ t.spare = s.spare /\ t.running = s.running
  BY DEF Write, Good, Machine
<1> HIDE DEF t
<1>2. /\ \A q \in Reg : t.reg[q] = IF q = r THEN v ELSE s.reg[q]
      /\ \A q \in Reg : t.copies[q] = IF q = r THEN None ELSE s.copies[q]
  BY <1>1 DEF Good, Machine
<1>3. "r0" \in Reg
  BY DEF Reg
<1>4. Beliefs(t)
  BY <1>1, <1>2, <1>3 DEF Good, Beliefs
<1>5. Landed(t)
  BY <1>1 DEF Good, Landed
<1>6. Plain(s) => Plain(t)
  BY <1>1, <1>2 DEF Plain
<1> QED
  BY <1>1, <1>2, <1>4, <1>5, <1>6 DEF Touches, Good, t

\* R0 is remembered only when it does hold the value.
LEMMA SnapshotTouches ==
    ASSUME NEW s, Good(s), NEW v, v # None => s.reg["r0"] = v
    PROVE  /\ Touches(s, Snapshot(s, v), {})
           /\ Snapshot(s, v).reg = s.reg /\ Snapshot(s, v).ram = s.ram /\ Snapshot(s, v).latch = s.latch
           /\ Snapshot(s, v).at = s.at /\ Snapshot(s, v).written = s.written
<1> DEFINE t == Snapshot(s, v)
<1>1. /\ Machine(t) /\ t.acc = v
      /\ t.reg = s.reg /\ t.copies = s.copies /\ t.ram = s.ram /\ t.at = s.at /\ t.latch = s.latch
      /\ t.written = s.written /\ t.stack = s.stack /\ t.spare = s.spare /\ t.running = s.running
  BY DEF Snapshot, Good, Machine
<1> HIDE DEF t
<1>2. Beliefs(t) /\ Landed(t) /\ (Plain(s) => Plain(t))
  BY <1>1 DEF Good, Beliefs, Landed, Plain
<1> QED
  BY <1>1, <1>2 DEF Touches, Good, t

\* A move writes its target and nothing else.
LEMMA MoveTouches ==
    ASSUME NEW s, Good(s), NEW to \in Reg, NEW from
    PROVE  Touches(s, emitMove(s, to, from), {to}) /\ emitMove(s, to, from).reg[to] = s.reg[from]
  BY WriteTouches DEF emitMove

\* The address of a frame word is built in R3, and its value comes to R0.
LEMMA SpillLoadTouches ==
    ASSUME NEW s, Good(s), NEW v, home[v] \in Slot
    PROVE  Touches(s, SpillLoad(s, v), {"r0", "r3"}) /\ SpillLoad(s, v).reg["r0"] = s.ram[home[v]]
<1> DEFINE w == Write(s, "r3", Junk)
           x == Write(w, "r0", s.ram[home[v]])
           t == [x EXCEPT !.at = home[v], !.latch = home[v]]
<1>0. "r0" \in Reg /\ "r3" \in Reg
  BY DEF Reg
<1>1. Touches(s, w, {"r3"})
  BY <1>0, WriteTouches
<1>2. Good(w)
  BY <1>1 DEF Touches
<1> HIDE DEF w
<1>3. Touches(w, x, {"r0"}) /\ x.reg["r0"] = s.ram[home[v]]
  BY <1>0, <1>2, WriteTouches
<1> HIDE DEF x
<1>4. Touches(s, x, {"r0", "r3"})
  BY <1>1, <1>3, TouchTwice
<1>5. Good(x)
  BY <1>4 DEF Touches
<1>6. /\ Machine(t) /\ t.acc = x.acc /\ t.latch = t.at
      /\ t.reg = x.reg /\ t.copies = x.copies /\ t.ram = x.ram
      /\ t.written = x.written /\ t.stack = x.stack /\ t.spare = x.spare /\ t.running = x.running
  BY <1>5 DEF Good, Machine
<1>7. SpillLoad(s, v) = t
  BY DEF SpillLoad, w, x
<1> HIDE DEF t
<1>8. Good(t) /\ (Plain(x) => Plain(t))
  BY <1>5, <1>6 DEF Good, Beliefs, Landed, Plain
<1> QED
  BY <1>3, <1>4, <1>6, <1>7, <1>8 DEF Touches

\* The frame word of a value is written, through R3 or by SBK.
LEMMA SpillStoreTouches ==
    ASSUME NEW s, Good(s), NEW v, home[v] \in Slot, NEW from \in Reg
    PROVE  /\ Touches(s, emitWordSpillStore(s, v, from), {"r3", home[v]})
           /\ emitWordSpillStore(s, v, from).ram[home[v]] = s.reg[from]
<1> DEFINE u == emitWordSpillStore(s, v, from)
           w == Write(s, "r3", Junk)
           sbk == [s EXCEPT !.ram[s.at] = s.reg[from]]
           stored == [w EXCEPT !.ram[home[v]] = s.reg[from], !.at = home[v], !.latch = home[v]]
<1>0. "r3" \in Reg /\ home[v] # None /\ home[v] \notin Value /\ home[v] \in Slot \cup Value
  BY Distinct DEF Reg
<1>1. u = IF s.latch = home[v] THEN sbk ELSE stored
  BY DEF emitWordSpillStore
<1>2. CASE s.latch = home[v]
  <2>1. s.at = home[v]
    BY <1>0, <1>2 DEF Good, Beliefs
  <2>2. /\ Machine(sbk) /\ sbk.ram = [s.ram EXCEPT ![home[v]] = s.reg[from]] /\ sbk.reg = s.reg
        /\ sbk.copies = s.copies /\ sbk.acc = s.acc /\ sbk.latch = s.latch /\ sbk.at = s.at
        /\ sbk.written = s.written /\ sbk.stack = s.stack /\ sbk.spare = s.spare /\ sbk.running = s.running
    BY <2>1 DEF Good, Machine
  <2>3. u = sbk
    BY <1>1, <1>2
  <2> HIDE DEF sbk, stored, u
  <2>4. \A l \in Slot \cup Value : sbk.ram[l] = IF l = home[v] THEN s.reg[from] ELSE s.ram[l]
    BY <2>2 DEF Good, Machine
  <2>5. Good(sbk) /\ (Plain(s) => Plain(sbk))
    BY <1>0, <2>2, <2>4 DEF Good, Beliefs, Landed, Plain
  <2>6. Touches(s, u, {"r3", home[v]}) /\ u.ram[home[v]] = s.reg[from]
    BY <1>0, <2>2, <2>3, <2>4, <2>5 DEF Touches
  <2> QED
    BY <2>6 DEF u
<1>3. CASE s.latch # home[v]
  <2>0. Touches(s, w, {"r3"}) /\ w.ram = s.ram
    BY <1>0, WriteTouches
  <2>00. Good(w)
    BY <2>0 DEF Touches
  <2>3. u = stored
    BY <1>1, <1>3
  <2> HIDE DEF w, u
  <2>2. /\ Machine(stored) /\ stored.ram = [w.ram EXCEPT ![home[v]] = s.reg[from]] /\ stored.reg = w.reg
        /\ stored.copies = w.copies /\ stored.acc = w.acc /\ stored.latch = stored.at
        /\ stored.written = w.written /\ stored.stack = w.stack /\ stored.spare = w.spare
        /\ stored.running = w.running
    BY <2>00 DEF Good, Machine
  <2> HIDE DEF stored
  <2>4. \A l \in Slot \cup Value : stored.ram[l] = IF l = home[v] THEN s.reg[from] ELSE w.ram[l]
    BY <2>00, <2>2 DEF Good, Machine
  <2>5. Good(stored) /\ (Plain(w) => Plain(stored))
    BY <1>0, <2>00, <2>2, <2>4 DEF Good, Beliefs, Landed, Plain
  <2>6. Touches(s, u, {"r3", home[v]}) /\ u.ram[home[v]] = s.reg[from]
    BY <1>0, <2>0, <2>2, <2>3, <2>4, <2>5 DEF Touches
  <2> QED
    BY <2>6 DEF u
<1> QED
  BY <1>2, <1>3

\* The register chosen for a copy is a spare one.
LEMMA ChosenSpare ==
    ASSUME NEW s, Choosable(s) # {}
    PROVE  Choose(s) \in s.spare
<1>1. Choosable(s) \subseteq 1 .. 3
  BY DEF Choosable
<1>2. \E n \in Choosable(s) : \A m \in Choosable(s) : n <= m
  <2>1. CASE 1 \in Choosable(s)
    BY <1>1, <2>1
  <2>2. CASE 1 \notin Choosable(s) /\ 2 \in Choosable(s)
    BY <1>1, <2>2
  <2>3. CASE 1 \notin Choosable(s) /\ 2 \notin Choosable(s)
    BY <1>1, <2>3
  <2> QED
    BY <2>1, <2>2, <2>3
<1> DEFINE n == CHOOSE n \in Choosable(s) : \A m \in Choosable(s) : n <= m
<1>3. n \in Choosable(s)
  BY <1>2
<1>4. Choose(s) = CacheOrder[n]
  BY DEF Choose
<1> HIDE DEF n
<1> QED
  BY <1>3, <1>4 DEF Choosable

\* What R0 holds may be copied to a spare register.
LEMMA RetainTouches ==
    ASSUME NEW s, Good(s), NEW v, s.reg["r0"] = v, s.spare \subseteq Cache, NEW least
    PROVE  Touches(s, retainSpillCopy(s, v, least), {})
<1> DEFINE c == Choose(s)
           w == emitMove(s, c, "r0")
           t == [w EXCEPT !.copies[c] = v]
           u == retainSpillCopy(s, v, least)
<1>1. CASE u = s
  BY <1>1 DEF Touches
<1>2. CASE u # s
  <2>1. Choosable(s) # {} /\ u = t
    BY <1>2 DEF retainSpillCopy
  <2>2. c \in s.spare /\ c \in Cache /\ c \in Reg
    BY <2>1, ChosenSpare DEF Cache, Reg
  <2> HIDE DEF c, u
  <2>3. Touches(s, w, {c}) /\ w.reg[c] = v
    BY <2>2, MoveTouches
  <2>4. Good(w)
    BY <2>3 DEF Touches
  <2> HIDE DEF w
  <2>5. /\ Machine(t) /\ t.copies = [w.copies EXCEPT ![c] = v] /\ t.reg = w.reg /\ t.acc = w.acc
        /\ t.latch = w.latch /\ t.at = w.at /\ t.ram = w.ram
        /\ t.written = w.written /\ t.stack = w.stack /\ t.spare = w.spare /\ t.running = w.running
    BY <2>4 DEF Good, Machine
  <2> HIDE DEF t
  <2>6. \A r \in Reg : t.copies[r] = IF r = c THEN v ELSE w.copies[r]
    BY <2>4, <2>5 DEF Good, Machine
  <2>7. Good(t)
    BY <2>2, <2>3, <2>4, <2>5, <2>6 DEF Good, Beliefs, Landed
  <2>8. ~Plain(s)
    BY <2>2 DEF Plain
  <2>9. Touches(s, t, {})
    BY <2>2, <2>3, <2>5, <2>7, <2>8, Distinct DEF Touches
  <2> QED
    BY <2>1, <2>9 DEF u
<1> QED
  BY <1>1, <1>2

\* A value at home is brought to R0.
LEMMA MaterializeTouches ==
    ASSUME NEW s, Good(s), s.spare \subseteq Cache, NEW v \in Value, AtHome(s, v), Homed
    PROVE  Touches(s, materialize(s, v), {"r0", "r3"}) /\ materialize(s, v).reg["r0"] = v
<1> DEFINE r == CHOOSE r \in Find(s, v) : TRUE
           l == SpillLoad(s, v)
           x == IF home[v] = Constant THEN Write(s, "r0", v)
                ELSE IF InReg(v) THEN emitMove(s, "r0", home[v])
                ELSE IF Find(s, v) # {} THEN emitMove(s, "r0", r)
                ELSE retainSpillCopy(l, v, 1)
<1>0. "r0" \in Reg /\ "r0" \notin Cache /\ v # None
  BY Distinct DEF Reg, Cache
<1>1. materialize(s, v) = IF s.acc = v THEN s ELSE Snapshot(x, v)
  BY DEF materialize
<1>2. CASE s.acc = v
  <2>1. s.reg["r0"] = v
    BY <1>0, <1>2 DEF Good, Beliefs
  <2> QED
    BY <1>1, <1>2, <2>1 DEF Touches
<1>3. CASE s.acc # v
  <2>1. Touches(s, x, {"r0", "r3"}) /\ x.reg["r0"] = v
    <3>1. CASE home[v] = Constant
      <4>1. Touches(s, x, {"r0"}) /\ x.reg["r0"] = v
        BY <1>0, <3>1, WriteTouches
      <4> QED
        BY <4>1 DEF Touches
    <3>2. CASE home[v] # Constant /\ InReg(v)
      <4>0. x = emitMove(s, "r0", home[v])
        BY <3>2
      <4> HIDE DEF x
      <4>1. Touches(s, x, {"r0"}) /\ x.reg["r0"] = s.reg[home[v]]
        BY <1>0, <4>0, MoveTouches
      <4> QED
        BY <3>2, <4>1 DEF Touches, AtHome, InReg
    <3>3. CASE home[v] # Constant /\ ~InReg(v) /\ Find(s, v) # {}
      <4>1. r \in Find(s, v)
        BY <3>3
      <4>2. Touches(s, x, {"r0"}) /\ x.reg["r0"] = s.reg[r]
        BY <1>0, <3>3, MoveTouches
      <4> HIDE DEF r, x
      <4>3. s.reg[r] = v
        BY <1>0, <4>1 DEF Find, Good, Beliefs
      <4> QED
        BY <4>2, <4>3 DEF Touches
    <3>4. CASE home[v] # Constant /\ ~InReg(v) /\ Find(s, v) = {}
      <4>1. home[v] \in Slot /\ s.ram[home[v]] = v
        BY <3>4 DEF Homed, InReg, AtHome, Reg
      <4>2. Touches(s, l, {"r0", "r3"}) /\ l.reg["r0"] = v
        BY <4>1, SpillLoadTouches
      <4>3. x = retainSpillCopy(l, v, 1)
        BY <3>4
      <4> HIDE DEF l, x
      <4>4. Good(l) /\ l.spare = s.spare
        BY <4>2 DEF Touches
      <4>5. Touches(l, x, {})
        BY <4>2, <4>3, <4>4, RetainTouches
      <4>6. x.reg["r0"] = v
        BY <1>0, <4>2, <4>4, <4>5 DEF Touches
      <4> QED
        BY <4>2, <4>5, <4>6, TouchTwice
    <3> QED
      BY <3>1, <3>2, <3>3, <3>4
  <2> HIDE DEF x
  <2>2. Good(x)
    BY <2>1 DEF Touches
  <2>3. Touches(x, Snapshot(x, v), {}) /\ Snapshot(x, v).reg = x.reg
    BY <2>1, <2>2, SnapshotTouches
  <2> QED
    BY <1>1, <1>3, <2>1, <2>3, TouchTwice
<1> QED
  BY <1>2, <1>3

\* The value in R0 goes to its home.
LEMMA DefineTouches ==
    ASSUME NEW s, Good(s), s.spare \subseteq Cache, NEW v \in Value, s.reg["r0"] = v, Homed,
           home[v] # Constant, home[v] \notin s.spare
    PROVE  Touches(s, Define(s, v), {"r3", home[v]}) /\ AtHome(Define(s, v), v)
<1> DEFINE w == emitWordSpillStore(s, v, "r0")
           x == IF InReg(v) THEN emitMove(s, home[v], "r0") ELSE retainSpillCopy(w, v, 2)
<1>0. "r0" \in Reg /\ "r0" # "r3" /\ "r0" \notin Cache /\ "r0" # home[v]
  BY Distinct DEF Reg, Cache, Homed
<1>1. Define(s, v) = Snapshot(x, v)
  BY DEF Define
<1>2. Touches(s, x, {"r3", home[v]}) /\ AtHome(x, v)
  <2>1. CASE InReg(v)
    <3>1. Touches(s, x, {home[v]}) /\ x.reg[home[v]] = v
      BY <1>0, <2>1, MoveTouches DEF InReg
    <3> HIDE DEF x
    <3>2. AtHome(x, v)
      BY <2>1, <3>1, Distinct DEF AtHome, InReg
    <3> QED
      BY <3>1, <3>2 DEF Touches
  <2>2. CASE ~InReg(v)
    <3>1. home[v] \in Slot
      BY <2>2 DEF Homed, InReg, Reg
    <3>2. Touches(s, w, {"r3", home[v]}) /\ w.ram[home[v]] = v
      BY <1>0, <3>1, SpillStoreTouches
    <3>3. x = retainSpillCopy(w, v, 2)
      BY <2>2
    <3> HIDE DEF w, x
    <3>4. Good(w) /\ w.spare = s.spare /\ w.reg["r0"] = v
      BY <1>0, <3>2 DEF Touches
    <3>5. Touches(w, x, {})
      BY <3>3, <3>4, RetainTouches
    <3>6. AtHome(x, v)
      BY <3>1, <3>2, <3>5, Distinct DEF Touches, AtHome
    <3> QED
      BY <3>2, <3>5, <3>6, TouchTwice
  <2> QED
    BY <2>1, <2>2
<1> HIDE DEF x
<1>3. Good(x) /\ x.reg["r0"] = v
  BY <1>0, <1>2 DEF Touches
<1>4. Touches(x, Snapshot(x, v), {}) /\ Snapshot(x, v).reg = x.reg /\ Snapshot(x, v).ram = x.ram
  BY <1>3, SnapshotTouches
<1>5. Touches(s, Snapshot(x, v), {"r3", home[v]})
  BY <1>2, <1>4, TouchTwice
<1> QED
  BY <1>1, <1>2, <1>4, <1>5 DEF AtHome

\* The word at an address is written: its value and nothing of the frame.
LEMMA StoreWordTouches ==
    ASSUME NEW s, Good(s), NEW p \in Reg, NEW q \in Reg, NEW a \in Value, NEW v \in Value,
           s.reg[p] = a, s.reg[q] = v
    PROVE  Touches(s, StoreWord(s, p, q, a, v), {})
<1> DEFINE t == StoreWord(s, p, q, a, v)
<1>1. /\ Machine(t) /\ t.ram = [s.ram EXCEPT ![a] = v] /\ t.written = [s.written EXCEPT ![a] = v]
      /\ t.latch = a /\ t.at = a /\ t.acc = None /\ t.reg = s.reg /\ t.copies = s.copies
      /\ t.stack = s.stack /\ t.spare = s.spare /\ t.running = s.running
  BY DEF StoreWord, Good, Machine
<1> HIDE DEF t
<1>2. /\ \A l \in Slot \cup Value : t.ram[l] = IF l = a THEN v ELSE s.ram[l]
      /\ \A l \in Value : t.written[l] = IF l = a THEN v ELSE s.written[l]
  BY <1>1 DEF Good, Machine
<1>3. Good(t) /\ (Plain(s) => Plain(t))
  BY <1>1, <1>2 DEF Good, Beliefs, Landed, Plain
<1> QED
  BY <1>1, <1>2, <1>3, Distinct DEF Touches, t

\* SBK writes the word whose address the latch holds.
LEMMA StoreBackTouches ==
    ASSUME NEW s, Good(s), NEW q \in Reg, NEW a \in Value, NEW v \in Value, s.latch = a, s.reg[q] = v
    PROVE  Touches(s, [s EXCEPT !.ram[s.at] = s.reg[q], !.acc = None, !.written[a] = v], {})
<1> DEFINE t == [s EXCEPT !.ram[s.at] = s.reg[q], !.acc = None, !.written[a] = v]
<1>0. s.at = a
  BY Distinct DEF Good, Beliefs
<1>1. /\ Machine(t) /\ t.ram = [s.ram EXCEPT ![a] = v] /\ t.written = [s.written EXCEPT ![a] = v]
      /\ t.latch = s.latch /\ t.at = s.at /\ t.acc = None /\ t.reg = s.reg /\ t.copies = s.copies
      /\ t.stack = s.stack /\ t.spare = s.spare /\ t.running = s.running
  BY <1>0 DEF Good, Machine
<1> HIDE DEF t
<1>2. /\ \A l \in Slot \cup Value : t.ram[l] = IF l = a THEN v ELSE s.ram[l]
      /\ \A l \in Value : t.written[l] = IF l = a THEN v ELSE s.written[l]
  BY <1>1 DEF Good, Machine
<1>3. Good(t) /\ (Plain(s) => Plain(t))
  BY <1>1, <1>2 DEF Good, Beliefs, Landed, Plain
<1> QED
  BY <1>1, <1>2, <1>3, Distinct DEF Touches, t

\* A store through a pointer: both operands are at home.
LEMMA StoreTouches ==
    ASSUME NEW s, Good(s), s.spare \subseteq Cache, NEW a \in Value, NEW v \in Value,
           AtHome(s, a), AtHome(s, v), home[a] \notin s.spare, home[v] \notin s.spare, Homed
    PROVE  Touches(s, emitStoreIndirect(s, a, v), {"r0", "r3", "r6"})
<1> DEFINE s1 == IF InReg(v) THEN s ELSE materialize(s, v)
           s2 == IF InReg(v) THEN s1 ELSE emitMove(s1, "r6", "r0")
           q == IF InReg(v) THEN home[v] ELSE "r0"
           q6 == IF InReg(v) THEN home[v] ELSE "r6"
           W == {"r0", "r3", "r6"}
<1>0. /\ {"r0", "r3", "r6"} \subseteq Reg /\ {"r0", "r3", "r6"} \cap Cache = {}
      /\ home[v] \notin W /\ home[a] \notin W
  <2>1. {"r0", "r3", "r6"} \subseteq Reg /\ {"r0", "r3", "r6"} \cap Cache = {}
    BY DEF Reg, Cache
  <2>2. \A x \in Value : home[x] \notin W
    BY <2>1, Distinct DEF Homed, Constant
  <2> QED
    BY <2>1, <2>2
<1>1. emitStoreIndirect(s, a, v) =
        IF s1.latch = a THEN [s1 EXCEPT !.ram[s1.at] = s1.reg[q], !.acc = None, !.written[a] = v]
        ELSE IF InReg(a) THEN StoreWord(s1, home[a], q, a, v)
        ELSE StoreWord(materialize(s2, a), "r0", q6, a, v)
  BY DEF emitStoreIndirect
<1>2. Touches(s, s1, W) /\ s1.reg[q] = v /\ q \in Reg
  <2>1. CASE InReg(v)
    BY <2>1 DEF InReg, AtHome, Touches
  <2>2. CASE ~InReg(v)
    <3>1. Touches(s, s1, {"r0", "r3"}) /\ s1.reg["r0"] = v
      BY <2>2, MaterializeTouches
    <3> HIDE DEF s1
    <3> QED
      BY <1>0, <2>2, <3>1 DEF Touches
  <2> QED
    BY <2>1, <2>2
<1>3. Good(s1) /\ s1.spare = s.spare
  BY <1>2 DEF Touches
<1>4. Touches(s, s2, W) /\ s2.reg[q6] = v /\ q6 \in Reg /\ q6 \notin s.spare /\ q6 \notin {"r0", "r3"}
  <2>1. CASE InReg(v)
    BY <1>0, <1>2, <2>1 DEF InReg, AtHome
  <2>2. CASE ~InReg(v)
    <3>0. q = "r0" /\ q6 = "r6"
      BY <2>2
    <3> HIDE DEF s1
    <3>1. s2 = emitMove(s1, "r6", "r0")
      BY <2>2
    <3> HIDE DEF s2
    <3>2. Touches(s1, s2, {"r6"}) /\ s2.reg["r6"] = v
      BY <1>0, <1>2, <1>3, <3>0, <3>1, MoveTouches
    <3>3. Touches(s, s2, W)
      BY <1>2, <3>2, TouchTwice
    <3>4. "r6" \notin s.spare
      BY <1>0
    <3> QED
      BY <1>0, <3>0, <3>2, <3>3, <3>4
  <2> QED
    BY <2>1, <2>2
<1> HIDE DEF s1, s2, q, q6, W
<1>5. /\ Good(s2) /\ s2.spare = s.spare /\ AtHome(s1, a) /\ AtHome(s2, a)
  BY <1>0, <1>2, <1>4, Distinct DEF Touches, AtHome, W
<1>6. CASE s1.latch = a
  <2>1. Touches(s1, [s1 EXCEPT !.ram[s1.at] = s1.reg[q], !.acc = None, !.written[a] = v], {})
    BY <1>2, <1>3, <1>6, StoreBackTouches
  <2> QED
    BY <1>1, <1>2, <1>6, <2>1, TouchTwice DEF W
<1>7. CASE s1.latch # a /\ InReg(a)
  <2>1. Touches(s1, StoreWord(s1, home[a], q, a, v), {})
    BY <1>2, <1>3, <1>5, <1>7, StoreWordTouches DEF InReg, AtHome
  <2> QED
    BY <1>1, <1>2, <1>7, <2>1, TouchTwice DEF W
<1>8. CASE s1.latch # a /\ ~InReg(a)
  <2> DEFINE m == materialize(s2, a)
  <2>1. Touches(s2, m, {"r0", "r3"}) /\ m.reg["r0"] = a
    BY <1>5, MaterializeTouches
  <2> HIDE DEF m
  <2>2. Good(m) /\ m.reg[q6] = v
    BY <1>4, <1>5, <2>1 DEF Touches
  <2>3. Touches(m, StoreWord(m, "r0", q6, a, v), {})
    BY <1>0, <1>4, <2>1, <2>2, StoreWordTouches
  <2>4. Touches(s, m, W)
    BY <1>4, <2>1, TouchTwice DEF W
  <2>5. Touches(s, StoreWord(m, "r0", q6, a, v), W)
    BY <2>3, <2>4, TouchTwice
  <2> QED
    BY <1>1, <1>8, <2>5 DEF m, W
<1> QED
  BY <1>6, <1>7, <1>8

\* A check leaves the values alone, or stops the machine.
LEMMA GuardTouches ==
    ASSUME NEW s, Good(s), NEW n
    PROVE  LET g == emitStackGuard(s, n) IN
           /\ Machine(g) /\ Landed(g) /\ g.spare = s.spare
           /\ g.running => Touches(s, g, {"r3"}) /\ \A q \in Reg : q # "r3" => g.reg[q] = s.reg[q]
<1> DEFINE w == Write(s, "r3", Junk)
           c == IF n > MaxCredit THEN MaxCredit ELSE n
           t == [w EXCEPT !.acc = None, !.credit = c]
           h == [s EXCEPT !.running = FALSE]
           g == emitStackGuard(s, n)
<1>1. g = IF n <= s.credit THEN s ELSE IF s.margin < n THEN h ELSE t
  BY DEF emitStackGuard
<1>2. Touches(s, s, {"r3"})
  BY DEF Touches
<1>3. Machine(h) /\ Landed(h) /\ h.running = FALSE /\ h.spare = s.spare
  BY DEF Good, Machine, Landed
<1>4. Touches(s, w, {"r3"}) /\ \A q \in Reg : q # "r3" => w.reg[q] = s.reg[q]
  BY WriteTouches DEF Reg
<1>5. Good(w)
  BY <1>4 DEF Touches
<1> HIDE DEF w, c
<1>6. /\ Machine(t) /\ t.acc = None /\ t.copies = w.copies
      /\ t.reg = w.reg /\ t.ram = w.ram /\ t.latch = w.latch
      /\ t.at = w.at /\ t.written = w.written /\ t.stack = w.stack /\ t.spare = w.spare /\ t.running = w.running
  BY <1>5 DEF Good, Machine
<1> HIDE DEF t, h, g
<1>7. Good(t) /\ (Plain(w) => Plain(t))
  BY <1>5, <1>6 DEF Good, Beliefs, Landed, Plain
<1>8. Touches(s, t, {"r3"})
  BY <1>4, <1>6, <1>7 DEF Touches
<1>9. /\ Machine(g) /\ Landed(g) /\ g.spare = s.spare
      /\ g.running => Touches(s, g, {"r3"}) /\ \A q \in Reg : q # "r3" => g.reg[q] = s.reg[q]
  BY <1>1, <1>2, <1>3, <1>4, <1>6, <1>8 DEF Touches, Good
<1> QED
  BY <1>9 DEF g

\* Moving the stack pointer drops what depends on it.
LEMMA ResizeMoves ==
    ASSUME NEW s, Good(s), NEW k, NEW m, NEW c
    PROVE  LET t == Resize(s, k, m, c) IN
           Good(t) /\ t.stack = k /\ t.reg = s.reg /\ t.ram = s.ram /\ t.spare = s.spare
           /\ t.running = s.running /\ t.copies = s.copies
<1> DEFINE t == Resize(s, k, m, c)
<1>1. /\ Machine(t) /\ t.acc = None /\ t.copies = s.copies
      /\ t.reg = s.reg /\ t.ram = s.ram /\ t.latch = None
      /\ t.written = s.written /\ t.stack = k /\ t.spare = s.spare /\ t.running = s.running
  BY DEF Resize, Good, Machine
<1> HIDE DEF t
<1>2. Good(t)
  BY <1>1 DEF Good, Beliefs, Landed
<1> QED
  BY <1>1, <1>2 DEF t

-----------------------------------------------------------------------------
\* What is known at a point of the emission: contents of registers outside the
\* cache, the stack, the values at home, and whether the cache is empty.
Annotation ==
    [regs : SUBSET ((Reg \ Cache) \X Word), stack : Seq(Word), live : SUBSET Value, plain : BOOLEAN]

Holds(s, F) ==
    /\ \A p \in F.regs : s.reg[p[1]] = p[2]
    /\ s.stack = F.stack
    /\ \A v \in F.live : AtHome(s, v)
    /\ F.plain => Plain(s)

Knows(F, r, x) == <<r, x>> \in F.regs \/ (x \in F.live /\ home[x] = r)

\* After an operation that writes W, new facts and new values at home aside.
Carries(F, G, W, facts, values) ==
    /\ \A r, x : <<r, x>> \in G.regs => (<<r, x>> \in F.regs /\ r \notin W) \/ <<r, x>> \in facts
    /\ \A v \in G.live : (v \in F.live /\ home[v] \notin W) \/ v \in values
Keeps(F, G, W, facts, values) ==
    Carries(F, G, W, facts, values) /\ G.stack = F.stack /\ (G.plain => F.plain)

\* From s to t with the stack k: only W and the registers no value owns change.
Turns(s, t, W, k) ==
    /\ Good(t) /\ t.spare \subseteq Unowned
    /\ \A r \in Reg : r \notin W /\ r \notin Unowned => t.reg[r] = s.reg[r]
    /\ \A l \in Slot : l \notin W => t.ram[l] = s.ram[l]
    /\ t.stack = k

\* A change that stays in W, seen from the instruction being emitted.
LEMMA TouchTurns ==
    ASSUME NEW s, NEW t, NEW W, Touches(s, t, W), s.spare \subseteq Unowned
    PROVE  Turns(s, t, W, s.stack) /\ (Plain(s) => Plain(t))
  BY DEF Touches, Turns

\* Registers no value owns are cache registers.
LEMMA UnownedCache == Unowned \subseteq Cache
<1>1. {CacheOrder[n] : n \in 1 .. 3} = Cache
  <2>1. 1 .. 3 = {1, 2, 3}
    OBVIOUS
  <2>2. CacheOrder[1] = "r5" /\ CacheOrder[2] = "r7" /\ CacheOrder[3] = "r8"
    BY DEF CacheOrder
  <2> QED
    BY <2>1, <2>2 DEF Cache
<1> QED
  BY <1>1 DEF Unowned, spareRegisters

\* What G says holds after a change of W: old facts outside W, new facts as given.
LEMMA TurnHolds ==
    ASSUME NEW s, NEW t, NEW W, NEW F \in Annotation, NEW G \in Annotation, NEW facts, NEW values,
           Holds(s, F), Turns(s, t, W, G.stack), Carries(F, G, W, facts, values),
           G.live \subseteq Busy(body, Here),
           \A r, x : <<r, x>> \in facts /\ <<r, x>> \in G.regs => t.reg[r] = x,
           \A v \in values : v \in G.live => AtHome(t, v),
           G.plain => Plain(t)
    PROVE  Holds(t, G)
<1>0. \A v \in G.live : home[v] \notin Unowned
  BY DEF Unowned, spareRegisters
<1>1. ASSUME NEW p \in G.regs PROVE t.reg[p[1]] = p[2]
  <2>1. PICK r \in Reg \ Cache, x \in Word : p = <<r, x>>
    BY DEF Annotation
  <2>2. r \in Reg /\ r \notin Unowned
    BY UnownedCache
  <2>3. p[1] = r /\ p[2] = x
    BY <2>1
  <2>4. t.reg[r] = x
    <3>1. CASE p \in facts
      BY <2>1, <3>1
    <3>2. CASE p \notin facts
      <4>1. p \in F.regs /\ r \notin W
        BY <2>1, <3>2 DEF Carries
      <4>2. s.reg[r] = x
        BY <4>1, <2>3 DEF Holds
      <4> QED
        BY <4>1, <4>2, <2>2 DEF Turns
    <3> QED
      BY <3>1, <3>2
  <2> QED
    BY <2>3, <2>4
<1>2. ASSUME NEW v \in G.live PROVE AtHome(t, v)
  <2>1. CASE v \in values
    BY <2>1
  <2>2. CASE v \notin values
    <3>1. AtHome(s, v) /\ home[v] \notin W
      BY <2>2 DEF Carries, Holds
    <3> QED
      BY <1>0, <3>1 DEF Turns, AtHome
  <2> QED
    BY <2>1, <2>2
<1> QED
  BY <1>1, <1>2 DEF Holds, Turns

\* What is known of a register is in it.
LEMMA KnownHeld ==
    ASSUME NEW s, NEW F, NEW r \in Reg, NEW x, Holds(s, F), Knows(F, r, x)
    PROVE  s.reg[r] = x
  BY DEF Holds, Knows, AtHome

\* A push leaves every value where it is, or stops the machine.
LEMMA PushTurns ==
    ASSUME NEW s, Good(s), s.spare \subseteq Unowned, NEW r \in Reg \ {"r3"}
    PROVE  LET t == emitPush(s, r) IN
           /\ Machine(t) /\ Landed(t) /\ t.spare = s.spare
           /\ t.running => /\ Turns(s, t, {"r3"}, Append(s.stack, t.reg[r])) /\ t.reg[r] = s.reg[r]
                           /\ (Plain(s) => Plain(t))
<1> DEFINE g == emitStackGuard(s, 2)
           t == emitPush(s, r)
           u == Resize(g, Append(g.stack, g.reg[r]), g.margin - 2, decrease(g.credit, 2))
<1>1. /\ Machine(g) /\ Landed(g) /\ g.spare = s.spare
      /\ g.running => Touches(s, g, {"r3"}) /\ \A q \in Reg : q # "r3" => g.reg[q] = s.reg[q]
  BY GuardTouches
<1>2. t = IF g.running THEN u ELSE g
  BY DEF emitPush
<1> HIDE DEF g, t
<1>3. CASE ~g.running
  BY <1>1, <1>2, <1>3 DEF t
<1>4. CASE g.running
  <2>1. Good(g) /\ g.running = s.running
    BY <1>1, <1>4 DEF Touches
  <2>2. PICK m, c : u = Resize(g, Append(g.stack, g.reg[r]), m, c)
    OBVIOUS
  <2> HIDE DEF u
  <2>3. /\ Good(u) /\ u.stack = Append(g.stack, g.reg[r]) /\ u.reg = g.reg /\ u.ram = g.ram
        /\ u.spare = g.spare /\ u.running = g.running /\ u.copies = g.copies
    <3> DEFINE k == Append(g.stack, g.reg[r])
    <3> HIDE DEF k
    <3>1. LET z == Resize(g, k, m, c) IN
          Good(z) /\ z.stack = k /\ z.reg = g.reg /\ z.ram = g.ram /\ z.spare = g.spare
          /\ z.running = g.running /\ z.copies = g.copies
      BY <2>1, ResizeMoves
    <3> QED
      BY <2>2, <3>1 DEF k
  <2>4. Turns(s, u, {"r3"}, Append(s.stack, u.reg[r])) /\ u.reg[r] = s.reg[r] /\ (Plain(s) => Plain(u))
    BY <1>1, <1>4, <2>3 DEF Turns, Touches, Plain
  <2>5. t = u /\ Machine(u) /\ Landed(u) /\ u.spare = s.spare
    BY <1>1, <1>2, <1>4, <2>3 DEF Good
  <2> QED
    BY <2>4, <2>5 DEF t
<1> QED
  BY <1>3, <1>4

\* A pop brings the top of the stack to its register.
LEMMA PopMoves ==
    ASSUME NEW s, Good(s), s.spare \subseteq Unowned, NEW r \in Reg
    PROVE  LET t == emitPop(s, r) IN
           /\ (Plain(s) => Plain(t))
           /\ Turns(s, t, {r}, SubSeq(s.stack, 1, Len(s.stack) - 1)) /\ t.reg[r] = s.stack[Len(s.stack)]
<1> DEFINE x == s.stack[Len(s.stack)]
           n == SubSeq(s.stack, 1, Len(s.stack) - 1)
           t == emitPop(s, r)
<1>4. PICK m, c : t = Resize(Write(s, r, x), n, m, c)
  BY DEF emitPop
<1> HIDE DEF x, n, t
<1> DEFINE w == Write(s, r, x)
<1>2. Touches(s, w, {r}) /\ w.reg[r] = x
  BY WriteTouches
<1> HIDE DEF w
<1>3. Good(w)
  BY <1>2 DEF Touches
<1>5. /\ Good(t) /\ t.stack = n /\ t.reg = w.reg /\ t.ram = w.ram
      /\ t.spare = w.spare /\ t.running = w.running /\ t.copies = w.copies
  <2>1. LET z == Resize(w, n, m, c) IN
        Good(z) /\ z.stack = n /\ z.reg = w.reg /\ z.ram = w.ram /\ z.spare = w.spare
        /\ z.running = w.running /\ z.copies = w.copies
    BY <1>3, ResizeMoves
  <2> QED
    BY <2>1, <1>4 DEF w
<1>6. Turns(s, t, {r}, n) /\ t.reg[r] = x /\ (Plain(s) => Plain(t))
  BY <1>2, <1>5 DEF Turns, Touches, Plain
<1> QED
  BY <1>6 DEF t, x, n

\* A pop brings the word last pushed.
LEMMA PopTurns ==
    ASSUME NEW s, Good(s), s.spare \subseteq Unowned, NEW r \in Reg, NEW k \in Seq(Word), NEW x \in Word,
           s.stack = Append(k, x)
    PROVE  (Plain(s) => Plain(emitPop(s, r))) /\ Turns(s, emitPop(s, r), {r}, k) /\ emitPop(s, r).reg[r] = x
<1>1. s.stack[Len(s.stack)] = x /\ SubSeq(s.stack, 1, Len(s.stack) - 1) = k
  <2>1. Len(s.stack) = Len(k) + 1 /\ s.stack[Len(k) + 1] = x /\ Len(k) \in Nat
    BY AppendProperties, LenProperties
  <2>2. SubSeq(Append(k, x), 1, Len(k)) = k
    BY <2>1, AppendProperties, LenProperties, SubSeqProperties, SeqEqual
  <2> QED
    BY <2>1, <2>2
<1> QED
  BY <1>1, PopMoves

-----------------------------------------------------------------------------
\* What an operation asks of the point before it, and what holds after it.
SafeUse(o, F, G) == o.a \in F.live /\ Keeps(F, G, {"r0", "r3"}, {<<"r0", o.a>>}, {})
SafeMove(o, F, G) ==
    o.a \in Reg /\ o.b \in Reg /\ Keeps(F, G, {o.a}, {<<o.a, x>> : x \in {x \in Word : Knows(F, o.b, x)}}, {})
SafeScratch(o, F, G) == o.a \in Reg /\ Keeps(F, G, {o.a}, {<<o.a, Junk>>}, {})
SafeRead(o, F, G) == Keeps(F, G, {}, {}, {})
SafeResult(o, F, G) == Keeps(F, G, {"r0"}, {<<"r0", o.a>>}, {})
SafeDirect(o, F, G) == o.a \in Value /\ home[o.a] \in Reg /\ Keeps(F, G, {home[o.a]}, {}, {o.a})
SafeDefine(i, o, F, G) ==
    /\ o.a \in Value /\ home[o.a] # Constant /\ o.a \in Busy(body, i) /\ Knows(F, "r0", o.a)
    /\ Keeps(F, G, {"r3", home[o.a]}, {}, {o.a})
SafePush(o, F, G) ==
    /\ o.a \in Reg \ {"r3"} /\ \E x \in Word : Knows(F, o.a, x) /\ G.stack = Append(F.stack, x)
    /\ Carries(F, G, {"r3"}, {}, {}) /\ (G.plain => F.plain)
SafePop(o, F, G) ==
    /\ o.a \in Reg
    /\ \E x \in Word : /\ F.stack = Append(G.stack, x)
                       /\ Carries(F, G, {o.a}, {<<o.a, x>>}, {v \in Value : v = x /\ home[v] = o.a})
    /\ G.plain => F.plain
SafeClear(o, F, G) == G.stack = F.stack /\ Carries(F, G, {}, {}, {})
SafeFence(o, F, G) == Keeps(F, G, {}, {}, {}) /\ (o.n > 0 => Len(F.stack) = o.n)
SafeLoad(o, F, G) ==
    o.a \in Value /\ o.b \in Reg /\ Keeps(F, G, {o.b}, {<<o.b, o.a>>}, {v \in Value : v = o.a /\ home[v] = o.b})
SafeStore(o, F, G) == o.a \in F.live /\ o.b \in F.live /\ Keeps(F, G, {"r0", "r3", "r6"}, {}, {})
SafeDrop(i, o, F, G) ==
    /\ G.stack = SubSeq(F.stack, 1, Len(F.stack) - Len(body.code[i].args))
    /\ Carries(F, G, {}, {}, {}) /\ (G.plain => F.plain)
SafeLabel(o, F, G) == G.stack = F.stack /\ Carries(F, G, IF o.a = None THEN {"r0"} ELSE {}, {}, {})
SafeCapacity(o, F, G) == Keeps(F, G, {"r3"}, {}, {})
SafeUnwind(o, F, G) == G.stack = SubSeq(F.stack, 1, 2) /\ Carries(F, G, {}, {}, {}) /\ (G.plain => F.plain)
Clobbered(o) == o.regs \cup {"r0", "r1", "r3", "r6", "r11"}
SafeCall(i, o, F, G) ==
    /\ F.plain /\ G.stack = F.stack
    /\ \A k \in 1 .. o.n : F.stack[Len(F.stack) + 1 - k] = body.code[i].args[k]
    /\ Carries(F, G, Clobbered(o),
               (IF o.a = None THEN {} ELSE {<<"r0", o.a>>}) \cup {<<r, Junk>> : r \in Clobbered(o) \ {"r0"}}, {})

\* The point of instruction i before operation o holds F: it is safe, and G
\* holds after it.
Safe(i, o, F, G) ==
    /\ F.live \subseteq Busy(body, i) /\ G.live \subseteq Busy(body, i)
    /\ \A r, x : <<r, x>> \in o.needs => r \in Reg /\ Knows(F, r, x)
    /\ o.needs \subseteq Reg \X (Word \cup {None})
    /\ o.k = "use" => SafeUse(o, F, G)
    /\ o.k = "move" => SafeMove(o, F, G)
    /\ o.k = "scratch" => SafeScratch(o, F, G)
    /\ o.k = "read" => SafeRead(o, F, G)
    /\ o.k = "result" => SafeResult(o, F, G)
    /\ o.k = "direct" => SafeDirect(o, F, G)
    /\ o.k = "define" => SafeDefine(i, o, F, G)
    /\ o.k = "push" => SafePush(o, F, G)
    /\ o.k = "pop" => SafePop(o, F, G)
    /\ o.k = "clear" => SafeClear(o, F, G)
    /\ o.k = "fence" => SafeFence(o, F, G)
    /\ o.k = "load" => SafeLoad(o, F, G)
    /\ o.k = "store" => SafeStore(o, F, G)
    /\ o.k = "drop" => SafeDrop(i, o, F, G)
    /\ o.k = "label" => SafeLabel(o, F, G)
    /\ o.k = "capacity" => SafeCapacity(o, F, G)
    /\ o.k = "unwind" => SafeUnwind(o, F, G)
    /\ o.k = "call" => SafeCall(i, o, F, G)

Sits(F, G) ==
    /\ Homed /\ Good(st) /\ Honest(st) /\ st.spare \subseteq Unowned /\ Holds(st, F)
    /\ F.live \subseteq Busy(body, Here) /\ G.live \subseteq Busy(body, Here)
Outcome(t, G) ==
    /\ Machine(t) /\ Landed(t)
    /\ t.running => Good(t) /\ t.spare \subseteq Unowned /\ Holds(t, G)

\* What may be used of the point before an operation.
LEMMA LiveFacts ==
    ASSUME NEW F \in Annotation, NEW G \in Annotation, Sits(F, G)
    PROVE  /\ \A v \in F.live : v \in Value /\ AtHome(st, v) /\ home[v] \notin st.spare
           /\ \A v \in Busy(body, Here) : home[v] \notin Unowned
           /\ st.spare \subseteq Cache
           /\ F.stack \in Seq(Word) /\ G.stack \in Seq(Word) /\ st.stack = F.stack
           /\ F.plain => Plain(st)
           /\ \A r \in Reg : \A x : Knows(F, r, x) => st.reg[r] = x
<1>1. \A v \in Busy(body, Here) : home[v] \notin Unowned
  BY DEF Unowned, spareRegisters
<1>2. \A r \in Reg : \A x : Knows(F, r, x) => st.reg[r] = x
  BY KnownHeld DEF Sits
<1> QED
  BY <1>1, <1>2, UnownedCache DEF Sits, Holds, Annotation

\* An operation that turns the state leaves what G says.
LEMMA TurnOutcome ==
    ASSUME NEW F \in Annotation, NEW G \in Annotation, Sits(F, G), NEW t, NEW W, NEW facts, NEW values,
           Turns(st, t, W, G.stack), Carries(F, G, W, facts, values),
           \A r, x : <<r, x>> \in facts /\ <<r, x>> \in G.regs => t.reg[r] = x,
           \A v \in values : v \in G.live => AtHome(t, v),
           G.plain => Plain(t)
    PROVE  Outcome(t, G)
<1>1. Holds(st, F) /\ G.live \subseteq Busy(body, Here)
  BY DEF Sits
<1>2. Holds(t, G)
  BY <1>1, TurnHolds
<1> QED
  BY <1>2 DEF Outcome, Turns, Good

\* The same when the operation brings nothing new.
LEMMA PlainOutcome ==
    ASSUME NEW F \in Annotation, NEW G \in Annotation, Sits(F, G), NEW t, NEW W,
           Turns(st, t, W, G.stack), Carries(F, G, W, {}, {}), G.plain => Plain(t)
    PROVE  Outcome(t, G)
<1> DEFINE facts == {}
           values == {}
<1>1. /\ \A r, x : <<r, x>> \in facts /\ <<r, x>> \in G.regs => t.reg[r] = x
      /\ \A v \in values : v \in G.live => AtHome(t, v)
      /\ Carries(F, G, W, facts, values)
  OBVIOUS
<1> HIDE DEF facts, values
<1> QED
  BY <1>1, TurnOutcome

\* The same for an operation that leaves the stack alone.
LEMMA TouchOutcome ==
    ASSUME NEW F \in Annotation, NEW G \in Annotation, Sits(F, G), NEW t, NEW W, NEW facts, NEW values,
           Touches(st, t, W), Keeps(F, G, W, facts, values),
           \A r, x : <<r, x>> \in facts /\ <<r, x>> \in G.regs => t.reg[r] = x,
           \A v \in values : v \in G.live => AtHome(t, v)
    PROVE  Outcome(t, G)
<1>1. /\ Turns(st, t, W, G.stack) /\ Carries(F, G, W, facts, values)
      /\ G.plain => Plain(t)
  BY TouchTurns, LiveFacts DEF Keeps, Sits
<1> QED
  BY <1>1, TurnOutcome

\* materialize leaves the value in R0.
LEMMA StepUse ==
    ASSUME NEW F \in Annotation, NEW G \in Annotation, Sits(F, G), NEW o, SafeUse(o, F, G)
    PROVE  Outcome(materialize(st, o.a), G)
<1>1. o.a \in Value /\ AtHome(st, o.a) /\ Good(st) /\ st.spare \subseteq Cache /\ Homed
  BY LiveFacts DEF SafeUse, Sits
<1>2. Touches(st, materialize(st, o.a), {"r0", "r3"}) /\ materialize(st, o.a).reg["r0"] = o.a
  BY <1>1, MaterializeTouches
<1>3. \A r, x : <<r, x>> \in {<<"r0", o.a>>} => materialize(st, o.a).reg[r] = x
  BY <1>2
<1> QED
  BY <1>2, <1>3, TouchOutcome DEF SafeUse

\* emitMove copies what is known of its source.
LEMMA StepMove ==
    ASSUME NEW F \in Annotation, NEW G \in Annotation, Sits(F, G), NEW o, SafeMove(o, F, G)
    PROVE  Outcome(emitMove(st, o.a, o.b), G)
<1> DEFINE t == emitMove(st, o.a, o.b)
           facts == {<<o.a, x>> : x \in {x \in Word : Knows(F, o.b, x)}}
<1>0. o.a \in Reg /\ o.b \in Reg /\ Good(st)
  BY DEF SafeMove, Sits
<1>a. ASSUME NEW p \in Reg, NEW q \in Reg
      PROVE  Touches(st, emitMove(st, p, q), {p}) /\ emitMove(st, p, q).reg[p] = st.reg[q]
  BY <1>0, MoveTouches
<1>1. Touches(st, t, {o.a}) /\ t.reg[o.a] = st.reg[o.b]
  BY <1>0, <1>a
<1>2. \A x : Knows(F, o.b, x) => st.reg[o.b] = x
  BY LiveFacts DEF SafeMove
<1>3. Keeps(F, G, {o.a}, facts, {})
  BY DEF SafeMove
<1> HIDE DEF t
<1>4. \A r, x : <<r, x>> \in facts => t.reg[r] = x
  BY <1>1, <1>2
<1> HIDE DEF facts
<1>5. Outcome(t, G)
  BY <1>1, <1>3, <1>4, TouchOutcome
<1> QED
  BY <1>5 DEF t

\* A scratch register is lost.
LEMMA StepScratch ==
    ASSUME NEW F \in Annotation, NEW G \in Annotation, Sits(F, G), NEW o, SafeScratch(o, F, G)
    PROVE  Outcome([Write(st, o.a, Junk) EXCEPT !.acc = None], G)
<1> DEFINE w == Write(st, o.a, Junk)
           t == Snapshot(w, None)
<1>0. o.a \in Reg /\ Good(st)
  BY DEF SafeScratch, Sits
<1>1. Touches(st, w, {o.a}) /\ w.reg[o.a] = Junk
  BY <1>0, WriteTouches
<1> HIDE DEF w
<1>2. Good(w)
  BY <1>1 DEF Touches
<1>3. Touches(w, t, {}) /\ t.reg = w.reg
  BY <1>2, SnapshotTouches
<1>4. t = [w EXCEPT !.acc = None]
  BY DEF Snapshot
<1> HIDE DEF t
<1>5. Touches(st, t, {o.a})
  BY <1>1, <1>3, TouchTwice
<1>6. \A r, x : <<r, x>> \in {<<o.a, Junk>>} => t.reg[r] = x
  BY <1>1, <1>3
<1>7. Outcome(t, G)
  BY <1>5, <1>6, TouchOutcome DEF SafeScratch
<1> QED
  BY <1>4, <1>7 DEF w

\* An instruction that only reads forgets R0.
LEMMA StepRead ==
    ASSUME NEW F \in Annotation, NEW G \in Annotation, Sits(F, G), NEW o, SafeRead(o, F, G)
    PROVE  Outcome(Snapshot(st, None), G)
<1>1. Touches(st, Snapshot(st, None), {})
  BY SnapshotTouches DEF Sits
<1> QED
  BY <1>1, TouchOutcome DEF SafeRead

\* An operation leaves its result in R0.
LEMMA StepResult ==
    ASSUME NEW F \in Annotation, NEW G \in Annotation, Sits(F, G), NEW o, SafeResult(o, F, G)
    PROVE  Outcome(Write(st, "r0", o.a), G)
<1>1. Touches(st, Write(st, "r0", o.a), {"r0"}) /\ Write(st, "r0", o.a).reg["r0"] = o.a
  BY WriteTouches DEF Sits, Reg
<1>2. \A r, x : <<r, x>> \in {<<"r0", o.a>>} => Write(st, "r0", o.a).reg[r] = x
  BY <1>1
<1> QED
  BY <1>1, <1>2, TouchOutcome DEF SafeResult

\* An operation on allocated registers takes its result home.
LEMMA StepDirect ==
    ASSUME NEW F \in Annotation, NEW G \in Annotation, Sits(F, G), NEW o, SafeDirect(o, F, G)
    PROVE  Outcome(Snapshot(Write(st, home[o.a], o.a), None), G)
<1> DEFINE w == Write(st, home[o.a], o.a)
           t == Snapshot(w, None)
<1>1. Touches(st, w, {home[o.a]}) /\ w.reg[home[o.a]] = o.a
  BY WriteTouches DEF SafeDirect, Sits
<1> HIDE DEF w
<1>2. Good(w)
  BY <1>1 DEF Touches
<1>3. Touches(w, t, {}) /\ t.reg = w.reg
  BY <1>2, SnapshotTouches
<1> HIDE DEF t
<1>5. Touches(st, t, {home[o.a]})
  BY <1>1, <1>3, TouchTwice
<1>6. \A v \in {o.a} : AtHome(t, v)
  BY <1>1, <1>3, Distinct DEF AtHome, SafeDirect
<1>7. Outcome(t, G)
  BY <1>5, <1>6, TouchOutcome DEF SafeDirect
<1> QED
  BY <1>7 DEF w, t

\* Define takes the result in R0 home, to a register or a frame word.
LEMMA StepDefine ==
    ASSUME NEW F \in Annotation, NEW G \in Annotation, Sits(F, G), NEW o, SafeDefine(Here, o, F, G)
    PROVE  Outcome(Define(st, o.a), G)
<1>1. /\ o.a \in Value /\ Good(st) /\ st.spare \subseteq Cache /\ Homed /\ home[o.a] # Constant
      /\ home[o.a] \notin st.spare
  BY LiveFacts DEF SafeDefine, Sits
<1>2. st.reg["r0"] = o.a
  BY LiveFacts DEF SafeDefine, Reg
<1>3. Touches(st, Define(st, o.a), {"r3", home[o.a]}) /\ AtHome(Define(st, o.a), o.a)
  BY <1>1, <1>2, DefineTouches
<1> QED
  BY <1>3, TouchOutcome DEF SafeDefine

\* emitPush saves what is known of the register.
LEMMA StepPush ==
    ASSUME NEW F \in Annotation, NEW G \in Annotation, Sits(F, G), NEW o, SafePush(o, F, G)
    PROVE  Outcome(emitPush(st, o.a), G)
<1> DEFINE t == emitPush(st, o.a)
<1>1. Good(st) /\ st.spare \subseteq Unowned
  BY DEF Sits
<1>2. o.a \in Reg \ {"r3"} /\ Carries(F, G, {"r3"}, {}, {}) /\ (G.plain => F.plain)
  BY DEF SafePush
<1>3. /\ Machine(t) /\ Landed(t) /\ t.spare = st.spare
      /\ t.running => /\ Turns(st, t, {"r3"}, Append(st.stack, t.reg[o.a])) /\ t.reg[o.a] = st.reg[o.a]
                      /\ (Plain(st) => Plain(t))
  BY <1>1, <1>2, PushTurns
<1>4. Append(st.stack, st.reg[o.a]) = G.stack
  BY <1>2, LiveFacts DEF SafePush
<1>5. G.plain => Plain(st)
  BY <1>2, LiveFacts
<1> HIDE DEF t
<1>6. CASE t.running
  <2>1. Turns(st, t, {"r3"}, G.stack) /\ (G.plain => Plain(t))
    BY <1>3, <1>4, <1>5, <1>6
  <2>2. Outcome(t, G)
    BY <1>2, <2>1, PlainOutcome
  <2> QED
    BY <2>2 DEF t
<1>7. CASE ~t.running
  BY <1>3, <1>7 DEF Outcome, t
<1> QED
  BY <1>6, <1>7

\* emitPop brings back what was saved.
LEMMA StepPop ==
    ASSUME NEW F \in Annotation, NEW G \in Annotation, Sits(F, G), NEW o, SafePop(o, F, G)
    PROVE  Outcome(emitPop(st, o.a), G)
<1> DEFINE t == emitPop(st, o.a)
<1>1. PICK x \in Word : /\ F.stack = Append(G.stack, x)
                        /\ Carries(F, G, {o.a}, {<<o.a, x>>}, {v \in Value : v = x /\ home[v] = o.a})
  BY DEF SafePop
<1>2. Good(st) /\ st.spare \subseteq Unowned /\ o.a \in Reg /\ G.stack \in Seq(Word) /\ st.stack = Append(G.stack, x)
  BY <1>1, LiveFacts DEF Sits, SafePop
<1>3. (Plain(st) => Plain(t)) /\ Turns(st, t, {o.a}, G.stack) /\ t.reg[o.a] = x
  BY <1>2, PopTurns, ZenonT(60)
<1>4. G.plain => Plain(st)
  BY LiveFacts DEF SafePop
<1> HIDE DEF t
<1>5. \A r, y : <<r, y>> \in {<<o.a, x>>} => t.reg[r] = y
  BY <1>3
<1>6. \A v \in {v \in Value : v = x /\ home[v] = o.a} : AtHome(t, v)
  BY <1>2, <1>3, Distinct DEF AtHome
<1>7. Outcome(t, G)
  BY <1>1, <1>3, <1>4, <1>5, <1>6, TurnOutcome
<1> QED
  BY <1>7 DEF t

\* Clearing the cache forgets copies only.
LEMMA StepClear ==
    ASSUME NEW F \in Annotation, NEW G \in Annotation, Sits(F, G), NEW o, SafeClear(o, F, G)
    PROVE  Outcome([Clear(st) EXCEPT !.latch = None, !.acc = None], G)
<1> DEFINE t == [Clear(st) EXCEPT !.latch = None, !.acc = None]
<1>0. Good(st) /\ st.stack = F.stack
  BY LiveFacts DEF Sits
<1>1. /\ Machine(t) /\ t.acc = None /\ t.latch = None /\ t.copies = NoCopies /\ t.spare = {} /\ t.reg = st.reg
      /\ t.ram = st.ram /\ t.written = st.written /\ t.stack = st.stack
  BY <1>0 DEF Clear, Good, Machine, NoCopies
<1> HIDE DEF t
<1>2. \A r \in Reg : t.copies[r] = None
  BY <1>1 DEF NoCopies
<1>3. Plain(t) /\ Turns(st, t, {}, G.stack)
  BY <1>0, <1>1, <1>2 DEF Plain, Turns, Good, Beliefs, Landed, SafeClear
<1>4. Outcome(t, G)
  BY <1>3, PlainOutcome DEF SafeClear
<1> QED
  BY <1>4 DEF t

\* What an update of fields no belief depends on leaves.
LEMMA CalmOutcome ==
    ASSUME NEW F \in Annotation, NEW G \in Annotation, Sits(F, G), NEW t,
           Machine(t), t.reg = st.reg, t.ram = st.ram, t.written = st.written, t.copies = st.copies,
           t.spare = st.spare, t.latch = st.latch, t.at = st.at, t.acc \in {st.acc, None},
           t.stack = G.stack, Carries(F, G, {}, {}, {}), G.plain => F.plain
    PROVE  Outcome(t, G)
<1>1. Good(st) /\ (F.plain => Plain(st)) /\ st.spare \subseteq Unowned
  BY LiveFacts DEF Sits
<1>2. Plain(st) => Plain(t)
  BY DEF Plain
<1>3. Turns(st, t, {}, G.stack)
  BY <1>1 DEF Turns, Good, Beliefs, Landed
<1> QED
  BY <1>1, <1>2, <1>3, PlainOutcome

\* The end of the credit changes no value.
LEMMA StepFence ==
    ASSUME NEW F \in Annotation, NEW G \in Annotation, Sits(F, G), NEW o, SafeFence(o, F, G)
    PROVE  Outcome([st EXCEPT !.credit = 0], G)
<1> DEFINE t == [st EXCEPT !.credit = 0]
<1>0. Good(st) /\ st.stack = F.stack
  BY LiveFacts DEF Sits
<1>1. /\ Machine(t) /\ t.reg = st.reg /\ t.ram = st.ram /\ t.written = st.written /\ t.copies = st.copies
      /\ t.spare = st.spare /\ t.latch = st.latch /\ t.at = st.at /\ t.acc = st.acc /\ t.stack = st.stack
  BY <1>0 DEF Good, Machine
<1> HIDE DEF t
<1>2. Outcome(t, G)
  BY <1>0, <1>1, CalmOutcome DEF SafeFence, Keeps
<1> QED
  BY <1>2 DEF t

\* The arguments leave the stack, and nothing below them.
LEMMA StepDrop ==
    ASSUME NEW F \in Annotation, NEW G \in Annotation, Sits(F, G), NEW o, SafeDrop(Here, o, F, G)
    PROVE  Outcome(DropWords(st, Len(body.code[Here].args)), G)
<1> DEFINE n == Len(body.code[Here].args)
           t == DropWords(st, n)
<1>0. Good(st) /\ st.stack = F.stack
  BY LiveFacts DEF Sits
<1>1. /\ Machine(t) /\ t.reg = st.reg /\ t.ram = st.ram /\ t.written = st.written /\ t.copies = st.copies
      /\ t.spare = st.spare /\ t.latch = st.latch /\ t.at = st.at /\ t.acc \in {st.acc, None}
      /\ t.stack = SubSeq(st.stack, 1, Len(st.stack) - n)
  <2> HIDE DEF n
  <2> QED
    BY <1>0 DEF DropWords, Good, Machine
<1>3. t.stack = G.stack
  BY <1>0, <1>1 DEF SafeDrop
<1> HIDE DEF t
<1>2. Outcome(t, G)
  BY <1>1, <1>3, CalmOutcome DEF SafeDrop
<1> QED
  BY <1>2 DEF t

\* The epilogue finds the two words saved by the prologue.
LEMMA StepUnwind ==
    ASSUME NEW F \in Annotation, NEW G \in Annotation, Sits(F, G), NEW o, SafeUnwind(o, F, G), NEW m
    PROVE  Outcome([st EXCEPT !.stack = SubSeq(st.stack, 1, 2), !.credit = 0, !.acc = None, !.margin = m], G)
<1> DEFINE t == [st EXCEPT !.stack = SubSeq(st.stack, 1, 2), !.credit = 0, !.acc = None, !.margin = m]
<1>0. Good(st) /\ st.stack = F.stack
  BY LiveFacts DEF Sits
<1>1. /\ Machine(t) /\ t.reg = st.reg /\ t.ram = st.ram /\ t.written = st.written /\ t.copies = st.copies
      /\ t.spare = st.spare /\ t.latch = st.latch /\ t.at = st.at /\ t.acc = None
      /\ t.stack = SubSeq(st.stack, 1, 2)
  BY <1>0 DEF Good, Machine
<1>3. t.stack = G.stack
  BY <1>0, <1>1 DEF SafeUnwind
<1> HIDE DEF t
<1>2. Outcome(t, G)
  BY <1>1, <1>3, CalmOutcome DEF SafeUnwind
<1> QED
  BY <1>2 DEF t

\* What was written to a register is in it.
LEMMA WriteReads ==
    ASSUME NEW s, Good(s), NEW r \in Reg, NEW v
    PROVE  Write(s, r, v).reg[r] = v
  BY DEF Write, Good, Machine

\* A load leaves its result in its register and its address in the latch.
LEMMA StepLoad ==
    ASSUME NEW F \in Annotation, NEW G \in Annotation, Sits(F, G), NEW o, SafeLoad(o, F, G), NEW a
    PROVE  Outcome([Write(st, o.b, o.a) EXCEPT !.acc = None, !.latch = a, !.at = a], G)
<1> DEFINE w == Write(st, o.b, o.a)
           t == [w EXCEPT !.acc = None, !.latch = a, !.at = a]
<1>00. Good(st)
  BY DEF Sits
<1>0. o.a \in Value /\ o.b \in Reg
  BY DEF SafeLoad
<1>1. Touches(st, w, {o.b}) /\ w.reg[o.b] = o.a
  <2>1. ASSUME NEW r \in Reg, NEW v
        PROVE  Touches(st, Write(st, r, v), {r}) /\ Write(st, r, v).reg[r] = v
    <3>1. Touches(st, Write(st, r, v), {r})
      BY <1>00, WriteTouches
    <3>2. Write(st, r, v).reg[r] = v
      BY <1>00, WriteReads
    <3> QED
      BY <3>1, <3>2
  <2> QED
    BY <1>0, <2>1
<1> HIDE DEF w
<1>2. Good(w)
  BY <1>1 DEF Touches
<1>3. /\ Machine(t) /\ t.reg = w.reg /\ t.ram = w.ram /\ t.written = w.written /\ t.copies = w.copies
      /\ t.spare = w.spare /\ t.latch = t.at /\ t.acc = None /\ t.stack = w.stack /\ t.running = w.running
  BY <1>2 DEF Good, Machine
<1> HIDE DEF t
<1>4. Touches(st, t, {o.b})
  BY <1>1, <1>2, <1>3 DEF Touches, Good, Beliefs, Landed, Plain
<1>5. \A r, x : <<r, x>> \in {<<o.b, o.a>>} => t.reg[r] = x
  BY <1>1, <1>3
<1>6. \A v \in {v \in Value : v = o.a /\ home[v] = o.b} : AtHome(t, v)
  BY <1>0, <1>1, <1>3, Distinct DEF AtHome
<1>7. Outcome(t, G)
  BY <1>4, <1>5, <1>6, TouchOutcome DEF SafeLoad
<1> QED
  BY <1>7 DEF t, w

\* emitStoreIndirect writes the word it names and no value's home.
LEMMA StepStore ==
    ASSUME NEW F \in Annotation, NEW G \in Annotation, Sits(F, G), NEW o, SafeStore(o, F, G)
    PROVE  Outcome(emitStoreIndirect(st, o.a, o.b), G)
<1>1. /\ o.a \in Value /\ AtHome(st, o.a) /\ home[o.a] \notin st.spare
      /\ o.b \in Value /\ AtHome(st, o.b) /\ home[o.b] \notin st.spare
      /\ Good(st) /\ st.spare \subseteq Cache /\ Homed
  BY LiveFacts DEF SafeStore, Sits
<1>2. Touches(st, emitStoreIndirect(st, o.a, o.b), {"r0", "r3", "r6"})
  BY <1>1, StoreTouches
<1> QED
  BY <1>2, TouchOutcome DEF SafeStore

\* At a label the cache is empty, and only the registers in lost change.
LEMMA LabelTurns ==
    ASSUME NEW s, Good(s), NEW lost, NEW m
    PROVE  LET t == bindLabel(s, lost, m) IN
           /\ Good(t) /\ Plain(t) /\ t.stack = s.stack /\ t.ram = s.ram /\ t.running = s.running
           /\ \A r \in Reg : r \notin lost => t.reg[r] = s.reg[r]
<1> DEFINE j == Joined(s, lost, m)
           c == Clear(j)
           t == bindLabel(s, lost, m)
<1>1. /\ Machine(j) /\ j.ram = s.ram /\ j.written = s.written /\ j.stack = s.stack /\ j.running = s.running
      /\ \A r \in Reg : r \notin lost => j.reg[r] = s.reg[r]
  BY DEF Joined, Good, Machine
<1> HIDE DEF j
<1>2. /\ Machine(c) /\ c.ram = s.ram /\ c.written = s.written /\ c.stack = s.stack /\ c.reg = j.reg
      /\ c.copies = NoCopies /\ c.spare = {} /\ c.running = s.running
  BY <1>1 DEF Clear, Machine, NoCopies
<1> HIDE DEF c
<1>3. t = [c EXCEPT !.acc = None, !.latch = None, !.credit = 0]
  BY DEF bindLabel, c, j
<1>4. /\ Machine(t) /\ t.ram = s.ram /\ t.written = s.written /\ t.stack = s.stack /\ t.reg = j.reg
      /\ t.copies = NoCopies /\ t.spare = {} /\ t.acc = None /\ t.latch = None /\ t.running = s.running
  BY <1>2, <1>3 DEF Machine
<1> HIDE DEF t
<1>5. \A r \in Reg : t.copies[r] = None
  BY <1>4 DEF NoCopies
<1>6. Good(t) /\ Plain(t)
  BY <1>4, <1>5 DEF Good, Beliefs, Landed, Plain
<1> QED
  BY <1>1, <1>4, <1>6 DEF t

\* At a label only registers no value owns are lost, and R0.
LEMMA StepLabel ==
    ASSUME NEW F \in Annotation, NEW G \in Annotation, Sits(F, G), NEW o, SafeLabel(o, F, G), NEW m
    PROVE  Outcome(bindLabel(st, Unowned \cup (IF o.a = None THEN {"r0"} ELSE {}), m), G)
<1> DEFINE W == IF o.a = None THEN {"r0"} ELSE {}
           lost == Unowned \cup W
           t == bindLabel(st, lost, m)
<1>0. Good(st) /\ st.stack = F.stack
  BY LiveFacts DEF Sits
<1>1. /\ Good(t) /\ Plain(t) /\ t.stack = st.stack /\ t.ram = st.ram
      /\ \A r \in Reg : r \notin lost => t.reg[r] = st.reg[r]
  BY <1>0, LabelTurns
<1>2. G.stack = F.stack /\ Carries(F, G, W, {}, {})
  BY DEF SafeLabel
<1> HIDE DEF t, W
<1>3. Turns(st, t, W, G.stack)
  BY <1>0, <1>1, <1>2 DEF Turns, Plain
<1>4. Outcome(t, G)
  BY <1>1, <1>2, <1>3, PlainOutcome
<1> QED
  BY <1>4 DEF t, W

\* The check of a loop set up in registers: on a low stack it stops the machine.
LEMMA StepCapacity ==
    ASSUME NEW F \in Annotation, NEW G \in Annotation, Sits(F, G), NEW o, SafeCapacity(o, F, G), NEW m
    PROVE  Outcome(emitHardwareLoopCapacityGuard(st, Unowned, m), G)
<1> DEFINE w == Write(st, "r3", Junk)
           p == emitPush(w, "r12")
           g == IF p.running THEN emitStackGuard(p, 2) ELSE p
           t == emitHardwareLoopCapacityGuard(st, Unowned, m)
           b == bindLabel(w, Unowned, m)
<1>0. /\ Good(st) /\ Honest(st) /\ st.stack = F.stack /\ st.spare \subseteq Unowned /\ (F.plain => Plain(st))
      /\ "r3" \in Reg /\ "r12" \in Reg \ {"r3"}
  BY LiveFacts DEF Sits, Reg
<1>1. t = IF st.credit >= 4 THEN st ELSE IF st.margin >= 4 THEN b
          ELSE IF g.running THEN bindLabel(g, Unowned, m) ELSE g
  BY DEF emitHardwareLoopCapacityGuard
<1>2. Keeps(F, G, {"r3"}, {}, {})
  BY DEF SafeCapacity
<1>3. Touches(st, w, {"r3"}) /\ Honest(w) /\ w.margin = st.margin /\ w.credit = st.credit
  BY <1>0, WriteTouches, WriteHonest
<1>4. Good(w) /\ w.spare = st.spare
  BY <1>3 DEF Touches
<1> HIDE DEF w
<1>5. CASE st.credit >= 4
  <2>1. Touches(st, st, {"r3"})
    BY <1>0 DEF Touches
  <2>2. Outcome(st, G)
    BY <1>2, <2>1, TouchOutcome
  <2> QED
    BY <1>1, <1>5, <2>2
<1>6. CASE ~(st.credit >= 4) /\ st.margin >= 4
  <2>1. /\ Good(b) /\ Plain(b) /\ b.stack = w.stack /\ b.ram = w.ram
        /\ \A r \in Reg : r \notin Unowned => b.reg[r] = w.reg[r]
    BY <1>4, LabelTurns
  <2>2. t = b
    BY <1>1, <1>6
  <2> HIDE DEF b, t
  <2>3. Turns(st, b, {"r3"}, G.stack)
    BY <1>0, <1>2, <1>3, <2>1 DEF Turns, Touches, Keeps, Plain
  <2>4. Outcome(b, G)
    BY <1>2, <2>1, <2>3, PlainOutcome DEF Keeps
  <2> QED
    BY <2>2, <2>4 DEF t
<1>7. CASE ~(st.credit >= 4) /\ ~(st.margin >= 4)
  <2>1. /\ Machine(p) /\ Landed(p) /\ Honest(p)
        /\ p.running => Turns(w, p, {"r3"}, Append(w.stack, p.reg["r12"])) /\ p.margin <= w.margin - 2
    <3>1. /\ Machine(p) /\ Landed(p) /\ Honest(p)
          /\ p.running => Turns(w, p, {"r3"}, Append(w.stack, p.reg["r12"]))
      BY <1>0, <1>3, <1>4, PushTurns, PushHonest
    <3>2. p.running => p.margin = w.margin - 2
      <4> DEFINE h == emitStackGuard(w, 2)
      <4>1. h.margin = w.margin
        <5>0. "margin" \in DOMAIN w
          BY <1>3 DEF Honest
        <5> DEFINE x == Write(w, "r3", Junk)
        <5>1. x.margin = w.margin /\ "margin" \in DOMAIN x
          BY <1>3, WriteHonest DEF Honest
        <5>2. h = IF 2 <= w.credit THEN w ELSE IF w.margin < 2 THEN [w EXCEPT !.running = FALSE]
                  ELSE [x EXCEPT !.acc = None, !.credit = IF 2 > MaxCredit THEN MaxCredit ELSE 2]
          BY DEF emitStackGuard
        <5> HIDE DEF x, h
        <5> QED
          BY <5>0, <5>1, <5>2
      <4>2. h.running => Good(h)
        BY <1>4, GuardTouches DEF Touches
      <4>3. p = IF h.running THEN Resize(h, Append(h.stack, h.reg["r12"]), h.margin - 2, decrease(h.credit, 2)) ELSE h
        BY DEF emitPush
      <4> HIDE DEF h, p
      <4> QED
        BY <4>1, <4>2, <4>3 DEF Resize, Good, Machine
    <3> QED
      BY <3>1, <3>2, <1>3 DEF Honest
  <2> HIDE DEF p
  <2>2. ~g.running /\ Machine(g) /\ Landed(g)
    <3>1. CASE p.running
      <4>1. p.margin < 2 /\ ~(2 <= p.credit)
        BY <1>0, <1>3, <1>7, <2>1, <3>1 DEF Honest
      <4>2. g = [p EXCEPT !.running = FALSE]
        BY <3>1, <4>1 DEF emitStackGuard
      <4> QED
        BY <2>1, <4>2 DEF Machine, Landed
    <3>2. CASE ~p.running
      BY <2>1, <3>2
    <3> QED
      BY <3>1, <3>2
  <2>3. t = g
    BY <1>1, <1>7, <2>2
  <2> HIDE DEF g, t
  <2> QED
    BY <2>2, <2>3 DEF Outcome, t
<1> QED
  BY <1>5, <1>6, <1>7

\* A call loses what its mask says, and the cache was cleared before it.
LEMMA StepCall ==
    ASSUME NEW F \in Annotation, NEW G \in Annotation, Sits(F, G), NEW o, SafeCall(Here, o, F, G)
    PROVE  Outcome([st EXCEPT
        !.reg = [r \in Reg |-> IF r = "r0" /\ o.a # None THEN o.a
                               ELSE IF r \in o.regs \cup {"r0", "r1", "r3", "r6", "r11"} THEN Junk
                               ELSE st.reg[r]],
        !.ram = [l \in Slot \cup Value |-> IF l \in Slot THEN st.ram[l] ELSE Junk],
        !.written = [v \in Value |-> Junk],
        !.at = Junk, !.latch = None, !.acc = None, !.credit = 0], G)
<1> DEFINE newreg == [r \in Reg |-> IF r = "r0" /\ o.a # None THEN o.a
                                    ELSE IF r \in o.regs \cup {"r0", "r1", "r3", "r6", "r11"} THEN Junk
                                    ELSE st.reg[r]]
           newram == [l \in Slot \cup Value |-> IF l \in Slot THEN st.ram[l] ELSE Junk]
           none == [v \in Value |-> Junk]
           t == [st EXCEPT !.reg = newreg, !.ram = newram, !.written = none,
                           !.at = Junk, !.latch = None, !.acc = None, !.credit = 0]
           facts == (IF o.a = None THEN {} ELSE {<<"r0", o.a>>}) \cup {<<r, Junk>> : r \in Clobbered(o) \ {"r0"}}
<1>0. /\ Good(st) /\ st.stack = F.stack /\ st.spare \subseteq Unowned /\ Plain(st)
  BY LiveFacts DEF Sits, SafeCall
<1>1. /\ DOMAIN newreg = Reg /\ DOMAIN newram = Slot \cup Value /\ DOMAIN none = Value
      /\ \A r \in Reg : newreg[r] = IF r = "r0" /\ o.a # None THEN o.a
                                     ELSE IF r \in Clobbered(o) THEN Junk ELSE st.reg[r]
      /\ \A l \in Slot : newram[l] = st.ram[l]
      /\ \A v \in Value : newram[v] = Junk /\ none[v] = Junk
  BY Distinct DEF Clobbered
<1> HIDE DEF newreg, newram, none
<1>2. /\ Machine(t) /\ t.reg = newreg /\ t.ram = newram /\ t.written = none /\ t.copies = st.copies
      /\ t.spare = st.spare /\ t.latch = None /\ t.acc = None /\ t.stack = st.stack
  BY <1>0, <1>1 DEF Good, Machine
<1> HIDE DEF t
<1>3. Good(t) /\ Plain(t)
  BY <1>0, <1>1, <1>2 DEF Good, Beliefs, Landed, Plain
<1>4. "r0" \in Clobbered(o)
  BY DEF Clobbered
<1>5. Turns(st, t, Clobbered(o), G.stack)
  BY <1>0, <1>1, <1>2, <1>3, <1>4 DEF Turns, SafeCall
<1>6. \A r, x : <<r, x>> \in facts /\ <<r, x>> \in G.regs => t.reg[r] = x
  <2> SUFFICES ASSUME NEW r, NEW x, <<r, x>> \in facts, <<r, x>> \in G.regs
               PROVE  t.reg[r] = x
    OBVIOUS
  <2>1. r \in Reg
    BY DEF Annotation
  <2>2. (o.a # None /\ r = "r0" /\ x = o.a) \/ (x = Junk /\ r \in Clobbered(o) \ {"r0"})
    OBVIOUS
  <2> QED
    BY <1>1, <1>2, <2>1, <2>2
<1>7. Carries(F, G, Clobbered(o), facts, {})
  BY DEF SafeCall
<1> HIDE DEF facts
<1>8. Outcome(t, G)
  <2> DEFINE values == {}
  <2>1. Carries(F, G, Clobbered(o), facts, values) /\ \A v \in values : v \in G.live => AtHome(t, v)
    BY <1>7
  <2> HIDE DEF values
  <2> QED
    BY <1>3, <1>5, <1>6, <2>1, TurnOutcome
<1> QED
  BY <1>8 DEF t, newreg, newram, none

-----------------------------------------------------------------------------
IsSeq(E) == \E S : E \in Seq(S)

\* The operations E of instruction i lead safely from F to G.
Plan(i, E, F, G) ==
    /\ IsSeq(E)
    /\ \E A \in [1 .. Len(E) + 1 -> Annotation] :
          /\ A[1] = F /\ A[Len(E) + 1] = G
          /\ \A d \in 1 .. Len(E) : Safe(i, E[d], A[d], A[d + 1])

\* Nothing to emit leads nowhere.
LEMMA PlanNone ==
    ASSUME NEW i, NEW F \in Annotation
    PROVE  Plan(i, <<>>, F, F)
<1> DEFINE A == [d \in 1 .. 1 |-> F]
<1>1. Len(<<>>) = 0 /\ <<>> \in Seq({})
  BY EmptySeq
<1>2. A \in [1 .. Len(<<>>) + 1 -> Annotation] /\ A[1] = F /\ A[Len(<<>>) + 1] = F
  BY <1>1
<1> HIDE DEF A
<1> QED
  BY <1>1, <1>2 DEF Plan, IsSeq

\* When nothing is left to emit, the plan is at its end.
LEMMA PlanNothing ==
    ASSUME NEW i, NEW F, NEW G, Plan(i, <<>>, F, G)
    PROVE  F = G
  BY EmptySeq DEF Plan

\* A plan of one operation.
LEMMA Plan1 ==
    ASSUME NEW i, NEW F \in Annotation, NEW G \in Annotation, NEW a, Safe(i, a, F, G)
    PROVE  Plan(i, <<a>>, F, G)
<1> DEFINE A == <<F, G>>
           E == <<a>>
<1>1. Len(E) = 1 /\ E \in Seq({a}) /\ E[1] = a
  OBVIOUS
<1>2. A \in [1 .. 2 -> Annotation] /\ A[1] = F /\ A[2] = G
  OBVIOUS
<1> HIDE DEF A, E
<1>3. \A d \in 1 .. 1 : Safe(i, E[d], A[d], A[d + 1])
  BY <1>1, <1>2
<1>4. Plan(i, E, F, G)
  BY <1>1, <1>2, <1>3 DEF Plan, IsSeq
<1> QED
  BY <1>4 DEF E

\* A plan of two operations.
LEMMA Plan2 ==
    ASSUME NEW i, NEW F \in Annotation, NEW G \in Annotation, NEW H \in Annotation,
           NEW a, NEW b, Safe(i, a, F, G), Safe(i, b, G, H)
    PROVE  Plan(i, <<a, b>>, F, H)
<1> DEFINE A == <<F, G, H>>
           E == <<a, b>>
<1>1. Len(E) = 2 /\ E \in Seq({a, b}) /\ E[1] = a /\ E[2] = b
  OBVIOUS
<1>2. A \in [1 .. 3 -> Annotation] /\ A[1] = F /\ A[2] = G /\ A[3] = H
  OBVIOUS
<1> HIDE DEF A, E
<1>3. \A d \in 1 .. 2 : d = 1 \/ d = 2
  OBVIOUS
<1>4. \A d \in 1 .. 2 : Safe(i, E[d], A[d], A[d + 1])
  BY <1>1, <1>2, <1>3
<1>5. Plan(i, E, F, H)
  BY <1>1, <1>2, <1>4 DEF Plan, IsSeq
<1> QED
  BY <1>5 DEF E

\* A plan of three operations.
LEMMA Plan3 ==
    ASSUME NEW i, NEW F \in Annotation, NEW G \in Annotation, NEW H \in Annotation, NEW J \in Annotation,
           NEW a, NEW b, NEW c, Safe(i, a, F, G), Safe(i, b, G, H), Safe(i, c, H, J)
    PROVE  Plan(i, <<a, b, c>>, F, J)
<1> DEFINE A == <<F, G, H, J>>
           E == <<a, b, c>>
<1>1. Len(E) = 3 /\ E \in Seq({a, b, c}) /\ E[1] = a /\ E[2] = b /\ E[3] = c
  OBVIOUS
<1>2. A \in [1 .. 4 -> Annotation] /\ A[1] = F /\ A[2] = G /\ A[3] = H /\ A[4] = J
  OBVIOUS
<1> HIDE DEF A, E
<1>3. \A d \in 1 .. 3 : d = 1 \/ d = 2 \/ d = 3
  OBVIOUS
<1>4. \A d \in 1 .. 3 : Safe(i, E[d], A[d], A[d + 1])
  BY <1>1, <1>2, <1>3
<1>5. Plan(i, E, F, J)
  BY <1>1, <1>2, <1>4 DEF Plan, IsSeq
<1> QED
  BY <1>5 DEF E

\* A plan of four operations.
LEMMA Plan4 ==
    ASSUME NEW i, NEW F \in Annotation, NEW G \in Annotation, NEW H \in Annotation, NEW J \in Annotation,
           NEW K \in Annotation, NEW a, NEW b, NEW c, NEW e,
           Safe(i, a, F, G), Safe(i, b, G, H), Safe(i, c, H, J), Safe(i, e, J, K)
    PROVE  Plan(i, <<a, b, c, e>>, F, K)
<1> DEFINE A == <<F, G, H, J, K>>
           E == <<a, b, c, e>>
<1>1. Len(E) = 4 /\ E \in Seq({a, b, c, e}) /\ E[1] = a /\ E[2] = b /\ E[3] = c /\ E[4] = e
  OBVIOUS
<1>2. A \in [1 .. 5 -> Annotation] /\ A[1] = F /\ A[2] = G /\ A[3] = H /\ A[4] = J /\ A[5] = K
  OBVIOUS
<1> HIDE DEF A, E
<1>3. \A d \in 1 .. 4 : d = 1 \/ d = 2 \/ d = 3 \/ d = 4
  OBVIOUS
<1>4. \A d \in 1 .. 4 : Safe(i, E[d], A[d], A[d + 1])
  BY <1>1, <1>2, <1>3
<1>5. Plan(i, E, F, K)
  BY <1>1, <1>2, <1>4 DEF Plan, IsSeq
<1> QED
  BY <1>5 DEF E

\* A plan followed by a plan.
LEMMA PlanJoin ==
    ASSUME NEW i, NEW D, NEW E, NEW F, NEW G, NEW H, Plan(i, D, F, G), Plan(i, E, G, H)
    PROVE  Plan(i, D \o E, F, H)
<1>1. PICK S, T : D \in Seq(S) /\ E \in Seq(T)
  BY DEF Plan, IsSeq
<1>2. D \in Seq(S \cup T) /\ E \in Seq(S \cup T)
  BY <1>1
<1> DEFINE C == D \o E
           m == Len(D)
           n == Len(E)
<1>3. /\ C \in Seq(S \cup T) /\ Len(C) = m + n /\ m \in Nat /\ n \in Nat
      /\ \A d \in 1 .. m + n : C[d] = IF d <= m THEN D[d] ELSE E[d - m]
  BY <1>2, ConcatProperties, LenProperties
<1>4. PICK A \in [1 .. m + 1 -> Annotation] :
          /\ A[1] = F /\ A[m + 1] = G
          /\ \A d \in 1 .. m : Safe(i, D[d], A[d], A[d + 1])
  BY DEF Plan
<1>5. PICK B \in [1 .. n + 1 -> Annotation] :
          /\ B[1] = G /\ B[n + 1] = H
          /\ \A d \in 1 .. n : Safe(i, E[d], B[d], B[d + 1])
  BY DEF Plan
<1> DEFINE X == [d \in 1 .. m + n + 1 |-> IF d <= m THEN A[d] ELSE B[d - m]]
<1> HIDE DEF C, m, n
<1>6. X \in [1 .. m + n + 1 -> Annotation]
  BY <1>3
<1>7. X[1] = F /\ X[m + n + 1] = H
  BY <1>3, <1>4, <1>5
<1>8. ASSUME NEW d \in 1 .. m + n PROVE Safe(i, C[d], X[d], X[d + 1])
  <2>1. CASE d < m
    <3>1. d \in 1 .. m /\ X[d] = A[d] /\ X[d + 1] = A[d + 1] /\ C[d] = D[d]
      BY <1>3, <2>1
    <3> QED
      BY <1>4, <3>1
  <2>2. CASE d = m
    <3>1. X[d] = A[d] /\ X[d + 1] = B[1] /\ C[d] = D[d]
      BY <1>3, <2>2
    <3> QED
      BY <1>3, <1>4, <1>5, <2>2, <3>1
  <2>3. CASE d > m
    <3>1. d - m \in 1 .. n /\ X[d] = B[d - m] /\ X[d + 1] = B[d - m + 1] /\ C[d] = E[d - m]
      BY <1>3, <2>3
    <3> QED
      BY <1>5, <3>1
  <2> QED
    BY <1>3, <2>1, <2>2, <2>3
<1> HIDE DEF X
<1>9. Plan(i, C, F, H)
  BY <1>3, <1>6, <1>7, <1>8 DEF Plan, IsSeq
<1> QED
  BY <1>9 DEF C

\* The first operation of a plan is safe, and the others are the rest of it.
LEMMA PlanHead ==
    ASSUME NEW i, NEW E, NEW F, NEW H, Plan(i, E, F, H), E # <<>>
    PROVE  \E G \in Annotation : Safe(i, Head(E), F, G) /\ Plan(i, Tail(E), G, H)
<1>1. PICK S : E \in Seq(S)
  BY DEF Plan, IsSeq
<1> DEFINE n == Len(E)
           T == Tail(E)
<1>2. PICK A \in [1 .. n + 1 -> Annotation] :
          /\ A[1] = F /\ A[n + 1] = H
          /\ \A d \in 1 .. n : Safe(i, E[d], A[d], A[d + 1])
  BY DEF Plan
<1>3. n \in Nat /\ n > 0 /\ Head(E) = E[1]
  BY <1>1
<1>4. T \in Seq(S) /\ Len(T) = n - 1 /\ \A d \in 1 .. n - 1 : T[d] = E[d + 1]
  BY <1>1
<1> HIDE DEF n, T
<1> DEFINE B == [d \in 1 .. n |-> A[d + 1]]
<1>5. B \in [1 .. n -> Annotation] /\ B[1] = A[2] /\ B[n] = H
  BY <1>2, <1>3
<1>6. \A d \in 1 .. n - 1 : Safe(i, T[d], B[d], B[d + 1])
  BY <1>2, <1>3, <1>4
<1> HIDE DEF B
<1>7. Plan(i, T, A[2], H)
  <2>1. Len(T) + 1 = n
    BY <1>3, <1>4
  <2> QED
    BY <1>4, <1>5, <1>6, <2>1 DEF Plan, IsSeq
<1>8. Safe(i, Head(E), F, A[2]) /\ A[2] \in Annotation
  BY <1>2, <1>3
<1> QED
  BY <1>7, <1>8 DEF T

-----------------------------------------------------------------------------
Ann(R, S, L, p) == [regs |-> R, stack |-> S, live |-> L, plain |-> p]

\* Values of L keep their homes when W is written.
Spares(L, W) == \A v \in L : home[v] \notin W
\* The facts R2 are facts of R about registers outside W, or the new one.
Leaves(R, R2, W) == \A r, x : <<r, x>> \in R2 => <<r, x>> \in R /\ r \notin W
Brings(R, R2, W, q, y) == \A r, x : <<r, x>> \in R2 => (<<r, x>> \in R /\ r \notin W) \/ (r = q /\ x = y)

\* A live value is brought to R0.
LEMMA UseAt ==
    ASSUME NEW i, NEW R, NEW R2, NEW S, NEW L, NEW p, NEW v \in L, L \subseteq Busy(body, i),
           Spares(L, {"r0", "r3"}), Brings(R, R2, {"r0", "r3"}, "r0", v)
    PROVE  Safe(i, Use(v), Ann(R, S, L, p), Ann(R2, S, L, p))
<1> DEFINE F == Ann(R, S, L, p)
           G == Ann(R2, S, L, p)
           o == Use(v)
<1>1. F.regs = R /\ F.stack = S /\ F.live = L /\ F.plain = p /\ G.regs = R2 /\ G.stack = S /\ G.live = L /\ G.plain = p
  BY DEF Ann
<1>2. o.k = "use" /\ o.a = v /\ o.needs = {}
  BY DEF Use, O
<1> HIDE DEF F, G, o
<1>3. Keeps(F, G, {"r0", "r3"}, {<<"r0", v>>}, {})
  BY <1>1 DEF Keeps, Carries, Spares, Brings
<1>4. Safe(i, o, F, G)
  BY <1>1, <1>2, <1>3 DEF Safe, SafeUse
<1> QED
  BY <1>4 DEF F, G, o

\* A known value is copied to another register.
LEMMA MoveAt ==
    ASSUME NEW i, NEW R, NEW R2, NEW S, NEW L, NEW p, NEW to \in Reg, NEW from \in Reg, NEW w \in Word,
           L \subseteq Busy(body, i), Spares(L, {to}), Brings(R, R2, {to}, to, w),
           <<from, w>> \in R \/ (w \in L /\ home[w] = from)
    PROVE  Safe(i, Move(to, from), Ann(R, S, L, p), Ann(R2, S, L, p))
<1> DEFINE F == Ann(R, S, L, p)
           G == Ann(R2, S, L, p)
           o == Move(to, from)
<1>1. F.regs = R /\ F.stack = S /\ F.live = L /\ F.plain = p /\ G.regs = R2 /\ G.stack = S /\ G.live = L /\ G.plain = p
  BY DEF Ann
<1>2. o.k = "move" /\ o.a = to /\ o.b = from /\ o.needs = {}
  BY DEF Move, O
<1> HIDE DEF F, G, o
<1>3. Knows(F, from, w)
  BY <1>1 DEF Knows
<1>4. Keeps(F, G, {to}, {<<to, x>> : x \in {x \in Word : Knows(F, from, x)}}, {})
  BY <1>1, <1>3 DEF Keeps, Carries, Spares, Brings
<1>5. Safe(i, o, F, G)
  BY <1>1, <1>2, <1>4 DEF Safe, SafeMove
<1> QED
  BY <1>5 DEF F, G, o

\* A register no live value occupies is lost.
LEMMA ScratchAt ==
    ASSUME NEW i, NEW R, NEW R2, NEW S, NEW L, NEW p, NEW q \in Reg,
           L \subseteq Busy(body, i), Spares(L, {q}), Brings(R, R2, {q}, q, Junk)
    PROVE  Safe(i, Scratch(q), Ann(R, S, L, p), Ann(R2, S, L, p))
<1> DEFINE F == Ann(R, S, L, p)
           G == Ann(R2, S, L, p)
           o == Scratch(q)
<1>1. F.regs = R /\ F.stack = S /\ F.live = L /\ F.plain = p /\ G.regs = R2 /\ G.stack = S /\ G.live = L /\ G.plain = p
  BY DEF Ann
<1>2. o.k = "scratch" /\ o.a = q /\ o.needs = {}
  BY DEF Scratch, O
<1> HIDE DEF F, G, o
<1>3. Keeps(F, G, {q}, {<<q, Junk>>}, {})
  BY <1>1 DEF Keeps, Carries, Spares, Brings
<1>4. Safe(i, o, F, G)
  BY <1>1, <1>2, <1>3 DEF Safe, SafeScratch
<1> QED
  BY <1>4 DEF F, G, o

\* What an instruction reads is known.
Needed(R, L, needs) ==
    /\ needs \subseteq Reg \X Word
    /\ \A r, x : <<r, x>> \in needs => <<r, x>> \in R \/ (x \in L /\ home[x] = r)

\* What an operation reads is known.
LEMMA NeedsKnown ==
    ASSUME NEW R, NEW S, NEW L, NEW p, NEW needs, Needed(R, L, needs)
    PROVE  /\ \A r, x : <<r, x>> \in needs => r \in Reg /\ Knows(Ann(R, S, L, p), r, x)
           /\ needs \subseteq Reg \X (Word \cup {None})
<1>1. ASSUME NEW r, NEW x, <<r, x>> \in needs PROVE r \in Reg /\ Knows(Ann(R, S, L, p), r, x)
  <2>1. r \in Reg
    BY <1>1 DEF Needed
  <2>2. <<r, x>> \in R \/ (x \in L /\ home[x] = r)
    BY <1>1 DEF Needed
  <2> QED
    BY <2>1, <2>2 DEF Knows, Ann
<1> QED
  BY <1>1 DEF Needed

\* An instruction that only reads what is known.
LEMMA ReadAt ==
    ASSUME NEW i, NEW R, NEW R2, NEW S, NEW L, NEW p, NEW needs,
           L \subseteq Busy(body, i), Needed(R, L, needs), Leaves(R, R2, {})
    PROVE  Safe(i, Read(needs), Ann(R, S, L, p), Ann(R2, S, L, p))
<1> DEFINE F == Ann(R, S, L, p)
           G == Ann(R2, S, L, p)
           o == Read(needs)
<1>0. /\ \A r, x : <<r, x>> \in needs => r \in Reg /\ Knows(F, r, x)
      /\ needs \subseteq Reg \X (Word \cup {None})
  BY NeedsKnown
<1>1. F.regs = R /\ F.stack = S /\ F.live = L /\ F.plain = p /\ G.regs = R2 /\ G.stack = S /\ G.live = L /\ G.plain = p
  BY DEF Ann
<1>2. o.k = "read" /\ o.needs = needs
  BY DEF Read, O
<1> HIDE DEF F, G, o
<1>3. Keeps(F, G, {}, {}, {})
  BY <1>1 DEF Keeps, Carries, Leaves
<1>4. Safe(i, o, F, G)
  BY <1>0, <1>1, <1>2, <1>3 DEF Safe, SafeRead
<1> QED
  BY <1>4 DEF F, G, o

\* A result appears in R0.
LEMMA ResultAt ==
    ASSUME NEW i, NEW R, NEW R2, NEW S, NEW L, NEW p, NEW needs, NEW v,
           L \subseteq Busy(body, i), Needed(R, L, needs), Spares(L, {"r0"}), Brings(R, R2, {"r0"}, "r0", v)
    PROVE  Safe(i, Result(v, needs), Ann(R, S, L, p), Ann(R2, S, L, p))
<1> DEFINE F == Ann(R, S, L, p)
           G == Ann(R2, S, L, p)
           o == Result(v, needs)
<1>0. /\ \A r, x : <<r, x>> \in needs => r \in Reg /\ Knows(F, r, x)
      /\ needs \subseteq Reg \X (Word \cup {None})
  BY NeedsKnown
<1>1. F.regs = R /\ F.stack = S /\ F.live = L /\ F.plain = p /\ G.regs = R2 /\ G.stack = S /\ G.live = L /\ G.plain = p
  BY DEF Ann
<1>2. o.k = "result" /\ o.a = v /\ o.needs = needs
  BY DEF Result, O
<1> HIDE DEF F, G, o
<1>3. Keeps(F, G, {"r0"}, {<<"r0", v>>}, {})
  BY <1>1 DEF Keeps, Carries, Brings, Spares
<1>4. Safe(i, o, F, G)
  BY <1>0, <1>1, <1>2, <1>3 DEF Safe, SafeResult
<1> QED
  BY <1>4 DEF F, G, o

\* After a value has come home, the values in L2 are there.
Adds(L, L2, v) == \A u \in L2 : (u \in L /\ home[u] # home[v]) \/ u = v

\* A result appears at home.
LEMMA DirectAt ==
    ASSUME NEW i, NEW R, NEW R2, NEW S, NEW L, NEW L2, NEW p, NEW needs, NEW v \in Value, home[v] \in Reg,
           L \subseteq Busy(body, i), L2 \subseteq Busy(body, i), Needed(R, L, needs),
           Adds(L, L2, v), Leaves(R, R2, {home[v]})
    PROVE  Safe(i, Direct(v, needs), Ann(R, S, L, p), Ann(R2, S, L2, p))
<1> DEFINE F == Ann(R, S, L, p)
           G == Ann(R2, S, L2, p)
           o == Direct(v, needs)
<1>0. /\ \A r, x : <<r, x>> \in needs => r \in Reg /\ Knows(F, r, x)
      /\ needs \subseteq Reg \X (Word \cup {None})
  BY NeedsKnown
<1>1. F.regs = R /\ F.stack = S /\ F.live = L /\ F.plain = p /\ G.regs = R2 /\ G.stack = S /\ G.live = L2 /\ G.plain = p
  BY DEF Ann
<1>2. o.k = "direct" /\ o.a = v /\ o.needs = needs
  BY DEF Direct, O
<1> HIDE DEF F, G, o
<1>3. Keeps(F, G, {home[v]}, {}, {v})
  BY <1>1 DEF Keeps, Carries, Leaves, Adds
<1>4. Safe(i, o, F, G)
  BY <1>0, <1>1, <1>2, <1>3 DEF Safe, SafeDirect
<1> QED
  BY <1>4 DEF F, G, o

\* A result in R0 goes home.
LEMMA DefineAt ==
    ASSUME NEW i, NEW R, NEW R2, NEW S, NEW L, NEW L2, NEW p, NEW v \in Value, home[v] # Constant,
           L \subseteq Busy(body, i), L2 \subseteq Busy(body, i), v \in Busy(body, i), <<"r0", v>> \in R,
           Spares(L, {"r3"}), Adds(L, L2, v), Leaves(R, R2, {"r3", home[v]}),
           Ann(R, S, L, p) \in Annotation, Ann(R2, S, L2, p) \in Annotation
    PROVE  Plan(i, Finish(v), Ann(R, S, L, p), Ann(R2, S, L2, p))
<1> DEFINE F == Ann(R, S, L, p)
           G == Ann(R2, S, L2, p)
           o == [O("define") EXCEPT !.a = v]
<1>1. F.regs = R /\ F.stack = S /\ F.live = L /\ F.plain = p /\ G.regs = R2 /\ G.stack = S /\ G.live = L2 /\ G.plain = p
  BY DEF Ann
<1>2. o.k = "define" /\ o.a = v /\ o.needs = {}
  BY DEF O
<1>5. Finish(v) = <<o>>
  BY DEF Finish
<1>6. F \in Annotation /\ G \in Annotation
  OBVIOUS
<1> HIDE DEF F, G, o
<1>3. Keeps(F, G, {"r3", home[v]}, {}, {v}) /\ Knows(F, "r0", v)
  BY <1>1 DEF Keeps, Carries, Leaves, Adds, Spares, Knows
<1>4. Safe(i, o, F, G)
  BY <1>1, <1>2, <1>3 DEF Safe, SafeDefine
<1>7. Plan(i, Finish(v), F, G)
  BY <1>4, <1>5, <1>6, Plan1
<1> QED
  BY <1>7 DEF F, G

\* A known word is pushed.
LEMMA PushAt ==
    ASSUME NEW i, NEW R, NEW R2, NEW S, NEW L, NEW p, NEW q \in Reg \ {"r3"}, NEW w \in Word,
           L \subseteq Busy(body, i), Spares(L, {"r3"}), Leaves(R, R2, {"r3"}),
           <<q, w>> \in R \/ (w \in L /\ home[w] = q)
    PROVE  Safe(i, Push(q), Ann(R, S, L, p), Ann(R2, Append(S, w), L, p))
<1> DEFINE F == Ann(R, S, L, p)
           G == Ann(R2, Append(S, w), L, p)
           o == Push(q)
<1>1. /\ F.regs = R /\ F.stack = S /\ F.live = L /\ F.plain = p
      /\ G.regs = R2 /\ G.stack = Append(S, w) /\ G.live = L /\ G.plain = p
  BY DEF Ann
<1>2. o.k = "push" /\ o.a = q /\ o.needs = {}
  BY DEF Push, O
<1> HIDE DEF F, G, o
<1>3. Carries(F, G, {"r3"}, {}, {}) /\ Knows(F, q, w)
  BY <1>1 DEF Carries, Leaves, Spares, Knows
<1>4. SafePush(o, F, G)
  BY <1>1, <1>2, <1>3 DEF SafePush
<1>5. Safe(i, o, F, G)
  BY <1>1, <1>2, <1>4 DEF Safe
<1> QED
  BY <1>5 DEF F, G, o

\* The last word pushed comes back.
LEMMA PopAt ==
    ASSUME NEW i, NEW R, NEW R2, NEW S, NEW L, NEW L2, NEW p, NEW q \in Reg, NEW w \in Word, L2 \subseteq Value,
           L \subseteq Busy(body, i), L2 \subseteq Busy(body, i), Brings(R, R2, {q}, q, w),
           \A u \in L2 : (u \in L /\ home[u] # q) \/ (u = w /\ home[u] = q)
    PROVE  Safe(i, Pop(q), Ann(R, Append(S, w), L, p), Ann(R2, S, L2, p))
<1> DEFINE F == Ann(R, Append(S, w), L, p)
           G == Ann(R2, S, L2, p)
           o == Pop(q)
<1>1. /\ F.regs = R /\ F.stack = Append(S, w) /\ F.live = L /\ F.plain = p
      /\ G.regs = R2 /\ G.stack = S /\ G.live = L2 /\ G.plain = p
  BY DEF Ann
<1>2. o.k = "pop" /\ o.a = q /\ o.needs = {}
  BY DEF Pop, O
<1> HIDE DEF F, G, o
<1>3. Carries(F, G, {q}, {<<q, w>>}, {v \in Value : v = w /\ home[v] = q})
  BY <1>1 DEF Carries, Brings
<1>4. SafePop(o, F, G)
  BY <1>1, <1>2, <1>3 DEF SafePop
<1>5. Safe(i, o, F, G)
  BY <1>1, <1>2, <1>4 DEF Safe
<1> QED
  BY <1>5 DEF F, G, o

\* The cache is cleared.
LEMMA ClearAt ==
    ASSUME NEW i, NEW R, NEW R2, NEW S, NEW L, NEW p, NEW p2, L \subseteq Busy(body, i), Leaves(R, R2, {})
    PROVE  Safe(i, O("clear"), Ann(R, S, L, p), Ann(R2, S, L, p2))
<1> DEFINE F == Ann(R, S, L, p)
           G == Ann(R2, S, L, p2)
           o == O("clear")
<1>1. F.regs = R /\ F.stack = S /\ F.live = L /\ F.plain = p /\ G.regs = R2 /\ G.stack = S /\ G.live = L /\ G.plain = p2
  BY DEF Ann
<1>2. o.k = "clear" /\ o.needs = {}
  BY DEF O
<1> HIDE DEF F, G, o
<1>3. SafeClear(o, F, G)
  BY <1>1 DEF SafeClear, Carries, Leaves
<1>4. Safe(i, o, F, G)
  BY <1>1, <1>2, <1>3 DEF Safe
<1> QED
  BY <1>4 DEF F, G, o

\* A label of the instruction is bound.
LEMMA LabelAt ==
    ASSUME NEW i, NEW R, NEW R2, NEW S, NEW L, NEW p, NEW p2, L \subseteq Busy(body, i),
           Spares(L, {"r0"}), Leaves(R, R2, {"r0"})
    PROVE  Safe(i, Label, Ann(R, S, L, p), Ann(R2, S, L, p2))
<1> DEFINE F == Ann(R, S, L, p)
           G == Ann(R2, S, L, p2)
           o == Label
<1>1. F.regs = R /\ F.stack = S /\ F.live = L /\ F.plain = p /\ G.regs = R2 /\ G.stack = S /\ G.live = L /\ G.plain = p2
  BY DEF Ann
<1>2. o.k = "label" /\ o.needs = {} /\ o.a = None
  BY DEF Label, O
<1> HIDE DEF F, G, o
<1>3. SafeLabel(o, F, G)
  BY <1>1, <1>2 DEF SafeLabel, Carries, Leaves, Spares
<1>4. Safe(i, o, F, G)
  BY <1>1, <1>2, <1>3 DEF Safe
<1> QED
  BY <1>4 DEF F, G, o

-----------------------------------------------------------------------------
\* A collection of facts is an annotation.
LEMMA AnnType ==
    ASSUME NEW R, NEW S \in Seq(Word), NEW L \in SUBSET Value, NEW p \in BOOLEAN,
           R \subseteq (Reg \ Cache) \X Word
    PROVE  Ann(R, S, L, p) \in Annotation
  BY DEF Ann, Annotation

Rings(x, y) == {<<"r12", x>>, <<"r13", y>>}
FrameStack == <<"link", "caller">> \o [k \in 1 .. FrameWords |-> Junk]
Base(open) == FrameStack \o (IF open THEN <<"count", "head">> ELSE <<>>)

\* What is known between two instructions of a block.
At(b, i, x, y) == Ann(Rings(x, y), Base(Open(b, i)), LiveAfter(b, i), FALSE)
\* The loop registers hold x and y: in a function with loops, the innermost loop's.
Turned(b, i, x, y) ==
    /\ x \in Word /\ y \in Word
    /\ b.loops => x = Counter(Open(b, i)) /\ y = LoopHead(Open(b, i))
Ends(b, i, G) ==
    /\ LiveAfter(b, i) \subseteq G.live
    /\ i < Len(b.code) => \E x, y : Turned(b, i, x, y) /\ G = At(b, i, x, y)
Weaker(F, G) ==
    /\ G.regs \subseteq F.regs /\ G.stack = F.stack /\ (G.plain => F.plain)
    /\ \A v \in G.live : v \in F.live \/ home[v] = Constant

BlockOK(b) ==
    /\ b \in Block /\ Sound(b) /\ Proper(b, home)
    /\ b.loops => \A v \in Value : home[v] # "r4"
    /\ (\E i \in 1 .. Len(b.code) : b.code[i].op = "divide") => \A v \in Value : home[v] \notin {"r2", "r4"}

Scratched == {"r0", "r1", "r3", "r6", "r9", "r11", "r12", "r13"}

\* The values around instruction i.
SceneOf(i) ==
    LET c == body.code[i] before == LiveAfter(body, i - 1) after == LiveAfter(body, i)
    IN  /\ before \subseteq Value /\ before \subseteq Busy(body, i)
        /\ after \subseteq Value /\ after \subseteq Busy(body, i)
        /\ Used(body.code, i) \subseteq before
        /\ Spares(Value, Scratched)
        /\ c.result = None => after \subseteq before
        /\ c.result # None =>
              /\ c.result \in Value /\ c.result \in Busy(body, i)
              /\ \A u \in after : u \in before \/ u = c.result
              /\ home[c.result] # Constant => Adds(before, after, c.result)
              /\ home[c.result] = Constant => c.op = "constant"
              /\ home[c.result] \notin Scratched

\* The words a register may hold and the registers that hold no value.
LEMMA WordFacts ==
    /\ Value \subseteq Word /\ Junk \in Word
    /\ {"link", "caller", "count", "head", "inner count", "inner head"} \subseteq Word
    /\ Scratched \subseteq Reg \ Cache /\ {"r2", "r4"} \subseteq Reg \ Cache
  BY DEF Word, Scratched, Reg, Cache

\* No value has its home in a scratch register.
LEMMA ScratchedFree ==
    ASSUME Homed
    PROVE  Spares(Value, Scratched)
<1>1. ASSUME NEW v \in Value PROVE home[v] \notin Scratched
  <2>1. CASE home[v] \in Slot
    <3>1. Scratched \subseteq Reg
      BY WordFacts
    <3> QED
      BY <2>1, <3>1, Distinct
  <2>2. CASE home[v] \in {"r2", "r4", "r5", "r7", "r8"} \cup {Constant}
    BY <2>2 DEF Scratched, Constant
  <2> QED
    BY <2>1, <2>2 DEF Homed
<1> QED
  BY <1>1 DEF Spares

\* Types of one instruction.
LEMMA Typed ==
    ASSUME NEW b \in Block, NEW i \in 1 .. Len(b.code)
    PROVE  /\ Len(b.code) \in Nat /\ i \in Nat /\ b.code[i] \in Instruction
           /\ Used(b.code, i) \subseteq Value /\ Defined(b.code, i) \subseteq Value
           /\ b.code[i].result = None => Defined(b.code, i) = {}
           /\ b.code[i].result # None => Defined(b.code, i) = {b.code[i].result} /\ b.code[i].result \in Value
<1>1. b.code \in Seq(Instruction)
  BY DEF Block
<1>2. Len(b.code) \in Nat /\ b.code[i] \in Instruction
  BY <1>1
<1>3. b.code[i].args \in Seq(Value) /\ b.code[i].result \in Value \cup {None}
  BY <1>2 DEF Instruction
<1>4. \A k \in 1 .. Len(b.code[i].args) : b.code[i].args[k] \in Value
  BY <1>3
<1> QED
  BY <1>2, <1>3, <1>4 DEF Used, Defined

\* An instruction makes its result available and nothing else.
LEMMA AvailableStep ==
    ASSUME NEW b \in Block, NEW i \in 1 .. Len(b.code)
    PROVE  /\ Available(b, i) = Available(b, i - 1) \cup Defined(b.code, i)
           /\ Available(b, i) \subseteq Value /\ Available(b, i - 1) \subseteq Value
<1>1. Len(b.code) \in Nat
  BY Typed
<1>2. 1 .. i = (1 .. i - 1) \cup {i} /\ i \in Nat
  BY <1>1
<1>3. Available(b, i) = Available(b, i - 1) \cup Defined(b.code, i)
  BY <1>2 DEF Available
<1>4. \A j \in 1 .. i : Defined(b.code, j) \subseteq Value
  <2> SUFFICES ASSUME NEW j \in 1 .. i PROVE Defined(b.code, j) \subseteq Value
    OBVIOUS
  <2>1. j \in 1 .. Len(b.code)
    BY <1>1
  <2> QED
    BY <2>1, Typed
<1>5. b.enter \subseteq Value
  BY DEF Block
<1>6. Available(b, i) \subseteq Value
  BY <1>4, <1>5 DEF Available
<1> QED
  BY <1>3, <1>6

\* The verifier's and the allocator's guarantees at one instruction: operands
\* live before it, at most its result is new after it, and no home is shared.
LEMMA Scene ==
    ASSUME BlockOK(body), Homed, NEW i \in 1 .. Len(body.code)
    PROVE  SceneOf(i)
<1> DEFINE c == body.code[i]
           before == LiveAfter(body, i - 1)
           after == LiveAfter(body, i)
<1>1. body \in Block /\ Sound(body) /\ Proper(body, home)
  BY DEF BlockOK
<1>2. /\ Len(body.code) \in Nat /\ i \in Nat
      /\ Used(body.code, i) \subseteq Value /\ Defined(body.code, i) \subseteq Value
      /\ c.result = None => Defined(body.code, i) = {}
      /\ c.result # None => Defined(body.code, i) = {c.result} /\ c.result \in Value
  BY <1>1, Typed
<1>3. /\ Available(body, i) = Available(body, i - 1) \cup Defined(body.code, i)
      /\ Available(body, i) \subseteq Value /\ Available(body, i - 1) \subseteq Value
  BY <1>1, AvailableStep
<1>4. Used(body.code, i) \subseteq Available(body, i - 1) /\ c.result \notin Available(body, i - 1)
  BY <1>1 DEF Sound
<1>5. before \subseteq Value /\ after \subseteq Value
  BY <1>3 DEF LiveAfter
<1>6. Used(body.code, i) \subseteq before
  BY <1>2, <1>4 DEF LiveAfter
<1>7. before \subseteq after \cup Used(body.code, i)
  <2> SUFFICES ASSUME NEW v \in before, v \notin Used(body.code, i) PROVE v \in after
    OBVIOUS
  <2>1. v \in Available(body, i) /\ (v \in body.leave \/ \E j \in (i - 1) + 1 .. Len(body.code) : v \in Used(body.code, j))
    BY <1>3 DEF LiveAfter
  <2>2. v \in body.leave \/ \E j \in i + 1 .. Len(body.code) : v \in Used(body.code, j)
    BY <1>2, <2>1
  <2> QED
    BY <2>1, <2>2 DEF LiveAfter
<1>8. after \subseteq before \cup Defined(body.code, i)
  <2> SUFFICES ASSUME NEW v \in after, v \notin Defined(body.code, i) PROVE v \in before
    OBVIOUS
  <2>1. v \in Available(body, i - 1) /\ (v \in body.leave \/ \E j \in i + 1 .. Len(body.code) : v \in Used(body.code, j))
    BY <1>3 DEF LiveAfter
  <2>2. v \in body.leave \/ \E j \in (i - 1) + 1 .. Len(body.code) : v \in Used(body.code, j)
    BY <1>2, <2>1
  <2> QED
    BY <2>1, <2>2 DEF LiveAfter
<1>9. before \subseteq Busy(body, i) /\ after \subseteq Busy(body, i) /\ Defined(body.code, i) \subseteq Busy(body, i)
  BY <1>7 DEF Busy
<1>10. c.result # None /\ home[c.result] # Constant => Adds(before, after, c.result)
  <2> SUFFICES ASSUME c.result # None, home[c.result] # Constant, NEW u \in after, u # c.result
               PROVE  u \in before /\ home[u] # home[c.result]
    BY DEF Adds
  <2>1. u \in before
    BY <1>2, <1>8
  <2>2. i \in 0 .. Len(body.code) /\ i # 0 /\ c.result \in Defined(body.code, i)
    BY <1>2
  <2>3. u \in after \cup (IF i = 0 THEN {} ELSE Defined(body.code, i))
        /\ c.result \in after \cup (IF i = 0 THEN {} ELSE Defined(body.code, i))
    BY <2>2
  <2>4. home[c.result] # home[u]
    <3>1. \A j \in 0 .. Len(body.code) : \A v, w \in LiveAfter(body, j) \cup (IF j = 0 THEN {} ELSE Defined(body.code, j)) :
             v # w /\ home[v] # Constant => home[v] # home[w]
      BY <1>1 DEF Proper
    <3> QED
      BY <2>2, <2>3, <3>1
  <2> QED
    BY <2>1, <2>4
<1>11. Spares(Value, Scratched)
  BY ScratchedFree
<1>12. c.result # None => /\ home[c.result] = Constant => c.op = "constant"
                          /\ home[c.result] \notin Scratched
  BY <1>1, <1>2, <1>11 DEF Proper, Spares
<1> HIDE DEF c, before, after
<1>13. /\ c.result = None => after \subseteq before
       /\ c.result # None => c.result \in Value /\ c.result \in Busy(body, i) /\ \A u \in after : u \in before \/ u = c.result
  BY <1>2, <1>8, <1>9
<1> QED
  BY <1>5, <1>6, <1>9, <1>10, <1>11, <1>12, <1>13 DEF SceneOf, c, before, after

\* The frame on the stack.
LEMMA FrameTyped ==
    /\ FrameStack \in Seq(Word) /\ Len(FrameStack) = FrameWords + 2 /\ FrameWords \in Nat
    /\ SubSeq(FrameStack, 1, 2) = <<"link", "caller">>
<1> DEFINE s == <<"link", "caller">>
           f == [k \in 1 .. FrameWords |-> Junk]
<1>1. FrameWords \in Nat
  BY EmissionAssumption
<1>0. "link" \in Word /\ "caller" \in Word /\ Junk \in Word
  BY WordFacts
<1>2. s \in Seq(Word) /\ Len(s) = 2 /\ s[1] = "link" /\ s[2] = "caller"
  BY <1>0
<1>3. f \in Seq(Word) /\ Len(f) = FrameWords
  <2>1. f \in [1 .. FrameWords -> Word]
    BY <1>0
  <2>2. f \in Seq(Word)
    BY <1>1, <2>1, SeqDef
  <2> QED
    BY <1>1, <2>2, LenProperties
<1>4. FrameStack = s \o f
  BY DEF FrameStack
<1> HIDE DEF s, f
<1>5. /\ s \o f \in Seq(Word) /\ Len(s \o f) = FrameWords + 2
      /\ \A k \in 1 .. 2 : (s \o f)[k] = s[k]
  <2>1. /\ s \o f \in Seq(Word) /\ Len(s \o f) = Len(s) + Len(f)
        /\ \A k \in 1 .. Len(s) + Len(f) : (s \o f)[k] = IF k <= Len(s) THEN s[k] ELSE f[k - Len(s)]
    BY <1>2, <1>3, ConcatProperties
  <2> QED
    BY <1>1, <1>2, <1>3, <2>1
<1>6. SubSeq(s \o f, 1, 2) = s
  <2> DEFINE q == SubSeq(s \o f, 1, 2)
  <2>1. q \in Seq(Word) /\ Len(q) = 2 /\ \A k \in 1 .. 2 : q[k] = (s \o f)[k]
    BY <1>1, <1>5, SubSeqProperties
  <2> HIDE DEF q
  <2>2. q = s
    BY <1>2, <1>5, <2>1, SeqEqual
  <2> QED
    BY <2>2 DEF q
<1> QED
  BY <1>1, <1>4, <1>5, <1>6 DEF s

\* The stack between two instructions: the frame and an open loop's two words.
LEMMA BaseTyped ==
    ASSUME NEW open \in BOOLEAN
    PROVE  /\ Base(open) \in Seq(Word) /\ Len(Base(open)) = 2 + FrameWords + (IF open THEN 2 ELSE 0)
           /\ Base(TRUE) = Append(Append(Base(FALSE), "count"), "head")
           /\ SubSeq(Base(open), 1, 2) = <<"link", "caller">>
<1> DEFINE h == <<"count", "head">>
<1>1. FrameStack \in Seq(Word) /\ Len(FrameStack) = FrameWords + 2 /\ FrameWords \in Nat
      /\ SubSeq(FrameStack, 1, 2) = <<"link", "caller">>
  BY FrameTyped
<1>2. "count" \in Word /\ "head" \in Word
  BY WordFacts
<1> HIDE DEF FrameStack
<1>3. h \in Seq(Word) /\ Len(h) = 2 /\ h[1] = "count" /\ h[2] = "head"
  BY <1>2
<1>4. Base(FALSE) = FrameStack
  BY <1>1, ConcatEmptySeq DEF Base
<1>5. Base(TRUE) = FrameStack \o h
  BY DEF Base
<1> HIDE DEF h
<1> DEFINE a == Append(FrameStack, "count")
           b == Append(a, "head")
<1>6. /\ a \in Seq(Word) /\ Len(a) = FrameWords + 3 /\ a[FrameWords + 3] = "count"
      /\ \A k \in 1 .. FrameWords + 2 : a[k] = FrameStack[k]
  BY <1>1, <1>2, AppendProperties
<1> HIDE DEF a
<1>7. /\ b \in Seq(Word) /\ Len(b) = FrameWords + 4 /\ b[FrameWords + 4] = "head"
      /\ \A k \in 1 .. FrameWords + 3 : b[k] = a[k]
  BY <1>1, <1>2, <1>6, AppendProperties
<1> HIDE DEF b
<1>8. /\ FrameStack \o h \in Seq(Word) /\ Len(FrameStack \o h) = FrameWords + 4
      /\ \A k \in 1 .. FrameWords + 4 : (FrameStack \o h)[k] = IF k <= FrameWords + 2 THEN FrameStack[k] ELSE h[k - (FrameWords + 2)]
  <2>1. /\ FrameStack \o h \in Seq(Word) /\ Len(FrameStack \o h) = Len(FrameStack) + Len(h)
        /\ \A k \in 1 .. Len(FrameStack) + Len(h) :
              (FrameStack \o h)[k] = IF k <= Len(FrameStack) THEN FrameStack[k] ELSE h[k - Len(FrameStack)]
    BY <1>1, <1>3, ConcatProperties
  <2> QED
    BY <1>1, <1>3, <2>1
<1>9. FrameStack \o h = b
  <2>1. \A k \in 1 .. FrameWords + 4 : (FrameStack \o h)[k] = b[k]
    <3> SUFFICES ASSUME NEW k \in 1 .. FrameWords + 4 PROVE (FrameStack \o h)[k] = b[k]
      OBVIOUS
    <3>1. CASE k <= FrameWords + 2
      <4>1. k \in 1 .. FrameWords + 2 /\ k \in 1 .. FrameWords + 3
        BY <1>1, <3>1
      <4>2. b[k] = FrameStack[k]
        BY <1>6, <1>7, <4>1
      <4> QED
        BY <1>8, <3>1, <4>2
    <3>2. CASE k = FrameWords + 3
      <4>1. ~(k <= FrameWords + 2) /\ k - (FrameWords + 2) = 1 /\ k \in 1 .. FrameWords + 3
        BY <1>1, <3>2
      <4> QED
        BY <1>3, <1>6, <1>7, <1>8, <3>2, <4>1
    <3>3. CASE k = FrameWords + 4
      <4>1. ~(k <= FrameWords + 2) /\ k - (FrameWords + 2) = 2
        BY <1>1, <3>3
      <4> QED
        BY <1>3, <1>7, <1>8, <3>3, <4>1
    <3>4. k <= FrameWords + 2 \/ k = FrameWords + 3 \/ k = FrameWords + 4
      BY <1>1
    <3> QED
      BY <3>1, <3>2, <3>3, <3>4
  <2> QED
    BY <1>7, <1>8, <2>1, SeqEqual
<1>10. SubSeq(FrameStack \o h, 1, 2) = SubSeq(FrameStack, 1, 2)
  <2> DEFINE q == SubSeq(FrameStack \o h, 1, 2)
             r == SubSeq(FrameStack, 1, 2)
  <2>1. q \in Seq(Word) /\ Len(q) = 2 /\ \A k \in 1 .. 2 : q[k] = (FrameStack \o h)[k]
    BY <1>1, <1>8, SubSeqProperties
  <2>2. r \in Seq(Word) /\ Len(r) = 2 /\ \A k \in 1 .. 2 : r[k] = FrameStack[k]
    BY <1>1, SubSeqProperties
  <2> HIDE DEF q, r
  <2>3. \A k \in 1 .. 2 : q[k] = r[k]
    BY <1>1, <1>8, <2>1, <2>2
  <2>4. q = r
    BY <2>1, <2>2, <2>3, SeqEqual
  <2> QED
    BY <2>4 DEF q, r
<1>11. Base(TRUE) = Append(Append(Base(FALSE), "count"), "head")
  BY <1>4, <1>5, <1>9 DEF a, b
<1>12. CASE open
  <2>1. Base(open) = FrameStack \o h
    BY <1>5, <1>12
  <2>2. Base(open) \in Seq(Word) /\ SubSeq(Base(open), 1, 2) = <<"link", "caller">>
    BY <1>1, <1>8, <1>10, <2>1
  <2>3. Len(Base(open)) = 2 + FrameWords + (IF open THEN 2 ELSE 0)
    <3>1. Len(Base(open)) = FrameWords + 4 /\ (IF open THEN 2 ELSE 0) = 2
      BY <1>8, <1>12, <2>1
    <3> QED
      BY <1>1, <3>1
  <2> QED
    BY <1>11, <2>2, <2>3
<1>13. CASE ~open
  <2>1. Base(open) = FrameStack
    BY <1>4, <1>13
  <2>2. Base(open) \in Seq(Word) /\ SubSeq(Base(open), 1, 2) = <<"link", "caller">>
    BY <1>1, <2>1
  <2>3. Len(Base(open)) = 2 + FrameWords + (IF open THEN 2 ELSE 0)
    BY <1>1, <1>13, <2>1
  <2> QED
    BY <1>11, <2>2, <2>3
<1> QED
  BY <1>12, <1>13

\* An instruction other than the end of a loop leaves the loops as they are.
LEMMA OpenStays ==
    ASSUME BlockOK(body), NEW i \in 1 .. Len(body.code)
    PROVE  /\ Open(body, i) \in BOOLEAN /\ Open(body, i - 1) \in BOOLEAN
           /\ body.code[i].op # "leave" => Open(body, i) = Open(body, i - 1)
           /\ body.code[i].op = "leave" => Open(body, i) = FALSE
<1>1. Len(body.code) \in Nat /\ body.open \in BOOLEAN
  BY Typed DEF BlockOK, Block
<1>2. 1 .. i = (1 .. i - 1) \cup {i} /\ i \in 1 .. i
  BY <1>1
<1> QED
  BY <1>1, <1>2 DEF Open

\* What each kind of instruction emits.
LEMMA EmittedIs ==
    ASSUME NEW i
    PROVE  LET c == body.code[i] IN
           /\ c.op = "constant" => Emitted(i) = IF home[c.result] = Constant THEN <<>>
                                  ELSE IF InReg(c.result) THEN <<Direct(c.result, {})>>
                                  ELSE <<Result(c.result, {})>> \o Finish(c.result)
           /\ c.op = "binary" => Emitted(i) = emitBinary(c.result, c.args[1], c.args[2])
           /\ c.op = "compare" => Emitted(i) = emitScalarComparison(c.result, c.args[1], c.args[2])
           /\ c.op = "divide" => Emitted(i) = emitDivision(c.result, c.args[1], c.args[2])
           /\ c.op = "load" => Emitted(i) = emitLoadIndirect(c.result, c.args[1])
           /\ c.op = "store" => Emitted(i) = <<[O("store") EXCEPT !.a = c.args[1], !.b = c.args[2]]>>
           /\ c.op = "call" => Emitted(i) = emitCall(i)
           /\ c.op = "fill" => Emitted(i) = emitMemoryInitialize(Open(body, i))
           /\ c.op = "loop" => Emitted(i) = emitHardwareLoop(c.args[1], FALSE, Open(body, i))
           /\ c.op = "loop in registers" => Emitted(i) = emitHardwareLoop(c.args[1], TRUE, Open(body, i))
           /\ c.op = "leave" => Emitted(i) = <<Pop("r13"), Pop("r12")>> \o LoopRegisters(FALSE)
           /\ c.op = "return" => Emitted(i) = emitFunctionEpilogue(c.args[1])
  BY DEF Emitted

-----------------------------------------------------------------------------
\* The setting of a plan: a stack, the values at home and the loop registers.
Setting(i, S, L, x, y) ==
    /\ S \in Seq(Word) /\ L \subseteq Value /\ L \subseteq Busy(body, i) /\ Spares(L, Scratched)
    /\ x \in Word /\ y \in Word

\* The facts of a setting make an annotation.
LEMMA Settled ==
    ASSUME NEW i, NEW S, NEW L, NEW x, NEW y, Setting(i, S, L, x, y), NEW p \in BOOLEAN, NEW R,
           R \subseteq (Scratched \cup {"r2", "r4"}) \X Word
    PROVE  /\ Ann(Rings(x, y) \cup R, S, L, p) \in Annotation
           /\ Ann(Rings(x, y), S, L, p) \in Annotation
<1>1. Scratched \cup {"r2", "r4"} \subseteq Reg \ Cache
  BY WordFacts
<1>2. "r12" \in Scratched /\ "r13" \in Scratched
  BY DEF Scratched
<1>3. Rings(x, y) \subseteq (Scratched \cup {"r2", "r4"}) \X Word
  BY <1>2 DEF Rings, Setting
<1> QED
  BY <1>1, <1>3, AnnType DEF Setting

\* With up to three facts about registers, it is an annotation.
LEMMA Settles ==
    ASSUME NEW i, NEW S, NEW L, NEW x, NEW y, Setting(i, S, L, x, y), NEW p \in BOOLEAN,
           NEW q \in Scratched \cup {"r2", "r4"}, NEW v \in Word,
           NEW q2 \in Scratched \cup {"r2", "r4"}, NEW v2 \in Word,
           NEW q3 \in Scratched \cup {"r2", "r4"}, NEW v3 \in Word
    PROVE  /\ Ann(Rings(x, y), S, L, p) \in Annotation
           /\ Ann(Rings(x, y) \cup {<<q, v>>}, S, L, p) \in Annotation
           /\ Ann(Rings(x, y) \cup {<<q, v>>, <<q2, v2>>}, S, L, p) \in Annotation
           /\ Ann(Rings(x, y) \cup {<<q, v>>, <<q2, v2>>, <<q3, v3>>}, S, L, p) \in Annotation
<1>1. /\ {<<q, v>>} \subseteq (Scratched \cup {"r2", "r4"}) \X Word
      /\ {<<q, v>>, <<q2, v2>>} \subseteq (Scratched \cup {"r2", "r4"}) \X Word
      /\ {<<q, v>>, <<q2, v2>>, <<q3, v3>>} \subseteq (Scratched \cup {"r2", "r4"}) \X Word
  OBVIOUS
<1> QED
  BY <1>1, Settled

\* emitBinaryOperands brings both operands, also when one displaces the other.
LEMMA OperandsPlan ==
    ASSUME NEW i, NEW S, NEW L, NEW x, NEW y, Setting(i, S, L, x, y), NEW p \in BOOLEAN, NEW l \in L, NEW r \in L
    PROVE  Plan(i, emitBinaryOperands(l, r), Ann(Rings(x, y), S, L, p), Ann(Rings(x, y) \cup Both(l, r), S, L, p))
<1> DEFINE A(R) == Ann(Rings(x, y) \cup R, S, L, p)
<1>0. /\ l \in Word /\ r \in Word /\ L \subseteq Busy(body, i)
      /\ Spares(L, {"r0", "r3"}) /\ Spares(L, {"r1"}) /\ Spares(L, {"r6"})
      /\ {"r0", "r1", "r3", "r6"} \subseteq Scratched /\ {"r0", "r1", "r3", "r6"} \subseteq Reg
      /\ Rings(x, y) = Rings(x, y) \cup {}
  BY WordFacts DEF Setting, Spares, Scratched
<1>2. CASE InReg(r)
  <2>1. Safe(i, Use(l), A({}), A({<<"r0", l>>}))
    <3>1. Brings(Rings(x, y) \cup {}, Rings(x, y) \cup {<<"r0", l>>}, {"r0", "r3"}, "r0", l)
      BY DEF Brings, Rings
    <3> QED
      BY <1>0, <3>1, UseAt
  <2>2. Safe(i, Move("r1", home[r]), A({<<"r0", l>>}), A(Both(l, r)))
    <3>1. Brings(Rings(x, y) \cup {<<"r0", l>>}, Rings(x, y) \cup Both(l, r), {"r1"}, "r1", r)
      BY DEF Brings, Rings, Both
    <3> QED
      BY <1>0, <1>2, <3>1, MoveAt DEF InReg
  <2>3. A({}) \in Annotation /\ A({<<"r0", l>>}) \in Annotation /\ A(Both(l, r)) \in Annotation
    BY <1>0, Settles DEF Both
  <2> QED
    BY <1>0, <1>2, <2>1, <2>2, <2>3, Plan2 DEF emitBinaryOperands
<1>3. CASE ~InReg(r)
  <2>1. Safe(i, Use(r), A({}), A({<<"r0", r>>}))
    <3>1. Brings(Rings(x, y) \cup {}, Rings(x, y) \cup {<<"r0", r>>}, {"r0", "r3"}, "r0", r)
      BY DEF Brings, Rings
    <3> QED
      BY <1>0, <3>1, UseAt
  <2>2. Safe(i, Move("r6", "r0"), A({<<"r0", r>>}), A({<<"r6", r>>}))
    <3>1. Brings(Rings(x, y) \cup {<<"r0", r>>}, Rings(x, y) \cup {<<"r6", r>>}, {"r6"}, "r6", r)
      BY DEF Brings, Rings
    <3> QED
      BY <1>0, <3>1, MoveAt
  <2>3. Safe(i, Use(l), A({<<"r6", r>>}), A({<<"r6", r>>, <<"r0", l>>}))
    <3>1. Brings(Rings(x, y) \cup {<<"r6", r>>}, Rings(x, y) \cup {<<"r6", r>>, <<"r0", l>>}, {"r0", "r3"}, "r0", l)
      BY DEF Brings, Rings
    <3> QED
      BY <1>0, <3>1, UseAt
  <2>4. Safe(i, Move("r1", "r6"), A({<<"r6", r>>, <<"r0", l>>}), A(Both(l, r)))
    <3>1. Brings(Rings(x, y) \cup {<<"r6", r>>, <<"r0", l>>}, Rings(x, y) \cup Both(l, r), {"r1"}, "r1", r)
      BY DEF Brings, Rings, Both
    <3> QED
      BY <1>0, <3>1, MoveAt
  <2>5. /\ A({}) \in Annotation /\ A({<<"r0", r>>}) \in Annotation /\ A({<<"r6", r>>}) \in Annotation
        /\ A({<<"r6", r>>, <<"r0", l>>}) \in Annotation /\ A(Both(l, r)) \in Annotation
    BY <1>0, Settles DEF Both
  <2> QED
    BY <1>0, <1>3, <2>1, <2>2, <2>3, <2>4, <2>5, Plan4 DEF emitBinaryOperands
<1> QED
  BY <1>2, <1>3

-----------------------------------------------------------------------------
\* Instruction i defines v: after it the values in L2 are at home.
Defines(i, L, L2, v) ==
    /\ v \in Value /\ v \in Busy(body, i) /\ home[v] # Constant /\ home[v] \notin Scratched
    /\ Adds(L, L2, v)

\* A result in R0 goes home and is forgotten there.
LEMMA FinishPlan ==
    ASSUME NEW i, NEW S, NEW L, NEW L2, NEW x, NEW y, Setting(i, S, L, x, y), Setting(i, S, L2, x, y),
           NEW p \in BOOLEAN, NEW v, Defines(i, L, L2, v)
    PROVE  Plan(i, Finish(v), Ann(Rings(x, y) \cup {<<"r0", v>>}, S, L, p), Ann(Rings(x, y), S, L2, p))
<1>1. /\ v \in Value /\ home[v] # Constant /\ L \subseteq Busy(body, i) /\ L2 \subseteq Busy(body, i)
      /\ v \in Busy(body, i) /\ Adds(L, L2, v) /\ home[v] \notin Scratched
  BY DEF Defines, Setting
<1>2. Spares(L, {"r3"}) /\ "r0" \in Scratched /\ "r12" \in Scratched /\ "r13" \in Scratched /\ v \in Word
  BY <1>1, WordFacts DEF Setting, Spares, Scratched
<1>3. Leaves(Rings(x, y) \cup {<<"r0", v>>}, Rings(x, y), {"r3", home[v]})
  BY <1>1, <1>2 DEF Leaves, Rings
<1>4. <<"r0", v>> \in Rings(x, y) \cup {<<"r0", v>>}
  OBVIOUS
<1>5. /\ Ann(Rings(x, y) \cup {<<"r0", v>>}, S, L, p) \in Annotation
      /\ Ann(Rings(x, y), S, L2, p) \in Annotation
  BY <1>2, Settles
<1> QED
  BY <1>1, <1>2, <1>3, <1>4, <1>5, DefineAt

\* A result in R0 that goes home.
LEMMA ResultPlan ==
    ASSUME NEW i, NEW S, NEW L, NEW L2, NEW x, NEW y, Setting(i, S, L, x, y), Setting(i, S, L2, x, y),
           NEW p \in BOOLEAN, NEW v, Defines(i, L, L2, v), NEW R, NEW needs,
           Ann(Rings(x, y) \cup R, S, L, p) \in Annotation, Needed(Rings(x, y) \cup R, L, needs)
    PROVE  /\ Plan(i, <<Result(v, needs)>>, Ann(Rings(x, y) \cup R, S, L, p), Ann(Rings(x, y) \cup {<<"r0", v>>}, S, L, p))
           /\ Plan(i, <<Result(v, needs)>> \o Finish(v), Ann(Rings(x, y) \cup R, S, L, p), Ann(Rings(x, y), S, L2, p))
<1>1. L \subseteq Busy(body, i) /\ Spares(L, {"r0"}) /\ "r0" \in Scratched /\ v \in Word
  BY WordFacts DEF Defines, Setting, Spares, Scratched
<1>2. Brings(Rings(x, y) \cup R, Rings(x, y) \cup {<<"r0", v>>}, {"r0"}, "r0", v)
  BY DEF Brings, Rings
<1>3. Safe(i, Result(v, needs), Ann(Rings(x, y) \cup R, S, L, p), Ann(Rings(x, y) \cup {<<"r0", v>>}, S, L, p))
  BY <1>1, <1>2, ResultAt
<1>4. Ann(Rings(x, y) \cup {<<"r0", v>>}, S, L, p) \in Annotation
  BY <1>1, Settles
<1>5. Plan(i, <<Result(v, needs)>>, Ann(Rings(x, y) \cup R, S, L, p), Ann(Rings(x, y) \cup {<<"r0", v>>}, S, L, p))
  BY <1>3, <1>4, Plan1
<1>6. Plan(i, Finish(v), Ann(Rings(x, y) \cup {<<"r0", v>>}, S, L, p), Ann(Rings(x, y), S, L2, p))
  BY FinishPlan
<1> QED
  BY <1>5, <1>6, PlanJoin

\* An operation on allocated registers.
LEMMA DirectPlan ==
    ASSUME NEW i, NEW S, NEW L, NEW L2, NEW x, NEW y, Setting(i, S, L, x, y), Setting(i, S, L2, x, y),
           NEW p \in BOOLEAN, NEW v, Defines(i, L, L2, v), InReg(v), NEW R, NEW needs,
           Ann(Rings(x, y) \cup R, S, L, p) \in Annotation, Needed(Rings(x, y) \cup R, L, needs)
    PROVE  Plan(i, <<Direct(v, needs)>>, Ann(Rings(x, y) \cup R, S, L, p), Ann(Rings(x, y), S, L2, p))
<1>1. /\ v \in Value /\ L \subseteq Busy(body, i) /\ L2 \subseteq Busy(body, i) /\ Adds(L, L2, v)
      /\ home[v] \in Reg /\ home[v] \notin Scratched
  BY DEF Defines, Setting, InReg
<1>2. "r12" \in Scratched /\ "r13" \in Scratched /\ "r0" \in Scratched /\ v \in Word
  BY <1>1, WordFacts DEF Scratched
<1>3. Leaves(Rings(x, y) \cup R, Rings(x, y), {home[v]})
  BY <1>1, <1>2 DEF Leaves, Rings
<1>4. Safe(i, Direct(v, needs), Ann(Rings(x, y) \cup R, S, L, p), Ann(Rings(x, y), S, L2, p))
  BY <1>1, <1>3, DirectAt
<1>5. Ann(Rings(x, y), S, L2, p) \in Annotation
  BY <1>2, Settles
<1> QED
  BY <1>4, <1>5, Plan1

\* emitBinary, on each of its paths.
LEMMA BinaryPlan ==
    ASSUME NEW i, NEW S, NEW L, NEW L2, NEW x, NEW y, Setting(i, S, L, x, y), Setting(i, S, L2, x, y),
           NEW v, Defines(i, L, L2, v), NEW l \in L, NEW r \in L
    PROVE  Plan(i, emitBinary(v, l, r), Ann(Rings(x, y), S, L, FALSE), Ann(Rings(x, y), S, L2, FALSE))
<1> DEFINE A(R) == Ann(Rings(x, y) \cup R, S, L, FALSE)
           Z == Ann(Rings(x, y), S, L2, FALSE)
<1>0. /\ l \in Word /\ r \in Word /\ L \subseteq Busy(body, i) /\ Spares(L, {"r0", "r3"})
      /\ "r0" \in Scratched /\ "r1" \in Scratched /\ "r0" \in Reg /\ "r1" \in Reg
      /\ Rings(x, y) = Rings(x, y) \cup {}
  BY WordFacts DEF Setting, Spares, Scratched
<1>1. A({}) \in Annotation /\ A({<<"r0", r>>}) \in Annotation /\ A(Both(l, r)) \in Annotation
  BY <1>0, Settles DEF Both
<1>2. CASE InReg(v) /\ InReg(l) /\ InReg(r)
  <2>1. Needed(Rings(x, y) \cup {}, L, {<<home[l], l>>, <<home[r], r>>})
    BY <1>0, <1>2 DEF Needed, InReg
  <2>2. Plan(i, <<Direct(v, {<<home[l], l>>, <<home[r], r>>})>>, A({}), Z)
    BY <1>1, <1>2, <2>1, DirectPlan
  <2> QED
    BY <1>0, <1>2, <2>2 DEF emitBinary
<1>3. CASE InReg(v) /\ InReg(l) /\ ~InReg(r) /\ InSlot(r)
  <2>1. Needed(Rings(x, y) \cup {<<"r0", r>>}, L, {<<home[l], l>>, <<"r0", r>>})
    BY <1>0, <1>3 DEF Needed, InReg
  <2>2. Plan(i, <<Direct(v, {<<home[l], l>>, <<"r0", r>>})>>, A({<<"r0", r>>}), Z)
    BY <1>1, <1>3, <2>1, DirectPlan
  <2>3. Safe(i, Use(r), A({}), A({<<"r0", r>>}))
    <3>1. Brings(Rings(x, y) \cup {}, Rings(x, y) \cup {<<"r0", r>>}, {"r0", "r3"}, "r0", r)
      BY DEF Brings, Rings
    <3> QED
      BY <1>0, <3>1, UseAt
  <2>4. Plan(i, <<Use(r)>>, A({}), A({<<"r0", r>>}))
    BY <1>1, <2>3, Plan1
  <2>5. emitBinary(v, l, r) = <<Use(r)>> \o <<Direct(v, {<<home[l], l>>, <<"r0", r>>})>>
    BY <1>3 DEF emitBinary
  <2> QED
    BY <1>0, <2>2, <2>4, <2>5, PlanJoin
<1>4. CASE ~(InReg(v) /\ InReg(l) /\ InReg(r)) /\ ~(InReg(v) /\ InReg(l) /\ InSlot(r))
  <2>1. Plan(i, emitBinaryOperands(l, r), A({}), A(Both(l, r)))
    BY <1>0, OperandsPlan
  <2>2. Needed(Rings(x, y) \cup Both(l, r), L, Both(l, r))
    BY <1>0 DEF Needed, Both
  <2>3. /\ Plan(i, <<Result(v, Both(l, r))>>, A(Both(l, r)), A({<<"r0", v>>}))
        /\ Plan(i, Finish(v), A({<<"r0", v>>}), Z)
    BY <1>1, <2>2, ResultPlan, FinishPlan
  <2>4. emitBinary(v, l, r) = emitBinaryOperands(l, r) \o <<Result(v, Both(l, r))>> \o Finish(v)
    BY <1>4 DEF emitBinary
  <2>5. Plan(i, emitBinaryOperands(l, r) \o <<Result(v, Both(l, r))>>, A({}), A({<<"r0", v>>}))
    BY <2>1, <2>3, PlanJoin
  <2>6. Plan(i, emitBinary(v, l, r), A({}), Z)
    BY <2>3, <2>4, <2>5, PlanJoin
  <2> QED
    BY <1>0, <2>6
<1> QED
  BY <1>2, <1>3, <1>4

-----------------------------------------------------------------------------
\* A fence: the stack has the height its number says.
LEMMA FenceAt ==
    ASSUME NEW i, NEW R, NEW R2, NEW S, NEW L, NEW p, NEW o, o.k = "fence", Needed(R, L, o.needs),
           L \subseteq Busy(body, i), Leaves(R, R2, {}), o.n > 0 => Len(S) = o.n
    PROVE  Safe(i, o, Ann(R, S, L, p), Ann(R2, S, L, p))
<1> DEFINE F == Ann(R, S, L, p)
           G == Ann(R2, S, L, p)
<1>0. /\ \A r, x : <<r, x>> \in o.needs => r \in Reg /\ Knows(F, r, x)
      /\ o.needs \subseteq Reg \X (Word \cup {None})
  BY NeedsKnown
<1>1. F.regs = R /\ F.stack = S /\ F.live = L /\ F.plain = p /\ G.regs = R2 /\ G.stack = S /\ G.live = L /\ G.plain = p
  BY DEF Ann
<1> HIDE DEF F, G
<1>3. SafeFence(o, F, G)
  BY <1>1 DEF SafeFence, Keeps, Carries, Leaves
<1>4. Safe(i, o, F, G)
  BY <1>0, <1>1, <1>3 DEF Safe
<1> QED
  BY <1>4 DEF F, G

\* A load through a known pointer.
LEMMA LoadAt ==
    ASSUME NEW i, NEW R, NEW R2, NEW S, NEW L, NEW L2, NEW p, NEW o, o.k = "load", Needed(R, L, o.needs),
           o.a \in Value, o.b \in Reg, L \subseteq Busy(body, i), L2 \subseteq Busy(body, i),
           Brings(R, R2, {o.b}, o.b, o.a), \A u \in L2 : (u \in L /\ home[u] # o.b) \/ (u = o.a /\ home[u] = o.b)
    PROVE  Safe(i, o, Ann(R, S, L, p), Ann(R2, S, L2, p))
<1> DEFINE F == Ann(R, S, L, p)
           G == Ann(R2, S, L2, p)
<1>0. /\ \A r, x : <<r, x>> \in o.needs => r \in Reg /\ Knows(F, r, x)
      /\ o.needs \subseteq Reg \X (Word \cup {None})
  BY NeedsKnown
<1>1. F.regs = R /\ F.stack = S /\ F.live = L /\ F.plain = p /\ G.regs = R2 /\ G.stack = S /\ G.live = L2 /\ G.plain = p
  BY DEF Ann
<1> HIDE DEF F, G
<1>3. SafeLoad(o, F, G)
  BY <1>1 DEF SafeLoad, Keeps, Carries, Brings
<1>4. Safe(i, o, F, G)
  BY <1>0, <1>1, <1>3 DEF Safe
<1> QED
  BY <1>4 DEF F, G

\* A store of a live value through a live pointer.
LEMMA StoreAt ==
    ASSUME NEW i, NEW R, NEW R2, NEW S, NEW L, NEW L2, NEW p, NEW o, o.k = "store", o.needs = {},
           o.a \in L, o.b \in L, L \subseteq Busy(body, i), L2 \subseteq L,
           Leaves(R, R2, {"r0", "r3", "r6"}), Spares(L, {"r0", "r3", "r6"})
    PROVE  Safe(i, o, Ann(R, S, L, p), Ann(R2, S, L2, p))
<1> DEFINE F == Ann(R, S, L, p)
           G == Ann(R2, S, L2, p)
<1>1. F.regs = R /\ F.stack = S /\ F.live = L /\ F.plain = p /\ G.regs = R2 /\ G.stack = S /\ G.live = L2 /\ G.plain = p
  BY DEF Ann
<1> HIDE DEF F, G
<1>3. SafeStore(o, F, G)
  BY <1>1 DEF SafeStore, Keeps, Carries, Leaves, Spares
<1>4. Safe(i, o, F, G)
  BY <1>1, <1>3 DEF Safe
<1> QED
  BY <1>4 DEF F, G

\* emitScalarComparison, on each of its paths.
LEMMA ComparePlan ==
    ASSUME NEW i, NEW S, NEW L, NEW L2, NEW x, NEW y, Setting(i, S, L, x, y), Setting(i, S, L2, x, y),
           NEW v, Defines(i, L, L2, v), NEW l \in L, NEW r \in L
    PROVE  Plan(i, emitScalarComparison(v, l, r), Ann(Rings(x, y), S, L, FALSE), Ann(Rings(x, y), S, L2, FALSE))
<1> DEFINE A(R) == Ann(Rings(x, y) \cup R, S, L, FALSE)
           Z == Ann(Rings(x, y), S, L2, FALSE)
           E == IF InReg(l) /\ InReg(r) THEN <<Result(v, {<<home[l], l>>, <<home[r], r>>})>>
                ELSE IF InReg(l) THEN <<Use(r), Result(v, {<<home[l], l>>, <<"r0", r>>})>>
                ELSE IF InReg(r) THEN <<Use(l), Result(v, {<<"r0", l>>, <<home[r], r>>})>>
                ELSE <<Use(r), Move("r6", "r0"), Use(l), Result(v, {<<"r0", l>>, <<"r6", r>>})>>
<1>0. /\ l \in Word /\ r \in Word /\ v \in Word /\ L \subseteq Busy(body, i)
      /\ Spares(L, {"r0", "r3"}) /\ Spares(L, {"r6"})
      /\ "r0" \in Scratched /\ "r6" \in Scratched /\ "r0" \in Reg /\ "r6" \in Reg
      /\ Rings(x, y) = Rings(x, y) \cup {}
  BY WordFacts DEF Setting, Spares, Scratched, Defines
<1>1. /\ A({}) \in Annotation /\ A({<<"r0", r>>}) \in Annotation /\ A({<<"r0", l>>}) \in Annotation
      /\ A({<<"r6", r>>}) \in Annotation /\ A({<<"r0", l>>, <<"r6", r>>}) \in Annotation
      /\ A({<<"r0", v>>}) \in Annotation
  BY <1>0, Settles
<1>2. ASSUME NEW u \in L PROVE Safe(i, Use(u), A({}), A({<<"r0", u>>}))
  <2>1. Brings(Rings(x, y) \cup {}, Rings(x, y) \cup {<<"r0", u>>}, {"r0", "r3"}, "r0", u)
    BY DEF Brings, Rings
  <2> QED
    BY <1>0, <2>1, UseAt
<1>3. Plan(i, E, A({}), A({<<"r0", v>>}))
  <2>1. CASE InReg(l) /\ InReg(r)
    <3>1. Needed(Rings(x, y) \cup {}, L, {<<home[l], l>>, <<home[r], r>>})
      BY <1>0, <2>1 DEF Needed, InReg
    <3>2. Plan(i, <<Result(v, {<<home[l], l>>, <<home[r], r>>})>>, A({}), A({<<"r0", v>>}))
      BY <1>1, <3>1, ResultPlan
    <3> QED
      BY <2>1, <3>2
  <2>2. CASE InReg(l) /\ ~InReg(r)
    <3>1. Needed(Rings(x, y) \cup {<<"r0", r>>}, L, {<<home[l], l>>, <<"r0", r>>})
      BY <1>0, <2>2 DEF Needed, InReg
    <3>2. Plan(i, <<Result(v, {<<home[l], l>>, <<"r0", r>>})>>, A({<<"r0", r>>}), A({<<"r0", v>>}))
      BY <1>1, <3>1, ResultPlan
    <3>3. Plan(i, <<Use(r)>>, A({}), A({<<"r0", r>>}))
      BY <1>1, <1>2, Plan1
    <3>4. E = <<Use(r)>> \o <<Result(v, {<<home[l], l>>, <<"r0", r>>})>>
      BY <2>2
    <3> HIDE DEF E
    <3> QED
      BY <3>2, <3>3, <3>4, PlanJoin
  <2>3. CASE ~InReg(l) /\ InReg(r)
    <3>1. Needed(Rings(x, y) \cup {<<"r0", l>>}, L, {<<"r0", l>>, <<home[r], r>>})
      BY <1>0, <2>3 DEF Needed, InReg
    <3>2. Plan(i, <<Result(v, {<<"r0", l>>, <<home[r], r>>})>>, A({<<"r0", l>>}), A({<<"r0", v>>}))
      BY <1>1, <3>1, ResultPlan
    <3>3. Plan(i, <<Use(l)>>, A({}), A({<<"r0", l>>}))
      BY <1>1, <1>2, Plan1
    <3>4. E = <<Use(l)>> \o <<Result(v, {<<"r0", l>>, <<home[r], r>>})>>
      BY <2>3
    <3> HIDE DEF E
    <3> QED
      BY <3>2, <3>3, <3>4, PlanJoin
  <2>4. CASE ~InReg(l) /\ ~InReg(r)
    <3>1. Needed(Rings(x, y) \cup {<<"r0", l>>, <<"r6", r>>}, L, {<<"r0", l>>, <<"r6", r>>})
      BY <1>0 DEF Needed
    <3>2. Plan(i, <<Result(v, {<<"r0", l>>, <<"r6", r>>})>>, A({<<"r0", l>>, <<"r6", r>>}), A({<<"r0", v>>}))
      BY <1>1, <3>1, ResultPlan
    <3>3. Safe(i, Use(r), A({}), A({<<"r0", r>>}))
      BY <1>2
    <3>4. Safe(i, Move("r6", "r0"), A({<<"r0", r>>}), A({<<"r6", r>>}))
      <4>1. Brings(Rings(x, y) \cup {<<"r0", r>>}, Rings(x, y) \cup {<<"r6", r>>}, {"r6"}, "r6", r)
        BY DEF Brings, Rings
      <4> QED
        BY <1>0, <4>1, MoveAt
    <3>5. Safe(i, Use(l), A({<<"r6", r>>}), A({<<"r0", l>>, <<"r6", r>>}))
      <4>1. Brings(Rings(x, y) \cup {<<"r6", r>>}, Rings(x, y) \cup {<<"r0", l>>, <<"r6", r>>}, {"r0", "r3"}, "r0", l)
        BY DEF Brings, Rings
      <4> QED
        BY <1>0, <4>1, UseAt
    <3>6. Plan(i, <<Use(r), Move("r6", "r0"), Use(l)>>, A({}), A({<<"r0", l>>, <<"r6", r>>}))
      BY <1>1, <3>3, <3>4, <3>5, Plan3
    <3>7. E = <<Use(r), Move("r6", "r0"), Use(l)>> \o <<Result(v, {<<"r0", l>>, <<"r6", r>>})>>
      BY <2>4
    <3> HIDE DEF E
    <3> QED
      BY <3>2, <3>6, <3>7, PlanJoin
  <2> QED
    BY <2>1, <2>2, <2>3, <2>4
<1>4. Plan(i, <<O("fence")>>, A({<<"r0", v>>}), A({<<"r0", v>>}))
  <2> DEFINE o == O("fence")
  <2>1. o.k = "fence" /\ o.needs = {} /\ o.n = 0
    BY DEF O
  <2> HIDE DEF o
  <2>2. Needed(Rings(x, y) \cup {<<"r0", v>>}, L, o.needs) /\ Leaves(Rings(x, y) \cup {<<"r0", v>>}, Rings(x, y) \cup {<<"r0", v>>}, {})
    BY <2>1 DEF Needed, Leaves
  <2>5. ~(o.n > 0)
    BY <2>1
  <2>3. Safe(i, o, A({<<"r0", v>>}), A({<<"r0", v>>}))
    BY <1>0, <2>1, <2>2, <2>5, FenceAt
  <2>4. Plan(i, <<o>>, A({<<"r0", v>>}), A({<<"r0", v>>}))
    BY <1>1, <2>3, Plan1
  <2> QED
    BY <2>4 DEF o
<1>5. Plan(i, Finish(v), A({<<"r0", v>>}), Z)
  BY FinishPlan
<1>6. emitScalarComparison(v, l, r) = E \o <<O("fence")>> \o Finish(v)
  BY DEF emitScalarComparison
<1> HIDE DEF E
<1>7. Plan(i, E \o <<O("fence")>>, A({}), A({<<"r0", v>>}))
  BY <1>3, <1>4, PlanJoin
<1>8. Plan(i, emitScalarComparison(v, l, r), A({}), Z)
  BY <1>5, <1>6, <1>7, PlanJoin
<1> QED
  BY <1>0, <1>8

\* emitLoadIndirect, on each of its paths.
LEMMA LoadPlan ==
    ASSUME NEW i, NEW S, NEW L, NEW L2, NEW x, NEW y, Setting(i, S, L, x, y), Setting(i, S, L2, x, y),
           NEW v, Defines(i, L, L2, v), NEW a \in L
    PROVE  Plan(i, emitLoadIndirect(v, a), Ann(Rings(x, y), S, L, FALSE), Ann(Rings(x, y), S, L2, FALSE))
<1> DEFINE A(R) == Ann(Rings(x, y) \cup R, S, L, FALSE)
           Z == Ann(Rings(x, y), S, L2, FALSE)
           load(from, to) == [O("load") EXCEPT !.a = v, !.b = to, !.needs = {<<from, a>>}]
<1>0. /\ a \in Word /\ v \in Word /\ v \in Value /\ L \subseteq Busy(body, i) /\ L2 \subseteq Busy(body, i)
      /\ Spares(L, {"r0", "r3"}) /\ home[v] \notin Scratched /\ Adds(L, L2, v)
      /\ "r0" \in Scratched /\ "r12" \in Scratched /\ "r13" \in Scratched /\ "r0" \in Reg
      /\ Rings(x, y) = Rings(x, y) \cup {}
  BY WordFacts DEF Setting, Spares, Scratched, Defines
<1>1. A({}) \in Annotation /\ A({<<"r0", a>>}) \in Annotation /\ A({<<"r0", v>>}) \in Annotation /\ Z \in Annotation
  BY <1>0, Settles
<1>2. Plan(i, <<Use(a)>>, A({}), A({<<"r0", a>>}))
  <2>1. Brings(Rings(x, y) \cup {}, Rings(x, y) \cup {<<"r0", a>>}, {"r0", "r3"}, "r0", a)
    BY DEF Brings, Rings
  <2>2. Safe(i, Use(a), A({}), A({<<"r0", a>>}))
    BY <1>0, <2>1, UseAt
  <2> QED
    BY <1>1, <2>2, Plan1
<1>3. ASSUME InReg(v), NEW q \in Reg, NEW R, Needed(Rings(x, y) \cup R, L, {<<q, a>>}), A(R) \in Annotation
      PROVE  Plan(i, <<load(q, home[v])>>, A(R), Z)
  <2> DEFINE o == load(q, home[v])
  <2>1. o.k = "load" /\ o.a = v /\ o.b = home[v] /\ o.needs = {<<q, a>>}
    BY DEF O
  <2> HIDE DEF o
  <2>2. home[v] \in Reg
    BY <1>3 DEF InReg
  <2>3. Brings(Rings(x, y) \cup R, Rings(x, y), {home[v]}, home[v], v)
    BY <1>0 DEF Brings, Rings
  <2>4. \A u \in L2 : (u \in L /\ home[u] # home[v]) \/ (u = v /\ home[u] = home[v])
    BY <1>0 DEF Adds
  <2>5. Safe(i, o, A(R), Z)
    BY <1>0, <1>3, <2>1, <2>2, <2>3, <2>4, LoadAt
  <2>6. Plan(i, <<o>>, A(R), Z)
    BY <1>1, <1>3, <2>5, Plan1
  <2> QED
    BY <2>6 DEF o
<1>4. Plan(i, <<load("r0", "r0")>>, A({<<"r0", a>>}), A({<<"r0", v>>}))
  <2> DEFINE o == load("r0", "r0")
  <2>1. o.k = "load" /\ o.a = v /\ o.b = "r0" /\ o.needs = {<<"r0", a>>}
    BY DEF O
  <2> HIDE DEF o
  <2>2. Needed(Rings(x, y) \cup {<<"r0", a>>}, L, {<<"r0", a>>})
    BY <1>0 DEF Needed
  <2>3. Brings(Rings(x, y) \cup {<<"r0", a>>}, Rings(x, y) \cup {<<"r0", v>>}, {"r0"}, "r0", v)
    BY DEF Brings, Rings
  <2>4. \A u \in L : (u \in L /\ home[u] # "r0") \/ (u = v /\ home[u] = "r0")
    BY <1>0 DEF Spares
  <2>5. Safe(i, o, A({<<"r0", a>>}), A({<<"r0", v>>}))
    BY <1>0, <2>1, <2>2, <2>3, <2>4, LoadAt
  <2>6. Plan(i, <<o>>, A({<<"r0", a>>}), A({<<"r0", v>>}))
    BY <1>1, <2>5, Plan1
  <2> QED
    BY <2>6 DEF o
<1>5. CASE InReg(v) /\ InReg(a)
  <2>1. Needed(Rings(x, y) \cup {}, L, {<<home[a], a>>}) /\ home[a] \in Reg
    BY <1>0, <1>5 DEF Needed, InReg
  <2>2. Plan(i, <<load(home[a], home[v])>>, A({}), Z)
    BY <1>1, <1>3, <1>5, <2>1
  <2>3. emitLoadIndirect(v, a) = <<>> \o <<load(home[a], home[v])>>
    BY <1>5 DEF emitLoadIndirect
  <2>4. Plan(i, <<>>, A({}), A({}))
    BY <1>1, PlanNone
  <2> HIDE DEF load
  <2>5. Plan(i, emitLoadIndirect(v, a), A({}), Z)
    BY <2>2, <2>3, <2>4, PlanJoin
  <2> QED
    BY <1>0, <2>5
<1>6. CASE InReg(v) /\ ~InReg(a)
  <2>1. Needed(Rings(x, y) \cup {<<"r0", a>>}, L, {<<"r0", a>>})
    BY <1>0 DEF Needed
  <2>2. Plan(i, <<load("r0", home[v])>>, A({<<"r0", a>>}), Z)
    BY <1>0, <1>1, <1>3, <1>6, <2>1
  <2>3. emitLoadIndirect(v, a) = <<Use(a)>> \o <<load("r0", home[v])>>
    BY <1>6 DEF emitLoadIndirect
  <2> HIDE DEF load
  <2>5. Plan(i, emitLoadIndirect(v, a), A({}), Z)
    BY <1>2, <2>2, <2>3, PlanJoin
  <2> QED
    BY <1>0, <2>5
<1>7. CASE ~InReg(v)
  <2>1. emitLoadIndirect(v, a) = <<Use(a), load("r0", "r0")>> \o Finish(v)
    BY <1>7 DEF emitLoadIndirect
  <2>2. Plan(i, Finish(v), A({<<"r0", v>>}), Z)
    BY FinishPlan
  <2> HIDE DEF load
  <2>3. <<Use(a), load("r0", "r0")>> = <<Use(a)>> \o <<load("r0", "r0")>>
    OBVIOUS
  <2>4. Plan(i, <<Use(a), load("r0", "r0")>>, A({}), A({<<"r0", v>>}))
    BY <1>2, <1>4, <2>3, PlanJoin
  <2>5. Plan(i, emitLoadIndirect(v, a), A({}), Z)
    BY <2>1, <2>2, <2>4, PlanJoin
  <2> QED
    BY <1>0, <2>5
<1> QED
  BY <1>5, <1>6, <1>7

-----------------------------------------------------------------------------
\* emitDivision: the divisor survives both stack checks and both pushes.
LEMMA DivisionPlan ==
    ASSUME NEW i, NEW S, NEW L, NEW L2, NEW x, NEW y, Setting(i, S, L, x, y), Setting(i, S, L2, x, y),
           NEW v, Defines(i, L, L2, v), NEW l \in L, NEW r \in L, Spares(L, {"r2", "r4"})
    PROVE  Plan(i, emitDivision(v, l, r), Ann(Rings(x, y), S, L, FALSE), Ann(Rings(x, y), S, L2, FALSE))
<1> DEFINE S1 == Append(S, Junk)
           S2 == Append(S1, Junk)
           A(R) == Ann(Rings(x, y) \cup R, S, L, FALSE)
           B(R) == Ann(Rings(x, y) \cup R, S1, L, FALSE)
           C(R) == Ann(Rings(x, y) \cup R, S2, L, FALSE)
           Z == Ann(Rings(x, y), S, L2, FALSE)
<1>0. /\ l \in Word /\ r \in Word /\ v \in Word /\ Junk \in Word /\ L \subseteq Busy(body, i)
      /\ Spares(L, {"r0"}) /\ Spares(L, {"r1"}) /\ Spares(L, {"r2"}) /\ Spares(L, {"r3"}) /\ Spares(L, {"r4"})
      /\ Spares(L, {"r6"})
      /\ "r0" \in Scratched /\ "r1" \in Scratched /\ "r3" \in Scratched /\ "r6" \in Scratched
      /\ {"r0", "r1", "r2", "r3", "r4", "r6"} \subseteq Reg /\ "r0" \in Reg \ {"r3"}
      /\ Rings(x, y) = Rings(x, y) \cup {} /\ L \subseteq Value
  BY WordFacts DEF Setting, Spares, Scratched, Defines
<1>1. Setting(i, S1, L, x, y) /\ Setting(i, S2, L, x, y)
  <2>1. S \in Seq(Word)
    BY DEF Setting
  <2>2. S1 \in Seq(Word) /\ S2 \in Seq(Word)
    BY <1>0, <2>1, AppendProperties
  <2> QED
    BY <2>2 DEF Setting
<1> HIDE DEF S1, S2
<1> DEFINE lr == {<<"r1", l>>, <<"r3", r>>}
           lr4 == {<<"r1", l>>, <<"r4", r>>}
           lr34 == {<<"r1", l>>, <<"r3", r>>, <<"r4", r>>}
<1>2. Plan(i, emitBinaryOperands(l, r), A({}), A(Both(l, r)))
  BY <1>0, OperandsPlan
<1>3. Plan(i, <<Move("r4", "r1"), Move("r3", "r4"), Move("r1", "r0"), Scratch("r6")>>, A(Both(l, r)), A(lr))
  <2>1. Safe(i, Move("r4", "r1"), A(Both(l, r)), A({<<"r0", l>>, <<"r4", r>>}))
    <3>1. Brings(Rings(x, y) \cup Both(l, r), Rings(x, y) \cup {<<"r0", l>>, <<"r4", r>>}, {"r4"}, "r4", r)
          /\ <<"r1", r>> \in Rings(x, y) \cup Both(l, r)
      BY DEF Brings, Rings, Both
    <3> QED
      BY <1>0, <3>1, MoveAt
  <2>2. Safe(i, Move("r3", "r4"), A({<<"r0", l>>, <<"r4", r>>}), A({<<"r0", l>>, <<"r3", r>>}))
    <3>1. Brings(Rings(x, y) \cup {<<"r0", l>>, <<"r4", r>>}, Rings(x, y) \cup {<<"r0", l>>, <<"r3", r>>}, {"r3"}, "r3", r)
      BY DEF Brings, Rings
    <3> QED
      BY <1>0, <3>1, MoveAt
  <2>3. Safe(i, Move("r1", "r0"), A({<<"r0", l>>, <<"r3", r>>}), A(lr))
    <3>1. Brings(Rings(x, y) \cup {<<"r0", l>>, <<"r3", r>>}, Rings(x, y) \cup lr, {"r1"}, "r1", l)
      BY DEF Brings, Rings
    <3> QED
      BY <1>0, <3>1, MoveAt
  <2>4. Safe(i, Scratch("r6"), A(lr), A(lr))
    <3>1. Brings(Rings(x, y) \cup lr, Rings(x, y) \cup lr, {"r6"}, "r6", Junk)
      BY DEF Brings, Rings
    <3> QED
      BY <1>0, <3>1, ScratchAt
  <2>5. /\ A(Both(l, r)) \in Annotation /\ A({<<"r0", l>>, <<"r4", r>>}) \in Annotation
        /\ A({<<"r0", l>>, <<"r3", r>>}) \in Annotation /\ A(lr) \in Annotation
    BY <1>0, Settles DEF Both
  <2> QED
    BY <2>1, <2>2, <2>3, <2>4, <2>5, Plan4
<1>4. Plan(i, <<Move("r4", "r3"), Scratch("r0"), Push("r0"), Move("r3", "r4")>>, A(lr), B(lr4))
  <2>1. Safe(i, Move("r4", "r3"), A(lr), A(lr4))
    <3>1. Brings(Rings(x, y) \cup lr, Rings(x, y) \cup lr4, {"r4"}, "r4", r)
      BY DEF Brings, Rings
    <3> QED
      BY <1>0, <3>1, MoveAt
  <2> DEFINE z == {<<"r1", l>>, <<"r4", r>>, <<"r0", Junk>>}
  <2>2. Safe(i, Scratch("r0"), A(lr4), A(z))
    <3>1. Brings(Rings(x, y) \cup lr4, Rings(x, y) \cup z, {"r0"}, "r0", Junk)
      BY DEF Brings, Rings
    <3> QED
      BY <1>0, <3>1, ScratchAt
  <2>3. Safe(i, Push("r0"), A(z), B(lr4))
    <3>1. Leaves(Rings(x, y) \cup z, Rings(x, y) \cup lr4, {"r3"}) /\ <<"r0", Junk>> \in Rings(x, y) \cup z
      BY DEF Leaves, Rings
    <3> QED
      BY <1>0, <3>1, PushAt DEF S1
  <2>4. Safe(i, Move("r3", "r4"), B(lr4), B(lr4))
    <3>1. Brings(Rings(x, y) \cup lr4, Rings(x, y) \cup lr4, {"r3"}, "r3", r)
      BY DEF Brings, Rings
    <3> QED
      BY <1>0, <3>1, MoveAt
  <2>5. A(lr) \in Annotation /\ A(lr4) \in Annotation /\ A(z) \in Annotation /\ B(lr4) \in Annotation
    BY <1>0, <1>1, Settles
  <2> QED
    BY <2>1, <2>2, <2>3, <2>4, <2>5, Plan4
<1>5. Plan(i, <<Scratch("r0"), Push("r0"), Move("r3", "r4")>>, B(lr4), C(lr))
  <2> DEFINE z == {<<"r1", l>>, <<"r4", r>>, <<"r0", Junk>>}
  <2>2. Safe(i, Scratch("r0"), B(lr4), B(z))
    <3>1. Brings(Rings(x, y) \cup lr4, Rings(x, y) \cup z, {"r0"}, "r0", Junk)
      BY DEF Brings, Rings
    <3> QED
      BY <1>0, <3>1, ScratchAt
  <2>3. Safe(i, Push("r0"), B(z), C(lr4))
    <3>1. Leaves(Rings(x, y) \cup z, Rings(x, y) \cup lr4, {"r3"}) /\ <<"r0", Junk>> \in Rings(x, y) \cup z
      BY DEF Leaves, Rings
    <3> QED
      BY <1>0, <3>1, PushAt DEF S2
  <2>4. Safe(i, Move("r3", "r4"), C(lr4), C(lr))
    <3>1. Brings(Rings(x, y) \cup lr4, Rings(x, y) \cup lr, {"r3"}, "r3", r)
      BY DEF Brings, Rings
    <3> QED
      BY <1>0, <3>1, MoveAt
  <2>5. B(lr4) \in Annotation /\ B(z) \in Annotation /\ C(lr4) \in Annotation /\ C(lr) \in Annotation
    BY <1>0, <1>1, Settles
  <2> QED
    BY <2>2, <2>3, <2>4, <2>5, Plan3
<1>6. Plan(i, <<Label, Scratch("r2"), Scratch("r4"), Label>>, C(lr), C(lr))
  <2>1. /\ Leaves(Rings(x, y) \cup lr, Rings(x, y) \cup lr, {"r0"})
        /\ Brings(Rings(x, y) \cup lr, Rings(x, y) \cup lr, {"r2"}, "r2", Junk)
        /\ Brings(Rings(x, y) \cup lr, Rings(x, y) \cup lr, {"r4"}, "r4", Junk)
    BY DEF Leaves, Brings, Rings
  <2>2. Safe(i, Label, C(lr), C(lr))
    BY <1>0, <2>1, LabelAt
  <2>3. Safe(i, Scratch("r2"), C(lr), C(lr))
    BY <1>0, <2>1, ScratchAt
  <2>4. Safe(i, Scratch("r4"), C(lr), C(lr))
    BY <1>0, <2>1, ScratchAt
  <2>5. C(lr) \in Annotation
    BY <1>0, <1>1, Settles
  <2> QED
    BY <2>2, <2>3, <2>4, <2>5, Plan4
<1>7. Plan(i, <<Read(lr), Pop("r6"), Pop("r3")>>, C(lr), A({}))
  <2>1. Needed(Rings(x, y) \cup lr, L, lr) /\ Leaves(Rings(x, y) \cup lr, Rings(x, y) \cup {}, {})
    BY <1>0 DEF Needed, Leaves
  <2>2. Safe(i, Read(lr), C(lr), C({}))
    BY <1>0, <2>1, ReadAt
  <2>3. /\ Brings(Rings(x, y) \cup {}, Rings(x, y) \cup {}, {"r6"}, "r6", Junk)
        /\ Brings(Rings(x, y) \cup {}, Rings(x, y) \cup {}, {"r3"}, "r3", Junk)
        /\ \A u \in L : (u \in L /\ home[u] # "r6") \/ (u = Junk /\ home[u] = "r6")
        /\ \A u \in L : (u \in L /\ home[u] # "r3") \/ (u = Junk /\ home[u] = "r3")
    BY <1>0 DEF Brings, Rings, Spares
  <2>4. Safe(i, Pop("r6"), C({}), B({}))
    BY <1>0, <2>3, PopAt DEF S2
  <2>5. Safe(i, Pop("r3"), B({}), A({}))
    BY <1>0, <2>3, PopAt DEF S1
  <2>6. C(lr) \in Annotation /\ C({}) \in Annotation /\ B({}) \in Annotation /\ A({}) \in Annotation
    BY <1>0, <1>1, Settles
  <2> QED
    BY <2>2, <2>4, <2>5, <2>6, Plan3
<1>8. Plan(i, <<Scratch("r4"), Label, Result(v, {})>>, A({}), A({<<"r0", v>>}))
  <2>1. /\ Brings(Rings(x, y) \cup {}, Rings(x, y) \cup {}, {"r4"}, "r4", Junk)
        /\ Leaves(Rings(x, y) \cup {}, Rings(x, y) \cup {}, {"r0"})
        /\ Brings(Rings(x, y) \cup {}, Rings(x, y) \cup {<<"r0", v>>}, {"r0"}, "r0", v)
        /\ Needed(Rings(x, y) \cup {}, L, {})
    BY DEF Brings, Leaves, Rings, Needed
  <2>2. Safe(i, Scratch("r4"), A({}), A({}))
    BY <1>0, <2>1, ScratchAt
  <2>3. Safe(i, Label, A({}), A({}))
    BY <1>0, <2>1, LabelAt
  <2>4. Safe(i, Result(v, {}), A({}), A({<<"r0", v>>}))
    BY <1>0, <2>1, ResultAt
  <2>5. A({}) \in Annotation /\ A({<<"r0", v>>}) \in Annotation
    BY <1>0, Settles
  <2> QED
    BY <2>2, <2>3, <2>4, <2>5, Plan3
<1>9. Plan(i, Finish(v), A({<<"r0", v>>}), Z)
  BY FinishPlan
<1> DEFINE e == emitBinaryOperands(l, r)
           e1 == <<Move("r4", "r1"), Move("r3", "r4"), Move("r1", "r0"), Scratch("r6")>>
           e2 == <<Move("r4", "r3"), Scratch("r0"), Push("r0"), Move("r3", "r4")>>
           e3 == <<Scratch("r0"), Push("r0"), Move("r3", "r4")>>
           e4 == <<Label, Scratch("r2"), Scratch("r4"), Label>>
           e5 == <<Read(lr), Pop("r6"), Pop("r3")>>
           e6 == <<Scratch("r4"), Label, Result(v, {})>>
<1>10. emitDivision(v, l, r) = e \o e1 \o e2 \o e3 \o e4 \o e5 \o e6 \o Finish(v)
  BY DEF emitDivision
<1> HIDE DEF e, e1, e2, e3, e4, e5, e6, A, B, C, Z
<1>11. Plan(i, e \o e1, A({}), A(lr))
  BY <1>2, <1>3, PlanJoin DEF e, e1
<1>12. Plan(i, e \o e1 \o e2, A({}), B(lr4))
  BY <1>11, <1>4, PlanJoin DEF e2
<1>13. Plan(i, e \o e1 \o e2 \o e3, A({}), C(lr))
  BY <1>12, <1>5, PlanJoin DEF e3
<1>14. Plan(i, e \o e1 \o e2 \o e3 \o e4, A({}), C(lr))
  BY <1>13, <1>6, PlanJoin DEF e4
<1>15. Plan(i, e \o e1 \o e2 \o e3 \o e4 \o e5, A({}), A({}))
  BY <1>14, <1>7, PlanJoin DEF e5
<1>16. Plan(i, e \o e1 \o e2 \o e3 \o e4 \o e5 \o e6, A({}), A({<<"r0", v>>}))
  BY <1>15, <1>8, PlanJoin DEF e6
<1>17. Plan(i, emitDivision(v, l, r), A({}), Z)
  BY <1>9, <1>10, <1>16, PlanJoin
<1> QED
  BY <1>0, <1>17 DEF A, Z

-----------------------------------------------------------------------------
\* The loop goes on with its own registers.
LEMMA LoopRegistersPlan ==
    ASSUME NEW i, NEW S, NEW L, NEW x, NEW y, Setting(i, S, L, x, y), NEW p \in BOOLEAN, NEW R, NEW open,
           Ann(Rings(x, y) \cup R, S, L, p) \in Annotation, body.loops => x = Counter(open) /\ y = LoopHead(open)
    PROVE  Plan(i, LoopRegisters(open), Ann(Rings(x, y) \cup R, S, L, p), Ann(Rings(x, y) \cup R, S, L, p))
<1> DEFINE F == Ann(Rings(x, y) \cup R, S, L, p)
           needs == {<<"r12", Counter(open)>>, <<"r13", LoopHead(open)>>}
<1>1. CASE body.loops
  <2>1. needs = Rings(x, y)
    BY <1>1 DEF Rings
  <2>2. "r12" \in Reg /\ "r13" \in Reg /\ x \in Word /\ y \in Word /\ L \subseteq Busy(body, i)
    BY DEF Reg, Setting
  <2>3. Needed(Rings(x, y) \cup R, L, Rings(x, y)) /\ Leaves(Rings(x, y) \cup R, Rings(x, y) \cup R, {})
    BY <2>2 DEF Needed, Leaves, Rings
  <2>4. Safe(i, Read(Rings(x, y)), F, F)
    BY <2>2, <2>3, ReadAt
  <2>5. LoopRegisters(open) = <<Read(Rings(x, y))>>
    BY <1>1, <2>1 DEF LoopRegisters
  <2> HIDE DEF F
  <2>6. F \in Annotation
    BY DEF F
  <2>7. Plan(i, LoopRegisters(open), F, F)
    BY <2>4, <2>5, <2>6, Plan1
  <2> QED
    BY <2>7 DEF F
<1>2. CASE ~body.loops
  <2>1. LoopRegisters(open) = <<>>
    BY <1>2 DEF LoopRegisters
  <2> QED
    BY <2>1, PlanNone
<1> QED
  BY <1>1, <1>2

\* The loop registers are pushed; on the stack they are safe.
LEMMA PushRings ==
    ASSUME NEW i, NEW S, NEW L, NEW x, NEW y, Setting(i, S, L, x, y), NEW p \in BOOLEAN
    PROVE  LET S1 == Append(S, x) S2 == Append(S1, y) IN
           /\ Safe(i, Push("r12"), Ann(Rings(x, y), S, L, p), Ann(Rings(x, y), S1, L, p))
           /\ Safe(i, Push("r13"), Ann(Rings(x, y), S1, L, p), Ann(Rings(x, y), S2, L, p))
           /\ Setting(i, S1, L, x, y) /\ Setting(i, S2, L, x, y)
           /\ Ann(Rings(x, y), S, L, p) \in Annotation /\ Ann(Rings(x, y), S1, L, p) \in Annotation
           /\ Ann(Rings(x, y), S2, L, p) \in Annotation
           /\ Ann({}, S1, L, p) \in Annotation /\ Ann({}, S2, L, p) \in Annotation
           /\ Ann({<<"r13", y>>}, S1, L, p) \in Annotation
<1> DEFINE S1 == Append(S, x)
           S2 == Append(S1, y)
<1>1. /\ L \subseteq Busy(body, i) /\ L \in SUBSET Value /\ Spares(L, {"r3"}) /\ x \in Word /\ y \in Word
      /\ "r12" \in Reg \ {"r3"} /\ "r13" \in Reg \ {"r3"} /\ S \in Seq(Word)
      /\ "r12" \in Scratched /\ "r13" \in Scratched /\ "r13" \in Reg \ Cache
  BY WordFacts DEF Setting, Spares, Scratched
<1>2. S1 \in Seq(Word) /\ S2 \in Seq(Word)
  BY <1>1, AppendProperties
<1>3. Setting(i, S1, L, x, y) /\ Setting(i, S2, L, x, y)
  BY <1>2 DEF Setting
<1>4. Leaves(Rings(x, y), Rings(x, y), {"r3"}) /\ <<"r12", x>> \in Rings(x, y) /\ <<"r13", y>> \in Rings(x, y)
  BY DEF Leaves, Rings
<1>5. Safe(i, Push("r12"), Ann(Rings(x, y), S, L, p), Ann(Rings(x, y), S1, L, p))
  BY <1>1, <1>4, PushAt
<1> HIDE DEF S1
<1>6. Safe(i, Push("r13"), Ann(Rings(x, y), S1, L, p), Ann(Rings(x, y), S2, L, p))
  BY <1>1, <1>4, PushAt
<1> HIDE DEF S2
<1>7. /\ Ann(Rings(x, y), S, L, p) \in Annotation /\ Ann(Rings(x, y), S1, L, p) \in Annotation
      /\ Ann(Rings(x, y), S2, L, p) \in Annotation
  BY <1>1, <1>3, Settles
<1>8. /\ {<<"r13", y>>} \subseteq (Reg \ Cache) \X Word /\ {} \subseteq (Reg \ Cache) \X Word
  BY <1>1
<1>9. /\ Ann({}, S1, L, p) \in Annotation /\ Ann({}, S2, L, p) \in Annotation
      /\ Ann({<<"r13", y>>}, S1, L, p) \in Annotation
  BY <1>1, <1>2, <1>8, AnnType
<1> QED
  BY <1>3, <1>5, <1>6, <1>7, <1>9 DEF S1, S2

\* They come back in reverse.
LEMMA PopRings ==
    ASSUME NEW i, NEW S, NEW L, NEW x, NEW y, Setting(i, S, L, x, y), NEW p \in BOOLEAN, NEW R
    PROVE  LET S1 == Append(S, x) S2 == Append(S1, y) IN
           /\ Safe(i, Pop("r13"), Ann(R, S2, L, p), Ann({<<"r13", y>>}, S1, L, p))
           /\ Safe(i, Pop("r12"), Ann({<<"r13", y>>}, S1, L, p), Ann(Rings(x, y), S, L, p))
<1> DEFINE S1 == Append(S, x)
           S2 == Append(S1, y)
<1>1. /\ L \subseteq Busy(body, i) /\ L \subseteq Value /\ x \in Word /\ y \in Word
      /\ "r12" \in Reg /\ "r13" \in Reg
      /\ \A u \in L : (u \in L /\ home[u] # "r13") \/ (u = y /\ home[u] = "r13")
      /\ \A u \in L : (u \in L /\ home[u] # "r12") \/ (u = x /\ home[u] = "r12")
  BY WordFacts DEF Setting, Spares, Scratched
<1>2. /\ Brings(R, {<<"r13", y>>}, {"r13"}, "r13", y)
      /\ Brings({<<"r13", y>>}, Rings(x, y), {"r12"}, "r12", x)
  BY DEF Brings, Rings
<1>3. Safe(i, Pop("r12"), Ann({<<"r13", y>>}, S1, L, p), Ann(Rings(x, y), S, L, p))
  BY <1>1, <1>2, PopAt
<1> HIDE DEF S1
<1>4. Safe(i, Pop("r13"), Ann(R, S2, L, p), Ann({<<"r13", y>>}, S1, L, p))
  BY <1>1, <1>2, PopAt
<1> QED
  BY <1>3, <1>4 DEF S1

\* emitMemoryInitialize gives the loop registers back.
LEMMA FillPlan ==
    ASSUME NEW i, NEW S, NEW L, NEW x, NEW y, Setting(i, S, L, x, y), NEW open,
           body.loops => x = Counter(open) /\ y = LoopHead(open)
    PROVE  Plan(i, emitMemoryInitialize(open), Ann(Rings(x, y), S, L, FALSE), Ann(Rings(x, y), S, L, FALSE))
<1> DEFINE S1 == Append(S, x)
           S2 == Append(S1, y)
           A == Ann(Rings(x, y), S, L, FALSE)
           A1 == Ann(Rings(x, y), S1, L, FALSE)
           A2 == Ann(Rings(x, y), S2, L, FALSE)
           B2 == Ann({}, S2, L, FALSE)
           B1 == Ann({<<"r13", y>>}, S1, L, FALSE)
<1>0. /\ L \subseteq Busy(body, i) /\ {"r0", "r3", "r12", "r13"} \subseteq Reg
      /\ Spares(L, {"r0"}) /\ Spares(L, {"r3"}) /\ Spares(L, {"r12"}) /\ Spares(L, {"r13"})
      /\ Rings(x, y) = Rings(x, y) \cup {}
  BY WordFacts DEF Setting, Spares, Scratched
<1>1. /\ Safe(i, Push("r12"), A, A1) /\ Safe(i, Push("r13"), A1, A2)
      /\ A \in Annotation /\ A1 \in Annotation /\ A2 \in Annotation /\ B2 \in Annotation /\ B1 \in Annotation
  BY PushRings
<1>2. Safe(i, Pop("r13"), B2, B1) /\ Safe(i, Pop("r12"), B1, A)
  BY PopRings
<1> HIDE DEF S1, S2
<1>3. Safe(i, O("clear"), A, A)
  <2>1. Leaves(Rings(x, y), Rings(x, y), {})
    BY DEF Leaves
  <2> QED
    BY <1>0, <2>1, ClearAt
<1>4. Safe(i, Scratch("r0"), A2, B2) /\ \A q \in {"r0", "r3", "r12", "r13"} : Safe(i, Scratch(q), B2, B2)
  <2>1. /\ Brings(Rings(x, y), {}, {"r0"}, "r0", Junk)
        /\ \A q : Brings({}, {}, {q}, q, Junk)
    BY DEF Brings
  <2>2. ASSUME NEW q \in {"r0", "r3", "r12", "r13"} PROVE Safe(i, Scratch(q), B2, B2)
    <3>1. q \in Reg /\ Spares(L, {q}) /\ Brings({}, {}, {q}, q, Junk)
      BY <1>0, <2>1
    <3> QED
      BY <1>0, <3>1, ScratchAt
  <2>3. Safe(i, Scratch("r0"), A2, B2)
    BY <1>0, <2>1, ScratchAt
  <2> QED
    BY <2>2, <2>3
<1>5. Safe(i, Label, B2, B2)
  <2>1. Leaves({}, {}, {"r0"})
    BY DEF Leaves
  <2> QED
    BY <1>0, <2>1, LabelAt
<1>6. Plan(i, LoopRegisters(open), A, A)
  BY <1>0, <1>1, LoopRegistersPlan
<1> HIDE DEF A, A1, A2, B2, B1
<1> DEFINE e1 == <<O("clear"), Push("r12"), Push("r13")>>
           e2 == <<Scratch("r0"), Scratch("r3"), Scratch("r12"), Scratch("r13")>>
           e3 == <<Scratch("r0"), Label>>
           e4 == <<Pop("r13"), Pop("r12"), O("clear")>>
<1>7. Plan(i, e1, A, A2)
  BY <1>1, <1>3, Plan3
<1>8. Plan(i, e2, A2, B2)
  BY <1>1, <1>4, Plan4
<1>9. Plan(i, e3, B2, B2)
  BY <1>1, <1>4, <1>5, Plan2
<1>10. Plan(i, e4, B2, A)
  BY <1>1, <1>2, <1>3, Plan3
<1>11. emitMemoryInitialize(open) = e1 \o e2 \o e3 \o e4 \o LoopRegisters(open)
  BY DEF emitMemoryInitialize
<1> HIDE DEF e1, e2, e3, e4
<1>12. Plan(i, e1 \o e2, A, B2)
  BY <1>7, <1>8, PlanJoin
<1>13. Plan(i, e1 \o e2 \o e3, A, B2)
  BY <1>9, <1>12, PlanJoin
<1>14. Plan(i, e1 \o e2 \o e3 \o e4, A, A)
  BY <1>10, <1>13, PlanJoin
<1>15. Plan(i, emitMemoryInitialize(open), A, A)
  BY <1>6, <1>11, <1>14, PlanJoin
<1> QED
  BY <1>15 DEF A

\* The end of a loop: the registers of the loop around it come back.
LEMMA LeavePlan ==
    ASSUME NEW i, NEW L, NEW x, NEW y, Setting(i, Base(FALSE), L, "count", "head"), Setting(i, Base(TRUE), L, x, y)
    PROVE  Plan(i, <<Pop("r13"), Pop("r12")>> \o LoopRegisters(FALSE),
                Ann(Rings(x, y), Base(TRUE), L, FALSE), Ann(Rings("count", "head"), Base(FALSE), L, FALSE))
<1> DEFINE S == Base(FALSE)
           A == Ann(Rings(x, y), Base(TRUE), L, FALSE)
           B == Ann({<<"r13", "head">>}, Append(S, "count"), L, FALSE)
           Z == Ann(Rings("count", "head"), S, L, FALSE)
<1>0. Base(TRUE) = Append(Append(S, "count"), "head")
  BY BaseTyped
<1>1. /\ Safe(i, Pop("r13"), A, B) /\ Safe(i, Pop("r12"), B, Z)
  BY <1>0, PopRings
<1>2. Z \in Annotation /\ B \in Annotation
  BY PushRings
<1>3. A \in Annotation
  BY PushRings
<1>4. Plan(i, LoopRegisters(FALSE), Z, Z)
  <2>1. Rings("count", "head") = Rings("count", "head") \cup {} /\ "count" = Counter(FALSE) /\ "head" = LoopHead(FALSE)
    BY DEF Counter, LoopHead
  <2> QED
    BY <1>2, <2>1, LoopRegistersPlan
<1>5. Plan(i, <<Pop("r13"), Pop("r12")>>, A, Z)
  BY <1>1, <1>2, <1>3, Plan2
<1> QED
  BY <1>4, <1>5, PlanJoin

-----------------------------------------------------------------------------
\* A move that is known to read the right value, its result not needed.
LEMMA MoveNeeds ==
    ASSUME NEW i, NEW R, NEW R2, NEW S, NEW L, NEW p, NEW o, o.k = "move", Needed(R, L, o.needs),
           o.a \in Reg, o.b \in Reg, L \subseteq Busy(body, i), Spares(L, {o.a}), Leaves(R, R2, {o.a})
    PROVE  Safe(i, o, Ann(R, S, L, p), Ann(R2, S, L, p))
<1> DEFINE F == Ann(R, S, L, p)
           G == Ann(R2, S, L, p)
<1>0. /\ \A r, x : <<r, x>> \in o.needs => r \in Reg /\ Knows(F, r, x)
      /\ o.needs \subseteq Reg \X (Word \cup {None})
  BY NeedsKnown
<1>1. F.regs = R /\ F.stack = S /\ F.live = L /\ F.plain = p /\ G.regs = R2 /\ G.stack = S /\ G.live = L /\ G.plain = p
  BY DEF Ann
<1> HIDE DEF F, G
<1>3. SafeMove(o, F, G)
  BY <1>1 DEF SafeMove, Keeps, Carries, Leaves, Spares
<1>4. Safe(i, o, F, G)
  BY <1>0, <1>1, <1>3 DEF Safe
<1> QED
  BY <1>4 DEF F, G

\* The check of a loop set up in registers uses R3 alone.
LEMMA CapacityAt ==
    ASSUME NEW i, NEW R, NEW S, NEW L, NEW p, L \subseteq Busy(body, i), Spares(L, {"r3"}), Leaves(R, R, {"r3"})
    PROVE  Safe(i, O("capacity"), Ann(R, S, L, p), Ann(R, S, L, p))
<1> DEFINE F == Ann(R, S, L, p)
           o == O("capacity")
<1>1. F.regs = R /\ F.stack = S /\ F.live = L /\ F.plain = p
  BY DEF Ann
<1>2. o.k = "capacity" /\ o.needs = {}
  BY DEF O
<1> HIDE DEF F, o
<1>3. SafeCapacity(o, F, F)
  BY <1>1 DEF SafeCapacity, Keeps, Carries, Leaves, Spares
<1>4. Safe(i, o, F, F)
  BY <1>1, <1>2, <1>3 DEF Safe
<1> QED
  BY <1>4 DEF F, o

\* The epilogue takes SP back above the frame.
LEMMA UnwindAt ==
    ASSUME NEW i, NEW R, NEW S, NEW L, NEW p, L \subseteq Busy(body, i)
    PROVE  Safe(i, O("unwind"), Ann(R, S, L, p), Ann(R, SubSeq(S, 1, 2), L, p))
<1> DEFINE F == Ann(R, S, L, p)
           G == Ann(R, SubSeq(S, 1, 2), L, p)
           o == O("unwind")
<1>1. /\ F.regs = R /\ F.stack = S /\ F.live = L /\ F.plain = p
      /\ G.regs = R /\ G.stack = SubSeq(S, 1, 2) /\ G.live = L /\ G.plain = p
  BY DEF Ann
<1>2. o.k = "unwind" /\ o.needs = {}
  BY DEF O
<1> HIDE DEF F, G, o
<1>3. SafeUnwind(o, F, G)
  BY <1>1 DEF SafeUnwind, Carries
<1>4. Safe(i, o, F, G)
  BY <1>1, <1>2, <1>3 DEF Safe
<1> QED
  BY <1>4 DEF F, G, o

\* The label of the function's exit: R0 holds the value returned.
LEMMA ExitAt ==
    ASSUME NEW i, NEW R, NEW R2, NEW S, NEW L, NEW p, NEW v, v # None, L \subseteq Busy(body, i), Leaves(R, R2, {})
    PROVE  Safe(i, [Label EXCEPT !.a = v], Ann(R, S, L, p), Ann(R2, S, L, p))
<1> DEFINE F == Ann(R, S, L, p)
           G == Ann(R2, S, L, p)
           o == [Label EXCEPT !.a = v]
<1>1. F.regs = R /\ F.stack = S /\ F.live = L /\ F.plain = p /\ G.regs = R2 /\ G.stack = S /\ G.live = L /\ G.plain = p
  BY DEF Ann
<1>2. o.k = "label" /\ o.needs = {} /\ o.a = v
  BY DEF Label, O
<1> HIDE DEF F, G, o
<1>3. SafeLabel(o, F, G)
  BY <1>1, <1>2 DEF SafeLabel, Carries, Leaves
<1>4. Safe(i, o, F, G)
  BY <1>1, <1>2, <1>3 DEF Safe
<1> QED
  BY <1>4 DEF F, G, o

\* A store leaves the values that are still needed at home.
LEMMA StorePlan ==
    ASSUME NEW i, NEW S, NEW L, NEW L2, NEW x, NEW y, Setting(i, S, L, x, y), Setting(i, S, L2, x, y), L2 \subseteq L,
           NEW a \in L, NEW v \in L
    PROVE  Plan(i, <<[O("store") EXCEPT !.a = a, !.b = v]>>, Ann(Rings(x, y), S, L, FALSE), Ann(Rings(x, y), S, L2, FALSE))
<1> DEFINE o == [O("store") EXCEPT !.a = a, !.b = v]
           F == Ann(Rings(x, y), S, L, FALSE)
           G == Ann(Rings(x, y), S, L2, FALSE)
<1>1. o.k = "store" /\ o.needs = {} /\ o.a = a /\ o.b = v
  BY DEF O
<1>2. /\ L \subseteq Busy(body, i) /\ Spares(L, {"r0", "r3", "r6"}) /\ "r0" \in Scratched /\ Junk \in Word
      /\ Leaves(Rings(x, y), Rings(x, y), {"r0", "r3", "r6"})
  BY WordFacts DEF Setting, Spares, Scratched, Leaves, Rings
<1>3. F \in Annotation /\ G \in Annotation
  BY <1>2, Settles
<1> HIDE DEF o
<1>4. Safe(i, o, F, G)
  BY <1>1, <1>2, StoreAt
<1>5. Plan(i, <<o>>, F, G)
  BY <1>3, <1>4, Plan1
<1> QED
  BY <1>5 DEF o

\* A constant that has a location of its own is written there.
LEMMA ConstantPlan ==
    ASSUME NEW i, NEW S, NEW L, NEW L2, NEW x, NEW y, Setting(i, S, L, x, y), Setting(i, S, L2, x, y),
           NEW v, Defines(i, L, L2, v)
    PROVE  Plan(i, IF InReg(v) THEN <<Direct(v, {})>> ELSE <<Result(v, {})>> \o Finish(v),
                Ann(Rings(x, y), S, L, FALSE), Ann(Rings(x, y), S, L2, FALSE))
<1> DEFINE none == {}
<1>1. Needed(Rings(x, y) \cup {}, L, none) /\ Rings(x, y) = Rings(x, y) \cup {}
  BY DEF Needed
<1>2. "r0" \in Scratched /\ Junk \in Word
  BY WordFacts DEF Scratched
<1>3. Ann(Rings(x, y) \cup {}, S, L, FALSE) \in Annotation
  BY <1>1, <1>2, Settles
<1> HIDE DEF none
<1>4. CASE InReg(v)
  <2>1. Plan(i, <<Direct(v, none)>>, Ann(Rings(x, y) \cup {}, S, L, FALSE), Ann(Rings(x, y), S, L2, FALSE))
    BY <1>1, <1>3, <1>4, DirectPlan
  <2> QED
    BY <1>1, <1>4, <2>1 DEF none
<1>5. CASE ~InReg(v)
  <2>1. Plan(i, <<Result(v, none)>> \o Finish(v), Ann(Rings(x, y) \cup {}, S, L, FALSE), Ann(Rings(x, y), S, L2, FALSE))
    BY <1>1, <1>3, ResultPlan
  <2> QED
    BY <1>1, <1>5, <2>1 DEF none
<1> QED
  BY <1>4, <1>5

\* The setup of a loop on the stack: the fence counts two words more.
LEMMA LoopPlan ==
    ASSUME NEW i, NEW open \in BOOLEAN, NEW L, NEW x, NEW y, Setting(i, Base(open), L, x, y), NEW c \in L
    PROVE  \E G \in Annotation : G.live = L /\ Plan(i, emitHardwareLoop(c, FALSE, open), Ann(Rings(x, y), Base(open), L, FALSE), G)
<1> DEFINE S == Base(open)
           S1 == Append(S, x)
           S2 == Append(S1, y)
           A == Ann(Rings(x, y), S, L, FALSE)
           A1 == Ann(Rings(x, y), S1, L, FALSE)
           A2 == Ann(Rings(x, y), S2, L, FALSE)
           A3 == Ann(Rings(x, y) \cup {<<"r0", c>>}, S2, L, FALSE)
           G == Ann({}, S2, L, FALSE)
           m == [Move("r12", "r0") EXCEPT !.needs = {<<"r0", c>>}]
           f == [O("fence") EXCEPT !.n = 2 + FrameWords + (IF open THEN 2 ELSE 0) + (IF FALSE THEN 0 ELSE 2),
                    !.needs = IF FALSE THEN {<<"r4", Counter(open)>>, <<"r6", LoopHead(open)>>} ELSE {}]
<1>0. /\ L \subseteq Busy(body, i) /\ {"r0", "r3", "r12", "r13"} \subseteq Reg /\ c \in Word
      /\ Spares(L, {"r0", "r3"}) /\ Spares(L, {"r12"}) /\ Spares(L, {"r13"}) /\ "r0" \in Scratched
  BY WordFacts DEF Setting, Spares, Scratched
<1>1. /\ Safe(i, Push("r12"), A, A1) /\ Safe(i, Push("r13"), A1, A2)
      /\ A \in Annotation /\ A1 \in Annotation /\ A2 \in Annotation /\ G \in Annotation
      /\ Setting(i, S2, L, x, y)
  BY PushRings
<1>2. Len(S2) = 2 + FrameWords + (IF open THEN 2 ELSE 0) + 2
  <2>1. S \in Seq(Word) /\ Len(S) = 2 + FrameWords + (IF open THEN 2 ELSE 0) /\ x \in Word /\ y \in Word
    BY BaseTyped DEF Setting
  <2> DEFINE n == 2 + FrameWords + (IF open THEN 2 ELSE 0)
  <2>2. n \in Nat
    BY EmissionAssumption
  <2>3. S1 \in Seq(Word) /\ Len(S1) = Len(S) + 1
    BY <2>1, AppendProperties
  <2> HIDE DEF S1
  <2>4. Len(S2) = Len(S1) + 1
    BY <2>1, <2>3, AppendProperties
  <2>5. Len(S) = n
    BY <2>1
  <2> HIDE DEF n, S, S2
  <2>6. Len(S2) = n + 2
    BY <2>2, <2>3, <2>4, <2>5
  <2> QED
    BY <2>6 DEF n
<1> HIDE DEF S1, S2, S
<1>3. A3 \in Annotation
  BY <1>0, <1>1, Settles
<1>4. Safe(i, Use(c), A2, A3)
  <2>1. Brings(Rings(x, y), Rings(x, y) \cup {<<"r0", c>>}, {"r0", "r3"}, "r0", c)
    BY DEF Brings, Rings
  <2> QED
    BY <1>0, <2>1, UseAt
<1>5. Safe(i, m, A3, G)
  <2>1. m.k = "move" /\ m.a = "r12" /\ m.b = "r0" /\ m.needs = {<<"r0", c>>}
    BY DEF Move, O
  <2> HIDE DEF m
  <2>2. Needed(Rings(x, y) \cup {<<"r0", c>>}, L, m.needs) /\ Leaves(Rings(x, y) \cup {<<"r0", c>>}, {}, {"r12"})
    BY <1>0, <2>1 DEF Needed, Leaves
  <2> QED
    BY <1>0, <2>1, <2>2, MoveNeeds
<1>6. Safe(i, Scratch("r13"), G, G)
  <2>1. Brings({}, {}, {"r13"}, "r13", Junk)
    BY DEF Brings
  <2> QED
    BY <1>0, <2>1, ScratchAt
<1>7. Safe(i, f, G, G)
  <2>1. f.k = "fence" /\ f.needs = {} /\ f.n = 2 + FrameWords + (IF open THEN 2 ELSE 0) + 2
    BY DEF O
  <2> HIDE DEF f
  <2>2. Needed({}, L, f.needs) /\ Leaves({}, {}, {}) /\ Len(S2) = f.n
    BY <1>2, <2>1 DEF Needed, Leaves
  <2> QED
    BY <1>0, <2>1, <2>2, FenceAt
<1>8. emitHardwareLoop(c, FALSE, open) = <<Push("r12"), Push("r13"), Use(c)>> \o <<m, Scratch("r13"), f>>
  BY DEF emitHardwareLoop
<1>9. G.live = L
  BY DEF Ann
<1> HIDE DEF A, A1, A2, A3, G, m, f
<1>10. Plan(i, <<Push("r12"), Push("r13"), Use(c)>>, A, A3)
  BY <1>1, <1>3, <1>4, Plan3
<1>11. Plan(i, <<m, Scratch("r13"), f>>, A3, G)
  BY <1>1, <1>3, <1>5, <1>6, <1>7, Plan3
<1>12. Plan(i, emitHardwareLoop(c, FALSE, open), A, G)
  BY <1>8, <1>10, <1>11, PlanJoin
<1> QED
  BY <1>1, <1>9, <1>12 DEF A, S

-----------------------------------------------------------------------------
\* The setup of a loop that saves the loop registers in R4 and R6.
LEMMA RegistersLoopPlan ==
    ASSUME NEW i, NEW open \in BOOLEAN, NEW L, NEW x, NEW y, Setting(i, Base(open), L, x, y), NEW c \in L,
           x = Counter(open), y = LoopHead(open), Spares(L, {"r4"})
    PROVE  \E G \in Annotation : G.live = L /\ Plan(i, emitHardwareLoop(c, TRUE, open), Ann(Rings(x, y), Base(open), L, FALSE), G)
<1> DEFINE S == Base(open)
           A(R) == Ann(Rings(x, y) \cup R, S, L, FALSE)
           B == Ann({<<"r0", c>>, <<"r4", x>>, <<"r6", y>>}, S, L, FALSE)
           G == Ann({<<"r4", x>>, <<"r6", y>>}, S, L, FALSE)
           m == [Move("r12", "r0") EXCEPT !.needs = {<<"r0", c>>}]
           f == [O("fence") EXCEPT !.n = 2 + FrameWords + (IF open THEN 2 ELSE 0) + (IF TRUE THEN 0 ELSE 2),
                    !.needs = IF TRUE THEN {<<"r4", Counter(open)>>, <<"r6", LoopHead(open)>>} ELSE {}]
<1>0. /\ L \subseteq Busy(body, i) /\ {"r0", "r3", "r12", "r13", "r4", "r6"} \subseteq Reg /\ c \in Word
      /\ Spares(L, {"r0", "r3"}) /\ Spares(L, {"r3"}) /\ Spares(L, {"r12"}) /\ Spares(L, {"r13"}) /\ Spares(L, {"r6"})
      /\ "r0" \in Scratched /\ "r6" \in Scratched /\ x \in Word /\ y \in Word
      /\ S \in Seq(Word) /\ L \in SUBSET Value /\ {"r0", "r4", "r6"} \subseteq Reg \ Cache
      /\ Rings(x, y) = Rings(x, y) \cup {}
  BY WordFacts DEF Setting, Spares, Scratched
<1>1. A({}) \in Annotation /\ A({<<"r0", c>>}) \in Annotation /\ A({<<"r0", c>>, <<"r4", x>>}) \in Annotation
  <2>1. /\ {} \subseteq (Scratched \cup {"r2", "r4"}) \X Word
        /\ {<<"r0", c>>} \subseteq (Scratched \cup {"r2", "r4"}) \X Word
        /\ {<<"r0", c>>, <<"r4", x>>} \subseteq (Scratched \cup {"r2", "r4"}) \X Word
    BY <1>0
  <2> QED
    BY <2>1, Settled
<1>2. B \in Annotation /\ G \in Annotation
  <2>1. /\ {<<"r0", c>>, <<"r4", x>>, <<"r6", y>>} \subseteq (Reg \ Cache) \X Word
        /\ {<<"r4", x>>, <<"r6", y>>} \subseteq (Reg \ Cache) \X Word
    BY <1>0
  <2> QED
    BY <1>0, <2>1, AnnType
<1>3. Len(S) = 2 + FrameWords + (IF open THEN 2 ELSE 0)
  BY BaseTyped
<1>n. 2 + FrameWords + (IF open THEN 2 ELSE 0) \in Nat
  BY EmissionAssumption
<1> HIDE DEF S
<1>4. Safe(i, O("capacity"), A({}), A({}))
  <2>1. Leaves(Rings(x, y) \cup {}, Rings(x, y) \cup {}, {"r3"})
    BY DEF Leaves, Rings
  <2> QED
    BY <1>0, <2>1, CapacityAt
<1>5. Safe(i, Use(c), A({}), A({<<"r0", c>>}))
  <2>1. Brings(Rings(x, y) \cup {}, Rings(x, y) \cup {<<"r0", c>>}, {"r0", "r3"}, "r0", c)
    BY DEF Brings, Rings
  <2> QED
    BY <1>0, <2>1, UseAt
<1>6. Safe(i, Move("r4", "r12"), A({<<"r0", c>>}), A({<<"r0", c>>, <<"r4", x>>}))
  <2>1. /\ Brings(Rings(x, y) \cup {<<"r0", c>>}, Rings(x, y) \cup {<<"r0", c>>, <<"r4", x>>}, {"r4"}, "r4", x)
        /\ <<"r12", x>> \in Rings(x, y) \cup {<<"r0", c>>}
    BY DEF Brings, Rings
  <2> QED
    BY <1>0, <2>1, MoveAt
<1>7. Safe(i, Move("r6", "r13"), A({<<"r0", c>>, <<"r4", x>>}), B)
  <2>1. /\ Brings(Rings(x, y) \cup {<<"r0", c>>, <<"r4", x>>}, {<<"r0", c>>, <<"r4", x>>, <<"r6", y>>}, {"r6"}, "r6", y)
        /\ <<"r13", y>> \in Rings(x, y) \cup {<<"r0", c>>, <<"r4", x>>}
    BY DEF Brings, Rings
  <2> QED
    BY <1>0, <2>1, MoveAt
<1>8. Safe(i, m, B, G)
  <2>1. m.k = "move" /\ m.a = "r12" /\ m.b = "r0" /\ m.needs = {<<"r0", c>>}
    BY DEF Move, O
  <2> HIDE DEF m
  <2>2. /\ Needed({<<"r0", c>>, <<"r4", x>>, <<"r6", y>>}, L, m.needs)
        /\ Leaves({<<"r0", c>>, <<"r4", x>>, <<"r6", y>>}, {<<"r4", x>>, <<"r6", y>>}, {"r12"})
    BY <1>0, <2>1 DEF Needed, Leaves
  <2> QED
    BY <1>0, <2>1, <2>2, MoveNeeds
<1>9. Safe(i, Scratch("r13"), G, G)
  <2>1. Brings({<<"r4", x>>, <<"r6", y>>}, {<<"r4", x>>, <<"r6", y>>}, {"r13"}, "r13", Junk)
    BY DEF Brings
  <2> QED
    BY <1>0, <2>1, ScratchAt
<1>10. Safe(i, f, G, G)
  <2>1. f.k = "fence" /\ f.needs = {<<"r4", x>>, <<"r6", y>>} /\ f.n = 2 + FrameWords + (IF open THEN 2 ELSE 0) + 0
    BY DEF O
  <2>2. f.n = 2 + FrameWords + (IF open THEN 2 ELSE 0)
    BY <1>n, <2>1
  <2> HIDE DEF f
  <2>3. /\ Needed({<<"r4", x>>, <<"r6", y>>}, L, f.needs) /\ Len(S) = f.n
        /\ Leaves({<<"r4", x>>, <<"r6", y>>}, {<<"r4", x>>, <<"r6", y>>}, {})
    BY <1>0, <1>3, <2>1, <2>2 DEF Needed, Leaves
  <2> QED
    BY <1>0, <2>1, <2>3, FenceAt
<1>11. emitHardwareLoop(c, TRUE, open)
         = <<O("capacity"), Use(c), Move("r4", "r12"), Move("r6", "r13")>> \o <<m, Scratch("r13"), f>>
  BY DEF emitHardwareLoop
<1>12. G.live = L
  BY DEF Ann
<1> HIDE DEF B, G, m, f
<1>13. Plan(i, <<O("capacity"), Use(c), Move("r4", "r12"), Move("r6", "r13")>>, A({}), B)
  BY <1>1, <1>2, <1>4, <1>5, <1>6, <1>7, Plan4
<1>14. Plan(i, <<m, Scratch("r13"), f>>, B, G)
  BY <1>2, <1>8, <1>9, <1>10, Plan3
<1>15. Plan(i, emitHardwareLoop(c, TRUE, open), A({}), G)
  BY <1>11, <1>13, <1>14, PlanJoin
<1> QED
  BY <1>0, <1>2, <1>12, <1>15 DEF S

\* The epilogue finds the caller's registers below the frame.
LEMMA ReturnPlan ==
    ASSUME NEW i, NEW open \in BOOLEAN, NEW L, NEW x, NEW y, Setting(i, Base(open), L, x, y), NEW v \in L
    PROVE  \E G \in Annotation : G.live = L /\ Plan(i, emitFunctionEpilogue(v), Ann(Rings(x, y), Base(open), L, FALSE), G)
<1> DEFINE S == Base(open)
           S2 == SubSeq(S, 1, 2)
           A == Ann(Rings(x, y), S, L, FALSE)
           A1 == Ann(Rings(x, y) \cup {<<"r0", v>>}, S, L, FALSE)
           B(R, T) == Ann({<<"r0", v>>} \cup R, T, L, FALSE)
           Last == {<<"r9", "caller">>, <<"r11", "link">>}
           e == [Label EXCEPT !.a = v]
           f == [O("fence") EXCEPT !.needs = {<<"r9", "caller">>, <<"r11", "link">>, <<"r0", v>>}]
<1>0. /\ L \subseteq Busy(body, i) /\ {"r0", "r9", "r11"} \subseteq Reg /\ v \in Word /\ v \in Value
      /\ Spares(L, {"r0", "r3"}) /\ Spares(L, {"r9"}) /\ Spares(L, {"r11"})
      /\ "r0" \in Scratched /\ "link" \in Word /\ "caller" \in Word
      /\ L \in SUBSET Value /\ {"r0", "r9", "r11"} \subseteq Reg \ Cache /\ S \in Seq(Word)
  BY WordFacts DEF Setting, Spares, Scratched
<1>1. S2 = Append(<<"link">>, "caller") /\ <<"link">> = Append(<<>>, "link")
  <2>1. S2 = <<"link", "caller">>
    BY BaseTyped
  <2> HIDE DEF S2
  <2>2. <<"link", "caller">> = Append(<<"link">>, "caller") /\ <<"link">> = Append(<<>>, "link")
    OBVIOUS
  <2> QED
    BY <2>1, <2>2
<1>2. A \in Annotation /\ A1 \in Annotation
  BY <1>0, Settles
<1>3. v # None
  BY <1>0, Distinct
<1> HIDE DEF S, S2
<1>4. /\ B({}, S) \in Annotation /\ B({}, S2) \in Annotation /\ B({<<"r9", "caller">>}, <<"link">>) \in Annotation
      /\ B(Last, <<>>) \in Annotation
  <2>1. /\ {<<"r0", v>>} \cup {} \subseteq (Reg \ Cache) \X Word
        /\ {<<"r0", v>>} \cup {<<"r9", "caller">>} \subseteq (Reg \ Cache) \X Word
        /\ {<<"r0", v>>} \cup Last \subseteq (Reg \ Cache) \X Word
    BY <1>0
  <2>2. <<>> \in Seq(Word) /\ <<"link">> \in Seq(Word)
    BY <1>0
  <2>3. S2 \in Seq(Word)
    BY <1>0, <1>1, <2>2, AppendProperties
  <2> QED
    BY <1>0, <2>1, <2>2, <2>3, AnnType
<1>5. Safe(i, Use(v), A, A1)
  <2>1. Brings(Rings(x, y), Rings(x, y) \cup {<<"r0", v>>}, {"r0", "r3"}, "r0", v)
    BY DEF Brings, Rings
  <2> QED
    BY <1>0, <2>1, UseAt
<1>6. Safe(i, e, A1, B({}, S))
  <2>1. Leaves(Rings(x, y) \cup {<<"r0", v>>}, {<<"r0", v>>} \cup {}, {})
    BY DEF Leaves
  <2> QED
    BY <1>0, <1>3, <2>1, ExitAt
<1>7. Safe(i, O("unwind"), B({}, S), B({}, S2))
  BY <1>0, UnwindAt DEF S2
<1>8. Safe(i, Pop("r9"), B({}, S2), B({<<"r9", "caller">>}, <<"link">>))
  <2>1. /\ Brings({<<"r0", v>>} \cup {}, {<<"r0", v>>} \cup {<<"r9", "caller">>}, {"r9"}, "r9", "caller")
        /\ \A u \in L : (u \in L /\ home[u] # "r9") \/ (u = "caller" /\ home[u] = "r9")
    BY <1>0 DEF Brings, Spares
  <2> QED
    BY <1>0, <1>1, <2>1, PopAt
<1>9. Safe(i, Pop("r11"), B({<<"r9", "caller">>}, <<"link">>), B(Last, <<>>))
  <2>1. /\ Brings({<<"r0", v>>} \cup {<<"r9", "caller">>}, {<<"r0", v>>} \cup Last, {"r11"}, "r11", "link")
        /\ \A u \in L : (u \in L /\ home[u] # "r11") \/ (u = "link" /\ home[u] = "r11")
    BY <1>0 DEF Brings, Spares
  <2> QED
    BY <1>0, <1>1, <2>1, PopAt
<1>10. Safe(i, f, B(Last, <<>>), B(Last, <<>>))
  <2>1. f.k = "fence" /\ f.needs = {<<"r9", "caller">>, <<"r11", "link">>, <<"r0", v>>} /\ f.n = 0
    BY DEF O
  <2> HIDE DEF f
  <2>2. Needed({<<"r0", v>>} \cup Last, L, f.needs)
    BY <1>0, <2>1 DEF Needed
  <2>3. Leaves({<<"r0", v>>} \cup Last, {<<"r0", v>>} \cup Last, {}) /\ ~(f.n > 0)
    BY <2>1 DEF Leaves
  <2> QED
    BY <1>0, <2>1, <2>2, <2>3, FenceAt
<1>11. emitFunctionEpilogue(v) = <<Use(v), e, O("unwind")>> \o <<Pop("r9"), Pop("r11"), f>>
  <2>1. \A o1, o2, o3, o4, o5, o6 : <<o1, o2, o3, o4, o5, o6>> = <<o1, o2, o3>> \o <<o4, o5, o6>>
    OBVIOUS
  <2>2. emitFunctionEpilogue(v) = <<Use(v), e, O("unwind"), Pop("r9"), Pop("r11"), f>>
    BY DEF emitFunctionEpilogue
  <2> HIDE DEF e, f
  <2> QED
    BY <2>1, <2>2
<1>12. B(Last, <<>>).live = L
  BY DEF Ann
<1> HIDE DEF A, A1, B, e, f
<1>13. Plan(i, <<Use(v), e, O("unwind")>>, A, B({}, S2))
  BY <1>2, <1>4, <1>5, <1>6, <1>7, Plan3
<1>14. Plan(i, <<Pop("r9"), Pop("r11"), f>>, B({}, S2), B(Last, <<>>))
  BY <1>4, <1>8, <1>9, <1>10, Plan3
<1>15. Plan(i, emitFunctionEpilogue(v), A, B(Last, <<>>))
  BY <1>11, <1>13, <1>14, PlanJoin
<1> QED
  BY <1>4, <1>12, <1>15 DEF A, S

-----------------------------------------------------------------------------
\* A stack with the first j words of t above it.
LEMMA Above ==
    ASSUME NEW S \in Seq(Word), NEW t \in Seq(Word)
    PROVE  /\ \A j \in 0 .. Len(t) : S \o SubSeq(t, 1, j) \in Seq(Word)
           /\ \A j \in 1 .. Len(t) : S \o SubSeq(t, 1, j) = Append(S \o SubSeq(t, 1, j - 1), t[j])
           /\ S \o SubSeq(t, 1, 0) = S /\ S \o SubSeq(t, 1, Len(t)) = S \o t
           /\ S \o t \in Seq(Word)
           /\ SubSeq(S \o t, 1, Len(S \o t) - Len(t)) = S
<1>0. Len(t) \in Nat /\ \A j \in 1 .. Len(t) : t[j] \in Word
  BY LenProperties, ElementOfSeq
<1>1. ASSUME NEW j \in 0 .. Len(t) PROVE SubSeq(t, 1, j) \in Seq(Word)
  <2>1. j \in Int /\ \A k \in 1 .. j : t[k] \in Word
    BY <1>0
  <2> QED
    BY <2>1, SubSeqProperties
<1>2. ASSUME NEW j \in 0 .. Len(t) PROVE S \o SubSeq(t, 1, j) \in Seq(Word)
  BY <1>1, ConcatProperties
<1>3. ASSUME NEW j \in 1 .. Len(t) PROVE S \o SubSeq(t, 1, j) = Append(S \o SubSeq(t, 1, j - 1), t[j])
  <2>1. 1 \in 1 .. Len(t) /\ j \in 1 .. Len(t) /\ j - 1 \in 0 .. Len(t) /\ t[j] \in Word
    BY <1>0
  <2>2. SubSeq(t, 1, j) = SubSeq(t, 1, j - 1) \o <<t[j]>>
    BY <2>1, SubSeqRecursiveSecond
  <2> DEFINE u == SubSeq(t, 1, j - 1)
             z == <<t[j]>>
  <2>3. u \in Seq(Word) /\ z \in Seq(Word)
    BY <1>1, <2>1
  <2>4. S \o u \in Seq(Word) /\ Append(S \o u, t[j]) = (S \o u) \o z
    BY <2>1, <2>3, ConcatProperties, AppendIsConcat
  <2> HIDE DEF u, z
  <2>5. (S \o u) \o z = S \o (u \o z)
    BY <2>3, ConcatAssociative, SMTT(60)
  <2> QED
    BY <2>2, <2>4, <2>5 DEF u, z
<1>4. S \o SubSeq(t, 1, 0) = S
  <2>1. SubSeq(t, 1, 0) = <<>>
    BY SubSeqEmpty
  <2> QED
    BY <2>1, ConcatEmptySeq
<1>5. S \o SubSeq(t, 1, Len(t)) = S \o t
  BY SubSeqFull
<1>6. S \o t \in Seq(Word)
  BY ConcatProperties
<1>7. SubSeq(S \o t, 1, Len(S \o t) - Len(t)) = S
  <2> DEFINE c == S \o t
             n == Len(S)
             u == SubSeq(c, 1, n)
  <2>1. /\ c \in Seq(Word) /\ Len(c) = n + Len(t) /\ n \in Nat /\ \A k \in 1 .. n : S[k] \in Word
        /\ \A k \in 1 .. n + Len(t) : c[k] = IF k <= n THEN S[k] ELSE t[k - n]
    BY ConcatProperties, LenProperties, ElementOfSeq
  <2> HIDE DEF c, n
  <2>2. \A k \in 1 .. n : c[k] = S[k] /\ c[k] \in Word
    BY <1>0, <2>1
  <2>3. u \in Seq(Word) /\ Len(u) = n /\ \A k \in 1 .. n : u[k] = c[k]
    BY <2>1, <2>2, SubSeqProperties
  <2> HIDE DEF u
  <2>4. u = S
    BY <2>1, <2>2, <2>3, SeqEqual DEF n
  <2>5. Len(c) - Len(t) = n
    BY <1>0, <2>1
  <2> QED
    BY <2>4, <2>5 DEF u, c
<1> QED
  BY <1>2, <1>3, <1>4, <1>5, <1>6, <1>7

\* A list of pushes.
LEMMA PushesPlan ==
    ASSUME NEW i, NEW S, NEW L, NEW x, NEW y, Setting(i, S, L, x, y), NEW p \in BOOLEAN,
           NEW q \in Seq(Reg), NEW t \in Seq(Word), Len(q) = Len(t),
           \A j \in 1 .. Len(q) : q[j] # "r3" /\ (<<q[j], t[j]>> \in Rings(x, y) \/ (t[j] \in L /\ home[t[j]] = q[j]))
    PROVE  Plan(i, Spread(q, Push), Ann(Rings(x, y), S, L, p), Ann(Rings(x, y), S \o t, L, p))
<1> DEFINE n == Len(q)
           B(k) == Ann(Rings(x, y), S \o SubSeq(t, 1, k), L, p)
           A == [d \in 1 .. n + 1 |-> B(d - 1)]
           E == [d \in 1 .. n |-> Push(q[d])]
<1>0. /\ L \subseteq Busy(body, i) /\ Spares(L, {"r3"}) /\ S \in Seq(Word) /\ x \in Word /\ y \in Word
      /\ "r12" \in Scratched /\ Leaves(Rings(x, y), Rings(x, y), {"r3"}) /\ n \in Nat
      /\ \A j \in 1 .. n : t[j] \in Word /\ q[j] \in Reg
  BY LenProperties, ElementOfSeq DEF Setting, Spares, Scratched, Leaves, Rings
<1>1. /\ \A k \in 0 .. n : S \o SubSeq(t, 1, k) \in Seq(Word)
      /\ \A k \in 1 .. n : S \o SubSeq(t, 1, k) = Append(S \o SubSeq(t, 1, k - 1), t[k])
      /\ S \o SubSeq(t, 1, 0) = S /\ S \o SubSeq(t, 1, n) = S \o t
  <2>1. S \in Seq(Word) /\ n = Len(t)
    BY <1>0
  <2> HIDE DEF n
  <2> QED
    BY <2>1, Above, ZenonT(60)
<1>2. ASSUME NEW k \in 0 .. n PROVE B(k) \in Annotation
  <2> DEFINE T == S \o SubSeq(t, 1, k)
  <2>1. Setting(i, T, L, x, y)
    BY <1>1 DEF Setting
  <2> HIDE DEF T
  <2>2. Ann(Rings(x, y), T, L, p) \in Annotation
    BY <1>0, <2>1, Settles
  <2> QED
    BY <2>2 DEF T
<1>3. ASSUME NEW k \in 1 .. n PROVE Safe(i, Push(q[k]), B(k - 1), B(k))
  <2> DEFINE T == S \o SubSeq(t, 1, k - 1)
  <2>1. q[k] \in Reg \ {"r3"} /\ t[k] \in Word /\ (<<q[k], t[k]>> \in Rings(x, y) \/ (t[k] \in L /\ home[t[k]] = q[k]))
    BY <1>0
  <2>2. S \o SubSeq(t, 1, k) = Append(T, t[k])
    BY <1>1
  <2> HIDE DEF T
  <2>3. Safe(i, Push(q[k]), Ann(Rings(x, y), T, L, p), Ann(Rings(x, y), Append(T, t[k]), L, p))
    BY <1>0, <2>1, PushAt
  <2> QED
    BY <2>2, <2>3 DEF T
<1>4. B(0) = Ann(Rings(x, y), S, L, p) /\ B(n) = Ann(Rings(x, y), S \o t, L, p)
  BY <1>1
<1>5. Spread(q, Push) = E
  BY DEF Spread
<1>6. E \in Seq({Push(r) : r \in Reg}) /\ Len(E) = n
  <2>1. E \in [1 .. n -> {Push(r) : r \in Reg}]
    BY <1>0
  <2> HIDE DEF E
  <2>2. E \in Seq({Push(r) : r \in Reg})
    BY <1>0, <2>1, SeqDef
  <2> QED
    BY <1>0, <2>1, <2>2, LenProperties
<1>7. \A d \in 1 .. n : E[d] = Push(q[d])
  OBVIOUS
<1> HIDE DEF n, B, E
<1>8. A \in [1 .. n + 1 -> Annotation] /\ A[1] = B(0) /\ A[n + 1] = B(n)
  <2>1. \A d \in 1 .. n + 1 : d - 1 \in 0 .. n
    BY <1>0
  <2> QED
    BY <1>0, <1>2, <2>1
<1>9. \A d \in 1 .. n : Safe(i, E[d], A[d], A[d + 1])
  <2> SUFFICES ASSUME NEW d \in 1 .. n PROVE Safe(i, E[d], A[d], A[d + 1])
    OBVIOUS
  <2>1. A[d] = B(d - 1) /\ A[d + 1] = B(d)
    BY <1>0
  <2> QED
    BY <1>3, <1>7, <2>1
<1> HIDE DEF A
<1>10. Plan(i, E, B(0), B(n))
  BY <1>6, <1>8, <1>9 DEF Plan, IsSeq
<1> QED
  BY <1>4, <1>5, <1>10

-----------------------------------------------------------------------------
\* What survives while the first k registers of q are still to be popped.
Registers(q, k) == {q[j] : j \in 1 .. k}
Untouched(T, q, k) == {f \in T : f[1] \notin Registers(q, k)}
Resting(L, q, k) == {u \in L : home[u] \notin Registers(q, k)}

\* A list of pops: every register gets its word back.
LEMMA PopsPlan ==
    ASSUME NEW i, NEW S \in Seq(Word), NEW L \in SUBSET Value, L \subseteq Busy(body, i), NEW p \in BOOLEAN,
           NEW T, T \subseteq (Reg \ Cache) \X Word,
           NEW q \in Seq(Reg), NEW t \in Seq(Word), Len(q) = Len(t),
           \A j \in 1 .. Len(q) : \A u \in L : home[u] = q[j] => u = t[j],
           \A j \in 1 .. Len(q) : \A w : <<q[j], w>> \in T => w = t[j]
    PROVE  Plan(i, Spread(Reversed(q), Pop), Ann(Untouched(T, q, Len(q)), S \o t, Resting(L, q, Len(q)), p), Ann(T, S, L, p))
<1> DEFINE n == Len(q)
           B(k) == Ann(Untouched(T, q, k), S \o SubSeq(t, 1, k), Resting(L, q, k), p)
           A == [d \in 1 .. n + 1 |-> B(n + 1 - d)]
           E == [d \in 1 .. n |-> Pop(q[n + 1 - d])]
<1>0. /\ n \in Nat /\ \A j \in 1 .. n : t[j] \in Word /\ q[j] \in Reg
  BY LenProperties, ElementOfSeq
<1>1. /\ \A k \in 0 .. n : S \o SubSeq(t, 1, k) \in Seq(Word)
      /\ \A k \in 1 .. n : S \o SubSeq(t, 1, k) = Append(S \o SubSeq(t, 1, k - 1), t[k])
      /\ S \o SubSeq(t, 1, 0) = S /\ S \o SubSeq(t, 1, n) = S \o t
  <2>1. /\ \A k \in 0 .. Len(t) : S \o SubSeq(t, 1, k) \in Seq(Word)
        /\ \A k \in 1 .. Len(t) : S \o SubSeq(t, 1, k) = Append(S \o SubSeq(t, 1, k - 1), t[k])
        /\ S \o SubSeq(t, 1, 0) = S /\ S \o SubSeq(t, 1, Len(t)) = S \o t
    BY Above
  <2>2. Len(t) = n
    OBVIOUS
  <2> QED
    BY <2>1, <2>2
<1>2. ASSUME NEW k \in 0 .. n PROVE B(k) \in Annotation
  <2>1. /\ S \o SubSeq(t, 1, k) \in Seq(Word) /\ Untouched(T, q, k) \subseteq (Reg \ Cache) \X Word
        /\ Resting(L, q, k) \in SUBSET Value
    BY <1>1 DEF Untouched, Resting
  <2> QED
    BY <2>1, AnnType
<1>3. ASSUME NEW k \in 1 .. n PROVE Safe(i, Pop(q[k]), B(k), B(k - 1))
  <2> DEFINE Z == S \o SubSeq(t, 1, k - 1)
             R == Untouched(T, q, k)
             R2 == Untouched(T, q, k - 1)
             K == Resting(L, q, k)
             K2 == Resting(L, q, k - 1)
             r == q[k]
             w == t[k]
  <2>1. r \in Reg /\ w \in Word /\ (\A u \in L : home[u] = r => u = w) /\ (\A z : <<r, z>> \in T => z = w)
    BY <1>0
  <2>2. Registers(q, k) = Registers(q, k - 1) \cup {r}
    <3>1. 1 .. k = (1 .. k - 1) \cup {k}
      BY <1>0
    <3> QED
      BY <3>1 DEF Registers
  <2>3. S \o SubSeq(t, 1, k) = Append(Z, w)
    BY <1>1
  <2> HIDE DEF r, w, Z
  <2>4. Brings(R, R2, {r}, r, w)
    <3> SUFFICES ASSUME NEW a, NEW b, <<a, b>> \in R2 PROVE (<<a, b>> \in R /\ a \notin {r}) \/ (a = r /\ b = w)
      BY DEF Brings
    <3>1. <<a, b>> \in T /\ a \notin Registers(q, k - 1)
      BY DEF Untouched
    <3> QED
      BY <2>1, <2>2, <3>1 DEF Untouched
  <2>5. \A u \in K2 : (u \in K /\ home[u] # r) \/ (u = w /\ home[u] = r)
    BY <2>1, <2>2 DEF Resting
  <2>6. K2 \subseteq Value /\ K \subseteq Busy(body, i) /\ K2 \subseteq Busy(body, i)
    BY DEF Resting
  <2> HIDE DEF R, R2, K, K2
  <2>7. Safe(i, Pop(r), Ann(R, Append(Z, w), K, p), Ann(R2, Z, K2, p))
    BY <2>1, <2>4, <2>5, <2>6, PopAt
  <2> QED
    BY <2>3, <2>7 DEF R, R2, K, K2, Z, r
<1>4. B(0) = Ann(T, S, L, p) /\ B(n) = Ann(Untouched(T, q, n), S \o t, Resting(L, q, n), p)
  <2>1. Registers(q, 0) = {}
    BY DEF Registers
  <2>2. Untouched(T, q, 0) = T /\ Resting(L, q, 0) = L
    BY <2>1 DEF Untouched, Resting
  <2> QED
    BY <1>1, <2>2
<1>5. Spread(Reversed(q), Pop) = E
  <2> DEFINE v == [k \in 1 .. n |-> q[n + 1 - k]]
  <2>1. Reversed(q) = v
    BY DEF Reversed
  <2>2. Len(v) = n /\ \A d \in 1 .. n : v[d] = q[n + 1 - d]
    <3>1. \A d \in 1 .. n : n + 1 - d \in 1 .. n
      BY <1>0
    <3>2. v \in [1 .. n -> Reg]
      BY <1>0, <3>1
    <3>3. v \in Seq(Reg)
      BY <1>0, <3>2, SeqDef
    <3> QED
      BY <1>0, <3>2, <3>3, LenProperties
  <2> HIDE DEF v
  <2>3. Spread(v, Pop) = [d \in 1 .. Len(v) |-> Pop(v[d])]
    BY DEF Spread
  <2> HIDE DEF n
  <2> QED
    BY <2>1, <2>2, <2>3
<1>6. E \in Seq({Pop(r) : r \in Reg}) /\ Len(E) = n
  <2>0. \A d \in 1 .. n : n + 1 - d \in 1 .. n
    BY <1>0
  <2>1. E \in [1 .. n -> {Pop(r) : r \in Reg}]
    BY <1>0, <2>0
  <2> HIDE DEF E
  <2>2. E \in Seq({Pop(r) : r \in Reg})
    BY <1>0, <2>1, SeqDef
  <2> QED
    BY <1>0, <2>1, <2>2, LenProperties
<1>7. \A d \in 1 .. n : E[d] = Pop(q[n + 1 - d])
  OBVIOUS
<1> HIDE DEF n, B, E
<1>8. A \in [1 .. n + 1 -> Annotation] /\ A[1] = B(n) /\ A[n + 1] = B(0)
  <2>1. \A d \in 1 .. n + 1 : n + 1 - d \in 0 .. n
    BY <1>0
  <2>2. 1 \in 1 .. n + 1 /\ n + 1 \in 1 .. n + 1 /\ n + 1 - 1 = n /\ n + 1 - (n + 1) = 0
    BY <1>0
  <2> QED
    BY <1>2, <2>1, <2>2
<1>9. \A d \in 1 .. n : Safe(i, E[d], A[d], A[d + 1])
  <2> SUFFICES ASSUME NEW d \in 1 .. n PROVE Safe(i, E[d], A[d], A[d + 1])
    OBVIOUS
  <2> DEFINE k == n + 1 - d
  <2>1. A[d] = B(k)
    BY <1>0
  <2>2. k \in 1 .. n /\ n + 1 - (d + 1) = k - 1 /\ d + 1 \in 1 .. n + 1
    BY <1>0
  <2>3. A[d + 1] = B(k - 1)
    BY <2>2
  <2>4. E[d] = Pop(q[k])
    BY <1>7
  <2> HIDE DEF k, A
  <2> QED
    BY <1>3, <2>1, <2>2, <2>3, <2>4
<1> HIDE DEF A
<1>10. Plan(i, E, B(n), B(0))
  BY <1>6, <1>8, <1>9 DEF Plan, IsSeq
<1> QED
  BY <1>4, <1>5, <1>10 DEF n

\* Arguments are brought to R0 and pushed, the last one first.
Arguments(a) ==
    [k \in 1 .. 2 * Len(a) |-> IF k % 2 = 1 THEN Use(a[Len(a) - (k \div 2)]) ELSE Push("r0")]

\* The arguments are pushed, the last one first, however their uses move R0 and
\* the cache.
LEMMA ArgumentsPlan ==
    ASSUME NEW i, NEW S, NEW L, NEW x, NEW y, Setting(i, S, L, x, y), NEW p \in BOOLEAN, NEW a \in Seq(L)
    PROVE  /\ Reversed(a) \in Seq(Word) /\ Len(Reversed(a)) = Len(a) /\ Len(a) \in Nat
           /\ \A k \in 1 .. Len(a) : Reversed(a)[k] = a[Len(a) + 1 - k]
           /\ Plan(i, Arguments(a), Ann(Rings(x, y), S, L, p), Ann(Rings(x, y), S \o Reversed(a), L, p))
<1> DEFINE m == Len(a)
           t == Reversed(a)
           B(k) == Ann(Rings(x, y), S \o SubSeq(t, 1, k), L, p)
           C(k) == Ann(Rings(x, y) \cup {<<"r0", t[k + 1]>>}, S \o SubSeq(t, 1, k), L, p)
           A == [d \in 1 .. 2 * m + 1 |-> IF d % 2 = 1 THEN B(d \div 2) ELSE C(d \div 2 - 1)]
           E == Arguments(a)
<1>0. /\ L \subseteq Busy(body, i) /\ Spares(L, {"r3"}) /\ Spares(L, {"r0", "r3"}) /\ S \in Seq(Word) /\ x \in Word /\ y \in Word
      /\ "r0" \in Scratched /\ m \in Nat /\ L \subseteq Word
      /\ \A j \in 1 .. m : a[j] \in L
  BY LenProperties, ElementOfSeq, WordFacts DEF Setting, Spares, Scratched
<1>1. t \in Seq(L) /\ t \in Seq(Word) /\ Len(t) = m /\ \A k \in 1 .. m : t[k] = a[m + 1 - k] /\ t[k] \in L /\ t[k] \in Word
  <2>1. t = [k \in 1 .. m |-> a[m + 1 - k]]
    BY DEF Reversed
  <2> HIDE DEF t
  <2>2. \A d \in 1 .. m : m + 1 - d \in 1 .. m
    BY <1>0
  <2>3. t \in [1 .. m -> L] /\ t \in [1 .. m -> Word]
    BY <1>0, <2>1, <2>2
  <2>4. t \in Seq(L) /\ t \in Seq(Word)
    BY <1>0, <2>3, SeqDef
  <2> QED
    BY <1>0, <2>1, <2>3, <2>4, LenProperties
<1>2. /\ \A k \in 0 .. m : S \o SubSeq(t, 1, k) \in Seq(Word)
      /\ \A k \in 1 .. m : S \o SubSeq(t, 1, k) = Append(S \o SubSeq(t, 1, k - 1), t[k])
      /\ S \o SubSeq(t, 1, 0) = S /\ S \o SubSeq(t, 1, m) = S \o t
  <2> HIDE DEF t
  <2>1. /\ \A k \in 0 .. Len(t) : S \o SubSeq(t, 1, k) \in Seq(Word)
        /\ \A k \in 1 .. Len(t) : S \o SubSeq(t, 1, k) = Append(S \o SubSeq(t, 1, k - 1), t[k])
        /\ S \o SubSeq(t, 1, 0) = S /\ S \o SubSeq(t, 1, Len(t)) = S \o t
    BY <1>0, <1>1, Above
  <2>2. Len(t) = m
    BY <1>1
  <2> QED
    BY <2>1, <2>2
<1> HIDE DEF t
<1>3. /\ \A k \in 0 .. m : B(k) \in Annotation
      /\ \A k \in 0 .. m - 1 : C(k) \in Annotation
  <2>1. ASSUME NEW k \in 0 .. m, NEW w \in Word
        PROVE  /\ Ann(Rings(x, y), S \o SubSeq(t, 1, k), L, p) \in Annotation
               /\ Ann(Rings(x, y) \cup {<<"r0", w>>}, S \o SubSeq(t, 1, k), L, p) \in Annotation
    <3> DEFINE T == S \o SubSeq(t, 1, k)
    <3>1. Setting(i, T, L, x, y)
      BY <1>2 DEF Setting
    <3> HIDE DEF T
    <3>2. Ann(Rings(x, y), T, L, p) \in Annotation /\ Ann(Rings(x, y) \cup {<<"r0", w>>}, T, L, p) \in Annotation
      BY <1>0, <3>1, Settles
    <3> QED
      BY <3>2 DEF T
  <2>2. \A k \in 0 .. m - 1 : k \in 0 .. m /\ t[k + 1] \in Word
    BY <1>0, <1>1
  <2>3. Junk \in Word
    BY WordFacts
  <2> QED
    BY <2>1, <2>2, <2>3
<1>4. ASSUME NEW k \in 1 .. m PROVE Safe(i, Use(t[k]), B(k - 1), C(k - 1)) /\ Safe(i, Push("r0"), C(k - 1), B(k))
  <2> DEFINE T == S \o SubSeq(t, 1, k - 1)
             w == t[k]
  <2>1. w \in L /\ w \in Word
    BY <1>1
  <2>2. S \o SubSeq(t, 1, k) = Append(T, w) /\ k - 1 + 1 = k
    BY <1>0, <1>2
  <2>3. B(k - 1) = Ann(Rings(x, y), T, L, p) /\ C(k - 1) = Ann(Rings(x, y) \cup {<<"r0", w>>}, T, L, p)
        /\ B(k) = Ann(Rings(x, y), Append(T, w), L, p)
    BY <2>2
  <2> HIDE DEF T, w, B, C
  <2>4. /\ Brings(Rings(x, y), Rings(x, y) \cup {<<"r0", w>>}, {"r0", "r3"}, "r0", w)
        /\ Leaves(Rings(x, y) \cup {<<"r0", w>>}, Rings(x, y), {"r3"})
        /\ <<"r0", w>> \in Rings(x, y) \cup {<<"r0", w>>} /\ "r0" \in Reg \ {"r3"}
    BY DEF Brings, Leaves, Rings, Reg
  <2>5. Safe(i, Use(w), B(k - 1), C(k - 1))
    BY <1>0, <2>1, <2>3, <2>4, UseAt
  <2>6. Safe(i, Push("r0"), C(k - 1), B(k))
    BY <1>0, <2>1, <2>3, <2>4, PushAt, ZenonT(60)
  <2> QED
    BY <2>5, <2>6 DEF w
<1>5. B(0) = Ann(Rings(x, y), S, L, p) /\ B(m) = Ann(Rings(x, y), S \o t, L, p)
  BY <1>2
<1> HIDE DEF B, C
<1>6. ASSUME NEW d \in 1 .. 2 * m
      PROVE  \/ d % 2 = 1 /\ d \div 2 \in 0 .. m - 1 /\ (d + 1) % 2 = 0 /\ (d + 1) \div 2 = d \div 2 + 1
             \/ d % 2 = 0 /\ d \div 2 \in 1 .. m /\ (d + 1) % 2 = 1 /\ (d + 1) \div 2 = d \div 2
  BY <1>0
<1>7. ASSUME NEW d \in 1 .. 2 * m PROVE E[d] \in {Use(v) : v \in L} \cup {Push("r0")} /\ Safe(i, E[d], A[d], A[d + 1])
  <2> DEFINE k == d \div 2
  <2>0. E[d] = IF d % 2 = 1 THEN Use(a[m - k]) ELSE Push("r0")
    BY DEF Arguments
  <2>a. A[d] = (IF d % 2 = 1 THEN B(k) ELSE C(k - 1)) /\ d + 1 \in 1 .. 2 * m + 1
    BY <1>0
  <2>b. A[d + 1] = IF (d + 1) % 2 = 1 THEN B((d + 1) \div 2) ELSE C((d + 1) \div 2 - 1)
    BY <2>a
  <2> HIDE DEF A, E
  <2>1. CASE d % 2 = 1 /\ k \in 0 .. m - 1 /\ (d + 1) % 2 = 0 /\ (d + 1) \div 2 = k + 1
    <3> HIDE DEF k
    <3>1. A[d] = B(k) /\ E[d] = Use(a[m - k])
      BY <2>0, <2>1, <2>a
    <3>2. A[d + 1] = C(k + 1 - 1)
      BY <2>1, <2>b
    <3>3. k + 1 \in 1 .. m /\ k + 1 - 1 = k /\ m + 1 - (k + 1) = m - k /\ m - k \in 1 .. m
      BY <1>0, <2>1
    <3>4. t[k + 1] = a[m - k] /\ a[m - k] \in L
      BY <1>1, <3>3
    <3> DEFINE j == k + 1
    <3>6. j \in 1 .. m /\ k = j - 1 /\ t[j] = a[m - k]
      <4>1. t[j] = a[m - k]
        BY <3>4
      <4>2. k \in Int
        BY <1>0, <2>1
      <4>3. j \in 1 .. m /\ k = j - 1
        BY <3>3, <4>2
      <4> QED
        BY <4>1, <4>3
    <3> HIDE DEF j
    <3>7. Safe(i, Use(t[j]), B(j - 1), C(j - 1))
      BY <1>4, <3>6
    <3>8. A[d] = B(j - 1) /\ A[d + 1] = C(j - 1) /\ E[d] = Use(t[j])
      BY <3>1, <3>2, <3>3, <3>6
    <3> QED
      BY <3>1, <3>4, <3>7, <3>8
  <2>2. CASE d % 2 = 0 /\ k \in 1 .. m /\ (d + 1) % 2 = 1 /\ (d + 1) \div 2 = k
    <3> HIDE DEF k
    <3>1. A[d] = C(k - 1) /\ E[d] = Push("r0")
      BY <2>0, <2>2, <2>a
    <3>2. A[d + 1] = B(k)
      BY <2>2, <2>b
    <3>3. Safe(i, Push("r0"), C(k - 1), B(k))
      BY <1>4, <2>2
    <3> QED
      BY <3>1, <3>2, <3>3
  <2> QED
    BY <1>6, <2>1, <2>2
<1>8. E \in Seq({Use(v) : v \in L} \cup {Push("r0")}) /\ Len(E) = 2 * m
  <2> DEFINE X == {Use(v) : v \in L} \cup {Push("r0")}
  <2>1. 2 * m \in Nat /\ DOMAIN E = 1 .. 2 * m /\ E = [d \in DOMAIN E |-> E[d]]
    BY <1>0 DEF Arguments
  <2>2. \A d \in 1 .. 2 * m : E[d] \in X
    BY <1>7
  <2> HIDE DEF E, X
  <2>3. E \in [1 .. 2 * m -> X]
    BY <2>1, <2>2
  <2>4. E \in Seq(X)
    BY <2>1, <2>3, SeqDef
  <2> QED
    BY <2>1, <2>3, <2>4, LenProperties DEF X
<1>9. A \in [1 .. 2 * m + 1 -> Annotation] /\ A[1] = B(0) /\ A[2 * m + 1] = B(m)
  <2>1. ASSUME NEW d \in 1 .. 2 * m + 1 PROVE A[d] \in Annotation
    <3>1. (d % 2 = 1 /\ d \div 2 \in 0 .. m) \/ (d % 2 = 0 /\ d \div 2 - 1 \in 0 .. m - 1)
      BY <1>0
    <3>2. A[d] = IF d % 2 = 1 THEN B(d \div 2) ELSE C(d \div 2 - 1)
      OBVIOUS
    <3> HIDE DEF A
    <3>3. CASE d % 2 = 1 /\ d \div 2 \in 0 .. m
      BY <1>3, <3>2, <3>3
    <3>4. CASE d % 2 = 0 /\ d \div 2 - 1 \in 0 .. m - 1
      BY <1>3, <3>2, <3>4
    <3> QED
      BY <3>1, <3>3, <3>4
  <2>2. 1 % 2 = 1 /\ 1 \div 2 = 0 /\ (2 * m + 1) % 2 = 1 /\ (2 * m + 1) \div 2 = m /\ 1 \in 1 .. 2 * m + 1 /\ 2 * m + 1 \in 1 .. 2 * m + 1
    BY <1>0
  <2>3. A[1] = B(0) /\ A[2 * m + 1] = B(m)
    BY <2>2
  <2>4. A = [d \in 1 .. 2 * m + 1 |-> A[d]]
    OBVIOUS
  <2> HIDE DEF A
  <2> QED
    BY <2>1, <2>3, <2>4
<1> HIDE DEF A, E
<1>10. Plan(i, E, B(0), B(m))
  BY <1>7, <1>8, <1>9 DEF Plan, IsSeq
<1> QED
  BY <1>0, <1>1, <1>5, <1>10 DEF E, t

-----------------------------------------------------------------------------
\* The call itself.
LEMMA CallAt ==
    ASSUME NEW i, NEW R, NEW R2, NEW S, NEW L, NEW L2, NEW p, NEW o, o.k = "call", o.needs = {},
           L \subseteq Busy(body, i), L2 \subseteq L, Spares(L2, Clobbered(o)),
           \A k \in 1 .. o.n : S[Len(S) + 1 - k] = body.code[i].args[k],
           \A r, w : <<r, w>> \in R2 => \/ <<r, w>> \in R /\ r \notin Clobbered(o)
                                        \/ r = "r0" /\ w = o.a /\ o.a # None
                                        \/ r \in Clobbered(o) /\ r # "r0" /\ w = Junk
    PROVE  Safe(i, o, Ann(R, S, L, TRUE), Ann(R2, S, L2, p))
<1> DEFINE F == Ann(R, S, L, TRUE)
           G == Ann(R2, S, L2, p)
           facts == (IF o.a = None THEN {} ELSE {<<"r0", o.a>>}) \cup {<<r, Junk>> : r \in Clobbered(o) \ {"r0"}}
<1>1. F.regs = R /\ F.stack = S /\ F.live = L /\ F.plain = TRUE /\ G.regs = R2 /\ G.stack = S /\ G.live = L2 /\ G.plain = p
  BY DEF Ann
<1> HIDE DEF F, G
<1>2. ASSUME NEW r, NEW w, <<r, w>> \in R2 PROVE (<<r, w>> \in R /\ r \notin Clobbered(o)) \/ <<r, w>> \in facts
  BY <1>2
<1>3. \A v \in L2 : v \in L /\ home[v] \notin Clobbered(o)
  BY DEF Spares
<1> HIDE DEF facts
<1>4. Carries(F, G, Clobbered(o), facts, {})
  BY <1>1, <1>2, <1>3 DEF Carries
<1>5. SafeCall(i, o, F, G)
  BY <1>1, <1>4 DEF SafeCall, facts
<1>6. Safe(i, o, F, G)
  BY <1>1, <1>5 DEF Safe
<1> QED
  BY <1>6 DEF F, G

\* The arguments are dropped.
LEMMA DropAt ==
    ASSUME NEW i, NEW R, NEW S, NEW S2, NEW L, NEW p, L \subseteq Busy(body, i),
           S2 = SubSeq(S, 1, Len(S) - Len(body.code[i].args))
    PROVE  Safe(i, O("drop"), Ann(R, S, L, p), Ann(R, S2, L, p))
<1> DEFINE F == Ann(R, S, L, p)
           G == Ann(R, S2, L, p)
           o == O("drop")
<1>1. F.regs = R /\ F.stack = S /\ F.live = L /\ F.plain = p /\ G.regs = R /\ G.stack = S2 /\ G.live = L /\ G.plain = p
  BY DEF Ann
<1>2. o.k = "drop" /\ o.needs = {}
  BY DEF O
<1> HIDE DEF F, G, o
<1>3. SafeDrop(i, o, F, G)
  BY <1>1 DEF SafeDrop, Carries
<1>4. Safe(i, o, F, G)
  BY <1>1, <1>2, <1>3 DEF Safe
<1> QED
  BY <1>4 DEF F, G, o

All(q) == Registers(q, Len(q))

\* The registers of two lists.
LEMMA AllJoin ==
    ASSUME NEW q \in Seq(Reg), NEW s \in Seq(Reg)
    PROVE  q \o s \in Seq(Reg) /\ All(q \o s) = All(q) \cup All(s)
<1> DEFINE c == q \o s
           m == Len(q)
           n == Len(s)
<1>1. /\ c \in Seq(Reg) /\ Len(c) = m + n /\ m \in Nat /\ n \in Nat
      /\ \A k \in 1 .. m + n : c[k] = IF k <= m THEN q[k] ELSE s[k - m]
  BY ConcatProperties, LenProperties
<1> HIDE DEF c, m, n
<1>2. ASSUME NEW k \in 1 .. m + n PROVE c[k] \in {q[j] : j \in 1 .. m} \cup {s[j] : j \in 1 .. n}
  <2>1. CASE k <= m
    BY <1>1, <2>1
  <2>2. CASE ~(k <= m)
    <3>1. k - m \in 1 .. n /\ c[k] = s[k - m]
      BY <1>1, <2>2
    <3> QED
      BY <3>1
  <2> QED
    BY <2>1, <2>2
<1>3. ASSUME NEW j \in 1 .. m PROVE \E k \in 1 .. m + n : q[j] = c[k]
  <2>1. j \in 1 .. m + n /\ c[j] = q[j]
    BY <1>1
  <2> QED
    BY <2>1
<1>4. ASSUME NEW j \in 1 .. n PROVE \E k \in 1 .. m + n : s[j] = c[k]
  <2>1. j + m \in 1 .. m + n /\ ~(j + m <= m) /\ j + m - m = j
    BY <1>1
  <2>2. c[j + m] = s[j]
    BY <1>1, <2>1
  <2> QED
    BY <2>1, <2>2
<1>5. {c[k] : k \in 1 .. m + n} = {q[j] : j \in 1 .. m} \cup {s[j] : j \in 1 .. n}
  BY <1>2, <1>3, <1>4
<1> QED
  BY <1>1, <1>5 DEF All, Registers, c, m, n

\* The registers saved for a call.
LEMMA SavedAll ==
    ASSUME NEW i
    PROVE  /\ saveLiveRegistersForCall(i) \in Seq(Reg)
           /\ All(saveLiveRegistersForCall(i)) =
                {r \in {"r2", "r4", "r5", "r7", "r8"} : r \in body.code[i].clobbers /\ \E v \in LiveAcrossCall(body, i) : home[v] = r}
<1> DEFINE D(r) == r \in body.code[i].clobbers /\ \E v \in LiveAcrossCall(body, i) : home[v] = r
           s(r) == SavedForCall(i, r)
<1>1. ASSUME NEW r \in Reg PROVE s(r) \in Seq(Reg) /\ All(s(r)) = IF D(r) THEN {r} ELSE {}
  <2>1. CASE D(r)
    <3>1. s(r) = <<r>>
      BY <2>1 DEF SavedForCall
    <3>2. <<r>> \in Seq(Reg) /\ Len(<<r>>) = 1 /\ <<r>>[1] = r
      OBVIOUS
    <3> HIDE DEF s, D
    <3>3. 1 .. Len(s(r)) = {1} /\ s(r)[1] = r
      BY <3>1, <3>2
    <3> QED
      BY <2>1, <3>1, <3>2, <3>3 DEF All, Registers
  <2>2. CASE ~D(r)
    <3>1. s(r) = <<>>
      BY <2>2 DEF SavedForCall
    <3>2. 1 .. Len(<<>>) = {} /\ <<>> \in Seq(Reg)
      OBVIOUS
    <3> HIDE DEF s, D
    <3> QED
      BY <2>2, <3>1, <3>2 DEF All, Registers
  <2> QED
    BY <2>1, <2>2
<1>2. {"r2", "r4", "r5", "r7", "r8"} \subseteq Reg
  BY DEF Reg
<1>3. saveLiveRegistersForCall(i) = s("r2") \o s("r4") \o s("r5") \o s("r7") \o s("r8")
  BY DEF saveLiveRegistersForCall
<1> HIDE DEF s
<1> DEFINE a == s("r2") \o s("r4")
           b == a \o s("r5")
           c == b \o s("r7")
           d == c \o s("r8")
<1>4. a \in Seq(Reg) /\ All(a) = All(s("r2")) \cup All(s("r4"))
  BY <1>1, <1>2, AllJoin
<1> HIDE DEF a
<1>5. b \in Seq(Reg) /\ All(b) = All(a) \cup All(s("r5"))
  BY <1>1, <1>2, <1>4, AllJoin
<1> HIDE DEF b
<1>6. c \in Seq(Reg) /\ All(c) = All(b) \cup All(s("r7"))
  BY <1>1, <1>2, <1>5, AllJoin
<1> HIDE DEF c
<1>7. d \in Seq(Reg) /\ All(d) = All(c) \cup All(s("r8"))
  BY <1>1, <1>2, <1>6, AllJoin
<1>8. saveLiveRegistersForCall(i) = d
  BY <1>3 DEF a, b, c
<1> HIDE DEF d, D
<1>9. /\ All(s("r2")) = (IF D("r2") THEN {"r2"} ELSE {}) /\ All(s("r4")) = (IF D("r4") THEN {"r4"} ELSE {})
      /\ All(s("r5")) = (IF D("r5") THEN {"r5"} ELSE {}) /\ All(s("r7")) = (IF D("r7") THEN {"r7"} ELSE {})
      /\ All(s("r8")) = (IF D("r8") THEN {"r8"} ELSE {})
  BY <1>1, <1>2
<1>10. All(d) = {r \in {"r2", "r4", "r5", "r7", "r8"} : D(r)}
  BY <1>4, <1>5, <1>6, <1>7, <1>9
<1> QED
  BY <1>7, <1>8, <1>10 DEF D

-----------------------------------------------------------------------------
\* The words of z on top of U, counted from the top.
LEMMA FromTop ==
    ASSUME NEW U \in Seq(Word), NEW z \in Seq(Word), NEW k \in 1 .. Len(z)
    PROVE  (U \o z)[Len(U \o z) + 1 - k] = z[Len(z) + 1 - k]
<1> DEFINE V == U \o z
           m == Len(z)
           n == Len(U)
           j == n + m + 1 - k
<1>1. m \in Nat /\ n \in Nat
  BY LenProperties
<1>2. Len(V) = n + m /\ \A d \in 1 .. n + m : V[d] = IF d <= n THEN U[d] ELSE z[d - n]
  BY ConcatProperties
<1> HIDE DEF V, n, m
<1>3. j \in 1 .. n + m /\ ~(j <= n) /\ j - n = m + 1 - k /\ Len(V) + 1 - k = j
  BY <1>1, <1>2 DEF m
<1> HIDE DEF j
<1>4. V[j] = z[j - n]
  BY <1>2, <1>3
<1> QED
  BY <1>3, <1>4 DEF V, m

\* A call: what lives across it and what the loop needs is saved and comes back.
LEMMA CallPlan ==
    ASSUME BlockOK(body), Homed, NEW i \in 1 .. Len(body.code), body.code[i].op = "call",
           NEW x, NEW y, Turned(body, i - 1, x, y)
    PROVE  \E x2, y2 : Turned(body, i, x2, y2) /\ Plan(i, emitCall(i), At(body, i - 1, x, y), At(body, i, x2, y2))
<1> DEFINE c == body.code[i]
           S == Base(Open(body, i))
           L == LiveAfter(body, i - 1)
           after == LiveAfter(body, i)
           M == after \ Defined(body.code, i)
           saved == saveLiveRegistersForCall(i)
           loop == IF body.loops /\ c.clobbers \cap {"r12", "r13"} # {} THEN <<"r12", "r13">> ELSE <<>>
           q == saved \o loop
           n == Len(q)
           word(r) == IF r = "r12" THEN x ELSE IF r = "r13" THEN y
                      ELSE CHOOSE v \in LiveAcrossCall(body, i) : home[v] = r
           t == [j \in 1 .. n |-> word(q[j])]
           xx == IF body.loops \/ "r12" \notin c.clobbers THEN x ELSE Junk
           yy == IF body.loops \/ "r13" \notin c.clobbers THEN y ELSE Junk
           R0 == IF c.result = None THEN {} ELSE {<<"r0", c.result>>}
           T == Rings(xx, yy) \cup R0
           U == S \o t
           V == U \o Reversed(c.args)
           call == [O("call") EXCEPT !.a = c.result, !.n = Len(c.args), !.regs = c.clobbers]
           F1 == Ann(Rings(x, y), S, L, FALSE)
           F2 == Ann(Rings(x, y), S, L, TRUE)
           F3 == Ann(Rings(x, y), U, L, TRUE)
           F4 == Ann(Rings(x, y), V, L, TRUE)
           F5 == Ann(Untouched(T, q, n), V, Resting(M, q, n), FALSE)
           F6 == Ann(Untouched(T, q, n), U, Resting(M, q, n), FALSE)
           F7 == Ann(T, S, M, FALSE)
           F8 == Ann(Rings(xx, yy), S, after, FALSE)
           last == IF c.result = None THEN <<>> ELSE Finish(c.result)
<1>1. /\ L \subseteq Value /\ L \subseteq Busy(body, i) /\ after \subseteq Value /\ after \subseteq Busy(body, i)
      /\ Used(body.code, i) \subseteq L /\ Spares(Value, Scratched)
      /\ c.result = None => after \subseteq L
      /\ c.result # None =>
              /\ c.result \in Value /\ c.result \in Busy(body, i)
              /\ \A u \in after : u \in L \/ u = c.result
              /\ home[c.result] # Constant => Adds(L, after, c.result)
              /\ home[c.result] = Constant => c.op = "constant"
              /\ home[c.result] \notin Scratched
  BY Scene DEF SceneOf
<1>2. /\ body \in Block /\ Proper(body, home) /\ c \in Instruction /\ i \in Nat /\ Len(body.code) \in Nat
      /\ c.result = None => Defined(body.code, i) = {}
      /\ c.result # None => Defined(body.code, i) = {c.result}
  BY Typed DEF BlockOK
<1>3. c.args \in Seq(Value) /\ c.clobbers \subseteq Reg
  BY <1>2 DEF Instruction
<1>4. c.args \in Seq(L)
  <2>1. Len(c.args) \in Nat /\ c.args \in [1 .. Len(c.args) -> Value]
    BY <1>3, LenProperties
  <2>2. \A k \in 1 .. Len(c.args) : c.args[k] \in L
    BY <1>1 DEF Used
  <2> DEFINE a == c.args
  <2>3. a \in [1 .. Len(a) -> L]
    BY <2>1, <2>2
  <2> HIDE DEF a
  <2>4. a \in Seq(L)
    BY <2>1, <2>3, SeqDef DEF a
  <2> QED
    BY <2>4 DEF a
<1>5. /\ Open(body, i) \in BOOLEAN /\ Open(body, i) = Open(body, i - 1)
      /\ S \in Seq(Word) /\ x \in Word /\ y \in Word /\ Junk \in Word
      /\ body.loops => x = Counter(Open(body, i)) /\ y = LoopHead(Open(body, i))
  BY OpenStays, BaseTyped, WordFacts DEF Turned
<1>6. /\ M \subseteq L /\ M \subseteq after
      /\ \A v \in M : home[v] # Constant => v \in LiveAcrossCall(body, i)
      /\ LiveAcrossCall(body, i) \subseteq M
      /\ \A v \in LiveAcrossCall(body, i) : home[v] # Constant
  BY <1>1, <1>2 DEF LiveAcrossCall
<1>7. \A v, w \in LiveAcrossCall(body, i) : home[v] = home[w] => v = w
  <2> SUFFICES ASSUME NEW v \in LiveAcrossCall(body, i), NEW w \in LiveAcrossCall(body, i), v # w
               PROVE  home[v] # home[w]
    OBVIOUS
  <2>1. i \in 0 .. Len(body.code) /\ v \in LiveAfter(body, i) /\ w \in LiveAfter(body, i) /\ home[v] # Constant
    BY <1>2, <1>6
  <2>2. \A j \in 0 .. Len(body.code) : \A a, b \in LiveAfter(body, j) \cup (IF j = 0 THEN {} ELSE Defined(body.code, j)) :
             a # b /\ home[a] # Constant => home[a] # home[b]
    BY <1>2 DEF Proper
  <2> QED
    BY <2>1, <2>2
<1>8. /\ q \in Seq(Reg)
      /\ All(q) = {r \in {"r2", "r4", "r5", "r7", "r8"} : r \in c.clobbers /\ \E v \in LiveAcrossCall(body, i) : home[v] = r}
                    \cup (IF body.loops /\ c.clobbers \cap {"r12", "r13"} # {} THEN {"r12", "r13"} ELSE {})
  <2>1. /\ saved \in Seq(Reg)
        /\ All(saved) = {r \in {"r2", "r4", "r5", "r7", "r8"} : r \in c.clobbers /\ \E v \in LiveAcrossCall(body, i) : home[v] = r}
    BY SavedAll
  <2>2. loop \in Seq(Reg) /\ All(loop) = IF body.loops /\ c.clobbers \cap {"r12", "r13"} # {} THEN {"r12", "r13"} ELSE {}
    <3> DEFINE z == <<"r12", "r13">>
    <3>1. z \in Seq(Reg) /\ Len(z) = 2 /\ z[1] = "r12" /\ z[2] = "r13"
      BY DEF Reg
    <3> HIDE DEF z
    <3>2. All(z) = {"r12", "r13"}
      <4>1. 1 .. Len(z) = {1, 2}
        BY <3>1
      <4> QED
        BY <3>1, <4>1 DEF All, Registers
    <3>3. <<>> \in Seq(Reg) /\ All(<<>>) = {}
      <4>1. <<>> \in Seq(Reg) /\ 1 .. Len(<<>>) = {}
        OBVIOUS
      <4> QED
        BY <4>1 DEF All, Registers
    <3>4. loop = IF body.loops /\ c.clobbers \cap {"r12", "r13"} # {} THEN z ELSE <<>>
      BY DEF z
    <3> HIDE DEF loop
    <3> QED
      BY <3>1, <3>2, <3>3, <3>4
  <2> HIDE DEF saved, loop
  <2> QED
    BY <2>1, <2>2, AllJoin
<1>9. n \in Nat /\ \A j \in 1 .. n : q[j] \in Reg /\ q[j] \in All(q)
  <2> HIDE DEF q
  <2> QED
    BY <1>8, LenProperties, ElementOfSeq DEF All, Registers
<1>10. All(q) = Registers(q, n)
  BY DEF All
<1> HIDE DEF q, n, saved, loop
<1>11. ASSUME NEW r \in All(q)
       PROVE  /\ r # "r3" /\ r # "r0" /\ word(r) \in Word
              /\ <<r, word(r)>> \in Rings(x, y) \/ (word(r) \in L /\ home[word(r)] = r)
              /\ \A u \in M : home[u] = r => u = word(r)
              /\ \A w : <<r, w>> \in T => w = word(r)
  <2> USE DEF Rings
  <2>0. r \in {"r2", "r4", "r5", "r7", "r8"} \/ (body.loops /\ r \in {"r12", "r13"})
    BY <1>8
  <2>1. CASE r \in {"r2", "r4", "r5", "r7", "r8"}
    <3>1. r # "r3" /\ r # "r0" /\ r # "r12" /\ r # "r13" /\ r # Constant
      BY <2>1 DEF Constant
    <3>2. \E v \in LiveAcrossCall(body, i) : home[v] = r
      BY <1>8, <3>1
    <3>3. word(r) = CHOOSE v \in LiveAcrossCall(body, i) : home[v] = r
      BY <3>1
    <3> HIDE DEF word
    <3>4. word(r) \in LiveAcrossCall(body, i) /\ home[word(r)] = r
      BY <3>2, <3>3
    <3>5. word(r) \in L /\ word(r) \in Word
      BY <1>1, <1>6, <3>4, WordFacts
    <3>6. \A u \in M : home[u] = r => u = word(r)
      BY <1>6, <1>7, <3>1, <3>4
    <3>7. \A w : <<r, w>> \notin T
      BY <3>1
    <3> QED
      BY <3>1, <3>4, <3>5, <3>6, <3>7
  <2>2. CASE body.loops /\ r \in {"r12", "r13"}
    <3>1. r # "r3" /\ r # "r0" /\ word(r) = IF r = "r12" THEN x ELSE y
      BY <2>2
    <3>2. \A u \in M : home[u] # r
      <4>1. r \in Scratched
        BY <2>2 DEF Scratched
      <4> QED
        BY <1>1, <1>6, <4>1 DEF Spares
    <3>3. xx = x /\ yy = y
      BY <2>2
    <3> HIDE DEF word, xx, yy
    <3>4. \A w : <<r, w>> \in T => w = word(r)
      BY <2>2, <3>1, <3>3
    <3>5. word(r) \in Word /\ <<r, word(r)>> \in Rings(x, y)
      BY <1>5, <2>2, <3>1
    <3> QED
      BY <3>1, <3>2, <3>4, <3>5
  <2> QED
    BY <2>0, <2>1, <2>2
<1>12. t \in Seq(Word) /\ Len(t) = n /\ \A j \in 1 .. n : t[j] = word(q[j])
  <2>1. t \in [1 .. n -> Word]
    BY <1>9, <1>11
  <2>2. t \in Seq(Word)
    BY <1>9, <2>1, SeqDef
  <2> QED
    BY <1>9, <2>1, <2>2, LenProperties
<1> HIDE DEF t, word
<1>13. /\ \A j \in 1 .. n : q[j] # "r3" /\ (<<q[j], t[j]>> \in Rings(x, y) \/ (t[j] \in L /\ home[t[j]] = q[j]))
       /\ \A j \in 1 .. n : \A u \in M : home[u] = q[j] => u = t[j]
       /\ \A j \in 1 .. n : \A w : <<q[j], w>> \in T => w = t[j]
  <2> HIDE DEF T, M, L
  <2>1. ASSUME NEW j \in 1 .. n
        PROVE  /\ q[j] # "r3" /\ (<<q[j], t[j]>> \in Rings(x, y) \/ (t[j] \in L /\ home[t[j]] = q[j]))
               /\ \A u \in M : home[u] = q[j] => u = t[j]
               /\ \A w : <<q[j], w>> \in T => w = t[j]
    <3> DEFINE r == q[j]
    <3>1. r \in All(q) /\ t[j] = word(r)
      BY <1>9, <1>12
    <3> HIDE DEF r
    <3>2. /\ r # "r3" /\ (<<r, word(r)>> \in Rings(x, y) \/ (word(r) \in L /\ home[word(r)] = r))
          /\ \A u \in M : home[u] = r => u = word(r)
          /\ \A w : <<r, w>> \in T => w = word(r)
      BY <1>11, <3>1
    <3>3. /\ r # "r3" /\ (<<r, t[j]>> \in Rings(x, y) \/ (t[j] \in L /\ home[t[j]] = r))
          /\ \A u \in M : home[u] = r => u = t[j]
          /\ \A w : <<r, w>> \in T => w = t[j]
      BY <3>1, <3>2
    <3> QED
      BY <3>3 DEF r
  <2> QED
    BY <2>1
<1>14. Setting(i, S, L, x, y)
  BY <1>1, <1>5 DEF Setting, Spares
<1>15. xx \in Word /\ yy \in Word /\ Turned(body, i, xx, yy)
  BY <1>5 DEF Turned
<1>16. Setting(i, S, M, xx, yy) /\ Setting(i, S, after, xx, yy)
  BY <1>1, <1>5, <1>6, <1>15 DEF Setting, Spares
<1>17. U \in Seq(Word)
  BY <1>5, <1>12, Above
<1> HIDE DEF S
<1>18. Setting(i, U, L, x, y)
  BY <1>14, <1>17 DEF Setting
<1>19. F1 \in Annotation /\ F2 \in Annotation /\ F8 \in Annotation
  <2>1. "r0" \in Scratched
    BY DEF Scratched
  <2> QED
    BY <1>5, <1>14, <1>16, <2>1, Settles, ZenonT(60)
<1>20. Plan(i, <<O("clear")>>, F1, F2)
  <2>1. Leaves(Rings(x, y), Rings(x, y), {})
    BY DEF Leaves
  <2>2. Safe(i, O("clear"), F1, F2)
    BY <1>1, <2>1, ClearAt
  <2> HIDE DEF F1, F2
  <2> QED
    BY <1>19, <2>2, Plan1
<1>21. Plan(i, Spread(q, Push), F2, F3)
  <2>1. Len(q) = Len(t)
    BY <1>12 DEF n
  <2>2. \A j \in 1 .. Len(q) : q[j] # "r3" /\ (<<q[j], t[j]>> \in Rings(x, y) \/ (t[j] \in L /\ home[t[j]] = q[j]))
    BY <1>13 DEF n
  <2> HIDE DEF L
  <2> QED
    BY <1>8, <1>12, <1>14, <2>1, <2>2, PushesPlan
<1> HIDE DEF U
<1>22. /\ Reversed(c.args) \in Seq(Word) /\ Len(Reversed(c.args)) = Len(c.args) /\ Len(c.args) \in Nat
       /\ \A k \in 1 .. Len(c.args) : Reversed(c.args)[k] = c.args[Len(c.args) + 1 - k]
       /\ Plan(i, Arguments(c.args), F3, F4)
  <2> HIDE DEF c, L
  <2> QED
    BY <1>4, <1>18, ArgumentsPlan
<1>23. T \subseteq (Reg \ Cache) \X Word
  <2>1. {"r0", "r12", "r13"} \subseteq Reg \ Cache
    BY DEF Reg, Cache
  <2>2. c.result # None => c.result \in Word
    BY <1>1, WordFacts
  <2> HIDE DEF c, xx, yy
  <2> QED
    BY <1>15, <2>1, <2>2 DEF Rings
<1>24. Plan(i, Spread(Reversed(q), Pop), F6, F7)
  <2>1. Len(q) = Len(t) /\ n = Len(q)
    BY <1>12 DEF n
  <2>2. /\ \A j \in 1 .. Len(q) : \A u \in M : home[u] = q[j] => u = t[j]
        /\ \A j \in 1 .. Len(q) : \A w : <<q[j], w>> \in T => w = t[j]
    BY <1>13 DEF n
  <2>3. M \in SUBSET Value /\ M \subseteq Busy(body, i)
    BY <1>1, <1>6
  <2>4. S \in Seq(Word)
    BY <1>5 DEF S
  <2> HIDE DEF T, M
  <2>5. Plan(i, Spread(Reversed(q), Pop), Ann(Untouched(T, q, Len(q)), S \o t, Resting(M, q, Len(q)), FALSE), Ann(T, S, M, FALSE))
    BY <1>8, <1>12, <1>23, <2>1, <2>2, <2>3, <2>4, PopsPlan
  <2> QED
    BY <2>1, <2>5 DEF U
<1>25. V \in Seq(Word) /\ SubSeq(V, 1, Len(V) - Len(c.args)) = U
       /\ \A k \in 1 .. Len(c.args) : V[Len(V) + 1 - k] = c.args[k]
  <2> DEFINE z == Reversed(c.args)
             m == Len(c.args)
  <2>1. z \in Seq(Word) /\ Len(z) = m /\ m \in Nat /\ \A k \in 1 .. m : z[k] = c.args[m + 1 - k]
    BY <1>22
  <2> HIDE DEF z
  <2>2. U \o z \in Seq(Word) /\ SubSeq(U \o z, 1, Len(U \o z) - Len(z)) = U
    BY <1>17, <2>1, Above
  <2>4. V = U \o z
    BY DEF z
  <2> HIDE DEF V
  <2>5. ASSUME NEW k \in 1 .. m PROVE V[Len(V) + 1 - k] = c.args[k]
    <3> DEFINE j == m + 1 - k
    <3>1. j \in 1 .. m /\ m + 1 - j = k
      BY <2>1
    <3>2. V[Len(V) + 1 - k] = z[j]
      BY <1>17, <2>1, <2>4, FromTop
    <3> HIDE DEF j, m
    <3>3. z[j] = c.args[k]
      BY <2>1, <3>1
    <3> QED
      BY <3>2, <3>3
  <2> QED
    BY <2>1, <2>2, <2>4, <2>5
<1> HIDE DEF V
<1>26. F5 \in Annotation /\ F6 \in Annotation /\ F3 \in Annotation /\ F4 \in Annotation /\ F7 \in Annotation
  <2>1. Untouched(T, q, n) \subseteq (Reg \ Cache) \X Word /\ Resting(M, q, n) \in SUBSET Value /\ M \in SUBSET Value
    BY <1>1, <1>6, <1>23 DEF Untouched, Resting
  <2>2. S \in Seq(Word) /\ L \in SUBSET Value
    BY <1>1, <1>5 DEF S
  <2>3. Rings(x, y) \subseteq (Reg \ Cache) \X Word
    BY <1>5 DEF Rings, Reg, Cache
  <2> HIDE DEF T, M, L
  <2> QED
    BY <1>17, <1>23, <1>25, <2>1, <2>2, <2>3, AnnType
<1>27. Safe(i, call, F4, F5)
  <2>1. call.k = "call" /\ call.needs = {} /\ call.a = c.result /\ call.n = Len(c.args) /\ call.regs = c.clobbers
    BY DEF O
  <2> HIDE DEF call
  <2>2. Clobbered(call) = c.clobbers \cup {"r0", "r1", "r3", "r6", "r11"}
    BY <2>1 DEF Clobbered
  <2>3. \A k \in 1 .. call.n : V[Len(V) + 1 - k] = body.code[i].args[k]
    BY <1>25, <2>1
  <2>4. Resting(M, q, n) \subseteq L
    BY <1>6 DEF Resting
  <2>5. Spares(Resting(M, q, n), Clobbered(call))
    <3> SUFFICES ASSUME NEW u \in M, home[u] \notin All(q), home[u] \in Clobbered(call) PROVE FALSE
      BY <1>10 DEF Spares, Resting
    <3>1. u \in Value /\ home[u] \notin Scratched
      BY <1>1, <1>6 DEF Spares
    <3>2. home[u] \in c.clobbers
      BY <2>2, <3>1 DEF Scratched
    <3>3. home[u] \in Reg
      BY <1>3, <3>2
    <3>4. home[u] \in {"r2", "r4", "r5", "r7", "r8"}
      BY <3>1, <3>3, Distinct DEF Homed, Constant, Reg
    <3>5. u \in LiveAcrossCall(body, i)
      BY <1>6, <3>4 DEF Constant
    <3> QED
      BY <1>8, <3>2, <3>4, <3>5
  <2>6. ASSUME NEW r, NEW w, <<r, w>> \in Untouched(T, q, n)
        PROVE  \/ <<r, w>> \in Rings(x, y) /\ r \notin Clobbered(call)
               \/ r = "r0" /\ w = call.a /\ call.a # None
               \/ r \in Clobbered(call) /\ r # "r0" /\ w = Junk
    <3>1. <<r, w>> \in T /\ r \notin All(q)
      BY <1>10, <2>6 DEF Untouched
    <3>2. CASE <<r, w>> \in R0
      BY <2>1, <3>2
    <3>3. CASE r = "r12" /\ w = xx
      <4>1. CASE "r12" \in c.clobbers
        <5>1. ~body.loops
          BY <1>8, <3>1, <3>3, <4>1
        <5> QED
          BY <2>2, <3>3, <4>1, <5>1
      <4>2. CASE "r12" \notin c.clobbers
        BY <2>2, <3>3, <4>2 DEF Rings
      <4> QED
        BY <4>1, <4>2
    <3>4. CASE r = "r13" /\ w = yy
      <4>1. CASE "r13" \in c.clobbers
        <5>1. ~body.loops
          BY <1>8, <3>1, <3>4, <4>1
        <5> QED
          BY <2>2, <3>4, <4>1, <5>1
      <4>2. CASE "r13" \notin c.clobbers
        BY <2>2, <3>4, <4>2 DEF Rings
      <4> QED
        BY <4>1, <4>2
    <3>5. <<r, w>> \in R0 \/ (r = "r12" /\ w = xx) \/ (r = "r13" /\ w = yy)
      <4> HIDE DEF R0, xx, yy
      <4> QED
        BY <3>1 DEF Rings
    <3> QED
      BY <3>2, <3>3, <3>4, <3>5
  <2> HIDE DEF T, M, L
  <2> QED
    BY <1>1, <2>1, <2>3, <2>4, <2>5, <2>6, CallAt DEF L
<1>28. Safe(i, O("drop"), F5, F6)
  <2>1. Resting(M, q, n) \subseteq Busy(body, i)
    BY <1>1, <1>6 DEF Resting
  <2> HIDE DEF T, M
  <2> QED
    BY <1>25, <2>1, DropAt
<1>29. Plan(i, LoopRegisters(Open(body, i)), F7, F7)
  <2>1. body.loops => xx = Counter(Open(body, i)) /\ yy = LoopHead(Open(body, i))
    BY <1>5
  <2> HIDE DEF xx, yy, M, R0
  <2> QED
    BY <1>16, <1>26, <2>1, LoopRegistersPlan
<1>30. Plan(i, last, F7, F8)
  <2>1. CASE c.result = None
    <3>1. M = after /\ T = Rings(xx, yy)
      BY <1>2, <2>1
    <3>2. F7 = F8 /\ last = <<>>
      BY <2>1, <3>1
    <3> HIDE DEF F7, F8, last
    <3> QED
      BY <1>19, <3>2, PlanNone
  <2>2. CASE c.result # None
    <3> DEFINE v == c.result
    <3>1. v \in Value /\ v \in Busy(body, i) /\ home[v] # Constant /\ home[v] \notin Scratched /\ Adds(L, after, v)
      BY <1>1, <2>2
    <3>2. \A u \in after : u \in M \/ u = v
      BY <1>2, <2>2
    <3>3. Adds(M, after, v)
      BY <3>1, <3>2 DEF Adds
    <3>4. Defines(i, M, after, v)
      BY <3>1, <3>3 DEF Defines
    <3>5. T = Rings(xx, yy) \cup {<<"r0", v>>} /\ last = Finish(v)
      BY <2>2
    <3> HIDE DEF v, xx, yy, M, after, T, last
    <3>6. Plan(i, Finish(v), Ann(Rings(xx, yy) \cup {<<"r0", v>>}, S, M, FALSE), Ann(Rings(xx, yy), S, after, FALSE))
      BY <1>16, <3>4, FinishPlan
    <3> QED
      BY <3>5, <3>6
  <2> QED
    BY <2>1, <2>2
<1>31. emitCall(i) = <<O("clear")>> \o Spread(q, Push) \o Arguments(c.args) \o <<call, O("drop")>>
                       \o Spread(Reversed(q), Pop) \o LoopRegisters(Open(body, i)) \o last
  BY DEF emitCall, Arguments, q, saved, loop
<1>32. At(body, i - 1, x, y) = F1 /\ At(body, i, xx, yy) = F8
  BY <1>5 DEF At, S
<1> HIDE DEF F1, F2, F3, F4, F5, F6, F7, F8, last, call, xx, yy, c
<1>33. Plan(i, <<O("clear")>> \o Spread(q, Push), F1, F3)
  BY <1>20, <1>21, PlanJoin
<1>34. Plan(i, <<O("clear")>> \o Spread(q, Push) \o Arguments(c.args), F1, F4)
  BY <1>22, <1>33, PlanJoin
<1>35. Plan(i, <<call, O("drop")>>, F4, F6)
  BY <1>26, <1>27, <1>28, Plan2
<1>36. Plan(i, <<O("clear")>> \o Spread(q, Push) \o Arguments(c.args) \o <<call, O("drop")>>, F1, F6)
  BY <1>34, <1>35, PlanJoin
<1>37. Plan(i, <<O("clear")>> \o Spread(q, Push) \o Arguments(c.args) \o <<call, O("drop")>>
                 \o Spread(Reversed(q), Pop), F1, F7)
  BY <1>24, <1>36, PlanJoin
<1>38. Plan(i, <<O("clear")>> \o Spread(q, Push) \o Arguments(c.args) \o <<call, O("drop")>>
                 \o Spread(Reversed(q), Pop) \o LoopRegisters(Open(body, i)), F1, F7)
  BY <1>29, <1>37, PlanJoin
<1>39. Plan(i, emitCall(i), F1, F8)
  BY <1>30, <1>31, <1>38, PlanJoin
<1> QED
  BY <1>15, <1>32, <1>39

-----------------------------------------------------------------------------
\* Every instruction has a plan, from what the one before left.
Planned(i, x, y) ==
    \E F, G \in Annotation : Weaker(At(body, i - 1, x, y), F) /\ Ends(body, i, G) /\ Plan(i, Emitted(i), F, G)

\* The guarantees at instruction i, as settings for its plan.
LEMMA Staged ==
    ASSUME BlockOK(body), Homed, NEW i \in 1 .. Len(body.code), NEW x, NEW y, Turned(body, i - 1, x, y)
    PROVE  LET L == LiveAfter(body, i - 1) after == LiveAfter(body, i) IN
           /\ Setting(i, Base(Open(body, i - 1)), L, x, y)
           /\ Setting(i, Base(Open(body, i - 1)), after, x, y)
           /\ Setting(i, Base(Open(body, i)), after, x, y)
           /\ Setting(i, Base(TRUE), after, x, y)
           /\ Setting(i, Base(FALSE), after, "count", "head")
           /\ At(body, i - 1, x, y) \in Annotation /\ At(body, i, x, y) \in Annotation
           /\ Weaker(At(body, i - 1, x, y), At(body, i - 1, x, y))
           /\ body.code[i].op # "leave" => Turned(body, i, x, y) /\ Ends(body, i, At(body, i, x, y))
           /\ \A k \in 1 .. Len(body.code[i].args) : body.code[i].args[k] \in L
<1> DEFINE L == LiveAfter(body, i - 1)
           after == LiveAfter(body, i)
<1>1. /\ L \subseteq Value /\ L \subseteq Busy(body, i) /\ after \subseteq Value /\ after \subseteq Busy(body, i)
      /\ Used(body.code, i) \subseteq L /\ Spares(Value, Scratched)
  BY Scene DEF SceneOf
<1>2. Spares(L, Scratched) /\ Spares(after, Scratched)
  BY <1>1 DEF Spares
<1>3. /\ Open(body, i) \in BOOLEAN /\ Open(body, i - 1) \in BOOLEAN
      /\ body.code[i].op # "leave" => Open(body, i) = Open(body, i - 1)
  BY OpenStays
<1>4. /\ Base(Open(body, i)) \in Seq(Word) /\ Base(Open(body, i - 1)) \in Seq(Word)
      /\ Base(TRUE) \in Seq(Word) /\ Base(FALSE) \in Seq(Word)
      /\ x \in Word /\ y \in Word /\ "count" \in Word /\ "head" \in Word /\ "r0" \in Scratched
  BY <1>3, BaseTyped, WordFacts DEF Turned, Scratched
<1>5. /\ Setting(i, Base(Open(body, i - 1)), L, x, y) /\ Setting(i, Base(Open(body, i)), after, x, y)
      /\ Setting(i, Base(Open(body, i - 1)), after, x, y)
      /\ Setting(i, Base(TRUE), after, x, y) /\ Setting(i, Base(FALSE), after, "count", "head")
  BY <1>1, <1>2, <1>4 DEF Setting
<1>6. At(body, i - 1, x, y) \in Annotation /\ At(body, i, x, y) \in Annotation
  <2>1. /\ Ann(Rings(x, y), Base(Open(body, i - 1)), L, FALSE) \in Annotation
        /\ Ann(Rings(x, y), Base(Open(body, i)), after, FALSE) \in Annotation
    BY <1>4, <1>5, Settles
  <2> QED
    BY <2>1 DEF At
<1>7. \A k \in 1 .. Len(body.code[i].args) : body.code[i].args[k] \in L
  BY <1>1 DEF Used
<1>8. Weaker(At(body, i - 1, x, y), At(body, i - 1, x, y))
  BY DEF Weaker
<1>9. body.code[i].op # "leave" => Turned(body, i, x, y)
  BY <1>3 DEF Turned
<1>10. At(body, i, x, y).live = after
  BY DEF At, Ann
<1>11. body.code[i].op # "leave" => Ends(body, i, At(body, i, x, y))
  BY <1>9, <1>10 DEF Ends
<1> QED
  BY <1>5, <1>6, <1>7, <1>8, <1>9, <1>11

\* Every instruction has a plan, whatever its operation and wherever its
\* operands and its result live.
LEMMA Plans ==
    ASSUME BlockOK(body), Homed, NEW i \in 1 .. Len(body.code), NEW x, NEW y, Turned(body, i - 1, x, y)
    PROVE  Planned(i, x, y)
<1> DEFINE c == body.code[i]
           L == LiveAfter(body, i - 1)
           after == LiveAfter(body, i)
           S == Base(Open(body, i))
           F == At(body, i - 1, x, y)
           G == At(body, i, x, y)
<1>1. /\ Setting(i, Base(Open(body, i - 1)), L, x, y) /\ Setting(i, Base(Open(body, i - 1)), after, x, y)
      /\ Setting(i, Base(Open(body, i)), after, x, y)
      /\ Setting(i, Base(TRUE), after, x, y) /\ Setting(i, Base(FALSE), after, "count", "head")
      /\ F \in Annotation /\ G \in Annotation /\ Weaker(F, F)
      /\ c.op # "leave" => Turned(body, i, x, y) /\ Ends(body, i, G)
      /\ \A k \in 1 .. Len(c.args) : c.args[k] \in L
  BY Staged
<1>2. /\ c.result = None => after \subseteq L
      /\ c.result # None =>
              /\ c.result \in Value /\ c.result \in Busy(body, i)
              /\ \A u \in after : u \in L \/ u = c.result
              /\ home[c.result] # Constant => Adds(L, after, c.result)
              /\ home[c.result] = Constant => c.op = "constant"
              /\ home[c.result] \notin Scratched
  BY Scene DEF SceneOf
<1>3. /\ Shaped(c) /\ (c.op \in {"loop", "loop in registers", "return"} => i = Len(body.code))
      /\ (c.op = "leave" => Open(body, i - 1)) /\ (c.op \in {"loop", "loop in registers", "leave"} => body.loops)
      /\ Len(body.code) \in Nat
  BY Typed DEF BlockOK, Sound
<1>4. /\ Open(body, i) \in BOOLEAN /\ (c.op # "leave" => Open(body, i) = Open(body, i - 1))
      /\ (c.op = "leave" => Open(body, i) = FALSE)
  BY OpenStays
<1>5. /\ F = Ann(Rings(x, y), Base(Open(body, i - 1)), L, FALSE) /\ G = Ann(Rings(x, y), S, after, FALSE)
      /\ F.live = L
  BY DEF At, Ann
<1>6. c.result # None /\ home[c.result] # Constant => Defines(i, L, after, c.result)
  BY <1>2 DEF Defines
<1>7. body.loops => x = Counter(Open(body, i - 1)) /\ y = LoopHead(Open(body, i - 1))
  BY DEF Turned
<1>8. ASSUME Plan(i, Emitted(i), F, G), c.op # "leave" PROVE Planned(i, x, y)
  BY <1>1, <1>8 DEF Planned
<1>9. ASSUME NEW H \in Annotation, H.live = L, c.result = None, i = Len(body.code), Plan(i, Emitted(i), F, H)
      PROVE  Planned(i, x, y)
  <2>a. i = Len(body.code) /\ Len(body.code) \in Nat
    BY <1>3, <1>9
  <2>2. ~(i < Len(body.code))
    BY <2>a
  <2>3. after \subseteq H.live
    BY <1>2, <1>9
  <2> HIDE DEF c
  <2>1. Ends(body, i, H)
    BY <2>2, <2>3 DEF Ends
  <2> QED
    BY <1>1, <1>9, <2>1 DEF Planned
<1>10. CASE c.op = "constant"
  <2>0. c.result # None
    BY <1>3, <1>10 DEF Shaped
  <2>1. Emitted(i) = IF home[c.result] = Constant THEN <<>>
                     ELSE IF InReg(c.result) THEN <<Direct(c.result, {})>> ELSE <<Result(c.result, {})>> \o Finish(c.result)
    BY <1>10, EmittedIs
  <2>2. CASE home[c.result] = Constant
    <3>1. Plan(i, Emitted(i), G, G)
      BY <1>1, <2>1, <2>2, PlanNone
    <3>2. Weaker(F, G)
      <4>1. \A v \in after : v \in L \/ home[v] = Constant
        BY <1>2, <2>0, <2>2
      <4>2. F.regs = G.regs /\ F.stack = G.stack /\ F.plain = G.plain /\ G.live = after
        <5>1. Open(body, i) = Open(body, i - 1)
          BY <1>4, <1>10
        <5> HIDE DEF F, G
        <5> QED
          BY <1>5, <5>1 DEF Ann
      <4> HIDE DEF F, G
      <4> QED
        BY <1>5, <4>1, <4>2 DEF Weaker
    <3> QED
      BY <1>1, <1>10, <3>1, <3>2 DEF Planned
  <2>3. CASE home[c.result] # Constant
    <3>1. Plan(i, IF InReg(c.result) THEN <<Direct(c.result, {})>> ELSE <<Result(c.result, {})>> \o Finish(c.result), F, G)
      BY <1>1, <1>4, <1>5, <1>6, <1>10, <2>0, <2>3, ConstantPlan
    <3> QED
      BY <1>8, <1>10, <2>1, <2>3, <3>1
  <2> QED
    BY <2>2, <2>3
<1>11. CASE c.op \in {"binary", "compare", "divide"}
  <2>1. Len(c.args) = 2 /\ c.result # None
    BY <1>3, <1>11 DEF Shaped
  <2>2. c.args[1] \in L /\ c.args[2] \in L /\ Defines(i, L, after, c.result) /\ Open(body, i) = Open(body, i - 1)
    BY <1>1, <1>2, <1>4, <1>6, <1>11, <2>1
  <2>3. CASE c.op = "binary"
    <3>1. Emitted(i) = emitBinary(c.result, c.args[1], c.args[2])
      BY <2>3, EmittedIs
    <3>2. Plan(i, emitBinary(c.result, c.args[1], c.args[2]), F, G)
      BY <1>1, <1>5, <2>2, BinaryPlan
    <3> QED
      BY <1>8, <2>3, <3>1, <3>2
  <2>4. CASE c.op = "compare"
    <3>1. Emitted(i) = emitScalarComparison(c.result, c.args[1], c.args[2])
      BY <2>4, EmittedIs
    <3>2. Plan(i, emitScalarComparison(c.result, c.args[1], c.args[2]), F, G)
      BY <1>1, <1>5, <2>2, ComparePlan
    <3> QED
      BY <1>8, <2>4, <3>1, <3>2
  <2>5. CASE c.op = "divide"
    <3>1. Emitted(i) = emitDivision(c.result, c.args[1], c.args[2])
      BY <2>5, EmittedIs
    <3>2. Spares(L, {"r2", "r4"})
      <4>1. \A v \in Value : home[v] \notin {"r2", "r4"}
        BY <2>5 DEF BlockOK
      <4> QED
        BY <1>1, <4>1 DEF Spares, Setting
    <3>3. Plan(i, emitDivision(c.result, c.args[1], c.args[2]), F, G)
      BY <1>1, <1>5, <2>2, <3>2, DivisionPlan
    <3> QED
      BY <1>8, <2>5, <3>1, <3>3
  <2> QED
    BY <1>11, <2>3, <2>4, <2>5
<1>12. CASE c.op = "load"
  <2>1. Len(c.args) = 1 /\ c.result # None
    BY <1>3, <1>12 DEF Shaped
  <2>2. c.args[1] \in L /\ Defines(i, L, after, c.result) /\ Open(body, i) = Open(body, i - 1)
    BY <1>1, <1>2, <1>4, <1>6, <1>12, <2>1
  <2>3. Emitted(i) = emitLoadIndirect(c.result, c.args[1])
    BY <1>12, EmittedIs
  <2>4. Plan(i, emitLoadIndirect(c.result, c.args[1]), F, G)
    BY <1>1, <1>5, <2>2, LoadPlan
  <2> QED
    BY <1>8, <1>12, <2>3, <2>4
<1>13. CASE c.op = "store"
  <2>1. Len(c.args) = 2 /\ c.result = None
    BY <1>3, <1>13 DEF Shaped
  <2>2. c.args[1] \in L /\ c.args[2] \in L /\ after \subseteq L /\ Open(body, i) = Open(body, i - 1)
    BY <1>1, <1>2, <1>4, <1>13, <2>1
  <2>3. Emitted(i) = <<[O("store") EXCEPT !.a = c.args[1], !.b = c.args[2]]>>
    BY <1>13, EmittedIs
  <2> DEFINE a == c.args[1]
             v == c.args[2]
  <2> HIDE DEF a, v, L, after, F, G
  <2>4. Plan(i, <<[O("store") EXCEPT !.a = a, !.b = v]>>, F, G)
    BY <1>1, <1>5, <2>2, StorePlan DEF a, v
  <2> QED
    BY <1>8, <1>13, <2>3, <2>4 DEF a, v
<1>14. CASE c.op = "call"
  <2>1. Emitted(i) = emitCall(i)
    BY <1>14, EmittedIs
  <2>2. PICK x2, y2 : Turned(body, i, x2, y2) /\ Plan(i, emitCall(i), F, At(body, i, x2, y2))
    BY <1>14, CallPlan
  <2> DEFINE H == At(body, i, x2, y2)
  <2>3. H \in Annotation
    <3>1. Turned(body, i - 1, x2, y2)
      BY <1>4, <1>14, <2>2 DEF Turned
    <3> QED
      BY <3>1, Staged
  <2>4. Ends(body, i, H)
    <3>1. H.live = after
      BY DEF At, Ann
    <3> QED
      BY <2>2, <3>1 DEF Ends
  <2> HIDE DEF H, F
  <2> QED
    BY <1>1, <2>1, <2>2, <2>3, <2>4 DEF Planned, H, F
<1>15. CASE c.op = "fill"
  <2>1. c.result = None /\ after \subseteq L /\ Open(body, i) = Open(body, i - 1)
    BY <1>2, <1>3, <1>4, <1>15 DEF Shaped
  <2>2. Emitted(i) = emitMemoryInitialize(Open(body, i))
    BY <1>15, EmittedIs
  <2>3. Plan(i, emitMemoryInitialize(Open(body, i)), G, G)
    BY <1>1, <1>5, <1>7, <2>1, FillPlan
  <2>4. Weaker(F, G)
    <3> HIDE DEF F, G
    <3>1. F.regs = G.regs /\ F.stack = G.stack /\ F.plain = G.plain /\ G.live = after
      BY <1>5, <2>1 DEF Ann
    <3> QED
      BY <1>5, <2>1, <3>1 DEF Weaker
  <2>5. Ends(body, i, G)
    BY <1>1, <1>15
  <2> HIDE DEF F, G
  <2> QED
    BY <1>1, <2>2, <2>3, <2>4, <2>5 DEF Planned, F
<1>16. CASE c.op \in {"loop", "loop in registers", "return"}
  <2>1. Len(c.args) = 1 /\ c.result = None /\ i = Len(body.code)
    BY <1>3, <1>16 DEF Shaped
  <2>c. c.op # "leave"
    BY <1>16
  <2>a. 1 \in 1 .. Len(c.args) /\ c.op # "leave"
    BY <2>1, <2>c
  <2>2. c.args[1] \in L /\ Open(body, i) = Open(body, i - 1)
    BY <1>1, <1>4, <2>a
  <2> DEFINE a == c.args[1]
  <2>b. a \in L
    BY <2>2
  <2> HIDE DEF a, F
  <2>3. CASE c.op = "loop"
    <3>1. Emitted(i) = emitHardwareLoop(c.args[1], FALSE, Open(body, i))
      BY <2>3, EmittedIs
    <3>2. \E H \in Annotation : H.live = L /\ Plan(i, emitHardwareLoop(a, FALSE, Open(body, i)), F, H)
      BY <1>1, <1>4, <1>5, <2>2, <2>b, LoopPlan
    <3> QED
      BY <1>9, <2>1, <3>1, <3>2 DEF a, F
  <2>4. CASE c.op = "loop in registers"
    <3>1. Emitted(i) = emitHardwareLoop(c.args[1], TRUE, Open(body, i))
      BY <2>4, EmittedIs
    <3>2. Spares(L, {"r4"}) /\ x = Counter(Open(body, i)) /\ y = LoopHead(Open(body, i))
      <4>1. body.loops
        BY <1>3, <2>4
      <4>2. \A v \in Value : home[v] # "r4"
        BY <4>1 DEF BlockOK
      <4> QED
        BY <1>1, <1>7, <2>2, <4>1, <4>2 DEF Spares, Setting
    <3>3. \E H \in Annotation : H.live = L /\ Plan(i, emitHardwareLoop(a, TRUE, Open(body, i)), F, H)
      BY <1>1, <1>4, <1>5, <2>2, <2>b, <3>2, RegistersLoopPlan
    <3> QED
      BY <1>9, <2>1, <3>1, <3>3 DEF a, F
  <2>5. CASE c.op = "return"
    <3>1. Emitted(i) = emitFunctionEpilogue(c.args[1])
      BY <2>5, EmittedIs
    <3>2. \E H \in Annotation : H.live = L /\ Plan(i, emitFunctionEpilogue(a), F, H)
      BY <1>1, <1>4, <1>5, <2>2, <2>b, ReturnPlan
    <3> QED
      BY <1>9, <2>1, <3>1, <3>2 DEF a, F
  <2> QED
    BY <1>16, <2>3, <2>4, <2>5
<1>17. CASE c.op = "leave"
  <2>1. c.result = None /\ after \subseteq L /\ Open(body, i) = FALSE /\ Open(body, i - 1) = TRUE
    BY <1>2, <1>3, <1>4, <1>17, OpenStays DEF Shaped
  <2>2. Emitted(i) = <<Pop("r13"), Pop("r12")>> \o LoopRegisters(FALSE)
    BY <1>17, EmittedIs
  <2> DEFINE F2 == Ann(Rings(x, y), Base(TRUE), after, FALSE)
             H == At(body, i, "count", "head")
  <2>3. H = Ann(Rings("count", "head"), Base(FALSE), after, FALSE)
    BY <2>1 DEF At
  <2>4. Plan(i, <<Pop("r13"), Pop("r12")>> \o LoopRegisters(FALSE), F2, H)
    BY <1>1, <2>3, LeavePlan
  <2>5. H.live = after
    BY DEF At, Ann
  <2>6. F2 \in Annotation /\ H \in Annotation
    <3>1. "r0" \in Scratched /\ Junk \in Word
      BY WordFacts DEF Scratched
    <3>2. F2 \in Annotation
      BY <1>1, <3>1, Settles
    <3> HIDE DEF H
    <3>3. Ann(Rings("count", "head"), Base(FALSE), after, FALSE) \in Annotation
      BY <1>1, <3>1, Settles
    <3> QED
      BY <2>3, <3>2, <3>3
  <2>7. Ends(body, i, H)
    <3>1. Turned(body, i, "count", "head")
      BY <2>1, WordFacts DEF Turned, Counter, LoopHead
    <3> QED
      BY <2>5, <3>1 DEF Ends
  <2>8. Weaker(F, F2)
    <3> HIDE DEF F
    <3>1. F.regs = F2.regs /\ F.stack = F2.stack /\ F.plain = F2.plain /\ F2.live = after
      BY <1>5, <2>1 DEF Ann
    <3> HIDE DEF F2
    <3> QED
      BY <1>5, <2>1, <3>1 DEF Weaker
  <2> HIDE DEF F, F2, H
  <2> QED
    BY <2>2, <2>4, <2>6, <2>7, <2>8 DEF Planned, F
<1> QED
  BY <1>3, <1>10, <1>11, <1>12, <1>13, <1>14, <1>15, <1>16, <1>17 DEF Shaped

-----------------------------------------------------------------------------
\* An operation stays safe while its block is being emitted.
LEMMA SafeStays ==
    ASSUME NEW i, NEW o, NEW F, NEW G, body' = body, home' = home, Safe(i, o, F, G)
    PROVE  Safe(i, o, F, G)'
<1>1. o.k = "use" => SafeUse(o, F, G)'
  BY DEF Safe, SafeUse, Keeps, Carries
<1>2. o.k = "move" => SafeMove(o, F, G)'
  BY DEF Safe, SafeMove, Keeps, Carries, Knows
<1>3. o.k = "scratch" => SafeScratch(o, F, G)'
  BY DEF Safe, SafeScratch, Keeps, Carries
<1>4. o.k = "read" => SafeRead(o, F, G)'
  BY DEF Safe, SafeRead, Keeps, Carries
<1>5. o.k = "result" => SafeResult(o, F, G)'
  BY DEF Safe, SafeResult, Keeps, Carries
<1>6. o.k = "direct" => SafeDirect(o, F, G)'
  BY DEF Safe, SafeDirect, Keeps, Carries
<1>7. o.k = "define" => SafeDefine(i, o, F, G)'
  BY DEF Safe, SafeDefine, Keeps, Carries, Knows
<1>8. o.k = "push" => SafePush(o, F, G)'
  BY DEF Safe, SafePush, Carries, Knows
<1>9. o.k = "pop" => SafePop(o, F, G)'
  BY DEF Safe, SafePop, Carries
<1>10. o.k = "clear" => SafeClear(o, F, G)'
  BY DEF Safe, SafeClear, Carries
<1>11. o.k = "fence" => SafeFence(o, F, G)'
  BY DEF Safe, SafeFence, Keeps, Carries
<1>12. o.k = "load" => SafeLoad(o, F, G)'
  BY DEF Safe, SafeLoad, Keeps, Carries
<1>13. o.k = "store" => SafeStore(o, F, G)'
  BY DEF Safe, SafeStore, Keeps, Carries
<1>14. o.k = "drop" => SafeDrop(i, o, F, G)'
  BY DEF Safe, SafeDrop, Carries
<1>15. o.k = "label" => SafeLabel(o, F, G)'
  BY DEF Safe, SafeLabel, Carries
<1>16. o.k = "capacity" => SafeCapacity(o, F, G)'
  BY DEF Safe, SafeCapacity, Keeps, Carries
<1>17. o.k = "unwind" => SafeUnwind(o, F, G)'
  BY DEF Safe, SafeUnwind, Carries
<1>18. o.k = "call" => SafeCall(i, o, F, G)'
  BY DEF Safe, SafeCall, Carries
<1>19. /\ F.live \subseteq Busy(body', i) /\ G.live \subseteq Busy(body', i)
       /\ \A r, x : <<r, x>> \in o.needs => r \in Reg /\ Knows(F, r, x)'
       /\ o.needs \subseteq Reg \X (Word \cup {None})
  BY DEF Safe, Knows
<1> QED
  BY <1>1, <1>2, <1>3, <1>4, <1>5, <1>6, <1>7, <1>8, <1>9, <1>10, <1>11, <1>12, <1>13, <1>14, <1>15, <1>16,
     <1>17, <1>18, <1>19 DEF Safe

\* A plan stays one while its block is being emitted.
LEMMA PlanStays ==
    ASSUME NEW i, NEW E, NEW F, NEW G, body' = body, home' = home, Plan(i, E, F, G)
    PROVE  Plan(i, E, F, G)'
<1>1. PICK A \in [1 .. Len(E) + 1 -> Annotation] :
          /\ A[1] = F /\ A[Len(E) + 1] = G
          /\ \A d \in 1 .. Len(E) : Safe(i, E[d], A[d], A[d + 1])
  BY DEF Plan
<1>2. \A d \in 1 .. Len(E) : Safe(i, E[d], A[d], A[d + 1])'
  <2> TAKE d \in 1 .. Len(E)
  <2>1. PICK o, X, Y : o = E[d] /\ X = A[d] /\ Y = A[d + 1]
    OBVIOUS
  <2>2. Safe(i, o, X, Y)
    BY <1>1, <2>1
  <2>3. Safe(i, o, X, Y)'
    BY <2>2, SafeStays
  <2> QED
    BY <2>1, <2>3
<1>3. IsSeq(E)
  BY DEF Plan
<1> QED
  BY <1>1, <1>2, <1>3 DEF Plan

\* What a state holds depends on the homes, which no step changes.
LEMMA HoldsStays ==
    ASSUME NEW t, NEW F, home' = home, Holds(t, F)
    PROVE  Holds(t, F)'
  BY DEF Holds, AtHome

\* The guarantees on a block stay.
LEMMA BlockStays ==
    ASSUME NEW b, home' = home, BlockOK(b)
    PROVE  BlockOK(b)'
  BY DEF BlockOK

-----------------------------------------------------------------------------
\* The first block has been entered, and it has something to emit or to leave.
Begun == body.code # <<>> \/ body.leave # {}
\* What is still to be emitted has a plan from what the machine holds.
OnPlan ==
    \E F, G \in Annotation : Holds(st, F) /\ Ends(body, Here, G) /\ Plan(Here, todo, F, G)

Blocks == BlockOK(body) /\ \A k \in 1 .. Len(rest) : BlockOK(rest[k])
Progress ==
    /\ pos = 0 => ~Begun /\ st.spare = {}
    /\ Begun => pos \in 1 .. Len(body.code) + 1
Running ==
    st.running =>
        /\ Good(st)
        /\ todo # <<>> => st.spare \subseteq Unowned
        /\ Begun => OnPlan
EmissionInvariant == Placed /\ Honest(st) /\ Homed /\ Blocks /\ Progress /\ Machine(st) /\ Landed(st) /\ Running

\* Each kind of operation leads from F to G.
LEMMA EmitOutcome ==
    ASSUME Emit, NEW F \in Annotation, NEW G \in Annotation, Sits(F, G), Safe(Here, Op, F, G)
    PROVE  Outcome(st', G)
<1> DEFINE o == Op
<1>0. Safe(Here, o, F, G)
  OBVIOUS
<1> USE DEF Doing, Then, Safe
<1>1. CASE EmitUse
  BY <1>0, <1>1, StepUse DEF EmitUse
<1>2. CASE EmitMove
  BY <1>0, <1>2, StepMove DEF EmitMove
<1>3. CASE EmitScratch
  BY <1>0, <1>3, StepScratch DEF EmitScratch
<1>4. CASE EmitRead
  BY <1>0, <1>4, StepRead DEF EmitRead
<1>5. CASE EmitResult
  BY <1>0, <1>5, StepResult DEF EmitResult
<1>6. CASE EmitDirect
  BY <1>0, <1>6, StepDirect DEF EmitDirect
<1>7. CASE EmitDefine
  BY <1>0, <1>7, StepDefine DEF EmitDefine
<1>8. CASE EmitPush
  BY <1>0, <1>8, StepPush DEF EmitPush
<1>9. CASE EmitPop
  BY <1>0, <1>9, StepPop DEF EmitPop
<1>10. CASE EmitClear
  BY <1>0, <1>10, StepClear DEF EmitClear
<1>11. CASE EmitFence
  BY <1>0, <1>11, StepFence DEF EmitFence
<1>12. CASE EmitLoad
  BY <1>0, <1>12, StepLoad DEF EmitLoad
<1>13. CASE EmitStore
  BY <1>0, <1>13, StepStore DEF EmitStore
<1>14. CASE EmitDrop
  BY <1>0, <1>14, StepDrop DEF EmitDrop
<1>15. CASE EmitLabel
  BY <1>0, <1>15, StepLabel DEF EmitLabel
<1>16. CASE EmitCapacity
  BY <1>0, <1>16, StepCapacity DEF EmitCapacity
<1>17. CASE EmitUnwind
  BY <1>0, <1>17, StepUnwind DEF EmitUnwind
<1>18. CASE EmitCall
  BY <1>0, <1>18, StepCall DEF EmitCall
<1> QED
  BY <1>1, <1>2, <1>3, <1>4, <1>5, <1>6, <1>7, <1>8, <1>9, <1>10, <1>11, <1>12, <1>13, <1>14, <1>15, <1>16,
     <1>17, <1>18 DEF Emit

\* Every emitted operation goes on with the plan.
LEMMA EmitKeeps ==
    ASSUME EmissionInvariant, Emit, Placed', Honest(st')
    PROVE  EmissionInvariant'
<1>1. todo # <<>> /\ st.running /\ todo' = Tail(todo) /\ rest' = rest /\ body' = body /\ home' = home /\ pos' = pos
  BY DEF Emit, EmitUse, EmitMove, EmitScratch, EmitRead, EmitResult, EmitDirect, EmitDefine,
                EmitPush, EmitPop, EmitClear, EmitFence, EmitLoad, EmitStore, EmitDrop, EmitLabel,
                EmitCapacity, EmitUnwind, EmitCall, Doing, Then
<1>2. Here \in 1 .. Len(body.code) /\ body \in Block
  BY <1>1 DEF EmissionInvariant, Placed
<1>3. Begun
  <2>1. body.code # <<>>
    BY <1>2
  <2> QED
    BY <2>1 DEF Begun
<1>4. PICK F \in Annotation, H \in Annotation : Holds(st, F) /\ Ends(body, Here, H) /\ Plan(Here, todo, F, H)
  BY <1>1, <1>3 DEF EmissionInvariant, Running, OnPlan
<1>5. PICK G \in Annotation : Safe(Here, Head(todo), F, G) /\ Plan(Here, Tail(todo), G, H)
  BY <1>1, <1>4, PlanHead
<1>6. Sits(F, G)
  BY <1>1, <1>4, <1>5 DEF EmissionInvariant, Running, Sits, Safe
<1>7. Outcome(st', G)
  BY <1>5, <1>6, EmitOutcome DEF Op
<1>8. Here' = Here /\ Unowned' = Unowned
  BY <1>1 DEF Here, Unowned
<1>9. ASSUME st'.running PROVE OnPlan'
  <2>1. PICK i, E, t : i = Here /\ E = Tail(todo) /\ t = st'
    OBVIOUS
  <2>2. Plan(i, E, G, H) /\ Holds(t, G)
    BY <1>5, <1>7, <1>9, <2>1 DEF Outcome
  <2>3. Plan(i, E, G, H)' /\ Holds(t, G)'
    BY <1>1, <2>2, PlanStays, HoldsStays
  <2>4. Plan(Here, todo, G, H)' /\ Holds(st, G)'
    BY <1>1, <1>8, <2>1, <2>3
  <2>5. Ends(body, Here, H)'
    BY <1>1, <1>4, <1>8
  <2> QED
    BY <2>4, <2>5 DEF OnPlan
<1>10. Running'
  BY <1>7, <1>8, <1>9 DEF Running, Outcome
<1>11. Machine(st)' /\ Landed(st)'
  BY <1>7 DEF Outcome
<1>12. Homed' /\ Progress'
  <2>1. Homed'
    BY <1>1 DEF EmissionInvariant, Homed
  <2>2. pos' \in Nat /\ pos' # 0
    BY <1>1, <1>2 DEF EmissionInvariant, Placed, Here
  <2> QED
    BY <1>1, <2>1, <2>2 DEF EmissionInvariant, Progress, Begun
<1>13. Blocks'
  BY <1>1, BlockStays DEF EmissionInvariant, Blocks, BlockOK
<1>14. Honest(st)'
  BY DEF Honest
<1> QED
  BY <1>10, <1>11, <1>12, <1>13, <1>14 DEF EmissionInvariant

-----------------------------------------------------------------------------
\* The next instruction starts from what the one before left.
LEMMA BeginKeeps ==
    ASSUME EmissionInvariant, BeginInstruction, Placed', Honest(st')
    PROVE  EmissionInvariant'
<1>1. /\ st.running /\ todo = <<>> /\ pos \in 1 .. Len(body.code) /\ todo' = Emitted(pos) /\ pos' = pos + 1
      /\ rest' = rest /\ body' = body /\ home' = home
  BY DEF BeginInstruction
<1> DEFINE S == spareRegisters(body, home, pos)
           e == Enter(st, S)
<1>2. PICK f : st' = [e EXCEPT !.remaining = f]
  BY DEF BeginInstruction
<1>a. Len(body.code) \in Nat /\ body \in Block
  BY DEF EmissionInvariant, Placed, Block
<1>3. Begun
  <2>1. body.code # <<>>
    BY <1>1, <1>a
  <2> QED
    BY <2>1 DEF Begun
<1>4. PICK F \in Annotation, G \in Annotation : Holds(st, F) /\ Ends(body, Here, G) /\ Plan(Here, todo, F, G)
  BY <1>1, <1>3 DEF EmissionInvariant, Running, OnPlan
<1>5. Here = pos - 1 /\ Here < Len(body.code) /\ F = G
  <2>1. Here = pos - 1 /\ Here < Len(body.code)
    BY <1>1, <1>a DEF Here
  <2>2. F = G
    BY <1>1, <1>4, PlanNothing
  <2> QED
    BY <2>1, <2>2
<1>6. PICK x, y : Turned(body, pos - 1, x, y) /\ F = At(body, pos - 1, x, y)
  BY <1>4, <1>5 DEF Ends
<1>7. Planned(pos, x, y)
  BY <1>1, <1>6, Plans DEF EmissionInvariant, Blocks
<1>8. PICK P \in Annotation, Q \in Annotation :
          Weaker(F, P) /\ Ends(body, pos, Q) /\ Plan(pos, Emitted(pos), P, Q)
  BY <1>6, <1>7 DEF Planned
<1>9. F.plain = FALSE
  BY <1>6 DEF At, Ann
<1> DEFINE t == [e EXCEPT !.remaining = f]
<1>b. Good(st)
  BY <1>1 DEF EmissionInvariant, Running
<1>10. /\ Good(t) /\ t.spare = S /\ t.reg = st.reg /\ t.ram = st.ram /\ t.stack = st.stack /\ t.running = st.running
  <2> HIDE DEF S
  <2>1. /\ Machine(t) /\ t.acc = st.acc /\ t.latch = st.latch /\ t.at = st.at /\ t.written = st.written
        /\ t.copies = [r \in Reg |-> IF r \in S THEN st.copies[r] ELSE None]
        /\ t.spare = S /\ t.reg = st.reg /\ t.ram = st.ram /\ t.stack = st.stack /\ t.running = st.running
    BY <1>b DEF Enter, Good, Machine
  <2> HIDE DEF t
  <2>2. Beliefs(t) /\ Landed(t)
    BY <1>b, <2>1 DEF Good, Beliefs, Landed
  <2> QED
    BY <2>1, <2>2 DEF Good
<1> HIDE DEF t, S, e
<1>11. Holds(t, P)
  <2>1. \A v \in P.live : AtHome(t, v)
    <3> TAKE v \in P.live
    <3>1. CASE v \in F.live
      BY <1>4, <1>10, <3>1 DEF Holds, AtHome
    <3>2. CASE home[v] = Constant
      BY <3>2, Distinct DEF AtHome, Constant, Reg
    <3> QED
      BY <1>8, <3>1, <3>2 DEF Weaker
  <2>2. (\A p \in P.regs : t.reg[p[1]] = p[2]) /\ t.stack = P.stack /\ ~P.plain
    BY <1>4, <1>8, <1>9, <1>10 DEF Weaker, Holds
  <2> QED
    BY <2>1, <2>2 DEF Holds
<1>12. st' = t
  BY <1>2 DEF t, e, S
<1>13. Here' = pos /\ Unowned' = S
  <2>1. Here' = pos
    BY <1>1 DEF Here
  <2> QED
    BY <1>1, <2>1 DEF Unowned, S
<1>14. OnPlan'
  <2>1. PICK i, E, u : i = pos /\ E = Emitted(pos) /\ u = st'
    OBVIOUS
  <2>2. Plan(i, E, P, Q) /\ Holds(u, P)
    BY <1>8, <1>11, <1>12, <2>1
  <2>3. Plan(i, E, P, Q)' /\ Holds(u, P)'
    BY <1>1, <2>2, PlanStays, HoldsStays
  <2>4. Plan(Here, todo, P, Q)' /\ Holds(st, P)'
    BY <1>1, <1>13, <2>1, <2>3
  <2>5. Ends(body, Here, Q)'
    BY <1>1, <1>8, <1>13
  <2> QED
    BY <2>4, <2>5 DEF OnPlan
<1>15. Running' /\ Machine(st)' /\ Landed(st)'
  <2>1. Good(st)' /\ (st.spare \subseteq Unowned)'
    BY <1>10, <1>12, <1>13
  <2> QED
    BY <1>14, <2>1 DEF Running, Good
<1>16. Homed' /\ Progress'
  <2>1. Homed'
    BY <1>1 DEF EmissionInvariant, Homed
  <2>2. pos' # 0 /\ pos' \in 1 .. Len(body.code) + 1
    BY <1>1, <1>a
  <2> QED
    BY <1>1, <2>1, <2>2 DEF Progress
<1>17. Blocks'
  BY <1>1, BlockStays DEF EmissionInvariant, Blocks, BlockOK
<1>18. Honest(st)'
  BY DEF Honest
<1> QED
  BY <1>15, <1>16, <1>17, <1>18 DEF EmissionInvariant

\* Nothing to emit leads nowhere, in the next state too.
LEMMA NothingNext ==
    ASSUME NEW i, NEW F \in Annotation
    PROVE  Plan(i, <<>>, F, F)'
<1> DEFINE A == [d \in 1 .. 1 |-> F]
<1>1. A \in [1 .. Len(<<>>) + 1 -> Annotation] /\ A[1] = F /\ A[Len(<<>>) + 1] = F
  OBVIOUS
<1>2. IsSeq(<<>>)
  <2>1. <<>> \in Seq(Nat)
    OBVIOUS
  <2> QED
    BY <2>1 DEF IsSeq
<1>3. \A d \in 1 .. Len(<<>>) : FALSE
  OBVIOUS
<1> HIDE DEF A
<1> QED
  BY <1>1, <1>2, <1>3 DEF Plan

\* What a block finds on arrival.
LEMMA ArrivalHolds ==
    ASSUME NEW s, Machine(s), NEW b, BlockOK(b), Homed, NEW m
    PROVE  LET t == Arrived(emitBlock(s, b), b, m)
               G == At(b, 0, Counter(b.open), LoopHead(b.open))
           IN  Good(t) /\ Holds(t, G) /\ G \in Annotation /\ Ends(b, 0, G) /\ t.running = s.running
<1> DEFINE held(l) == CHOOSE v \in b.enter : home[v] = l
           holds(l) == \E v \in b.enter : home[v] = l
           x == Counter(b.open)
           y == LoopHead(b.open)
           t == Arrived(emitBlock(s, b), b, m)
           G == At(b, 0, x, y)
<1>0. /\ b \in Block /\ b.enter \subseteq Value /\ b.open \in BOOLEAN
      /\ x \in Word /\ y \in Word
  <2>1. b \in Block
    BY DEF BlockOK
  <2>2. b.enter \subseteq Value /\ b.open \in BOOLEAN
    BY <2>1 DEF Block
  <2> QED
    BY <2>1, <2>2, WordFacts DEF Counter, LoopHead
<1>1. Open(b, 0) = b.open
  <2>1. \A j \in 1 .. 0 : FALSE
    OBVIOUS
  <2> QED
    BY <1>0, <2>1 DEF Open
<1>2. LiveAfter(b, 0) = b.enter
  <2>1. Available(b, 0) = b.enter
    <3>1. {Defined(b.code, j) : j \in 1 .. 0} = {}
      OBVIOUS
    <3> QED
      BY <3>1 DEF Available
  <2>2. \A v \in b.enter : v \in b.leave \/ \E j \in 0 + 1 .. Len(b.code) : v \in Used(b.code, j)
    <3>1. 0 + 1 .. Len(b.code) = 1 .. Len(b.code)
      OBVIOUS
    <3> QED
      BY <3>1 DEF BlockOK, Sound
  <2> QED
    BY <2>1, <2>2 DEF LiveAfter
<1>3. ASSUME NEW v \in b.enter, home[v] # Constant PROVE held(home[v]) = v
  <2>1. held(home[v]) \in b.enter /\ home[held(home[v])] = home[v]
    OBVIOUS
  <2>2. 0 \in 0 .. Len(b.code)
    <3>1. Len(b.code) \in Nat
      BY <1>0 DEF Block
    <3> QED
      BY <3>1
  <2> HIDE DEF held
  <2>3. \A u, w \in LiveAfter(b, 0) \cup (IF 0 = 0 THEN {} ELSE Defined(b.code, 0)) :
           u # w /\ home[u] # Constant => home[u] # home[w]
    BY <2>2 DEF BlockOK, Proper
  <2>4. \A u, w \in b.enter : u # w /\ home[u] # Constant => home[u] # home[w]
    BY <1>2, <2>3
  <2> QED
    BY <1>3, <2>1, <2>4
<1>4. /\ Machine(t) /\ t.copies = NoCopies /\ t.acc = None /\ t.latch = None /\ t.running = s.running
      /\ t.reg = [r \in Reg |-> IF holds(r) THEN held(r) ELSE IF r = "r9" THEN "frame"
                                   ELSE IF r = "r12" THEN x ELSE IF r = "r13" THEN y ELSE Junk]
      /\ t.ram = [l \in Slot \cup Value |-> IF holds(l) THEN held(l) ELSE Junk]
      /\ t.written = [v \in Value |-> Junk]
      /\ t.stack = Base(b.open)
  <2> DEFINE c == Clear(s)
             e == emitBlock(s, b)
  <2>1. Machine(c) /\ c.copies = NoCopies /\ c.running = s.running
    BY DEF Machine, Clear, NoCopies
  <2>2. PICK f : e = [c EXCEPT !.remaining = f, !.acc = None, !.latch = None, !.credit = 0]
    BY DEF emitBlock
  <2> HIDE DEF c, e
  <2>3. Machine(e) /\ e.copies = NoCopies /\ e.running = s.running /\ e.acc = None /\ e.latch = None
    BY <2>1, <2>2 DEF Machine
  <2> DEFINE RR == [r \in Reg |-> IF holds(r) THEN held(r) ELSE IF r = "r9" THEN "frame"
                                   ELSE IF r = "r12" THEN x ELSE IF r = "r13" THEN y ELSE Junk]
             MM == [l \in Slot \cup Value |-> IF holds(l) THEN held(l) ELSE Junk]
             WW == [v \in Value |-> Junk]
             KK == Base(b.open)
  <2>4. t = [e EXCEPT !.reg = RR, !.ram = MM, !.written = WW, !.stack = KK, !.at = Junk, !.margin = m]
    BY DEF Arrived, e, Base, FrameStack
  <2>5. DOMAIN RR = Reg /\ DOMAIN MM = Slot \cup Value /\ DOMAIN WW = Value
    OBVIOUS
  <2> HIDE DEF t, RR, MM, WW, KK
  <2>6. /\ Machine(t) /\ t.copies = NoCopies /\ t.acc = None /\ t.latch = None /\ t.running = s.running
        /\ t.reg = RR /\ t.ram = MM /\ t.written = WW /\ t.stack = KK
    BY <2>3, <2>4, <2>5 DEF Machine
  <2> QED
    BY <2>6 DEF RR, MM, WW, KK
<1>5. \A v \in b.enter : home[v] \in {"r2", "r4", "r5", "r7", "r8"} \cup Slot \cup {Constant}
  BY <1>0 DEF Homed
<1> HIDE DEF t
<1>6. Good(t)
  <2>1. Beliefs(t)
    BY <1>4 DEF Beliefs, NoCopies
  <2>2. \A a \in Value : ~holds(a)
    <3> SUFFICES ASSUME NEW a \in Value, NEW v \in b.enter, home[v] = a PROVE FALSE
      OBVIOUS
    <3>1. a \notin Slot /\ a \notin Reg /\ a # Constant /\ {"r2", "r4", "r5", "r7", "r8"} \subseteq Reg
      BY Distinct DEF Reg
    <3> QED
      BY <1>5, <3>1
  <2>3. Landed(t)
    <3> HIDE DEF holds, held
    <3> QED
      BY <1>4, <2>2 DEF Landed
  <2> QED
    BY <1>4, <2>1, <2>3 DEF Good
<1>7. G = Ann(Rings(x, y), Base(b.open), b.enter, FALSE) /\ G \in Annotation
  <2>1. G = Ann(Rings(x, y), Base(b.open), b.enter, FALSE)
    BY <1>1, <1>2 DEF At
  <2>2. Rings(x, y) \subseteq (Reg \ Cache) \X Word
    <3>1. "r12" \in Reg \ Cache /\ "r13" \in Reg \ Cache
      BY DEF Reg, Cache
    <3> HIDE DEF x, y
    <3> QED
      BY <1>0, <3>1 DEF Rings
  <2>3. Base(b.open) \in Seq(Word)
    BY <1>0, BaseTyped
  <2> HIDE DEF G, x, y
  <2> QED
    BY <1>0, <2>1, <2>2, <2>3, AnnType
<1>8. t.reg["r12"] = x /\ t.reg["r13"] = y
  <2>1. ~holds("r12") /\ ~holds("r13")
    <3>1. "r12" \notin Slot /\ "r13" \notin Slot /\ "r12" # Constant /\ "r13" # Constant
      BY Distinct DEF Reg, Constant
    <3> QED
      BY <1>5, <3>1
  <2>2. {"r12", "r13"} \subseteq Reg
    BY DEF Reg
  <2> HIDE DEF holds, held, x, y
  <2> QED
    BY <1>4, <2>1, <2>2
<1>9. \A v \in b.enter : AtHome(t, v)
  <2> TAKE v \in b.enter
  <2>1. holds(home[v])
    OBVIOUS
  <2>2. home[v] \in Reg \cup Slot => held(home[v]) = v
    <3>1. Constant \notin Reg /\ Constant \notin Slot
      BY Distinct DEF Reg, Constant
    <3> HIDE DEF held
    <3> QED
      BY <1>3, <3>1
  <2> HIDE DEF holds, held
  <2> QED
    BY <1>4, <2>1, <2>2 DEF AtHome
<1>10. G.regs = Rings(x, y) /\ G.stack = Base(b.open) /\ G.live = b.enter /\ G.plain = FALSE
  <2> HIDE DEF G, x, y
  <2> QED
    BY <1>7 DEF Ann
<1>11. Holds(t, G)
  <2> HIDE DEF G, x, y
  <2> QED
    BY <1>4, <1>8, <1>9, <1>10 DEF Holds, Rings
<1>12. Ends(b, 0, G)
  <2>1. Turned(b, 0, x, y)
    BY <1>0, <1>1 DEF Turned
  <2>2. LiveAfter(b, 0) \subseteq G.live
    BY <1>2, <1>10
  <2> QED
    BY <2>1, <2>2 DEF Ends
<1> QED
  BY <1>4, <1>6, <1>7, <1>11, <1>12 DEF t

-----------------------------------------------------------------------------
\* A block starts from what arrives, knowing nothing else.
LEMMA EnterKeeps ==
    ASSUME EmissionInvariant, EnterBlock, Placed', Honest(st')
    PROVE  EmissionInvariant'
<1> DEFINE b == Head(rest)
<1>1. /\ st.running /\ todo = <<>> /\ rest # <<>> /\ body' = b /\ rest' = Tail(rest) /\ pos' = 1
      /\ home' = home /\ todo' = <<>>
  BY DEF EnterBlock
<1>2. PICK m \in Margins : st' = Arrived(emitBlock(st, b), b, m)
  BY DEF EnterBlock
<1>3. rest \in Seq(Block) /\ Len(rest) \in Nat
  BY DEF EmissionInvariant, Placed
<1>4. b = rest[1] /\ 1 \in 1 .. Len(rest) /\ \A k \in 1 .. Len(Tail(rest)) : Tail(rest)[k] = rest[k + 1] /\ k + 1 \in 1 .. Len(rest)
  BY <1>1, <1>3
<1>5. BlockOK(b) /\ \A k \in 1 .. Len(Tail(rest)) : BlockOK(Tail(rest)[k])
  BY <1>4 DEF EmissionInvariant, Blocks
<1> DEFINE G == At(b, 0, Counter(b.open), LoopHead(b.open))
<1>6. Good(st') /\ Holds(st', G) /\ G \in Annotation /\ Ends(b, 0, G)
  <2> HIDE DEF b
  <2> QED
    BY <1>2, <1>5, ArrivalHolds DEF EmissionInvariant
<1> HIDE DEF b, G
<1>7. Here' = 0
  BY <1>1 DEF Here
<1>8. OnPlan'
  <2>1. PICK H, u : H = G /\ u = st'
    OBVIOUS
  <2>2. H \in Annotation /\ Holds(u, H) /\ Ends(b, 0, H)
    BY <1>6, <2>1
  <2>3. Plan(0, <<>>, H, H)' /\ Holds(u, H)'
    BY <1>1, <2>2, NothingNext, HoldsStays
  <2>4. Plan(Here, todo, H, H)' /\ Holds(st, H)' /\ Ends(body, Here, H)'
    BY <1>1, <1>7, <2>1, <2>2, <2>3
  <2> QED
    BY <2>2, <2>4 DEF OnPlan
<1>9. Running' /\ Machine(st)' /\ Landed(st)'
  <2>1. Good(st)'
    BY <1>6
  <2> QED
    BY <1>1, <1>8, <2>1 DEF Running, Good
<1>10. Homed' /\ Progress'
  <2>1. Homed'
    BY <1>1 DEF EmissionInvariant, Homed
  <2>2. pos' # 0 /\ pos' \in 1 .. Len(b.code) + 1
    <3>1. Len(b.code) \in Nat
      BY <1>5 DEF BlockOK, Block
    <3> QED
      BY <1>1, <3>1
  <2> QED
    BY <1>1, <2>1, <2>2 DEF Progress
<1>11. Blocks'
  <2>1. BlockOK(body)' /\ \A k \in 1 .. Len(rest') : BlockOK(rest[k])'
    BY <1>1, <1>5 DEF BlockOK
  <2> QED
    BY <2>1 DEF Blocks
<1>12. Honest(st)'
  BY DEF Honest
<1> QED
  BY <1>9, <1>10, <1>11, <1>12 DEF EmissionInvariant

\* The prologue runs before any value exists.
LEMMA PrologueGood ==
    ASSUME Good(st), Honest(st), st.running, st.spare = {}
    PROVE  Machine(prologue(st)) /\ Landed(prologue(st)) /\ (prologue(st).running => Good(prologue(st)))
<1> DEFINE n == 2 * FrameWords + 4
           g == emitStackGuard(st, n)
           p == emitPush(g, "r11")
           q == emitPush(p, "r9")
           w == Write(q, "r9", "frame")
           c == ClaimFrame(w, FrameWords)
<1>1. n \in Nat /\ n <= MaxCredit /\ FrameWords \in Nat
  BY EmissionAssumption
<1>2. Honest(g) /\ (g.running => n <= g.credit)
  <2> HIDE DEF n
  <2> QED
    BY <1>1, GuardHonest
<1>3. prologue(st) = IF g.running THEN c ELSE g
  BY DEF prologue
<1>4. Machine(g) /\ Landed(g) /\ g.spare = {} /\ (g.running => Good(g))
  <2> HIDE DEF n
  <2> QED
    BY GuardTouches DEF Touches
<1>5. ASSUME g.running PROVE Good(c)
  <2> HIDE DEF g
  <2>1. g.credit \in Nat /\ 2 * FrameWords + 4 <= g.credit
    BY <1>1, <1>2, <1>5 DEF Honest
  <2>2. Honest(p) /\ p.credit = g.credit - 2 /\ p.running
    BY <1>1, <1>2, <1>5, <2>1, PushHonest
  <2>3. Good(p) /\ p.spare = {}
    <3>1. "r11" \in Reg \ {"r3"}
      BY DEF Reg
    <3> QED
      BY <1>4, <1>5, <2>2, <3>1, PushTurns DEF Turns
  <2> HIDE DEF p
  <2>4. p.credit \in Nat /\ 2 <= p.credit
    BY <1>1, <2>1, <2>2
  <2>5. q.running
    BY <2>2, <2>4, PushHonest
  <2>6. Good(q)
    <3>1. "r9" \in Reg \ {"r3"}
      BY DEF Reg
    <3> QED
      BY <2>3, <2>5, <3>1, PushTurns DEF Turns
  <2> HIDE DEF q
  <2>7. Good(w)
    <3>1. "r9" \in Reg
      BY DEF Reg
    <3> QED
      BY <2>6, <3>1, WriteTouches DEF Touches
  <2> HIDE DEF w
  <2>8. /\ Machine(c) /\ c.reg = w.reg /\ c.copies = w.copies /\ c.ram = w.ram /\ c.written = w.written
        /\ c.latch = w.latch /\ c.at = w.at /\ c.acc \in {w.acc, None}
    BY <2>7 DEF ClaimFrame, Good, Machine
  <2> HIDE DEF c
  <2> QED
    BY <2>7, <2>8 DEF Good, Beliefs, Landed
<1> HIDE DEF g, c
<1> QED
  BY <1>3, <1>4, <1>5 DEF Good

\* The prologue keeps the invariant: it stops the machine or claims the frame.
LEMMA PrologueKeeps ==
    ASSUME EmissionInvariant, EmitPrologue, Placed', Honest(st')
    PROVE  EmissionInvariant'
<1>1. /\ st.running /\ pos = 0 /\ pos' = 1 /\ st' = prologue(st) /\ rest' = rest /\ body' = body
      /\ home' = home /\ todo' = todo
  BY DEF EmitPrologue
<1>2. Good(st) /\ st.spare = {} /\ ~Begun /\ todo = <<>>
  BY <1>1 DEF EmissionInvariant, Running, Progress, Placed, Here
<1>3. Machine(st') /\ Landed(st') /\ (st'.running => Good(st'))
  BY <1>1, <1>2, PrologueGood DEF EmissionInvariant
<1>4. ~Begun'
  BY <1>1, <1>2 DEF Begun
<1>5. Running' /\ Machine(st)' /\ Landed(st)'
  <2>1. (st.running => Good(st))'
    BY <1>3
  <2>2. (Machine(st) /\ Landed(st))'
    BY <1>3
  <2> QED
    BY <1>1, <1>2, <1>4, <2>1, <2>2 DEF Running
<1>6. Homed' /\ Progress'
  BY <1>1, <1>4 DEF EmissionInvariant, Homed, Progress
<1>7. Blocks'
  BY <1>1 DEF EmissionInvariant, Blocks, BlockOK
<1>8. Honest(st)'
  BY DEF Honest
<1> QED
  BY <1>5, <1>6, <1>7, <1>8 DEF EmissionInvariant

-----------------------------------------------------------------------------
\* The locations the allocator may give: none a division or a loop claims.
LEMMA InitBlocks ==
    ASSUME Init
    PROVE  Homed /\ Blocks
<1>1. /\ rest \in Functions /\ rest \in Seq(Block)
      /\ \A v \in Value : home[v] \in allocatableRegisters(rest) \cup Slot \cup {Constant}
      /\ \A k \in 1 .. Len(rest) : Proper(rest[k], home)
  BY EmissionAssumption DEF Init
<1>2. Homed
  BY <1>1 DEF Homed, allocatableRegisters
<1>3. ASSUME NEW k \in 1 .. Len(rest) PROVE BlockOK(rest[k])
  <2>1. rest[k] \in Block /\ Sound(rest[k]) /\ Proper(rest[k], home)
    BY <1>1, CodeAssumption
  <2>2. "r2" \notin Slot /\ "r4" \notin Slot /\ "r2" # Constant /\ "r4" # Constant
    BY Distinct DEF Reg, Constant
  <2>3. ASSUME rest[k].loops PROVE \A v \in Value : home[v] # "r4"
    <3>1. "r4" \notin allocatableRegisters(rest)
      BY <2>3 DEF allocatableRegisters
    <3> QED
      BY <1>1, <2>2, <3>1
  <2>4. ASSUME \E i \in 1 .. Len(rest[k].code) : rest[k].code[i].op = "divide"
        PROVE  \A v \in Value : home[v] \notin {"r2", "r4"}
    <3>1. "r2" \notin allocatableRegisters(rest) /\ "r4" \notin allocatableRegisters(rest)
      BY <2>4 DEF allocatableRegisters
    <3> QED
      BY <1>1, <2>2, <3>1
  <2> QED
    BY <2>1, <2>3, <2>4 DEF BlockOK
<1>4. BlockOK(body)
  <2>1. /\ body.code = <<>> /\ body.enter = {} /\ body.leave = {} /\ body.open = FALSE /\ body.loops = FALSE
        /\ body \in Block /\ Len(body.code) = 0
    BY DEF Init, Block
  <2>2. \A i \in 1 .. 0 : FALSE
    OBVIOUS
  <2>3. Sound(body)
    BY <2>1, <2>2 DEF Sound
  <2>4. Available(body, 0) = {}
    <3>1. {Defined(body.code, j) : j \in 1 .. 0} = {}
      BY <2>2
    <3> QED
      BY <2>1, <3>1 DEF Available
  <2>5. LiveAfter(body, 0) = {}
    BY <2>4 DEF LiveAfter
  <2>6. Proper(body, home)
    <3>1. 0 .. 0 = {0}
      OBVIOUS
    <3> QED
      BY <2>1, <2>2, <2>5, <3>1 DEF Proper
  <2> QED
    BY <2>1, <2>2, <2>3, <2>6 DEF BlockOK
<1> QED
  BY <1>2, <1>3, <1>4 DEF Blocks

\* The emission starts with nothing believed and nothing stored.
LEMMA InitEmission == Init => EmissionInvariant
<1> SUFFICES ASSUME Init PROVE EmissionInvariant
  OBVIOUS
<1>1. Placed
  <2>1. body \in Block
    BY DEF Init, Block
  <2> QED
    BY <2>1, EmissionAssumption DEF Init, Placed
<1>2. PICK m \in Margins : st = Start(m)
  BY DEF Init
<1>3. Honest(st)
  BY <1>2, EmissionAssumption DEF Start, Honest
<1>4. /\ Machine(st) /\ st.copies = NoCopies /\ st.acc = None /\ st.latch = None /\ st.spare = {}
      /\ st.ram = [l \in Slot \cup Value |-> Junk] /\ st.written = [v \in Value |-> Junk]
  BY <1>2 DEF Start, Machine, NoCopies
<1>5. Good(st)
  BY <1>4 DEF Good, Beliefs, Landed, NoCopies
<1>6. ~Begun
  BY DEF Init, Begun
<1>7. Progress
  BY <1>4, <1>6 DEF Progress, Init
<1>8. Running
  BY <1>5, <1>6 DEF Running, Init
<1> QED
  BY <1>1, <1>3, <1>5, <1>7, <1>8, InitBlocks DEF EmissionInvariant, Good

\* Every step keeps the invariant.
LEMMA EmissionStep == EmissionInvariant /\ [Next]_vars => EmissionInvariant'
<1> SUFFICES ASSUME EmissionInvariant, [Next]_vars PROVE EmissionInvariant'
  OBVIOUS
<1>1. Placed' /\ Honest(st')
  BY StaysPlaced, StaysHonest DEF EmissionInvariant
<1>2. CASE Next
  BY <1>1, <1>2, PrologueKeeps, EnterKeeps, BeginKeeps, EmitKeeps DEF Next
<1>3. CASE UNCHANGED vars
  <2>1. rest' = rest /\ body' = body /\ home' = home /\ pos' = pos /\ todo' = todo /\ st' = st
    BY <1>3 DEF vars
  <2>2. Homed' /\ Blocks' /\ Progress'
    BY <2>1 DEF EmissionInvariant, Homed, Blocks, BlockOK, Progress, Begun
  <2>3. Machine(st)' /\ Landed(st)' /\ Honest(st)'
    BY <2>1 DEF EmissionInvariant
  <2>4. Here' = Here /\ Unowned' = Unowned /\ (Begun' <=> Begun)
    BY <2>1 DEF Here, Unowned, Begun
  <2>5. OnPlan => OnPlan'
    <3> SUFFICES ASSUME OnPlan PROVE OnPlan'
      OBVIOUS
    <3>1. PICK F \in Annotation, G \in Annotation : Holds(st, F) /\ Ends(body, Here, G) /\ Plan(Here, todo, F, G)
      BY DEF OnPlan
    <3>2. PICK i, E, u : i = Here /\ E = todo /\ u = st
      OBVIOUS
    <3>3. Plan(i, E, F, G)' /\ Holds(u, F)'
      BY <2>1, <3>1, <3>2, PlanStays, HoldsStays
    <3>4. (Holds(st, F) /\ Ends(body, Here, G) /\ Plan(Here, todo, F, G))'
      BY <2>1, <2>4, <3>1, <3>2, <3>3
    <3> QED
      BY <3>4 DEF OnPlan
  <2>6. Running'
    BY <2>1, <2>4, <2>5 DEF EmissionInvariant, Running
  <2> QED
    BY <1>1, <2>2, <2>3, <2>6 DEF EmissionInvariant
<1> QED
  BY <1>2, <1>3

\* What the invariant says of the values.
LEMMA EmissionArrives == EmissionInvariant => ValuesArrive
<1> SUFFICES ASSUME EmissionInvariant, st.running PROVE ValuesArrive
  BY DEF ValuesArrive
<1>0. Len(body.code) \in Nat /\ body \in Block
  BY DEF EmissionInvariant, Placed, Block
<1>1. ASSUME todo # <<>>
      PROVE  /\ \A need \in Op.needs : st.reg[need[1]] = need[2]
             /\ Op.k = "call" => \A k \in 1 .. Op.n : st.stack[Len(st.stack) + 1 - k] = body.code[Here].args[k]
             /\ Op.k = "fence" /\ Op.n > 0 => Len(st.stack) = Op.n
  <2>1. Begun
    <3>1. body.code # <<>>
      BY <1>0, <1>1 DEF EmissionInvariant, Placed
    <3> QED
      BY <3>1 DEF Begun
  <2>2. PICK F \in Annotation, H \in Annotation : Holds(st, F) /\ Plan(Here, todo, F, H)
    BY <2>1 DEF EmissionInvariant, Running, OnPlan
  <2> DEFINE o == Op
  <2>3. PICK G \in Annotation : Safe(Here, o, F, G)
    BY <1>1, <2>2, PlanHead DEF Op
  <2> HIDE DEF o
  <2>4. \A need \in o.needs : st.reg[need[1]] = need[2]
    <3> TAKE need \in o.needs
    <3>1. PICK r \in Reg, x \in Word \cup {None} : need = <<r, x>>
      BY <2>3 DEF Safe
    <3>2. Knows(F, r, x)
      BY <2>3, <3>1 DEF Safe
    <3>3. st.reg[r] = x
      BY <2>2, <3>2, KnownHeld
    <3> QED
      BY <3>1, <3>3
  <2>5. st.stack = F.stack
    BY <2>2 DEF Holds
  <2>6. o.k = "call" => \A k \in 1 .. o.n : st.stack[Len(st.stack) + 1 - k] = body.code[Here].args[k]
    BY <2>3, <2>5 DEF Safe, SafeCall
  <2>7. o.k = "fence" /\ o.n > 0 => Len(st.stack) = o.n
    BY <2>3, <2>5 DEF Safe, SafeFence
  <2> QED
    BY <2>4, <2>6, <2>7 DEF o
<1>2. ASSUME todo = <<>>, pos > Len(body.code), NEW v \in body.leave
      PROVE  home[v] = Constant \/ (InReg(v) /\ st.reg[home[v]] = v) \/ (InSlot(v) /\ st.ram[home[v]] = v)
  <2>1. Begun
    BY DEF Begun
  <2>2. pos = Len(body.code) + 1 /\ Here = Len(body.code)
    BY <1>0, <1>2, <2>1 DEF EmissionInvariant, Progress, Here
  <2>3. PICK F \in Annotation, G \in Annotation : Holds(st, F) /\ Ends(body, Here, G) /\ Plan(Here, todo, F, G)
    BY <2>1 DEF EmissionInvariant, Running, OnPlan
  <2>4. F = G
    BY <1>2, <2>3, PlanNothing
  <2>5. v \in LiveAfter(body, Len(body.code))
    BY DEF EmissionInvariant, Blocks, BlockOK, Sound, LiveAfter
  <2>6. AtHome(st, v) /\ v \in Value
    <3>1. v \in G.live
      BY <2>2, <2>3, <2>5 DEF Ends
    <3> QED
      BY <1>0, <2>3, <2>4, <3>1 DEF Holds, Block
  <2>7. {"r2", "r4", "r5", "r7", "r8"} \subseteq Reg
    BY DEF Reg
  <2> QED
    BY <2>6, <2>7 DEF EmissionInvariant, Homed, AtHome, InReg, InSlot
<1> QED
  BY <1>1, <1>2 DEF ValuesArrive

\* Whatever an emitted instruction reads is the value the IR names, and what
\* leaves a block, the loop registers and the caller's frame are in place,
\* whatever reload, move or check the generator's beliefs have elided.
THEOREM ValuesAlwaysArrive == Spec => []ValuesArrive
  BY InitEmission, EmissionStep, EmissionArrives, PTL DEF Spec

\* A store through a pointer reaches its own address with its own value, also
\* when SBK writes back to the address of the latch.
THEOREM StoresAlwaysLand == Spec => []StoresLand
<1>1. EmissionInvariant => StoresLand
  BY DEF EmissionInvariant, Landed, StoresLand
<1> QED
  BY <1>1, InitEmission, EmissionStep, PTL DEF Spec
=============================================================================
