---------------------------- MODULE CodeEmission ----------------------------
(***************************************************************************)
(* Emission of one function by discc's O2 code generator.  While it emits, *)
(* the generator relies on four things it believes about the running       *)
(* machine and that nothing in the emitted code repeats:                   *)
(*   copies      GSUSpillCache: a spare register still holds a spilled     *)
(*               value, so that no reload is needed;                       *)
(*   acc         m_accumulator_value: R0 still holds a value;              *)
(*   latch       m_last_ram_word_address: the address SBK writes back to;  *)
(*   credit      GSUStackCheckCredit: the stack pointer is at least this   *)
(*               many bytes above the stack floor, so that no check is     *)
(*               needed.                                                   *)
(* Every emitted instruction is executed as it is emitted, so that beliefs *)
(* and facts live in one state record: the fields above and spare and      *)
(* remaining are the generator's, reg, ram, at, stack, margin and running  *)
(* the machine's.  A location holds the name of a value, or Junk.  Control *)
(* reaches a block or a label along another path too: there the machine    *)
(* forgets what only the straight line guarantees.                         *)
(***************************************************************************)
EXTENDS Integers, Sequences, FiniteSets

CONSTANTS
    Value,        \* SSA values of the function
    Slot,         \* words of the frame that hold spilled values
    Functions,    \* sequences of blocks [code, enter, leave, open, loops]: the
                  \* instructions, the values live on entry and at the end, and
                  \* whether a loop is open and the function has one
    Homes,        \* the locations considered: functions from Value
    FrameWords,   \* words of the frame
    Margins       \* distances of SP from the stack floor considered, in bytes

Junk == "?"
None == "none"
Reg == {"r0", "r1", "r2", "r3", "r4", "r5", "r6", "r7", "r8", "r9", "r11", "r12", "r13"}
\* GSUSpillCache uses the registers no ABI role claims; the allocator lists
\* them in this order.
CacheOrder == <<"r5", "r7", "r8">>
Constant == "literal"       \* the location of a rematerialized constant
MaxCredit == 65535

Instruction == [op : STRING, args : Seq(Value), result : Value \cup {None}, clobbers : SUBSET Reg]
Block == [code : Seq(Instruction), enter : SUBSET Value, leave : SUBSET Value, open : BOOLEAN, loops : BOOLEAN]

ASSUME EmissionAssumption ==
    /\ Functions \subseteq Seq(Block)
    \* A larger frame is refused: "Stack requirement exceeds one bank."
    /\ FrameWords \in Nat /\ 2 * FrameWords + 4 <= MaxCredit
    /\ Margins \subseteq Nat
    /\ (Value \cup Slot) \cap (Reg \cup {Junk, None, Constant}) = {}
    /\ Value \cap Slot = {}

-----------------------------------------------------------------------------
\* What the verifier and the lowering guarantee of the code.
Used(c, i) == {c[i].args[k] : k \in 1 .. Len(c[i].args)}
Defined(c, i) == {c[i].result} \ {None}
Available(b, i) == b.enter \cup UNION {Defined(b.code, j) : j \in 1 .. i}

Shaped(c) ==
    \/ c.op = "constant" /\ Len(c.args) = 0 /\ c.result # None
    \/ c.op \in {"binary", "compare", "divide"} /\ Len(c.args) = 2 /\ c.result # None
    \/ c.op = "load" /\ Len(c.args) = 1 /\ c.result # None
    \/ c.op = "store" /\ Len(c.args) = 2 /\ c.result = None
    \/ c.op = "call"
    \/ c.op \in {"fill", "leave"} /\ Len(c.args) = 0 /\ c.result = None
    \/ c.op \in {"loop", "loop in registers", "return"} /\ Len(c.args) = 1 /\ c.result = None

\* A hardware loop is open after instruction i: its setup saved two words.
Open(b, i) == b.open /\ \A j \in 1 .. i : b.code[j].op # "leave"

\* Operands are available, results are new, what enters is needed; setups and
\* returns end their block, and only an open loop is left.
Sound(b) ==
    /\ \A i \in 1 .. Len(b.code) :
          LET c == b.code[i]
          IN  /\ Shaped(c)
              /\ Used(b.code, i) \subseteq Available(b, i - 1)
              /\ c.result \notin Available(b, i - 1)
              /\ c.op \in {"loop", "loop in registers", "return"} => i = Len(b.code)
              /\ c.op = "leave" => Open(b, i - 1)
              /\ c.op \in {"loop", "loop in registers", "leave"} => b.loops
    /\ \A v \in b.enter : v \in b.leave \/ \E i \in 1 .. Len(b.code) : v \in Used(b.code, i)
    /\ b.leave \subseteq Available(b, Len(b.code))

ASSUME CodeAssumption == \A f \in Functions : \A k \in 1 .. Len(f) : Sound(f[k])

VARIABLES rest, body, home, pos, todo, st

vars == <<rest, body, home, pos, todo, st>>

InReg(v) == home[v] \in Reg
InSlot(v) == home[v] \in Slot

-----------------------------------------------------------------------------
\* Liveness inside the block: what is used later or leaves the block.
LiveAfter(b, i) ==
    {v \in Available(b, i) :
        v \in b.leave \/ \E j \in i + 1 .. Len(b.code) : v \in Used(b.code, j)}

\* Mutant: the operands of an instruction are not busy while it is emitted.
Busy_AfterOnly(b, i) == LiveAfter(b, i) \cup Defined(b.code, i)
\* What runGlobal takes as busy at an instruction, and the registers left over.
Busy(b, i) == LiveAfter(b, i) \cup Used(b.code, i) \cup Defined(b.code, i)
spareRegisters(b, h, i) == {CacheOrder[n] : n \in 1 .. 3} \ {h[v] : v \in Busy(b, i)}

\* A register or a slot is never shared by values live at the same point (what
\* the allocator guarantees: RegisterAllocator).
Proper(b, h) ==
    /\ \A i \in 1 .. Len(b.code) : b.code[i].result # None /\ h[b.code[i].result] = Constant => b.code[i].op = "constant"
    /\ \A i \in 0 .. Len(b.code) : \A v, w \in LiveAfter(b, i) \cup (IF i = 0 THEN {} ELSE Defined(b.code, i)) :
           v # w /\ h[v] # Constant => h[v] # h[w]

\* Division claims R2 and R4, a hardware loop R4.
allocatableRegisters(f) ==
    LET division == \E k \in 1 .. Len(f) : \E i \in 1 .. Len(f[k].code) : f[k].code[i].op = "divide"
        hardware_loop == \E k \in 1 .. Len(f) : f[k].loops
    IN  {"r5", "r7", "r8"} \cup (IF division THEN {} ELSE {"r2"})
                           \cup (IF division \/ hardware_loop THEN {} ELSE {"r4"})

LiveAcrossCall(b, i) == {v \in LiveAfter(b, i) \ Defined(b.code, i) : home[v] # Constant}

-----------------------------------------------------------------------------
\* The generator's bookkeeping.
Find(s, v) == {r \in Reg : s.copies[r] = v}
Choosable(s) == {n \in 1 .. 3 : /\ CacheOrder[n] \in s.spare
                               /\ \/ s.copies[CacheOrder[n]] = None
                                  \/ s.remaining[s.copies[CacheOrder[n]]] = 0}
Choose(s) == CacheOrder[CHOOSE n \in Choosable(s) : \A m \in Choosable(s) : n <= m]
NoCopies == [r \in Reg |-> None]
Clear(s) == [s EXCEPT !.copies = NoCopies, !.spare = {}]
Enter(s, spare) ==
    [s EXCEPT !.spare = spare, !.copies = [r \in Reg |-> IF r \in spare THEN s.copies[r] ELSE None]]

decrease(credit, bytes) == IF bytes > credit THEN 0 ELSE credit - bytes
increase(credit, bytes) == IF credit + bytes > MaxCredit THEN MaxCredit ELSE credit + bytes

-----------------------------------------------------------------------------
\* A register is written: its copy and, for R0, its snapshot are gone.
Write(s, r, v) ==
    [s EXCEPT !.reg[r] = v, !.copies[r] = None, !.acc = IF r = "r0" THEN None ELSE s.acc]
emitMove(s, to, from) == Write(s, to, s.reg[from])
Snapshot(s, v) == [s EXCEPT !.acc = v]

\* A check is emitted unless the credit covers it; it uses R3 and stops the
\* machine when the stack is too low.
emitStackGuard(s, required) ==
    IF required <= s.credit THEN s
    ELSE IF s.margin < required THEN [s EXCEPT !.running = FALSE]
    ELSE [Write(s, "r3", Junk) EXCEPT !.acc = None,
             !.credit = IF required > MaxCredit THEN MaxCredit ELSE required]

\* Stack traffic moves SP and is a RAM access of its own.
Resize(s, stack, margin, credit) ==
    [s EXCEPT !.stack = stack, !.margin = margin, !.at = Junk, !.latch = None, !.acc = None, !.credit = credit]
emitPush(s, r) ==
    LET g == emitStackGuard(s, 2)
    IN  IF g.running THEN Resize(g, Append(g.stack, g.reg[r]), g.margin - 2, decrease(g.credit, 2)) ELSE g
emitPop(s, r) ==
    Resize(Write(s, r, s.stack[Len(s.stack)]), SubSeq(s.stack, 1, Len(s.stack) - 1),
           s.margin + 2, increase(s.credit, 2))

\* Arguments are dropped after a call, the frame is claimed on entry.
DropWords(s, n) ==
    [s EXCEPT !.stack = SubSeq(s.stack, 1, Len(s.stack) - n), !.margin = s.margin + 2 * n,
              !.credit = increase(s.credit, 2 * n), !.acc = IF n = 0 THEN s.acc ELSE None]
ClaimFrame(s, n) ==
    [s EXCEPT !.stack = s.stack \o [k \in 1 .. n |-> Junk], !.margin = s.margin - 2 * n,
              !.credit = decrease(s.credit, 2 * n), !.acc = IF n = 0 THEN s.acc ELSE None]

\* The frame word of a spilled value: built in R3, or written back by SBK when
\* the latch still names it.
SpillLoad(s, v) ==
    [Write(Write(s, "r3", Junk), "r0", s.ram[home[v]]) EXCEPT !.at = home[v], !.latch = home[v]]
emitWordSpillStore(s, v, from) ==
    IF s.latch = home[v] THEN [s EXCEPT !.ram[s.at] = s.reg[from]]
    ELSE [Write(s, "r3", Junk) EXCEPT !.ram[home[v]] = s.reg[from], !.at = home[v], !.latch = home[v]]

retainSpillCopy(s, v, least) ==
    IF s.remaining[v] < least \/ Find(s, v) # {} \/ Choosable(s) = {} THEN s
    ELSE [emitMove(s, Choose(s), "r0") EXCEPT !.copies[Choose(s)] = v]

\* A value that already exists is brought to R0.
materialize(s, v) ==
    IF s.acc = v THEN s
    ELSE Snapshot(
           IF home[v] = Constant THEN Write(s, "r0", v)
           ELSE IF InReg(v) THEN emitMove(s, "r0", home[v])
           ELSE IF Find(s, v) # {} THEN emitMove(s, "r0", CHOOSE r \in Find(s, v) : TRUE)
           ELSE retainSpillCopy(SpillLoad(s, v), v, 1), v)

\* A value just computed in R0 goes to its location.
Define(s, v) ==
    Snapshot(IF InReg(v) THEN emitMove(s, home[v], "r0")
             ELSE retainSpillCopy(emitWordSpillStore(s, v, "r0"), v, 2), v)

\* STW through a pointer; ghost field: what the program asked to be there.
StoreWord(s, pointer, from, a, v) ==
    [s EXCEPT !.ram[s.reg[pointer]] = s.reg[from], !.at = s.reg[pointer], !.latch = a,
              !.acc = None, !.written[a] = v]
\* Mutant: the latch is tested before the value is brought to R0.
emitStoreIndirect_TestEarly(s, a, v) ==
    LET s1 == IF InReg(v) THEN s ELSE materialize(s, v)
        s2 == IF InReg(v) THEN s1 ELSE emitMove(s1, "r6", "r0")
    IN  IF s.latch = a
        THEN [s1 EXCEPT !.ram[s1.at] = s1.reg[IF InReg(v) THEN home[v] ELSE "r0"],
                        !.acc = None, !.written[a] = v]
        ELSE IF InReg(a) THEN StoreWord(s1, home[a], IF InReg(v) THEN home[v] ELSE "r0", a, v)
        ELSE StoreWord(materialize(s2, a), "r0", IF InReg(v) THEN home[v] ELSE "r6", a, v)
emitStoreIndirect(s, a, v) ==
    LET s1 == IF InReg(v) THEN s ELSE materialize(s, v)
        s2 == IF InReg(v) THEN s1 ELSE emitMove(s1, "r6", "r0")
    IN  IF s1.latch = a
        THEN [s1 EXCEPT !.ram[s1.at] = s1.reg[IF InReg(v) THEN home[v] ELSE "r0"],
                        !.acc = None, !.written[a] = v]
        ELSE IF InReg(a) THEN StoreWord(s1, home[a], IF InReg(v) THEN home[v] ELSE "r0", a, v)
        ELSE StoreWord(materialize(s2, a), "r0", IF InReg(v) THEN home[v] ELSE "r6", a, v)

\* At a label another path joins: the registers in lost and the distance from
\* the floor are what that path left.
Joined(s, lost, margin) ==
    [s EXCEPT !.reg = [r \in Reg |-> IF r \in lost THEN Junk ELSE s.reg[r]],
              !.at = Junk, !.margin = margin]
bindLabel(s, lost, margin) ==
    [Clear(Joined(s, lost, margin)) EXCEPT !.acc = None, !.latch = None, !.credit = 0]

\* Setup of a hardware loop that saves R12 and R13 in registers: one check for
\* both pushes, and on a low stack the pushes of the general path, the second
\* of which stops the machine.
emitHardwareLoopCapacityGuard(s, lost, margin) ==
    LET p == emitPush(Write(s, "r3", Junk), "r12")
        g == IF p.running THEN emitStackGuard(p, 2) ELSE p
    IN  IF s.credit >= 4 THEN s
        ELSE IF s.margin >= 4 THEN bindLabel(Write(s, "r3", Junk), lost, margin)
        ELSE IF g.running THEN bindLabel(g, lost, margin) ELSE g

-----------------------------------------------------------------------------
\* What one instruction emits, as a list of operations.  "needs" is what the
\* emitted instruction reads: the locations and the values meant to be there.
O(k) == [k |-> k, a |-> None, b |-> None, n |-> 0, needs |-> {}, regs |-> {}]
Use(v) == [O("use") EXCEPT !.a = v]
Move(to, from) == [O("move") EXCEPT !.a = to, !.b = from]
Scratch(r) == [O("scratch") EXCEPT !.a = r]
Result(v, needs) == [O("result") EXCEPT !.a = v, !.needs = needs]
Read(needs) == [O("read") EXCEPT !.needs = needs]
Direct(v, needs) == [O("direct") EXCEPT !.a = v, !.needs = needs]
Push(r) == [O("push") EXCEPT !.a = r]
Pop(r) == [O("pop") EXCEPT !.a = r]
Label == O("label")
Finish(v) == <<[O("define") EXCEPT !.a = v]>>

emitBinaryOperands(l, r) ==
    IF InReg(r) THEN <<Use(l), Move("r1", home[r])>>
    ELSE <<Use(r), Move("r6", "r0"), Use(l), Move("r1", "r6")>>
Both(l, r) == {<<"r0", l>>, <<"r1", r>>}

\* An operation on allocated registers never passes through R0.
emitBinary(v, l, r) ==
    IF InReg(v) /\ InReg(l) /\ InReg(r)
    THEN <<Direct(v, {<<home[l], l>>, <<home[r], r>>})>>
    ELSE IF InReg(v) /\ InReg(l) /\ InSlot(r)
    THEN <<Use(r), Direct(v, {<<home[l], l>>, <<"r0", r>>})>>
    ELSE emitBinaryOperands(l, r) \o <<Result(v, Both(l, r))>> \o Finish(v)

emitScalarComparison(v, l, r) ==
    (IF InReg(l) /\ InReg(r) THEN <<Result(v, {<<home[l], l>>, <<home[r], r>>})>>
     ELSE IF InReg(l) THEN <<Use(r), Result(v, {<<home[l], l>>, <<"r0", r>>})>>
     ELSE IF InReg(r) THEN <<Use(l), Result(v, {<<"r0", l>>, <<home[r], r>>})>>
     ELSE <<Use(r), Move("r6", "r0"), Use(l), Result(v, {<<"r0", l>>, <<"r6", r>>})>>)
    \o <<O("fence")>> \o Finish(v)

\* Signed division: the divisor waits in R4 because every stack check uses R3.
emitDivision(v, l, r) ==
    emitBinaryOperands(l, r)
    \o <<Move("r4", "r1"), Move("r3", "r4"), Move("r1", "r0"), Scratch("r6")>>
    \o <<Move("r4", "r3"), Scratch("r0"), Push("r0"), Move("r3", "r4")>>
    \o <<Scratch("r0"), Push("r0"), Move("r3", "r4")>>
    \o <<Label, Scratch("r2"), Scratch("r4"), Label>>
    \o <<Read({<<"r1", l>>, <<"r3", r>>}), Pop("r6"), Pop("r3")>>
    \o <<Scratch("r4"), Label, Result(v, {})>>
    \o Finish(v)

emitLoadIndirect(v, a) ==
    LET load(from, to) == [O("load") EXCEPT !.a = v, !.b = to, !.needs = {<<from, a>>}]
    IN  IF InReg(v) THEN (IF InReg(a) THEN <<>> ELSE <<Use(a)>>)
                         \o <<load(IF InReg(a) THEN home[a] ELSE "r0", home[v])>>
        ELSE <<Use(a), load("r0", "r0")>> \o Finish(v)

\* R12 and R13 belong to the innermost hardware loop; an open one has saved
\* those of the loop around it.  A function with loops goes on with its own.
Counter(open) == IF open THEN "inner count" ELSE "count"
LoopHead(open) == IF open THEN "inner head" ELSE "head"
LoopRegisters(open) ==
    IF body.loops THEN <<Read({<<"r12", Counter(open)>>, <<"r13", LoopHead(open)>>})>> ELSE <<>>

\* Registers that hold a value across the call and that the callee clobbers.
SavedForCall(i, r) ==
    IF r \in body.code[i].clobbers /\ \E v \in LiveAcrossCall(body, i) : home[v] = r THEN <<r>> ELSE <<>>
saveLiveRegistersForCall(i) ==
    SavedForCall(i, "r2") \o SavedForCall(i, "r4") \o SavedForCall(i, "r5") \o SavedForCall(i, "r7")
      \o SavedForCall(i, "r8")
Reversed(s) == [k \in 1 .. Len(s) |-> s[Len(s) + 1 - k]]
Spread(s, Op(_)) == [k \in 1 .. Len(s) |-> Op(s[k])]

emitCall(i) ==
    LET c == body.code[i]
        saved == saveLiveRegistersForCall(i)
        loop == IF body.loops /\ c.clobbers \cap {"r12", "r13"} # {} THEN <<"r12", "r13">> ELSE <<>>
        arguments == [k \in 1 .. 2 * Len(c.args) |->
                        IF k % 2 = 1 THEN Use(c.args[Len(c.args) - (k \div 2)]) ELSE Push("r0")]
    IN  <<O("clear")>> \o Spread(saved \o loop, Push) \o arguments
        \o <<[O("call") EXCEPT !.a = c.result, !.n = Len(c.args), !.regs = c.clobbers],
             O("drop")>>
        \o Spread(Reversed(saved \o loop), Pop)
        \o LoopRegisters(Open(body, i))
        \o (IF c.result = None THEN <<>> ELSE Finish(c.result))

\* A loop's setup ends its block; a save in registers is taken only when
\* nothing in the loop needs R4 and R6.
emitHardwareLoop(count, inRegisters, open) ==
    (IF inRegisters THEN <<O("capacity"), Use(count), Move("r4", "r12"), Move("r6", "r13")>>
     ELSE <<Push("r12"), Push("r13"), Use(count)>>)
    \o <<[Move("r12", "r0") EXCEPT !.needs = {<<"r0", count>>}], Scratch("r13"),
         [O("fence") EXCEPT !.n = 2 + FrameWords + (IF open THEN 2 ELSE 0) + (IF inRegisters THEN 0 ELSE 2),
            !.needs = IF inRegisters THEN {<<"r4", Counter(open)>>, <<"r6", LoopHead(open)>>} ELSE {}]>>

emitMemoryInitialize(open) ==
    <<O("clear"), Push("r12"), Push("r13")>>
    \o <<Scratch("r0"), Scratch("r3"), Scratch("r12"), Scratch("r13")>>
    \o <<Scratch("r0"), Label>>
    \o <<Pop("r13"), Pop("r12"), O("clear")>> \o LoopRegisters(open)

emitFunctionEpilogue(v) ==
    <<Use(v), [Label EXCEPT !.a = v], O("unwind"), Pop("r9"), Pop("r11"),
      [O("fence") EXCEPT !.needs = {<<"r9", "caller">>, <<"r11", "link">>, <<"r0", v>>}]>>

\* Everything one instruction emits.
Emitted(i) ==
    LET c == body.code[i] x(k) == c.args[k]
    IN  CASE c.op = "constant" -> IF home[c.result] = Constant THEN <<>>
                                  ELSE IF InReg(c.result) THEN <<Direct(c.result, {})>>
                                  ELSE <<Result(c.result, {})>> \o Finish(c.result)
          [] c.op = "binary" -> emitBinary(c.result, x(1), x(2))
          [] c.op = "compare" -> emitScalarComparison(c.result, x(1), x(2))
          [] c.op = "divide" -> emitDivision(c.result, x(1), x(2))
          [] c.op = "load" -> emitLoadIndirect(c.result, x(1))
          [] c.op = "store" -> <<[O("store") EXCEPT !.a = x(1), !.b = x(2)]>>
          [] c.op = "call" -> emitCall(i)
          [] c.op = "fill" -> emitMemoryInitialize(Open(body, i))
          [] c.op = "loop" -> emitHardwareLoop(x(1), FALSE, Open(body, i))
          [] c.op = "loop in registers" -> emitHardwareLoop(x(1), TRUE, Open(body, i))
          [] c.op = "leave" -> <<Pop("r13"), Pop("r12")>> \o LoopRegisters(FALSE)
          [] c.op = "return" -> emitFunctionEpilogue(x(1))

-----------------------------------------------------------------------------
Here == pos - 1
\* Registers another path to a label of the current instruction may have used.
Unowned == spareRegisters(body, home, Here)
Op == Head(todo)
Doing(k) == st.running /\ todo # <<>> /\ Op.k = k
Then(s) == st' = s /\ todo' = Tail(todo) /\ UNCHANGED <<rest, body, home, pos>>

Count(c, v) ==
    Cardinality({p \in (1 .. Len(c)) \X (1 .. 4) : p[2] <= Len(c[p[1]].args) /\ c[p[1]].args[p[2]] = v})

Start(margin) ==
    [copies |-> NoCopies, spare |-> {}, remaining |-> [v \in Value |-> 0], acc |-> None, latch |-> None,
     credit |-> 0,
     reg |-> [r \in Reg |-> CASE r = "r9" -> "caller" [] r = "r11" -> "link" [] r = "r12" -> "count"
                              [] r = "r13" -> "head" [] OTHER -> Junk],
     ram |-> [l \in Slot \cup Value |-> Junk], at |-> Junk, stack |-> <<>>, margin |-> margin,
     running |-> TRUE, written |-> [v \in Value |-> Junk]]

Init ==
    /\ rest \in Functions /\ home \in Homes
    /\ \A v \in Value : home[v] \in allocatableRegisters(rest) \cup Slot \cup {Constant}
    /\ \A k \in 1 .. Len(rest) : Proper(rest[k], home)
    /\ body = [code |-> <<>>, enter |-> {}, leave |-> {}, open |-> FALSE, loops |-> FALSE]
    /\ pos = 0 /\ todo = <<>>
    /\ \E m \in Margins : st = Start(m)

\* The prologue: one check for the frame and the two saved registers.
prologue(s) ==
    LET g == emitStackGuard(s, 2 * FrameWords + 4)
        saved == emitPush(emitPush(g, "r11"), "r9")
    IN  IF g.running THEN ClaimFrame(Write(saved, "r9", "frame"), FrameWords) ELSE g
EmitPrologue ==
    /\ st.running /\ pos = 0 /\ pos' = 1
    /\ st' = prologue(st)
    /\ UNCHANGED <<rest, body, home, todo>>

\* What the machine holds on arrival at a block, along whichever edge: the
\* values live there, the frame and the words of an open loop.
Arrived(s, b, margin) ==
    LET held(l) == CHOOSE v \in b.enter : home[v] = l
        holds(l) == \E v \in b.enter : home[v] = l
    IN  [s EXCEPT
            !.reg = [r \in Reg |-> IF holds(r) THEN held(r) ELSE IF r = "r9" THEN "frame"
                                   ELSE IF r = "r12" THEN Counter(b.open)
                                   ELSE IF r = "r13" THEN LoopHead(b.open) ELSE Junk],
            !.ram = [l \in Slot \cup Value |-> IF holds(l) THEN held(l) ELSE Junk],
            !.written = [v \in Value |-> Junk],
            !.stack = <<"link", "caller">> \o [k \in 1 .. FrameWords |-> Junk]
                        \o (IF b.open THEN <<"count", "head">> ELSE <<>>),
            !.at = Junk, !.margin = margin]

\* Mutant: the credit of the block emitted before is carried into the next.
emitBlock_KeepCredit(s, b) ==
    [Clear(s) EXCEPT !.remaining = [v \in Value |-> Count(b.code, v)], !.acc = None, !.latch = None]
\* The generator starts a block knowing nothing.
emitBlock(s, b) ==
    [Clear(s) EXCEPT !.remaining = [v \in Value |-> Count(b.code, v)],
                     !.acc = None, !.latch = None, !.credit = 0]

EnterBlock ==
    /\ st.running /\ todo = <<>> /\ pos > Len(body.code) /\ rest # <<>>
    /\ body' = Head(rest) /\ rest' = Tail(rest) /\ pos' = 1
    /\ \E m \in Margins : st' = Arrived(emitBlock(st, Head(rest)), Head(rest), m)
    /\ UNCHANGED <<home, todo>>

\* The next instruction: spare registers, and one use fewer of its operands.
BeginInstruction ==
    /\ st.running /\ todo = <<>> /\ pos \in 1 .. Len(body.code)
    /\ st' = [Enter(st, spareRegisters(body, home, pos)) EXCEPT
                 !.remaining = [v \in Value |-> st.remaining[v] - Count(<<body.code[pos]>>, v)]]
    /\ todo' = Emitted(pos)
    /\ pos' = pos + 1
    /\ UNCHANGED <<rest, body, home>>

\* One emitted operation.
EmitUse == Doing("use") /\ Then(materialize(st, Op.a))
EmitMove == Doing("move") /\ Then(emitMove(st, Op.a, Op.b))
EmitScratch == Doing("scratch") /\ Then([Write(st, Op.a, Junk) EXCEPT !.acc = None])
EmitRead == Doing("read") /\ Then(Snapshot(st, None))
EmitResult == Doing("result") /\ Then(Write(st, "r0", Op.a))
EmitDirect == Doing("direct") /\ Then(Snapshot(Write(st, home[Op.a], Op.a), None))
EmitDefine == Doing("define") /\ Then(Define(st, Op.a))
EmitPush == Doing("push") /\ Then(emitPush(st, Op.a))
EmitPop == Doing("pop") /\ Then(emitPop(st, Op.a))
EmitClear == Doing("clear") /\ Then([Clear(st) EXCEPT !.latch = None, !.acc = None])
EmitFence == Doing("fence") /\ Then([st EXCEPT !.credit = 0])
EmitLoad ==
    Doing("load") /\ Then([Write(st, Op.b, Op.a) EXCEPT
        !.acc = None, !.latch = body.code[Here].args[1], !.at = body.code[Here].args[1]])
EmitStore == Doing("store") /\ Then(emitStoreIndirect(st, Op.a, Op.b))
EmitDrop == Doing("drop") /\ Then(DropWords(st, Len(body.code[Here].args)))
EmitLabel ==
    /\ Doing("label")
    /\ \E m \in Margins :
           Then(bindLabel(st, Unowned \cup (IF Op.a = None THEN {"r0"} ELSE {}), m))
EmitCapacity ==
    Doing("capacity") /\ \E m \in Margins : Then(emitHardwareLoopCapacityGuard(st, Unowned, m))
\* The epilogue takes SP back from FP, above the frame and an open loop's words.
EmitUnwind ==
    Doing("unwind") /\ Then([st EXCEPT !.stack = SubSeq(st.stack, 1, 2), !.credit = 0, !.acc = None,
                                       !.margin = st.margin + 2 * FrameWords + (IF Open(body, Here) THEN 4 ELSE 0)])
\* The callee keeps SP and FP, clobbers what its mask says and may write
\* through any pointer.
EmitCall ==
    Doing("call") /\ Then([st EXCEPT
        !.reg = [r \in Reg |-> IF r = "r0" /\ Op.a # None THEN Op.a
                               ELSE IF r \in Op.regs \cup {"r0", "r1", "r3", "r6", "r11"} THEN Junk
                               ELSE st.reg[r]],
        !.ram = [l \in Slot \cup Value |-> IF l \in Slot THEN st.ram[l] ELSE Junk],
        !.written = [v \in Value |-> Junk],
        !.at = Junk, !.latch = None, !.acc = None, !.credit = 0])

Emit == EmitUse \/ EmitMove \/ EmitScratch \/ EmitRead \/ EmitResult
          \/ EmitDirect \/ EmitDefine \/ EmitPush \/ EmitPop \/ EmitClear \/ EmitFence \/ EmitLoad
          \/ EmitStore \/ EmitDrop \/ EmitLabel \/ EmitCapacity \/ EmitUnwind \/ EmitCall

Next == EmitPrologue \/ EnterBlock \/ BeginInstruction \/ Emit
Spec == Init /\ [][Next]_vars

-----------------------------------------------------------------------------
\* Every push was checked: the stack pointer never passes the floor the linker
\* set, although most checks are elided on the strength of the credit.
StackNeverOverrun == st.margin >= 0

\* Whatever an emitted instruction reads is the value the IR names, wherever
\* the generator believed it to be: in its register, in R0 from an earlier use,
\* in a cached copy, in a frame word or on the stack across a call; and what
\* leaves the block, the loop registers and the caller's frame are in place.
ValuesArrive ==
    st.running =>
        /\ todo # <<>> =>
            /\ \A need \in Op.needs : st.reg[need[1]] = need[2]
            /\ Op.k = "call" => \A k \in 1 .. Op.n : st.stack[Len(st.stack) + 1 - k] = body.code[Here].args[k]
            /\ Op.k = "fence" /\ Op.n > 0 => Len(st.stack) = Op.n
        /\ todo = <<>> /\ pos > Len(body.code) =>
            \A v \in body.leave : \/ home[v] = Constant
                                  \/ InReg(v) /\ st.reg[home[v]] = v
                                  \/ InSlot(v) /\ st.ram[home[v]] = v

\* A store through a pointer reaches its own address with its own value, also
\* when SBK writes back to the last address instead of naming one.
StoresLand == \A a \in Value : st.ram[a] = st.written[a]
=============================================================================
