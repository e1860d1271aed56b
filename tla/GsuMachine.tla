------------------------------ MODULE GsuMachine ------------------------------
(***************************************************************************)
(* The GSU as the repository's own instruction-level regression model      *)
(* executes it: a one-byte prefetch pipeline (so the byte after a taken    *)
(* transfer still executes, and an immediate whose opcode sits in that     *)
(* slot takes its operands at the destination), register selectors         *)
(* (TO/WITH/FROM), the ALT prefixes and the four condition flags.          *)
(* The back-end modules use it to say what a byte sequence does.           *)
(***************************************************************************)
EXTENDS Integers, Sequences, FiniteSets, TLC, Bitwise, LeftFold

\* The program bank offset at which the payload is loaded.
Origin == 32768

Word(n) == n % 65536
\* A byte read as a signed displacement or immediate.
Signed(byte) == IF byte < 128 THEN byte ELSE byte - 256

\* Opcode classes shared by the decoder, the scheduler and the exporter.
IsBranch(op) == op \in 5..15
\* Bytes of operand that follow an opcode, whatever the ALT state is.
OperandBytes(op) == IF op >= 240 THEN 2
                    ELSE IF op \in 160..175 \/ IsBranch(op) THEN 1 ELSE 0

\* The n bytes fetched from pc on; a fetch outside the payload is an error.
Fetchable(code, pc, n) == pc >= Origin /\ pc + n <= Origin + Len(code)
Fetch(code, pc, n) == SubSeq(code, pc - Origin + 1, pc - Origin + n)

PowerOn(regs) ==
    [reg |-> [r \in 0..15 |-> IF r = 15 THEN Origin ELSE regs[r]], pipe |-> 1,
     src |-> 0, dst |-> 0, b |-> FALSE, a1 |-> FALSE, a2 |-> FALSE,
     z |-> FALSE, s |-> FALSE, c |-> FALSE, v |-> FALSE, jump |-> FALSE,
     ram |-> <<>>, latch |-> 0, colr |-> 0, fx |-> <<>>, halt |-> "no"]

\* registers_[i] = value; a write to R15 is a transfer.
Write(m, i, value) == [m EXCEPT !.reg[i] = Word(value), !.jump = @ \/ i = 15]
ResetSelectors(m) == [m EXCEPT !.src = 0, !.dst = 0, !.b = FALSE, !.a1 = FALSE, !.a2 = FALSE]
ZeroSign(m, value) == [m EXCEPT !.z = Word(value) = 0, !.s = Word(value) >= 32768]
\* An operation whose result goes to the selected destination and to N and Z.
Result(m, value) == ResetSelectors(ZeroSign(Write(m, m.dst, value), value))
Peek(m, a) == IF a \in DOMAIN m.ram THEN m.ram[a] ELSE 0
Effect(m, e) == [m EXCEPT !.fx = Append(@, e)]

Taken(m, op) ==
    CASE op = 5 -> TRUE
      [] op = 6 -> m.s = m.v  [] op = 7 -> m.s # m.v
      [] op = 8 -> ~m.z       [] op = 9 -> m.z
      [] op = 10 -> ~m.s      [] op = 11 -> m.s
      [] op = 12 -> ~m.c      [] op = 13 -> m.c
      [] op = 14 -> ~m.v      [] op = 15 -> m.v

Branch(m, op, displacement) ==
    IF Taken(m, op) THEN Write(m, 15, m.reg[15] + Signed(displacement)) ELSE m

\* ADD/ADC/SUB/SBC/CMP with a register or a four-bit immediate.
AddSub(m, op) ==
    LET left == m.reg[m.src]
        immediate == m.a2 /\ (op < 96 \/ ~m.a1)
        right == IF immediate THEN op % 16 ELSE m.reg[op % 16]
        raw == IF op < 96 THEN left + right + (IF m.a1 /\ m.c THEN 1 ELSE 0)
               ELSE left - right - (IF m.a1 /\ ~m.a2 /\ ~m.c THEN 1 ELSE 0)
        neg(x) == Word(x) >= 32768
        flags == [m EXCEPT !.c = IF op < 96 THEN raw > 65535 ELSE raw >= 0,
                           !.v = IF op < 96 THEN neg(left) = neg(right) /\ neg(raw) # neg(left)
                                 ELSE neg(left) # neg(right) /\ neg(raw) # neg(left)]
    IN  IF op >= 96 /\ m.a1 /\ m.a2 THEN ResetSelectors(ZeroSign(flags, raw))
        ELSE Result(flags, raw)

\* AND/BIC, OR/XOR and the 8-bit multiplications.
Logical(m, op) ==
    LET left == m.reg[m.src]
        right == IF m.a2 THEN op % 16 ELSE m.reg[op % 16]
        both == left & right
    IN  CASE op \in 113..127 -> Result(m, IF m.a1 THEN left - both ELSE both)
          [] op \in 193..207 -> Result(m, IF m.a1 THEN left + right - 2 * both ELSE left + right - both)
          [] op \in 128..143 -> Result(m, IF m.a1 THEN (left % 256) * (right % 256)
                                          ELSE Signed(left % 256) * Signed(right % 256))

\* LSR, ROL, ASR (DIV2 with ALT1) and ROR: each shifts one bit through carry.
Shift(m, op) ==
    LET x == m.reg[m.src]
        in == IF m.c THEN 1 ELSE 0
        value == CASE op = 3 -> x \div 2
                   [] op = 4 -> 2 * x + in
                   [] op = 150 -> IF m.a1 /\ x = 65535 THEN 0 ELSE x \div 2 + (IF x >= 32768 THEN 32768 ELSE 0)
                   [] op = 151 -> x \div 2 + 32768 * in
    IN  Result([m EXCEPT !.c = IF op = 4 THEN x >= 32768 ELSE x % 2 = 1], value)

\* NOT, SWAP, SEX, LOB, HIB: the byte loads take their sign from bit 7.
Unary(m, op) ==
    LET x == m.reg[m.src]
        byte == IF op = 158 THEN x % 256 ELSE x \div 256
    IN  CASE op = 79 -> Result(m, 65535 - x)
          [] op = 77 -> Result(m, (x % 256) * 256 + x \div 256)
          [] op = 149 -> Result(m, Signed(x % 256))
          [] op \in {158, 192} -> [Result(m, byte) EXCEPT !.s = byte >= 128]

\* LMULT: the high half of the signed product, its low half always to R4.
LongMultiply(m) ==
    LET signed(x) == IF x < 32768 THEN x ELSE x - 65536
        product == signed(m.reg[m.src]) * signed(m.reg[6])
    IN  Result([m EXCEPT !.reg[4] = Word(product)], product \div 65536)

\* LDW/LDB, STW/STB and SBK: a word access touches the byte at address XOR 1;
\* SBK stores a word at the address of the last access, ALT1 or not.
Memory(m, op) ==
    LET a == IF op = 144 THEN m.latch ELSE m.reg[op % 16]
        pair == IF a % 2 = 0 THEN a + 1 ELSE a - 1
        x == m.reg[m.src]
        byte == m.a1 /\ op # 144
        stored == IF byte THEN (a :> x % 256) ELSE (a :> x % 256) @@ (pair :> x \div 256)
        latched == [m EXCEPT !.latch = a]
    IN  ResetSelectors(
          IF op \in 64..75 THEN Write(latched, m.dst, Peek(m, a) + (IF byte THEN 0 ELSE 256 * Peek(m, pair)))
          ELSE Effect([latched EXCEPT !.ram = stored @@ @], <<"store", a, x>>))

\* PLOT (with its increment of R1), RPIX, COLOR/CMODE and the ROM buffer reads.
Graphics(m, op) ==
    CASE op = 76 /\ m.a1 -> Result(Effect(m, <<"rpix", m.reg[1], m.reg[2]>>), 0)
      [] op = 76 -> ResetSelectors([Effect(m, <<"plot", m.reg[1], m.reg[2], m.colr>>)
                                        EXCEPT !.reg[1] = Word(@ + 1)])
      [] op = 78 -> ResetSelectors(IF m.a1 THEN Effect(m, <<"cmode", m.reg[m.src]>>)
                                   ELSE [m EXCEPT !.colr = m.reg[m.src] % 256])
      [] op = 223 -> ResetSelectors(IF ~m.a2 THEN [Effect(m, <<"rom", m.reg[14]>>) EXCEPT !.colr = 149]
                                    ELSE Effect(m, <<"bank", m.a1, m.reg[m.src]>>))
      [] op = 239 -> ResetSelectors(Write(Effect(m, <<"rom", m.reg[14]>>), m.dst,
                         IF m.a1 /\ m.a2 THEN Signed(149)
                         ELSE IF m.a1 THEN (m.reg[m.src] % 256) + 149 * 256
                         ELSE IF m.a2 THEN (m.reg[m.src] \div 256) * 256 + 149 ELSE 149))

\* TO, WITH and FROM: selectors, or the second half of a register copy.
Selector(m, op) ==
    LET r == op % 16 IN
    CASE op \in 16..31 -> IF m.b THEN ResetSelectors(Write(m, r, m.reg[m.src])) ELSE [m EXCEPT !.dst = r]
      [] op \in 32..47 -> [m EXCEPT !.src = r, !.dst = r, !.b = TRUE]
      [] op \in 176..191 -> IF m.b THEN [Result(m, m.reg[r]) EXCEPT !.v = (m.reg[r] \div 128) % 2 = 1]
                            ELSE [m EXCEPT !.src = r]
      [] op \in 61..63 -> [m EXCEPT !.a1 = @ \/ op # 62, !.a2 = @ \/ op # 61, !.b = FALSE]

\* LOOP, LINK and JMP.
Transfer(m, op) ==
    CASE op = 60 -> LET left == ZeroSign([m EXCEPT !.reg[12] = Word(@ - 1)], m.reg[12] - 1)
                    IN  ResetSelectors(IF left.z THEN left ELSE Write(left, 15, m.reg[13]))
      [] op \in 145..148 -> ResetSelectors([m EXCEPT !.reg[11] = Word(m.reg[15] + op - 144)])
      [] op \in 152..157 -> ResetSelectors(Write(m, 15, m.reg[op % 16]))

\* One opcode. An encoding the regression model does not support faults.
Execute(m, op, args) ==
    CASE op = 1 -> ResetSelectors(m)
      [] op = 2 -> ResetSelectors(m)
      [] IsBranch(op) -> Branch(m, op, args[1])
      [] op \in 16..47 \/ op \in 176..191 \/ op \in 61..63 -> Selector(m, op)
      [] op \in 48..59 \/ op \in 64..75 \/ op = 144 -> Memory(m, op)
      [] op = 159 /\ m.a1 -> LongMultiply(m)
      [] op \in {60} \cup 145..148 \/ (op \in 152..157 /\ ~m.a1) -> Transfer(m, op)
      [] op \in {76, 78, 223, 239} -> Graphics(m, op)
      [] op \in 80..111 -> AddSub(m, op)
      [] op \in 113..143 \/ op \in 193..207 -> Logical(m, op)
      [] op \in {3, 4, 150, 151} -> Shift(m, op)
      [] op \in {77, 79, 149, 158, 192} -> Unary(m, op)
      [] op \in 208..222 \/ op \in 224..238 ->
            ResetSelectors(ZeroSign(Write(m, op % 16, m.reg[op % 16] + (IF op < 224 THEN 1 ELSE -1)),
                                    m.reg[op % 16] + (IF op < 224 THEN 1 ELSE -1)))
      [] op \in 160..175 /\ ~m.a1 /\ ~m.a2 -> ResetSelectors(Write(m, op % 16, Signed(args[1])))
      [] op \in 240..255 /\ ~m.a1 /\ ~m.a2 -> ResetSelectors(Write(m, op % 16, args[1] + 256 * args[2]))
      [] OTHER -> [m EXCEPT !.halt = "fault"]

\* One turn of Machine::run: the prefetched byte becomes the opcode, its
\* operands come from the current PC, and the next byte is prefetched. A fetch
\* outside the payload faults at once, also the prefetch behind a STOP.
Step(m, code) ==
    LET op == m.pipe
        n == OperandBytes(op)
        bytes == Fetch(code, m.reg[15], n + 1)
        post == Execute([m EXCEPT !.pipe = bytes[n + 1], !.reg[15] = @ + n], op, bytes)
    IN  IF ~Fetchable(code, m.reg[15], n + 1) THEN [m EXCEPT !.halt = "fault"]
        ELSE IF op = 0 THEN [m EXCEPT !.halt = "stop"]
        ELSE IF post.jump THEN [post EXCEPT !.jump = FALSE]
        ELSE [post EXCEPT !.reg[15] = @ + 1]

Run(m, code, fuel) ==
    LET f[k \in 0..fuel] ==
            IF k = 0 THEN m
            ELSE CHOOSE r \in {IF a.halt = "no" THEN Step(a, code) ELSE a : a \in {f[k - 1]}} : TRUE
    IN  f[fuel]

\* What a caller can see of a finished run: registers other than the link,
\* loop-address and program counters, graphics state and every side effect in
\* order.
Observe(m) ==
    [halt |-> m.halt, regs |-> [r \in (0..14) \ {11, 13} |-> m.reg[r]],
     colr |-> m.colr, fx |-> m.fx]
================================================================================
