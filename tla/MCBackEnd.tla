------------------------------- MODULE MCBackEnd -------------------------------
(***************************************************************************)
(* Jobs for BackEnd.tla: generated objects built from small gadgets around *)
(* one transfer, every opcode under every prefix for the listing, every    *)
(* instruction form for the assembler, and sources whose branches sit on   *)
(* both sides of the short range, so that relaxing one pushes out another. *)
(***************************************************************************)
EXTENDS BackEnd

Fuel_MC == 70
Inputs_MC == {[r \in 0..15 |-> IF r = 12 THEN 2 ELSE IF r = 1 THEN a ELSE IF r = 14 THEN 40000 ELSE 3 * r + 1] : a \in {7, 65535}}

\* Gadgets: bytes, a branch with its slot, or an absolute literal; targets are
\* positions in the gadget list.
B(bytes) == [kind |-> "bytes", bytes |-> bytes, to |-> 0]
Br(op, to) == [kind |-> "branch", bytes |-> <<op, 0, 1>>, to |-> to]
Abs(r, to) == [kind |-> "abs", bytes |-> <<240 + r, 0, 0>>, to |-> to]
\* n bytes of work on R5, in few instructions.
Filler(n) == [i \in 1..n |-> IF i > n - (n % 3) THEN 1 ELSE IF i % 3 = 1 THEN 245 ELSE 0]

PrivateAt(n) == [private |-> TRUE, base |-> <<"block", n>>]
PublicNamed(n) == [private |-> FALSE, base |-> <<"f", n>>]

Object(gadgets, public, level, hint) ==
    LET start == Starts(gadgets)
        resolved(n) == IF gadgets[n].kind = "branch"
                       THEN [gadgets[n].bytes EXCEPT ![2] = (start[gadgets[n].to] - (start[n] + 2)) % 256]
                       ELSE gadgets[n].bytes
        absolute == {n \in DOMAIN gadgets : gadgets[n].kind = "abs"}
    IN  [code |-> Accumulate(LAMBDA a, n : a \o resolved(n), <<>>, [n \in DOMAIN gadgets |-> n]), data |-> <<9, 8>>, ram |-> <<>>,
         syms |-> {[name |-> PrivateAt(gadgets[n].to), section |-> "CODE", off |-> start[gadgets[n].to]] : n \in absolute} \cup
                  {[name |-> PublicNamed(n), section |-> "CODE", off |-> start[n]] : n \in public},
         rels |-> {[sym |-> PrivateAt(gadgets[n].to), section |-> "CODE", off |-> start[n], type |-> "ADDR16_IWT"] : n \in absolute},
         hint |-> hint, level |-> level, config |-> DefaultConfig]
Generated(object) == [kind |-> "generated", object |-> object, lines |-> <<>>]

\* Straight-line work in front of a transfer.
Work == {<<209>>, <<227>>, <<76>>, <<34, 19>>, <<34, 179>>, <<164, 200>>, <<244, 1, 2>>, <<181, 86>>, <<22, 181, 102>>,
         <<177, 63, 98>>, <<3>>, <<223>>, <<20, 239>>, <<223, 76, 213>>, <<20, 239, 211>>, <<223, 37, 62, 83>>, <<66, 61, 159, 144>>, <<78>>, <<2>>, <<1>>}
Compare == B(<<1, 177, 63, 98>>)
\* What stands at the target of the transfer, and after it.
Targets == {<<213>>, <<164, 5>>, <<244, 5, 0>>, <<181, 86>>, <<36, 62, 83>>, <<22, 181, 102>>, <<1>>}
\* What lies between: the fault path, more work, nothing.
FaultPath == <<160, 3, 0, 1>>
Middles == {<<213>>, <<>>}
End == B(<<0, 1>>)

\* work; Bcc target; middle; target; end - every branch over the fault path, one
\* for each group of flags over the rest - with and without a BRA in the middle.
BranchJobs ==
    {Object(<<Compare, B(w), Br(op, 5), B(FaultPath), B(t), End>>, {1}, "O2", FALSE) :
        w \in Work, op \in 5..15, t \in Targets} \cup
    {Object(<<Compare, B(w), Br(op, 5), B(m), B(t), End>>, {1}, "O2", FALSE) :
        w \in Work, op \in {5, 7, 9, 12, 15}, m \in Middles, t \in Targets} \cup
    {Object(<<Compare, B(w), Br(op, 5), Br(5, 7), B(<<213>>), End, B(t), End>>, {1}, "O2", FALSE) :
        w \in Work, op \in {8, 13}, t \in Targets}
\* work; IWT R15 / LINK; IWT R15 / JMP / BRA to a block that jumps on.
JumpJobs ==
    {Object(<<B(<<2>>), B(w), Abs(15, 6), B(<<1>>), End, B(t), Br(op, 5), End>>, {1}, level, FALSE) :
        w \in Work, t \in Targets, op \in {5, 9}, level \in {"O2", "Os"}} \cup
    {Object(<<Compare, B(w), B(<<148>>), Abs(15, 7), B(<<1>>), End, B(t), B(<<155, 1>>)>>, {1, 7}, "O2", FALSE) :
        w \in Work, t \in Targets} \cup
    {Object(<<Compare, Abs(11, 6), B(w), B(<<155, 1>>), End, B(t), End>>, {}, "O2", FALSE) : w \in Work, t \in Targets}
\* A LOOP whose body is one gadget, or one gadget and a PLOT.
LoopJobs ==
    {Object(<<B(<<1>>), Abs(13, 4), B(e), B(w), B(<<60, 1>>), B(t), End>>, public, "O2", FALSE) :
        e \in {<<>>, <<1>>, <<2>>, <<22>>}, w \in Work, t \in {<<1>>, <<76>>}, public \in {{}, {4}}}
\* An entry INC before a BRA, reached by a branch or a jump; CACHE opcodes in an
\* aligned object; a fallthrough into a branch target.
EntryJobs ==
    {Object(<<Compare, Br(op, 4), B(<<164, 7>>), B(w), Br(5, 7), End, B(t), End>>, public, "O2", FALSE) :
        op \in {5, 8}, w \in {<<209>>, <<2>>, <<1>>, <<34, 19>>}, t \in Targets, public \in {{}, {4}}} \cup
    {Object(<<B(<<1, 2>>), B(w), B(<<2>>), B(t), B(<<2>>), B(Filler(n)), B(<<2>>), End>>, {}, level, TRUE) :
        w \in {<<209>>, <<34, 19>>, <<181>>}, t \in {<<213>>, <<181, 86>>}, n \in {1, 9}, level \in {"O2", "Os"}}
\* An immediate that only an unconditional branch reaches.
SplitJobs ==
    {Object(<<Compare, B(w), Br(op, 6), B(<<164, 7>>), B(m), B(t), End>>, public, level, hint) :
        w \in {<<1>>, <<209>>, <<181>>}, op \in {5, 9}, m \in {<<0>>, <<>>, <<1>>}, t \in Targets, public \in {{}, {6}}, level \in {"O2", "Os"}, hint \in BOOLEAN} \cup
    {Object(<<Compare, Br(op, 4), B(m), B(t), End>>, {}, "O2", FALSE) : op \in {5, 9}, m \in {<<0>>, <<>>, <<1>>}, t \in Targets} \cup
    \* the object of GSUMachineSchedulerTests.cpp
    {Object(<<B(<<1>>), Br(5, 3), B(<<165, 9>>), End>>, {}, "O2", FALSE)}
\* Jumps at the edge of the short range, and function-entry padding that would
\* push a branch out of range.
RangeJobs ==
    {Object(<<B(<<1>>), Abs(15, 5), B(<<209>>), B(Filler(n)), B(t), Br(back, 3 + k), End, B(<<2>>), End>>, public, "O2", FALSE) :
        n \in 118..124, t \in {<<1>>, <<164, 5>>}, back \in {9}, k \in {1, 2}, public \in {{8}, {2, 8}}} \cup
    {Object(<<Compare, Br(8, 6), B(<<0, 1>>), B(<<2>>), B(Filler(n)), B(<<213>>), End>>, {4}, "O2", FALSE) : n \in 108..123} \cup
    {Object(<<B(<<1>>), Abs(15, 7), B(<<1>>), Abs(15, 8), B(<<1>>), B(Filler(n)), B(<<213, 0, 1>>), B(<<227>>), End>>, {1, 4}, "O2", FALSE) :
        n \in 116..126}

\* Every opcode under every prefix in unscheduled objects, and
\* labels and relocations around and inside prefix pairs.
Pad(op) == [i \in 1..OperandBytes(op) |-> IF IsBranch(op) THEN 0 ELSE 16 * i + 4]
ListingJobs ==
    {Object(<<B(p \o <<op>> \o Pad(op)), End>>, public, "O0", hint) :
        p \in {<<>>, <<61>>, <<62>>, <<63>>}, op \in 0..255, public \in {{1}}, hint \in {FALSE}} \cup
    {Object(<<B(p), B(<<q>>), B(<<op>>), B(<<209>>), Abs(15, n), End>>, {2}, "O1", TRUE) :
        p \in {<<1>>, <<61>>, <<63>>}, q \in {61, 62, 37, 176}, op \in {80, 97, 113, 128, 50, 66, 76, 223, 150}, n \in {2, 3, 4}} \cup
    {[Object(<<B(<<209>>), Br(9, 1), End>>, {1}, "O1", FALSE) EXCEPT
        !.config = [DefaultConfig EXCEPT !.mapping = mapping, !.origin = origin, !.bitmap = bitmap, !.base = 2048 * depth, !.depth = depth, !.height = height],
        !.rels = {[sym |-> PublicNamed(9), section |-> "CODE", off |-> 0, type |-> "ADDR16_JAL"]}, !.code = <<243, 0, 0, 0, 1>>] :
        mapping \in {"LoROM", "HiROM"}, origin \in {32768, 4227072}, bitmap \in {TRUE}, depth \in {2, 4, 8}, height \in {128, 160, 192, 256}}

\* Sources for the assembler.
L(n) == [private |-> FALSE, base |-> <<"label", n>>]
Source(text) == [kind |-> "source", object |-> Object(<<End>>, {}, "O0", FALSE), lines |-> text]
Code == <<Line(".segment", <<[k |-> "name", v |-> "CODE"]>>)>>
At(name, line) == [line EXCEPT !.label = name]
Fill(n) == Line(".byte", [i \in 1..n |-> Num(1)])
Jump(op, n) == Line(op, <<Sym(L(n))>>)
Operands == {<<Reg(3)>>, <<Reg(0), Num(5)>>, <<Reg(4), Num(300)>>, <<Num(2)>>, <<Reg(4), Reg(4), Num(2)>>, <<Reg(4), Reg(5)>>,
             <<Reg(4), Reg(4), Reg(0)>>, <<Mem(2)>>, <<Mem(2), Reg(4)>>, <<Reg(4), Mem(2)>>, <<Mem(3), Reg(0)>>,
             <<Reg(6), Sym(L(2))>>, <<Reg(6), [k |-> "bank", v |-> L(2)]>>, <<Reg(6), [k |-> "ram", v |-> L(3)]>>, <<Sym(L(2))>>,
             <<Num(510), Reg(4)>>, <<Reg(4), Num(510)>>, <<Reg(9)>>, <<>>}
Operations == UNION {DOMAIN Branches, DOMAIN Implied, DOMAIN Prefixed, DOMAIN RegisterOps, DOMAIN Arithmetic,
                     {"jmp", "ljmp", "link", "jal", "ret", "ibt", "iwt", "lea", "move", "moveb", "movew", "stw", "stb", "ldw", "ldb",
                      "push", "pop", "pushb", "popb", "lm", "lms", "sm", "sms", ".byte", ".word"}}
FormJobs ==
    {Code \o <<Jump("bne", 2), Line(op, args), At(L(2), Line("nop", <<>>)), Line("stop", <<>>)>> : op \in Operations, args \in Operands}
RelaxJobs ==
    {Code \o <<Jump(a, 2), Fill(n), At(L(1), Jump(b, 3)), Fill(m), At(L(2), Jump(c, 1)), Fill(k), At(L(3), Line("nop", <<>>))>> :
        a \in {"bra", "bvs"}, b \in {"bra", "bcc"}, c \in {"bne"}, n \in {120, 121, 122, 124}, m \in {1, 2, 3, 6}, k \in {119, 120, 121, 122, 123}}
SourceJobs == {Source(text) : text \in FormJobs \cup RelaxJobs}

Jobs_MC == {Generated(o) : o \in UNION {BranchJobs, JumpJobs, LoopJobs, EntryJobs, SplitJobs, RangeJobs, ListingJobs}} \cup SourceJobs
\* Objects for the question whether scheduled code can always be exported.
SplitJobs_MC == {Generated(o) : o \in SplitJobs}
================================================================================
