----------------------------- MODULE MCMiddleEnd -----------------------------
(***************************************************************************)
(* Programs for the middle end.  Each is made to reach certain passes, and *)
(* runs on inputs at the edges of its ranges and branches.                 *)
(***************************************************************************)
EXTENDS MiddleEnd

Scalar(t, off) == [type |-> t, count |-> 0, off |-> off, bytes |-> sizeInBytes(t)]
ArrayOf(t, count, off) == [Scalar(t, off) EXCEPT !.count = count]
Function(name, ret, params, locals, frame, body) ==
    [name |-> name, ret |-> ret, params |-> params, cached |-> FALSE, locals |-> locals, frame |-> frame, body |-> body]
Param(sym, t) == [sym |-> sym, type |-> t]
W(n) == Lit(n, WordT)
U(n) == Lit(n, UWordT)
V(sym) == Var(sym, WordT)
UV(sym) == Var(sym, UWordT)
VolatileT == T("word", FALSE, 0, TRUE)
Set(sym, e) == Expr(Assign(V(sym), e))
Bump(sym, e) == Expr(Update("+", V(sym), e, FALSE))
CountTo(sym, bound, body) ==
    For(<<Set(sym, W(0))>>, Bin("<", V(sym), bound), <<Update("+", V(sym), W(1), TRUE)>>, Block(body))
CaseOf(v) == [k |-> "case", v |-> v]
Quiet == [junk |-> 7, volatile |-> <<3, 65535, 0>>, external |-> 5, pixel |-> 200]
On(args) == [arguments |-> args, input |-> Quiet]

\* Sum of the even numbers below n but 4: a loop, && and a promoted parameter.
SumProgram ==
    <<Function("main", WordT, <<Param("n", WordT)>>,
        [n |-> Scalar(WordT, 6), i |-> Scalar(WordT, -2), s |-> Scalar(WordT, -4)], 6,
        <<Decl("i", WordT, <<W(0)>>), Decl("s", WordT, <<W(0)>>),
          While(Bin("<", V("i"), V("n")),
            Block(<<If(Logical("&&", Bin("==", Bin("&", V("i"), W(1)), W(0)), Bin("!=", V("i"), W(4))),
                       Bump("s", V("i")), <<>>),
                    Expr(Update("+", V("i"), W(1), TRUE))>>)),
          Return(<<V("s")>>)>>)>>

\* Booleans as values, both arms returning, one predicate deciding twice.
LogicProgram ==
    <<Function("main", WordT, <<Param("a", WordT), Param("b", WordT)>>,
        [a |-> Scalar(WordT, 6), b |-> Scalar(WordT, 8), c |-> Scalar(BoolT, -2), d |-> Scalar(BoolT, -4)], 6,
        <<Decl("c", BoolT, <<Bin("<", V("a"), W(5))>>),
          Decl("d", BoolT, <<Logical("||", Var("c", BoolT), Bin("==", Call("ext", <<V("b")>>, WordT), W(5)))>>),
          If(Var("c", BoolT), Set("g", V("b")), <<>>),
          If(Un("!", Var("c", BoolT)), Bump("b", W(2)), <<>>),
          If(Var("d", BoolT), Return(<<V("b")>>), <<Return(<<Bin("-", V("a"), V("b"))>>)>>)>>)>>

\* A switch in a loop: fall through, continue, break, a negative and a wide label.
SwitchProgram ==
    <<Function("main", WordT, <<Param("n", WordT)>>,
        [n |-> Scalar(WordT, 6), i |-> Scalar(WordT, -2), s |-> Scalar(WordT, -4)], 6,
        <<Decl("s", WordT, <<W(0)>>),
          For(<<Decl("i", WordT, <<W(-1)>>)>>, Bin("<", V("i"), V("n")), <<Update("+", V("i"), W(1), TRUE)>>,
            Block(<<Switch(V("i"), <<CaseOf(0), Bump("s", W(1)), Simple("fallthrough"), CaseOf(1), Bump("s", W(10)), Simple("break"),
                                     CaseOf(-1), Simple("continue"), Simple("default"), Bump("s", W(100))>>),
                    Switch(Cast(V("i"), UByteT), <<CaseOf(256), Set("s", W(0)), Simple("break"), CaseOf(0), Bump("s", W(1000))>>)>>)),
          Switch(W(2), <<CaseOf(2), Bump("s", W(1)), Simple("break"), CaseOf(3), Set("s", W(0))>>),
          Return(<<V("s")>>)>>)>>

\* An initialized array, indexed by a counter and by a literal.
Element(sym, t, index) == Subscript(ArrayVar(sym, t), index, t)
ArrayProgram ==
    <<Function("main", WordT, <<Param("k", WordT)>>,
        [k |-> Scalar(WordT, 6), a |-> ArrayOf(WordT, 4, -8), b |-> ArrayOf(ByteT, 2, -10), i |-> Scalar(WordT, -12), s |-> Scalar(WordT, -14)], 16,
        <<[Decl("a", WordT, <<>>) EXCEPT !.aggregate = [n \in 1..4 |-> [off |-> 2 * n - 2, value |-> W(n * 3)]]],
          Expr(Assign(Element("b", ByteT, W(0)), Lit(-1, ByteT))), Expr(Assign(Element("b", ByteT, W(1)), Cast(V("k"), ByteT))),
          Decl("s", WordT, <<Cast(Element("b", ByteT, W(1)), WordT)>>),
          CountTo("i", W(4), <<Bump("s", Element("a", WordT, V("i"))), Expr(Update("+", Element("a", WordT, V("i")), W(1), TRUE))>>),
          Return(<<Bin("+", V("s"), Bin("+", Element("a", WordT, W(2)), Cast(Element("b", ByteT, W(0)), WordT)))>>)>>)>>

\* Four-byte records walked by an unsigned counter.
PairT == T("struct", FALSE, 0, FALSE)
Pair(index) == [Subscript(ArrayVar("p", PairT), index, PairT) EXCEPT !.size = 4]
RecordProgram ==
    <<Function("main", WordT, <<Param("n", UWordT)>>,
        [n |-> Scalar(UWordT, 6), p |-> [ArrayOf(PairT, 3, -12) EXCEPT !.bytes = 4], i |-> Scalar(UWordT, -14)], 16,
        <<For(<<Decl("i", UWordT, <<U(1)>>)>>, Bin("<", UV("i"), UV("n")), <<Update("+", UV("i"), U(1), FALSE)>>,
            Block(<<Expr(Assign(Member(Pair(UV("i")), 2, WordT), Cast(UV("i"), WordT))),
                    Expr(Assign(Member(Pair(UV("i")), 0, WordT), Bin("*", Cast(UV("i"), WordT), W(3))))>>)),
          Return(<<Bin("+", Member(Pair(U(2)), 0, WordT), Member(Pair(U(1)), 2, WordT))>>)>>)>>

\* Pointers: an escaping local, a local reached only through one, a walk, null.
PW == pointerTo(WordT)
PointerProgram ==
    <<Function("main", WordT, <<Param("q", WordT)>>,
        [q |-> Scalar(WordT, 6), x |-> Scalar(WordT, -2), y |-> Scalar(WordT, -4), p |-> Scalar(PW, -6), a |-> ArrayOf(WordT, 2, -10)], 12,
        <<Decl("x", WordT, <<V("q")>>), Decl("y", WordT, <<W(2)>>), Decl("p", PW, <<NullPtr(PW)>>),
          If(Bin("==", Var("p", PW), NullPtr(PW)), Expr(Assign(Var("p", PW), AddressOf(V("x")))), <<>>),
          Expr(Assign(Deref(Var("p", PW), WordT), Bin("+", V("x"), V("y")))),
          Expr(Call("ext", <<AddressOf(V("y"))>>, VoidT)),
          Expr(Assign(Element("a", WordT, W(0)), V("x"))), Expr(Assign(Element("a", WordT, W(1)), V("y"))),
          Expr(Assign(Var("p", PW), AddressOf(Element("a", WordT, W(0))))),
          Expr(Update("+", Var("p", PW), W(1), FALSE)),
          Return(<<Bin("-", Deref(Var("p", PW), WordT), Deref(PointerStep("-", Var("p", PW), W(1)), WordT))>>)>>)>>

\* Volatile accesses around stores and loads that forwarding may drop.
VolatileProgram ==
    <<Function("main", WordT, <<Param("n", WordT)>>,
        [n |-> Scalar(WordT, 6), x |-> Scalar(WordT, -2), e |-> Scalar(WordT, -4)], 6,
        <<Decl("x", WordT, <<Var("port", VolatileT)>>), Set("x", Bin("+", V("x"), Var("port", VolatileT))),
          Expr(Assign(Var("port", VolatileT), V("n"))), Expr(Assign(Var("port", VolatileT), V("n"))),
          Decl("e", WordT, <<W(1)>>), Expr(Call("ext", <<AddressOf(V("e"))>>, VoidT)), Set("e", W(2)), Set("e", V("x")),
          Set("g", V("e")), Set("g", Bin("+", V("g"), V("g"))),
          If(Bin("==", V("n"), W(0)), Block(<<Expr(Assign(Var("port", VolatileT), W(9))), Set("g", W(4)), Return(<<V("x")>>)>>),
             <<Block(<<Set("x", V("n")), Expr(Assign(Var("port", VolatileT), W(9))), Set("g", W(4)), Return(<<V("x")>>)>>)>>)>>)>>

\* Leaf calls, a call too dear to inline, arguments evaluated in order.
InlineProgram ==
    <<Function("mix", WordT, <<Param("a", WordT), Param("b", WordT)>>, [a |-> Scalar(WordT, 6), b |-> Scalar(WordT, 8)], 0,
        <<Return(<<Bin("-", Bin("*", V("a"), W(3)), V("b"))>>)>>),
      Function("low", ByteT, <<Param("a", WordT)>>, [a |-> Scalar(WordT, 6)], 0, <<Return(<<Cast(V("a"), ByteT)>>)>>),
      Function("ratio", WordT, <<Param("a", WordT), Param("b", WordT)>>, [a |-> Scalar(WordT, 6), b |-> Scalar(WordT, 8)], 0,
        <<Set("g", V("b")), Return(<<Bin("/", V("a"), V("b"))>>)>>),
      Function("main", WordT, <<Param("n", WordT)>>, [n |-> Scalar(WordT, 6)], 0,
        <<Return(<<Bin("+", Call("mix", <<Update("+", V("n"), W(1), TRUE), V("n")>>, WordT),
                       Bin("+", Cast(Call("low", <<V("n")>>, ByteT), WordT), Call("ratio", <<W(100), V("n")>>, WordT)))>>)>>)>>

\* Drawing: cursor, colour, pixels in a hardware loop and a counted one.
PlotProgram ==
    <<Function("main", WordT, <<Param("n", WordT)>>, [n |-> Scalar(WordT, 6), i |-> Scalar(WordT, -2), s |-> Scalar(WordT, -4)], 6,
        <<PlotBlock(Block(<<[k |-> "cmode", v |-> 1], Expr(Assign(Cursor(FALSE), V("n"))), Expr(Assign(Cursor(TRUE), W(2))),
             [k |-> "color", e |-> Bin("&", V("n"), W(15))],
             HardwareLoop(W(2), Block(<<Simple("pixel"), Expr(Update("+", Cursor(TRUE), W(1), FALSE))>>)),
             CountTo("i", W(9), <<Simple("pixel")>>),
             Set("s", Cast(ReadPixel(TRUE, V("n"), Cursor(TRUE)), WordT)), Simple("rpix")>>)),
          Return(<<Bin("+", V("s"), V("i"))>>)>>)>>

\* Bits and ranges of words and bytes.
BitsProgram ==
    <<Function("main", WordT, <<Param("x", WordT), Param("u", UWordT)>>,
        [x |-> Scalar(WordT, 6), u |-> Scalar(UWordT, 8), b |-> Scalar(ByteT, -2), s |-> Scalar(WordT, -4)], 6,
        <<Decl("b", ByteT, <<Cast(V("x"), ByteT)>>),
          Decl("s", WordT, <<Bin("+", Bin(">>", Bin("&", V("x"), W(8)), W(3)), Bin("&", Bin(">>", V("x"), W(15)), W(1)))>>),
          Bump("s", Bin("&", Cast(Cast(V("x"), UByteT), WordT), W(255))),
          If(Bin(">", Cast(Cast(V("x"), UByteT), WordT), W(300)), Set("s", W(0)), <<>>),
          If(Bin("<", Bin("&", UV("u"), U(7)), U(8)), Bump("s", Cast(Bin(">>", UV("u"), U(12)), WordT)), <<Set("s", W(1))>>),
          Bump("s", Bin(">>", Bin("|", V("x"), W(-32768)), W(14))),
          Bump("s", Bin("*", Un("~", Cast(Var("b", ByteT), WordT)), Un("-", W(1)))),
          Return(<<Bin("^", V("s"), Bin("<<", V("x"), W(0)))>>)>>)>>

\* Quotient and remainder of the same operands, and the division that faults.
DivideProgram ==
    <<Function("main", WordT, <<Param("a", WordT), Param("b", WordT)>>,
        [a |-> Scalar(WordT, 6), b |-> Scalar(WordT, 8), q |-> Scalar(WordT, -2), r |-> Scalar(WordT, -4)], 6,
        <<Set("g", W(1)), Decl("q", WordT, <<Bin("/", V("a"), V("b"))>>), Decl("r", WordT, <<W(0)>>),
          If(Bin("<", V("a"), W(0)), Set("r", Bin("%", V("a"), V("b"))), <<Set("r", Bin("%", V("a"), W(4)))>>),
          Set("g", Bin("/", W(-32768), W(-1))),
          Return(<<Bin("+", Bin("+", V("q"), V("r")), Bin("+", Bin("%", V("a"), W(7)), Bin("/", V("a"), W(7))))>>)>>)>>

\* Constants that hold round a loop, a branch they kill, and products of counters.
ConstantProgram ==
    <<Function("main", WordT, <<Param("n", WordT), Param("m", WordT)>>,
        [n |-> Scalar(WordT, 6), m |-> Scalar(WordT, 8), i |-> Scalar(WordT, -2), j |-> Scalar(WordT, -4), c |-> Scalar(WordT, -6), s |-> Scalar(WordT, -8)], 10,
        <<Decl("c", WordT, <<W(1)>>), Decl("s", WordT, <<W(0)>>),
          CountTo("i", V("n"), <<If(Bin("!=", V("c"), W(1)), Block(<<Set("c", W(2)), Expr(Call("ext", <<V("c")>>, VoidT))>>), <<>>),
                                 Bump("s", Bin("*", Bin("+", V("i"), W(1)), V("m"))),
                                 CountTo("j", V("m"), <<Bump("s", Bin("+", V("j"), V("c")))>>),
                                 Bump("s", V("m"))>>),
          CountTo("j", V("n"), <<Bump("s", Bin("*", V("j"), W(7))), Bump("s", Bin("*", Bin("-", V("j"), W(2)), V("m"))), Bump("s", V("m"))>>),
          Return(<<Bin("+", Bin("+", V("s"), V("m")), V("j"))>>)>>)>>

\* One comparison deciding two branches; equal ends of two arms.
TailProgram ==
    <<Function("main", WordT, <<Param("a", WordT), Param("b", WordT)>>,
        [a |-> Scalar(WordT, 6), b |-> Scalar(WordT, 8), c |-> Scalar(BoolT, -2)], 2,
        <<Decl("c", BoolT, <<Bin("<", V("a"), W(5))>>),
          If(Var("c", BoolT), Set("g", V("b")), <<>>),
          If(Un("!", Var("c", BoolT)), Bump("b", W(2)), <<>>),
          If(Bin(">", V("b"), W(9)),
             Block(<<Set("g", W(1)), Expr(Call("ext", <<W(7)>>, VoidT)), Expr(Call("ext", <<V("a")>>, VoidT)), Return(<<W(3)>>)>>),
             <<Block(<<Expr(Call("ext", <<W(7)>>, VoidT)), Expr(Call("ext", <<V("a")>>, VoidT)), Return(<<W(3)>>)>>)>>)>>)>>

\* Loops that count: literal ends, a bound in a variable, an inclusive bound.
CountedProgram ==
    <<Function("main", WordT, <<Param("n", WordT)>>,
        [n |-> Scalar(WordT, 6), i |-> Scalar(WordT, -2), s |-> Scalar(WordT, -4)], 6,
        <<Decl("s", WordT, <<W(3)>>),
          CountTo("i", W(8), <<Set("g", V("n")), Expr(Assign(Var("port", VolatileT), V("n")))>>),
          CountTo("i", V("n"), <<Bump("s", V("s"))>>),
          For(<<Set("i", V("n"))>>, Bin("<=", V("i"), W(2)), <<Update("+", V("i"), W(1), TRUE)>>, Expr(Assign(Var("port", VolatileT), W(6)))),
          Return(<<Bin("+", V("s"), V("i"))>>)>>)>>

Work == {[program |-> SumProgram, inputs |-> <<On(<<6>>), On(<<0>>), On(<<65535>>)>>],
         [program |-> LogicProgram, inputs |-> <<On(<<4, 9>>), On(<<5, 9>>), On(<<32768, 65535>>)>>],
         [program |-> SwitchProgram, inputs |-> <<On(<<3>>), On(<<0>>)>>],
         [program |-> ArrayProgram, inputs |-> <<On(<<130>>), On(<<65408>>)>>],
         [program |-> RecordProgram, inputs |-> <<On(<<3>>), On(<<1>>), On(<<0>>)>>],
         [program |-> PointerProgram, inputs |-> <<On(<<40>>)>>],
         [program |-> VolatileProgram, inputs |-> <<On(<<0>>), On(<<8>>)>>],
         [program |-> InlineProgram, inputs |-> <<On(<<199>>), On(<<65535>>)>>],
         [program |-> PlotProgram, inputs |-> <<On(<<30>>)>>],
         [program |-> BitsProgram, inputs |-> <<On(<<33, 40000>>), On(<<32904, 7>>), On(<<0, 65535>>), On(<<32768, 4096>>)>>],
         [program |-> DivideProgram, inputs |-> <<On(<<65529, 4>>), On(<<50, 0>>), On(<<32768, 65535>>), On(<<32767, 65529>>)>>],
         [program |-> ConstantProgram, inputs |-> <<On(<<3, 2>>), On(<<0, 65535>>), On(<<2, 65533>>)>>],
         [program |-> TailProgram, inputs |-> <<On(<<4, 10>>), On(<<5, 7>>)>>],
         [program |-> CountedProgram, inputs |-> <<On(<<1>>), On(<<0>>), On(<<3>>), On(<<65535>>)>>]}
MCJobs == {w @@ [size |-> p[1], compaction |-> p[2]] :
             w \in Work, p \in {<<FALSE, "enabled">>, <<TRUE, "enabled">>, <<FALSE, "disabled">>, <<TRUE, "pointers">>}}

===============================================================================
