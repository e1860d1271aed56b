--------------------------- MODULE MCCodeEmission ---------------------------
(***************************************************************************)
(* Blocks of up to six instructions over five values, each with every      *)
(* proper choice of locations among two registers and two frame words: a   *)
(* third register stays spare.                                             *)
(***************************************************************************)
EXTENDS CodeEmission

CONSTANT MaxMargin

MCValue == {"a", "b", "c", "d", "e"}
MCSlot == {"s1", "s2"}
MCMargins == {m \in 0 .. MaxMargin : m % 2 = 0 \/ m = 3}

I(op, args, result) == [op |-> op, args |-> args, result |-> result, clobbers |-> {}]
Call(args, result, clobbers) == [I("call", args, result) EXCEPT !.clobbers = clobbers]
B(code, enter, leave) == [code |-> code, enter |-> enter, leave |-> leave, open |-> FALSE, loops |-> FALSE]
All == {"r2", "r4", "r5", "r7", "r8", "r12", "r13"}

Blocks == {
  \* A value used again and again while others come and go.
  B(<<I("binary", <<"a", "b">>, "c"), I("binary", <<"a", "c">>, "d"),
      I("compare", <<"b", "a">>, "e"), I("store", <<"d", "a">>, None), I("store", <<"d", "e">>, None)>>,
    {"a", "b"}, {"a"}),
  \* Division between uses: labels, pushes and R3.
  B(<<I("binary", <<"a", "a">>, "b"), I("divide", <<"a", "b">>, "c"),
      I("binary", <<"b", "c">>, "d"), I("return", <<"d">>, None)>>, {"a"}, {}),
  \* Loads and stores through a pointer, with frame words in between.
  B(<<I("load", <<"a">>, "b"), I("store", <<"a", "e">>, None), I("load", <<"a">>, "c"),
      I("binary", <<"b", "c">>, "d"), I("store", <<"a", "d">>, None), I("return", <<"b">>, None)>>,
    {"a", "e"}, {}),
  \* Calls with arguments inside a loop: one callee clobbers everything, one R5.
  [B(<<Call(<<"a", "b">>, "c", All), I("binary", <<"a", "c">>, "d"), Call(<<"d">>, "e", {"r5"})>>,
     {"a", "b"}, {"a", "c", "e"}) EXCEPT !.loops = TRUE],
  \* A constant as an argument and as a stored value.
  B(<<I("constant", <<>>, "a"), Call(<<"b", "a">>, "c", All), I("store", <<"b", "a">>, None),
      I("compare", <<"c", "b">>, "d")>>, {"b"}, {"a", "d"}),
  \* An array fill, and a loop set up in registers or on the stack.
  [B(<<I("fill", <<>>, None), I("binary", <<"b", "c">>, "d"),
       I("loop in registers", <<"b">>, None)>>, {"b", "c"}, {"b", "d"}) EXCEPT !.loops = TRUE],
  [B(<<I("leave", <<>>, None), I("constant", <<>>, "a"), I("binary", <<"b", "b">>, "c"),
       I("loop", <<"b">>, None)>>, {"b"}, {"a", "b", "c"}) EXCEPT !.loops = TRUE, !.open = TRUE],
  \* Inside an open loop: a call that uses its registers, and a loop inside.
  [B(<<Call(<<"a">>, "b", All), I("fill", <<>>, None), I("loop", <<"b">>, None)>>, {"a"}, {"a"})
     EXCEPT !.loops = TRUE, !.open = TRUE]}

\* Every block on its own, and blocks after one that ends with credit left.
Filled == B(<<I("fill", <<>>, None)>>, {"a"}, {"a"})
MCFunctions ==
    {<<b>> : b \in Blocks} \cup {<<Filled, b>> : b \in {b \in Blocks : b.enter = {"a"}}}

MCHomes == [MCValue -> {"r5", "r7", "s1", "s2"}]
             \cup {[h EXCEPT !["a"] = Constant] : h \in [MCValue -> {"r5", "s1"}]}
=============================================================================
