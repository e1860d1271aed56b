------------------------------- MODULE LeftFold -------------------------------
(***************************************************************************)
(* The loop every algorithm of the compiler is written with: a left fold   *)
(* over a sequence, and a fold repeated until nothing changes.             *)
(***************************************************************************)
EXTENDS Integers, Sequences, FiniteSets, TLC

\* A left fold, halving the sequence so that long ones nest no deeper than short
\* ones. The singletons make TLC evaluate each intermediate value once.
Accumulate(Op(_, _), base, seq) ==
    LET RECURSIVE over(_, _, _, _)
        over(s, a, lo, hi) ==
            IF lo = hi THEN Op(a, s[lo])
            ELSE CHOOSE r \in {over(s, x, ((lo + hi) \div 2) + 1, hi) : x \in {over(s, a, lo, (lo + hi) \div 2)}} : TRUE
    IN  CHOOSE r \in {IF s = <<>> THEN a ELSE over(s, a, 1, Len(s)) : s \in {seq}, a \in {base}} : TRUE

\* The first n naturals, as the sequence a counted loop runs over.
Upto(n) == [i \in 1..n |-> i]
\* The same sequence or function, with every element computed once.
Solid(seq) == Tail(<<0>> \o seq)
SolidFcn(f) == f @@ <<>>
Mapped(Op(_), seq) == Solid([n \in DOMAIN seq |-> Op(seq[n])])
\* The elements of a set as a sequence, in any order and in the order op gives.
Listed(S) ==
    Accumulate(LAMBDA s, k : LET x == CHOOSE x \in s.rest : TRUE IN [seq |-> Append(s.seq, x), rest |-> s.rest \ {x}],
               [seq |-> <<>>, rest |-> S], Upto(Cardinality(S))).seq
Sorted(S, op(_, _)) == SortSeq(Listed(S), op)
\* x with Op applied until it stays the same, Rounds times at most.
Rounds == 32
Settled(Op(_), x) ==
    LET after(old, new) == [x |-> new, done |-> new = old]
    IN  Accumulate(LAMBDA s, k : IF s.done THEN s ELSE after(s.x, Op(s.x)), [x |-> x, done |-> FALSE], Upto(Rounds)).x
\* x with Op applied while Goes(x) holds, Rounds * Rounds times at most.
Looped(Goes(_), Op(_), x) ==
    LET turn(y, k) == IF Goes(y) THEN Op(y) ELSE y
    IN  Accumulate(LAMBDA y, k : IF Goes(y) THEN Accumulate(turn, y, Upto(Rounds)) ELSE y, x, Upto(Rounds))

===============================================================================
