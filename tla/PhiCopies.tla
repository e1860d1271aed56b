----------------------------- MODULE PhiCopies -----------------------------
(***************************************************************************)
(* Edge copies of discc's code generator: emitPhiCopies turns the parallel *)
(* assignment "all PHI results of a block := their operands on this edge"  *)
(* into moves emitted one after the other, breaking cycles through R6 or   *)
(* through the machine stack, and phiCopiesUseR6 predicts, before the code *)
(* exists, whether R6 will be clobbered.                                   *)
(*                                                                         *)
(* Every emitted instruction is executed as it is emitted.  A location     *)
(* holds a tag: at the start its own name, so that "the old value of l" is *)
(* simply l; a rematerialized constant is its own tag.                     *)
(***************************************************************************)
EXTENDS Integers, Sequences, FiniteSets

CONSTANTS
    Reg,          \* registers the allocator hands out
    Slot,         \* spill slots of the frame
    Literal,      \* rematerializable operands: they have no location
    Edges,        \* the PHI lists considered: sequences of [result, operand]
    R0, R6,       \* scratch registers, never handed out
    MaxPredicted  \* phiCopiesUseR6 gives up on more moves than this

Home == Reg \cup Slot
Phi == [result : Home, operand : Home \cup Literal]
Distinct(ps) == \A i, j \in 1 .. Len(ps) : i # j => ps[i].result # ps[j].result

ASSUME PhiAssumption ==
    /\ Reg \cap Slot = {} /\ (Reg \cup Slot) \cap Literal = {}
    /\ {R0, R6} \cap (Home \cup Literal) = {} /\ R0 # R6
    \* PHI results are live together: the allocator gives them distinct homes.
    /\ \A ps \in Edges : ps \in Seq(Phi) /\ Distinct(ps)
    /\ MaxPredicted \in Nat

VARIABLES
    phis,           \* the PHIs of the target with their operands on this edge
    moves,          \* the pending moves, as positions in phis
    saved,          \* those whose source was saved when a cycle was opened
    register_only,  \* no move of the edge touches memory or a constant
    mem, stack

vars == <<phis, moves, saved, register_only, mem, stack>>

-----------------------------------------------------------------------------
\* The vector of moves keeps the order of the PHIs, so a move is the position
\* of its PHI.  PHIs whose operand already is in place need none.
Moves(ps) == {k \in 1 .. Len(ps) : ps[k].result # ps[k].operand}
dst(k) == phis[k].result
src(k) == phis[k].operand

RegisterOnly(ps) == \A k \in Moves(ps) : ps[k].result \in Reg /\ ps[k].operand \in Reg

\* Mutant: moves before m in the list are taken for emitted.
Needed_LaterOnly(m) == \E k \in moves \ saved : k > m /\ dst(m) = src(k)
\* Some other unsaved move still reads the destination of move m.
Needed(m) == \E k \in moves \ saved : k # m /\ dst(m) = src(k)
Ready(m) == m \in moves /\ ~Needed(m) /\ \A k \in moves : k < m => Needed(k)
Stuck == moves # {} /\ \A m \in moves : Needed(m)

Init ==
    /\ phis \in Edges
    /\ moves = Moves(phis) /\ saved = {}
    /\ register_only = RegisterOnly(phis)
    /\ mem = [l \in Home \cup {R0, R6} |-> l]
    /\ stack = <<>>

-----------------------------------------------------------------------------
\* A cycle is opened at the destination of the first pending move.
First == CHOOSE m \in moves : \A k \in moves : m <= k
Readers(loc) == {k \in moves \ saved : src(k) = loc}

\* A register-only cycle is opened by copying one destination to R6 ...
BreakInRegister ==
    /\ Stuck /\ register_only
    /\ mem' = [mem EXCEPT ![R6] = mem[dst(First)]]
    /\ saved' = saved \cup Readers(dst(First))
    /\ UNCHANGED <<phis, moves, register_only, stack>>

\* ... any other cycle by pushing it, once for every move that reads it.
BreakOnStack ==
    /\ Stuck /\ ~register_only
    /\ mem' = [mem EXCEPT ![R0] = mem[dst(First)]]
    /\ stack' = stack \o [k \in 1 .. Cardinality(Readers(dst(First))) |-> mem[dst(First)]]
    /\ saved' = saved \cup Readers(dst(First))
    /\ UNCHANGED <<phis, moves, register_only>>

Erase(m) ==
    /\ moves' = moves \ {m} /\ saved' = saved \ {m}
    /\ UNCHANGED <<phis, register_only>>

\* What an operand evaluates to: a constant, or what its home holds now.
ValueOf(m) == IF src(m) \in Literal THEN src(m) ELSE mem[src(m)]

\* The emission order of one ready move.
Direct(m) == m \notin saved /\ (src(m) \in Reg \/ (src(m) \in Literal /\ dst(m) \in Reg))

\* A constant or a register goes straight to its destination.
EmitDirect ==
    \E m \in moves :
        /\ Ready(m) /\ Direct(m)
        /\ mem' = [mem EXCEPT ![dst(m)] = ValueOf(m)]
        /\ Erase(m) /\ UNCHANGED stack

\* A register-only move saved in R6.
EmitFromR6 ==
    \E m \in moves :
        /\ Ready(m) /\ m \in saved /\ register_only
        /\ mem' = [mem EXCEPT ![dst(m)] = mem[R6]]
        /\ Erase(m) /\ UNCHANGED stack

\* A saved move of a mixed cycle pops its value through R0.
EmitFromStack ==
    \E m \in moves :
        /\ Ready(m) /\ m \in saved /\ ~register_only
        /\ mem' = [mem EXCEPT ![R0] = stack[Len(stack)], ![dst(m)] = stack[Len(stack)]]
        /\ stack' = SubSeq(stack, 1, Len(stack) - 1)
        /\ Erase(m)

\* Everything else is materialized in R0 first.
EmitThroughR0 ==
    \E m \in moves :
        /\ Ready(m) /\ m \notin saved /\ ~Direct(m)
        /\ mem' = [mem EXCEPT ![R0] = ValueOf(m), ![dst(m)] = ValueOf(m)]
        /\ Erase(m) /\ UNCHANGED stack

emitPhiCopies == BreakInRegister \/ BreakOnStack \/ EmitDirect \/ EmitFromR6
                    \/ EmitFromStack \/ EmitThroughR0

Next == emitPhiCopies
Spec == Init /\ [][Next]_vars /\ WF_vars(Next)

-----------------------------------------------------------------------------
\* phiCopiesUseR6 replays the selection on register pairs, without saving:
\* it answers yes exactly when some set of moves is left that all wait.
\* Mutant: only a direct exchange of two registers is recognised.
Cyclic_PairsOnly(ps) ==
    \E i, j \in Moves(ps) : ps[i].result = ps[j].operand /\ ps[j].result = ps[i].operand
Cyclic(ps) ==
    \E S \in SUBSET Moves(ps) :
        S # {} /\ \A m \in S : \E k \in S \ {m} : ps[m].result = ps[k].operand
phiCopiesUseR6(ps) ==
    RegisterOnly(ps) /\ (Cardinality(Moves(ps)) > MaxPredicted \/ Cyclic(ps))

-----------------------------------------------------------------------------
\* The moves, cycles and scratch locations together are one parallel copy: the
\* homes jump from all old values to all new ones when the last move is out,
\* with the stack balanced, and however operands and results overlap that
\* moment comes.
Atomic == INSTANCE ParallelCopy WITH
    homes <- [l \in Home |-> IF moves = {} THEN mem[l] ELSE l],
    depth <- IF moves = {} THEN Len(stack) ELSE 0,
    done <- moves = {}
ImplementsParallelCopy == Atomic!Spec

\* R6 is clobbered only on edges for which phiCopiesUseR6 said so: a value the
\* code generator keeps in R6 across the edge survives it.
R6Predicted == mem[R6] # R6 => phiCopiesUseR6(phis)
=============================================================================
