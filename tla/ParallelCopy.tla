---------------------------- MODULE ParallelCopy ----------------------------
(***************************************************************************)
(* What the copies on a control-flow edge promise: all PHI results of the  *)
(* target take the values their operands had on the edge, at once, nothing *)
(* else changes, and the machine stack is left as it was.                  *)
(***************************************************************************)
EXTENDS Integers, Sequences

CONSTANTS
    Home,      \* locations of values; at the start each holds its own name
    Literal    \* rematerialized operands, which have no location

VARIABLES phis, homes, depth, done

vars == <<phis, homes, depth, done>>

Results(ps) == {ps[k].result : k \in 1 .. Len(ps)}
OperandOf(ps, l) == ps[CHOOSE k \in 1 .. Len(ps) : ps[k].result = l].operand

Init ==
    /\ phis \in Seq([result : Home, operand : Home \cup Literal])
    /\ \A i, j \in 1 .. Len(phis) : i # j => phis[i].result # phis[j].result
    /\ homes = [l \in Home |-> l]
    /\ depth = 0
    /\ done = \A k \in 1 .. Len(phis) : phis[k].result = phis[k].operand

\* An operand is a home, read before the edge, or a constant: either way the
\* result ends up with the operand's own name.
Copy ==
    /\ ~done /\ done' = TRUE
    /\ homes' = [l \in Home |-> IF l \in Results(phis) THEN OperandOf(phis, l) ELSE homes[l]]
    /\ UNCHANGED <<phis, depth>>

Spec == Init /\ [][Copy]_vars /\ <>done
=============================================================================
