---------------------------- MODULE MCPhiCopies ----------------------------
(***************************************************************************)
(* Every list of up to MaxPhis PHIs over four registers (two exchanges, or *)
(* one cycle of four), and over two registers, two slots and a constant    *)
(* (mixed cycles through memory).                                          *)
(***************************************************************************)
EXTENDS PhiCopies

CONSTANTS r2, r4, r5, r7, s1, s2, c1, MaxPhis

MCReg == {r2, r4, r5, r7}
MCSlot == {s1, s2}
MCLiteral == {c1}

Lists(homes, operands) ==
    UNION {{ps \in [1 .. n -> [result : homes, operand : operands]] : Distinct(ps)} :
             n \in 0 .. MaxPhis}

MCEdges == Lists(MCReg, MCReg) \cup Lists({r2, r4} \cup MCSlot, {r2, r4, c1} \cup MCSlot)
=============================================================================
