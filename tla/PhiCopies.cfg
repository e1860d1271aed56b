SPECIFICATION Spec
CONSTANTS
    Reg <- MCReg
    Slot <- MCSlot
    Literal <- MCLiteral
    Edges <- MCEdges
    R0 = R0
    R6 = R6
    MaxPredicted = 3
    MaxPhis = 4
    r2 = r2
    r4 = r4
    r5 = r5
    r7 = r7
    s1 = s1
    s2 = s2
    c1 = c1
INVARIANTS R6Predicted
PROPERTIES ImplementsParallelCopy
CHECK_DEADLOCK FALSE
