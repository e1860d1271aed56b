SPECIFICATION TransformSpec
CONSTANTS
    Functions <- MCTransformed
    MaxBlocks = 7
    MaxValues = 100000
    MaxEntries = 1000000
    MaxLoops = 2
INVARIANTS FlowKept PhiEdgesPrivate LoopsContiguous HardwareLoopsPaired
CHECK_DEADLOCK FALSE
