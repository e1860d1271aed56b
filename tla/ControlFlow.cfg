SPECIFICATION Spec
CONSTANTS
    Functions <- MCFunctions
    MaxBlocks = 8192
    MaxValues = 100000
    MaxEntries = 1000000
INVARIANTS DominatorsExact FrontierExact LoopsExact LivenessExact
PROPERTIES Completes
CHECK_DEADLOCK FALSE
