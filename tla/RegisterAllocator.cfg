SPECIFICATION Spec
CONSTANTS
    Value = {1, 2, 3, 4}
    Register = {4, 7}
    Graphs <- MCGraphs
    MaxWork = 18
    Rounds = 2
    MaxAffinityEdges = 2
    MaxAffinity = 2
    NoRegister = NoRegister
INVARIANT ProperLocations
PROPERTIES ImprovementPays
CHECK_DEADLOCK FALSE
