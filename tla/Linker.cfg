SPECIFICATION Spec
CONSTANTS
    SymbolName = {"main", "f", "d", "g", "x", "L1", "P1", "S4", "nearram", "nearrom"}
    LocalName = {"L1", "P1"}
    PoolName = {"P1"}
    NearRam = "nearram"
    NearRom = "nearrom"
    StackLimit <- Frame4
    NameBytes = 4
    MaxLinkBytes = 250
    Default = Default
    Links <- AllLinks
INVARIANTS RelocationsPointHome LayoutExact RegionsDisjoint StackNeverReachesData StartupBuildsImage
