SPECIFICATION Spec
CONSTANTS
    Value <- MCValue
    Slot <- MCSlot
    Functions <- MCFunctions
    Homes <- MCHomes
    FrameWords = 3
    Margins <- MCMargins
    MaxMargin = 12
INVARIANTS StackNeverOverrun ValuesArrive StoresLand
CHECK_DEADLOCK FALSE
