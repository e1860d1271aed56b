SPECIFICATION Spec
CONSTANTS
    Jobs <- Jobs_MC
    Inputs <- Inputs_MC
    Fuel <- Fuel_MC
INVARIANTS
    ScheduleKeepsBehaviour
    BranchesLand
    ListingExact
PROPERTIES
    AssemblyEnds
