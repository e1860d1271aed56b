SPECIFICATION Spec
CONSTANTS
    Jobs <- SplitJobs_MC
    Inputs <- Inputs_MC
    Fuel <- Fuel_MC
INVARIANTS
    ExportsReassemble
