SPECIFICATION Spec
CONSTANTS
    dep = dep
    top = top
    sib = sib
    Driver = Driver
    NoClaim = NoClaim
    Batches = {b1, b2}
    Tasks = {dep, top}
    Deps <- ChainDeps
    Order <- ChainOrder
    Noop = {}
    Jobs <- ClashJobs
    InitialStores <- Fresh
    CanCheckOutcomes = {"yes", "error"}
    CheckOutcomes = {"pass", "fail", "error"}
    CanRunOutcomes = {"yes", "error"}
    RunOutcomes = {"ok", "error"}
    ReraiseErrors = TRUE
SYMMETRY BatchSymmetry
INVARIANTS
    OneOwnerPerTask
    NoLeakedClaim
    NoUnverifiedRun
    FinishedBatchIsQuiet
    FinishedRecordsSettle
