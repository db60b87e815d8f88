SPECIFICATION FairSpec
CONSTANTS
    dep = dep
    top = top
    sib = sib
    Driver = Driver
    NoClaim = NoClaim
    Batches = {b1, b2}
    Tasks = {dep, top}
    Deps <- ChainDeps
    Order <- ChainOrder
    Noop = {}
    Jobs <- LivenessJobs
    InitialStores <- Fresh
    CanCheckOutcomes = {"yes"}
    CheckOutcomes = {"pass", "fail"}
    CanRunOutcomes = {"yes"}
    RunOutcomes = {"ok"}
    ReraiseErrors = FALSE
PROPERTIES
    
    StopPreventsRun
