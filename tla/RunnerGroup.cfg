SPECIFICATION Spec
CONSTANTS
    dep = dep
    top = top
    sib = sib
    Driver = Driver
    NoClaim = NoClaim
    Batches = {b1}
    Tasks = {dep, top, sib}
    Deps <- ForkDeps
    Order <- ForkOrder
    Noop = {}
    Jobs <- GroupJobs
    InitialStores <- GroupStores
    CanCheckOutcomes = {"yes", "block", "error"}
    CheckOutcomes = {"pass", "fail", "error"}
    CanRunOutcomes = {"yes", "block", "error"}
    RunOutcomes = {"ok", "error"}
    ReraiseErrors = FALSE
INVARIANTS
    DepsHoldWhileRunning
    DefectStaysVisible
