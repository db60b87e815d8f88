SPECIFICATION Spec
CONSTANTS
    Batches = {b1, b2}
    Tasks = {t1}
    MaxVersion = 2
    DiskFaults = FALSE
    Enders = {e1, e2}
    Forcing = {e2}
    NoThread = NoThread
    MaxBoots = 2
SYMMETRY BatchSymmetry
INVARIANTS
    ClosedImpliesDurable
    DeadBatchIsKnown
    RestoreKnowsOutcomes
PROPERTIES
    KeepsContract
