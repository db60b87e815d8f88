SPECIFICATION FairSpec
CONSTANTS
    Batches = {b1, b2}
    Tasks = {t1}
    MaxVersion = 0
    DiskFaults = TRUE
    Enders = {e1}
    Forcing = {}
    NoThread = NoThread
    MaxBoots = 1
PROPERTIES
    EndCompletes
