SPECIFICATION WatchedSpec
SYMMETRY Symmetry
CONSTANTS
    u = u
    d = d
    g = g
    Missing = Missing
    Free = Free
    Threads = {r1, r2}
    Entries = {u, d, g}
    CacheOf <- Caches
    Upstream <- DependsOn
    LoaderReads <- Reads
    Topological <- Order
    Eager <- EagerEntries
    Expiring = {u}
    Ttl = 1
    Tiers = 2
    Modes <- PassModes
    MaxNow = 2
    MaxOps = 3
    MaxFaults = 1
    Cards <- Panes
    MaxWatchedOps = 2
INVARIANTS
    ShownHonoursDrops
    InvalidationReaches
    HistoryIsNotOlder
    NoWaitCycle
CHECK_DEADLOCK FALSE
