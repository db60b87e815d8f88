SPECIFICATION MCSpec
SYMMETRY Symmetry
CONSTANTS
    ann = ann
    bob = bob
    cat = cat
    etl = etl
    ops = ops
    staff = staff
    devs = devs
    AnyName = AnyName
    None = None
    Broken = Broken
    Missing = Missing
    c1 = c1
    c2 = c2
    Conns = {c1, c2}
    Names = {etl, ops}
    AgentTools = {"list_sessions", "run_tasks"}
    Tokens <- TwoTokens
    Tickets <- TwoTickets
    Logins <- OneLogin
    Policies <- TwoPolicies
    Modes = {"loopback", "open", "credential"}
    MaxConnection = 2
    Leeway = 1
    MaxTtl = 2
    MaxNow = 3
    MaxEdits = 1
INVARIANTS
    GrantIsFresh
    StaleGrantEnds
