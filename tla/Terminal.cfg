SPECIFICATION MCSpec
SYMMETRY Symmetry
CONSTRAINT Followed
CONSTANTS
    a = a
    b = b
    c = c
    int1 = int1
    int2 = int2
    low = low
    high = high
    off = off
    v1 = v1
    v2 = v2
    v3 = v3
    Declarations <- MCDeclarations
    Entries <- MCEntries
    NoEntry = NoEntry
    Unstamped = Unstamped
    BadName = BadName
    NotHashable = NotHashable
    Unset = Unset
    Falsy = {off}
    Unparsable = Unparsable
    Printed <- MCPrinted
    JsonNative = {int1, int2, off, "dev", "prod", "1", "2", "x", "low", "high", "now", "test"}
    Commands <- MCCommands
    MaxFilterDepth = 2
    Invocations <- MCInvocations
    WorkflowOptions <- MCOptions
    LaterLines <- Lines
    Queries <- MCQueries
    Views <- MCViews
    NoManifest = NoManifest
    MaxRestores = 1
    p1 = p1
    p2 = p2
    ann = ann
    bob = bob
    corp = corp
    iss = iss
    hub = hub
    wild = wild
    us = us
    them = them
    None = None
    Leeway = 0
    ClientClaims <- MCClaims
    Procs = {p1, p2}
    Urls <- MCUrls
    LoopbackHosts = {}
    Server <- MCServer
    Issuers <- MCIssuers
    Login <- MCLogin
    Pasted <- MCPasted
    ClientIssuer = iss
    Lifetime = 1
    MaxTime = 1
    MaxWrites = 3
    MaxLogins = 1
INVARIANTS
    DepsComeFirst
    ContextIsExact
    
    QueriesMean
    EntriesSurvive
    RefreshGoesOn
    OnlyOurLogins
CHECK_DEADLOCK FALSE
