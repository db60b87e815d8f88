SPECIFICATION FairSpec
CONSTANTS
    AnyName = AnyName
    None = None
    etl = etl
    t1 = t1
    t2 = t2
    Scope = etl
    Callers = {t1, t2}
    CallsOf <- OneEach
    Grants <- TwoGrants
    MaxCalls = 2
    MaxLinks = 2
INVARIANTS
    AnswerIsTruth
    EffectsArePermitted
PROPERTIES
    CallsReturn
CHECK_DEADLOCK FALSE
