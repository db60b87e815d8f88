SPECIFICATION HostFairSpec
CONSTANTS
    s1 = s1
    s2 = s2
    s3 = s3
    s4 = s4
    etl = etl
    report = report
    gone = gone
    Ids = {s1, s2, s3, s4}
    Workflows = {etl, report}
    WorkflowOf <- Classes
    Foreign = {s2}
    AutoInit = {etl}
    Main = Main
    Requests = {r1, r2}
    MaxBoots = 2
    MaxCalls = 2
INVARIANTS
    OneSessionPerId
    NothingForgotten

    
CHECK_DEADLOCK FALSE
