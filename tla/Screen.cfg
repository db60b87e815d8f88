SPECIFICATION Spec
CONSTANTS
    b1 = b1
    t1 = t1
    t2 = t2
    Batches = {b1}
    TasksOf <- Both
    Outcomes = {"COMPLETED"}
    Watched = t1
    MaxTurns = 1
INVARIANTS
    
    CardsFollow
    RowsShowOutcomes
    LinesArrive
CHECK_DEADLOCK FALSE
