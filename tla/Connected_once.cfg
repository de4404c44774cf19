SPECIFICATION FairSpec
CONSTANTS
    Work = {change}
    change = change
    MaxAttempts = 2
    MaxChanges = 2
    MaxStops = 2
    None = None
INVARIANTS TypeOK SentOnce
PROPERTIES PromiseKept SentAsReviewed UncertaintyEnds
CHECK_DEADLOCK FALSE
