SPECIFICATION FairSpec
CONSTANTS
    NoWorker = NoWorker
    Parent = Parent
    prod = prod
    rev = rev
    w1 = w1
    w2 = w2
    r1 = r1
    r2 = r2
    Experts = {prod, rev}
    DependsOn <- MCDependsOn
    Conflicting <- MCConflicting
    Production = prod
    Review = rev
    MaxAttempts <- MCMaxAttempts
    MaxParallel = 3
    TeamBudget = 8
    Revisions = {r1}
    ToolRuns = {Parent}
    LapsingRuns <- MCParentLapses
    Workers = {w1}
PROPERTIES ParentReclaimed
CHECK_DEADLOCK FALSE
