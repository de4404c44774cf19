SPECIFICATION Spec
CONSTANTS
    NoWorker = NoWorker
    Parent = Parent
    prod = prod
    rev = rev
    w1 = w1
    w2 = w2
    r1 = r1
    r2 = r2
    Experts = {prod, rev}
    DependsOn <- MCDependsOn
    Conflicting <- MCConflicting
    Production = prod
    Review = rev
    MaxAttempts <- MCMaxAttempts
    MaxParallel = 3
    TeamBudget = 8
    Revisions = {r1, r2}
    ToolRuns = {Parent}
    LapsingRuns <- MCLapsing
    Workers = {w1, w2}
SYMMETRY Symmetry
CONSTRAINT OneFault
INVARIANTS TypeOK OneTeam SynthesisGated MergeExact BuiltOnPassed
CHECK_DEADLOCK FALSE
