SPECIFICATION FairSpec
CONSTANTS
    NumRuns = 1
    MaxAsks = 1
    Workers = {w1, w2}
    w1 = w1
    w2 = w2
    Tools = {edit}
    AutoTools = {edit}
    edit = edit
    patch = patch
    ask1 = ask1
    ask2 = ask2
    disk = disk
    Reusable = {}
    ResourceOf <- Resources
    WriteTools = {edit}
    Outlive = {}
    UI = UI
    Lost = Lost
    Unstarted = Unstarted
    NoResource = NoResource
    NoWorker = NoWorker
PROPERTIES OrphanRecovered ClaimedCancelEnds LocksReturn
CHECK_DEADLOCK FALSE
