SPECIFICATION Spec
CONSTANTS
    NumRuns = 1
    MaxAsks = 2
    Workers = {w1, w2}
    w1 = w1
    w2 = w2
    Tools = {ask1}
    AutoTools = {}
    edit = edit
    patch = patch
    ask1 = ask1
    ask2 = ask2
    disk = disk
    Reusable = {}
    ResourceOf <- Resources
    WriteTools = {ask1}
    Outlive = {}
    UI = UI
    Lost = Lost
    Unstarted = Unstarted
    NoResource = NoResource
    NoWorker = NoWorker
INVARIANTS TypeOK VerifiedOnce
PROPERTIES OneShotApproval AgentMovesOnly
CONSTRAINT AskBound
SYMMETRY WorkerSymmetry
CHECK_DEADLOCK FALSE
