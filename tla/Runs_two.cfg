SPECIFICATION Spec
CONSTANTS
    NumRuns = 2
    MaxAsks = 1
    Workers = {w1, w2}
    w1 = w1
    w2 = w2
    Tools = {edit}
    AutoTools = {edit}
    edit = edit
    patch = patch
    ask1 = ask1
    ask2 = ask2
    disk = disk
    Reusable = {}
    ResourceOf <- Resources
    WriteTools = {edit}
    Outlive = {}
    UI = UI
    Lost = Lost
    Unstarted = Unstarted
    NoResource = NoResource
    NoWorker = NoWorker
INVARIANTS SingleWriter
PROPERTIES NoAutomaticReplay NoConcurrentExecution
CONSTRAINT TwoRunBound
SYMMETRY WorkerSymmetry
CHECK_DEADLOCK FALSE
