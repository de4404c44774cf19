SPECIFICATION Spec
CONSTANTS
    c1 = c1
    c2 = c2
    a1 = a1
    Commands = {c1, c2}
    Runs = {a1}
    Limit = 2
    MaxChanges = 2
    MaxRevision = 1
    None = None
INVARIANT TypeOK
PROPERTY PromiseKept
CHECK_DEADLOCK FALSE
SYMMETRY Alike
