SPECIFICATION Spec
CONSTANTS
    Checkpoints = {c1, c2}
    Paths = {a, b}
    Ids = {i1, i2, i3}
    Contents = {x, big}
    Bodies = {big}
    Oversized = {big}
    Operations <- AllOperations
    Windows = TRUE
    MaxEdits = 1
    NoPath = NoPath
    NoId = NoId
    NoData = NoData
    NoOne = NoOne
SYMMETRY Symmetry
CONSTRAINT TwoChanges
INVARIANTS TypeOK EffectTruth OneShot OfferHolds ExactInverse
PROPERTY UndoSparesOthers
