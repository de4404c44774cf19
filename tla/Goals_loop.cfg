SPECIFICATION Spec
CONSTANTS
    p = p
    q = q
    here = here
    there = there
    v = v
    w = w
    Proposals = {p, q}
    Contexts = {here, there}
    Fits <- FitsHere
    None = None
    Calls = {c1, c2}
    Verifiers = {v, w}
    VerifiersOf <- Asked
    MaxModelRounds = 3
    MaxToolRounds = 2
    MaxRepeats = 1
    LoopRounds = 2
    MaxLoops = 2
SYMMETRY Symmetry
INVARIANTS TypeOK ShownIsEarned EvidenceIsBound
PROPERTY StopIsFinal
CHECK_DEADLOCK FALSE
