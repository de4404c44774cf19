SPECIFICATION Spec
CONSTANTS
    t1 = t1
    t2 = t2
    p = p
    q = q
    here = here
    there = there
    early = early
    late = late
    other = other
    beside = beside
    Tasks = {t1, t2}
    Groups = {early, other, beside}
    Proposals = {p, q}
    Contexts = {here, there}
    Fits <- FitsHere
    None = None
    TaskOf <- TaskOfGroup
    RevisionOf <- RevisionOfGroup
    ExpiresAt <- Expiry
    MaxTime = 2
INVARIANTS TypeOK OneDecision GrantIsBacked
PROPERTY AuthorityIsOver
CHECK_DEADLOCK FALSE
