SPECIFICATION Spec
CONSTANTS
    c1 = c1
    c2 = c2
    c3 = c3
    c4 = c4
    e1 = e1
    e2 = e2
    s1 = s1
    v1 = v1
    v2 = v2
    mode = mode
    ent = ent
    key = key
    derived = derived
    A = A
    B = B
    other = other
    o1 = o1
    None = None
    Grain = 2
    MaxOutcomes = 2
    MaxTransitions = 2
    Claims <- ScopedClaims
    Evidence <- VersionedEvidence
    Observations = {}
    Propositions <- OnlyP
    Relations <- MCRelations
    Scopes <- BothScopes
    Time <- Times2
    TransitionTimes = {}
CONSTRAINT FewOutcomes
INVARIANT ScopeIsolation
INVARIANT ScopeWidening
INVARIANT WireLossless
PROPERTY SnapshotKnowledgeBounded
