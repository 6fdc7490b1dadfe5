SPECIFICATION Spec
CONSTANTS
    c1 = c1
    c2 = c2
    c3 = c3
    c4 = c4
    e1 = e1
    e2 = e2
    s1 = s1
    v1 = v1
    v2 = v2
    mode = mode
    ent = ent
    key = key
    derived = derived
    A = A
    B = B
    other = other
    o1 = o1
    None = None
    Grain = 2
    MaxOutcomes = 3
    MaxTransitions = 2
    Claims <- WindowClaims
    Evidence <- TwoEvidence
    Observations = {}
    Propositions <- PQ
    Relations = {}
    Scopes = {}
    Time <- Times2
    TransitionTimes = {}
CONSTRAINT FewOutcomes
PROPERTY SnapshotBounded
