SPECIFICATION ClientsSpec
CONSTANTS
    None = None
    ent = ent
    key = key
    derived = derived
    other = other
    r1 = r1
    r2 = r2
    v1 = v1
    v2 = v2
    A = A
    MaxTold = 0
    AllRecords <- MCFewRecords
    Propositions <- MCPropositions
    Relations <- MCRelations
    Scopes <- MCScopes
    Time <- MCTime
    Probes <- MCProbes
    MaxMoves = 2
INVARIANT LookupsSucceed
PROPERTY ReplayOnlyIfMoved
PROPERTY VerdictRepeats
PROPERTY RunFinishes
