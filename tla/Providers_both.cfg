SPECIFICATION Spec
CONSTANTS
    None = None
    ent = ent
    key = key
    derived = derived
    other = other
    r1 = r1
    r2 = r2
    v1 = v1
    v2 = v2
    A = A
    MaxTold = 2
    AllRecords <- MCRecords
    Propositions <- MCPropositions
    Relations <- MCRelations
    Scopes <- MCScopes
    Time <- MCTime
CONSTRAINT FewTold
INVARIANTS
    Interchangeable
    ProjectionEvidenceKept
    ProjectionUnknownsListed
    ProjectionNeverConflicts
    ExternalEvidenceCoherent
    ExternalUnknownsListed
PROPERTIES
    ExternalFreshEvidence
    ExternalNoFalseAbsence
