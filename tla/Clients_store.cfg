SPECIFICATION ClientsSpec
CONSTANTS
    c1 = c1
    c2 = c2
    c3 = c3
    c4 = c4
    e1 = e1
    s1 = s1
    v1 = v1
    v2 = v2
    mode = mode
    ent = ent
    key = key
    derived = derived
    None = None
    Claims <- MCClaims
    Evidence <- MCEvidence
    Observations = {}
    Propositions <- PQ
    Relations = {}
    Scopes = {}
    Time <- OnlyNow
    TransitionTimes = {}
    Probes <- MCProbes
    Cases <- MCCases
INVARIANT LookupsSucceed
INVARIANT ReplayOnlyAwaited
INVARIANT UnsupportedOnlyDerived
INVARIANT SuiteVerdictStands
INVARIANT BenchmarkVerdictStands
PROPERTY BenchmarkReplays
PROPERTY RunsFinish
PROPERTY SuiteSettles
