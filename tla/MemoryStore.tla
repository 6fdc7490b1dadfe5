------------------------------ MODULE MemoryStore ------------------------------
(***************************************************************************)
(* InMemoryWorldState (memory.py), the reference provider: a bag of        *)
(* immutable inputs, the outcomes its queries computed, and the queries.   *)
(*                                                                         *)
(* The inputs are observations, evidence, claims and transitions.  A query *)
(* resolves claims at an instant the caller names and CACHES its outcome:  *)
(* get_evidence, get_unknowns and get_conflicts answer from that cache,    *)
(* and a cached assertion is available as a parent to later queries.  So a *)
(* query is a step and not a mere read.  A dictionary keyed by its values' *)
(* own ids is the set of its values.                                       *)
(*                                                                         *)
(* There is no clock.  An instant in a record or in a query is whatever    *)
(* the caller says, and a record dated before a query may arrive after it. *)
(***************************************************************************)
EXTENDS Resolution, History, Sequences

CONSTANTS
    Observations,      \* the observations, evidence and claims that callers
    Evidence,          \*   may register: two of them may carry one id
    Claims,
    Propositions,      \* the <<entity, property key>> pairs asked about
    Relations,         \* the <<subject, relation key, object>> asked about
    Scopes,            \* the spatial scopes asked about, besides None
    Time,              \* the instants callers use
    TransitionTimes    \* the instants transitions are dated at

\* Instants are UTC datetimes, ordered like naturals.
ASSUME TimeAssumption == Time \subseteq Nat /\ TransitionTimes \subseteq Time

\* A Claim that exists was accepted by its constructor.
ASSUME ClaimsAssumption ==
    \A c \in Claims : ValidClaim(c) /\ c.proposition \in Propositions

\* A spatial scope is not the absence of one.
ASSUME ScopesAssumption == None \notin Scopes

\* Evidence that exists was accepted by its constructor.
ASSUME EvidenceAssumption == \A e \in Evidence : ValidEvidence(e)

VARIABLES
    observations, evidence, claims, transitions,   \* registered by callers
    assertions, unknowns, conflicts,               \* cached query outcomes
    outcome_scopes     \* pairs <<outcome, scope it was computed for>>

inputs == <<observations, evidence, claims>>
cache  == <<assertions, unknowns, conflicts, outcome_scopes>>
vars   == <<inputs, transitions, cache>>

Outcomes == assertions \cup unknowns \cup conflicts

----------------------------------------------------------------------------
(* Reading *)

\* What a resolution as of `at` may rely on.  A cached assertion counts by the
\* instant it was resolved at, whatever its validity.
Availability(at) ==
    LET recorded == {e \in evidence : e.recorded_at <= at}
    IN  [evidence_refs  |-> {e.id : e \in recorded},
         source_refs    |-> {e.source : e \in recorded},
         assertion_refs |-> {a \in assertions : a.resolved_at <= at}]

\* The outcome of query_state.
StateAt(prop, at) == ResolveState(claims, prop, at, Availability(at))

\* query_relation never resolves: relation claims are not represented yet.
RelationAt(rel, at) ==
    [kind        |-> "unknown",
     proposition |-> <<rel[1], rel[2]>>,
     as_of       |-> at,
     reason      |-> "unsupported_query",
     missing     |-> {},
     object      |-> rel[3]]

\* Fault: a claim made for no scope counts in every scope.
ScopeMatchesLoosely(claimed, requested) ==
    requested = None \/ claimed \in {None, requested}

ScopeMatches(claimed, requested) == requested = None \/ claimed = requested

\* The claims a snapshot considers.
Selected(scope) == {c \in claims : ScopeMatches(c.spatial_scope, scope)}

SnapshotResults(scope, at) ==
    {ResolveState(Selected(scope), prop, at, Availability(at)) :
        prop \in {c.proposition : c \in Selected(scope)}}

\* Fault: a source version recorded after the snapshot's instant is used.
SourceVersionsLate(scope, at) ==
    LET cited == EvidenceOf({c \in Selected(scope) : c.created_at <= at})
        known == {e \in evidence : e.id \in cited /\ e.version # None}
    IN  {<<e.source, e.version>> :
            e \in {d \in known : \A f \in known : f.source = d.source
                                                    => f.version = d.version}}

\* The versions of the sources behind the selected claims, where evidence
\* known by then names exactly one version of a source.
SourceVersions(scope, at) ==
    LET cited == EvidenceOf({c \in Selected(scope) : c.created_at <= at})
        known == {e \in evidence : /\ e.id \in cited
                                   /\ e.recorded_at <= at
                                   /\ e.version # None}
    IN  {<<e.source, e.version>> :
            e \in {d \in known : \A f \in known : f.source = d.source
                                                    => f.version = d.version}}

Snapshot(scope, at) ==
    [as_of           |-> at,
     created_at      |-> at,
     scope           |-> scope,
     results         |-> SnapshotResults(scope, at),
     source_versions |-> SourceVersions(scope, at)]

\* get_evidence looks a reference up as an outcome, then as a claim, a
\* transition and a piece of evidence; what is not registered is left out.
CitedRefs(ref) ==
    LET named == {c \in claims : c.id = ref}
    IN  IF ref \in assertions \cup conflicts THEN ref.evidence_refs
        ELSE IF named # {} THEN EvidenceOf(named)
        ELSE IF ref \in transitions THEN ref.evidence_refs
        ELSE {ref}

GetEvidence(ref) == {e \in evidence : e.id \in CitedRefs(ref)}

GetUnknowns(scope) == {x \in unknowns : <<x, scope>> \in outcome_scopes}

GetConflicts(scope) == {x \in conflicts : <<x, scope>> \in outcome_scopes}

GetHistory(entity, start, end) ==
    {t \in transitions : /\ t.proposition[1] = entity
                         /\ start = None \/ start <= t.transition_time
                         /\ end = None \/ t.transition_time <= end}

----------------------------------------------------------------------------
(* Operations that change the store *)

\* _put_unique: the first value under an id stays; a different one under the
\* same id raises, which leaves the store as it was.
PutUnique(store, value) ==
    IF \E x \in store : x.id = value.id THEN store ELSE store \cup {value}

\* Faults: an Unknown is cached without its scope; outcomes are filed under no
\* scope; the cache of assertions keeps the latest results only.
RegisterUnscoped(results, scope) ==
    /\ assertions' = assertions \cup {x \in results : x.kind = "state"}
    /\ unknowns'   = unknowns \cup {x \in results : x.kind = "unknown"}
    /\ conflicts'  = conflicts \cup {x \in results : x.kind = "conflict"}
    /\ outcome_scopes' = outcome_scopes
                           \cup ({x \in results : x.kind # "unknown"} \X {scope})
    /\ UNCHANGED <<inputs, transitions>>

RegisterEverywhere(results, scope) ==
    /\ assertions' = assertions \cup {x \in results : x.kind = "state"}
    /\ unknowns'   = unknowns \cup {x \in results : x.kind = "unknown"}
    /\ conflicts'  = conflicts \cup {x \in results : x.kind = "conflict"}
    /\ outcome_scopes' = outcome_scopes \cup (results \X {None})
    /\ UNCHANGED <<inputs, transitions>>

RegisterEvicting(results, scope) ==
    /\ assertions' = {x \in results : x.kind = "state"}
    /\ unknowns'   = unknowns \cup {x \in results : x.kind = "unknown"}
    /\ conflicts'  = conflicts \cup {x \in results : x.kind = "conflict"}
    /\ outcome_scopes' = outcome_scopes \cup (results \X {scope})
    /\ UNCHANGED <<inputs, transitions>>

\* _register_outcome for each result of a query made under one scope.
Register(results, scope) ==
    /\ assertions' = assertions \cup {x \in results : x.kind = "state"}
    /\ unknowns'   = unknowns \cup {x \in results : x.kind = "unknown"}
    /\ conflicts'  = conflicts \cup {x \in results : x.kind = "conflict"}
    /\ outcome_scopes' = outcome_scopes \cup (results \X {scope})
    /\ UNCHANGED <<inputs, transitions>>

Init ==
    /\ observations = {} /\ evidence = {} /\ claims = {} /\ transitions = {}
    /\ assertions = {} /\ unknowns = {} /\ conflicts = {}
    /\ outcome_scopes = {}

AddObservation(o) ==
    /\ observations' = PutUnique(observations, o)
    /\ UNCHANGED <<evidence, claims, transitions, cache>>

AddEvidence(e) ==
    /\ evidence' = PutUnique(evidence, e)
    /\ UNCHANGED <<observations, claims, transitions, cache>>

AddClaim(c) ==
    /\ claims' = PutUnique(claims, c)
    /\ UNCHANGED <<observations, evidence, transitions, cache>>

\* A caller builds a transition from assertions it was given and registers it.
AddTransition(from, to, time) ==
    /\ CanBuildTransition(from, to)
    /\ transitions' = transitions \cup {BuildTransition(from, to, time)}
    /\ UNCHANGED <<inputs, cache>>

\* The outcome is computed once; one that a constructor refuses raises and
\* nothing is cached.
QueryState(prop, at) ==
    \E x \in {StateAt(prop, at)} : Constructible(x) /\ Register({x}, None)

QueryRelation(rel, at) == Register({RelationAt(rel, at)}, None)

\* All results are computed from one availability before any is registered.
GetSnapshot(scope, at) ==
    \E results \in {SnapshotResults(scope, at)} :
        /\ \A x \in results : Constructible(x)
        /\ Register(results, scope)

Next ==
    \/ \E o \in Observations : AddObservation(o)
    \/ \E e \in Evidence : AddEvidence(e)
    \/ \E c \in Claims : AddClaim(c)
    \/ \E from, to \in assertions \cup {None}, time \in TransitionTimes :
          AddTransition(from, to, time)
    \/ \E prop \in Propositions, at \in Time : QueryState(prop, at)
    \/ \E rel \in Relations, at \in Time : QueryRelation(rel, at)
    \/ \E scope \in Scopes \cup {None}, at \in Time : GetSnapshot(scope, at)

Spec == Init /\ [][Next]_vars
=============================================================================
