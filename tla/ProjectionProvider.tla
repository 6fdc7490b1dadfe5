-------------------------- MODULE ProjectionProvider --------------------------
(***************************************************************************)
(* ProjectionWorldStateProvider (projection.py): every query builds a new  *)
(* InMemoryWorldState from the records of the moment, asks it, and keeps   *)
(* only what later lookups need: evidence by outcome, and outcomes by      *)
(* scope.                                                                  *)
(***************************************************************************)
EXTENDS Records, FiniteSets

VARIABLES
    evidence_cache,    \* evidence of the outcomes told
    outcome_cache,     \* the unknowns and conflicts told
    scope_refs,        \* pairs <<scope, outcome>>
    evidence_refs,     \* pairs <<outcome, evidence id>>
    told               \* history: the pairs <<scope, outcome>> callers hold

providerVars == <<evidence_cache, outcome_cache, scope_refs, evidence_refs, told>>

EvidenceOfRecord(r) ==
    [id |-> EvidenceId(r), source |-> "external-sor", version |-> r.version,
     recorded_at |-> r.updated_at]

\* The claim's id leaves updated_at out.
ClaimOfRecord(r) ==
    [id             |-> <<r.record_id, r.version, r.proposition, r.value,
                          r.start, r.end, r.spatial_scope>>,
     proposition    |-> r.proposition,
     value          |-> r.value,
     epistemic_mode |-> "observed",
     spatial_scope  |-> r.spatial_scope,
     uncertainty    |-> None,
     created_at     |-> r.updated_at,
     start          |-> r.start,
     end            |-> r.end,
     evidence_refs  |-> {EvidenceId(r)},
     source_refs    |-> {"external-sor"},
     parent_refs    |-> {}]

\* _project: a reference provider that has just registered the projection.
Engine ==
    INSTANCE MemoryStore
        WITH Observations <- {}, TransitionTimes <- {},
             Evidence <- {EvidenceOfRecord(r) : r \in AllRecords},
             Claims <- {ClaimOfRecord(r) : r \in AllRecords},
             evidence <- {EvidenceOfRecord(r) : r \in records},
             claims <- {ClaimOfRecord(r) : r \in records},
             observations <- {}, transitions <- {}, assertions <- {},
             unknowns <- {}, conflicts <- {}, outcome_scopes <- {}

Answer(prop, at) == Engine!StateAt(prop, at)

SnapshotAnswers(scope, at) == Engine!SnapshotResults(scope, at)

EvidenceFor(x) ==
    IF x.kind = "unknown" THEN {}
    ELSE {e \in {EvidenceOfRecord(r) : r \in records} : e.id \in x.evidence_refs}

----------------------------------------------------------------------------
GetEvidence(ref) ==
    {e \in evidence_cache : <<ref, e.id>> \in evidence_refs}

GetUnknowns(scope) ==
    {x \in outcome_cache : x.kind = "unknown" /\ <<scope, x>> \in scope_refs}

GetConflicts(scope) ==
    {x \in outcome_cache : x.kind = "conflict" /\ <<scope, x>> \in scope_refs}

\* Faults: only the evidence of the last answer is kept; an answer to a scoped
\* question is filed under no scope.
TellKeepingLast(results, scope) ==
    LET kept == {x \in results : x.kind # "state"}
    IN  /\ evidence_cache' = UNION {EvidenceFor(x) : x \in results}
        /\ evidence_refs'  = evidence_refs \cup
               UNION {{<<x, e.id>> : e \in EvidenceFor(x)} : x \in results}
        /\ outcome_cache'  = outcome_cache \cup kept
        /\ scope_refs'     = scope_refs \cup ({scope} \X kept)
        /\ told'           = told \cup ({scope} \X results)

TellUnscoped(results, scope) ==
    LET kept == {x \in results : x.kind # "state"}
    IN  /\ evidence_cache' = Overwrite(evidence_cache,
                                       UNION {EvidenceFor(x) : x \in results})
        /\ evidence_refs'  = evidence_refs \cup
               UNION {{<<x, e.id>> : e \in EvidenceFor(x)} : x \in results}
        /\ outcome_cache'  = outcome_cache \cup kept
        /\ scope_refs'     = scope_refs \cup ({None} \X kept)
        /\ told'           = told \cup ({scope} \X results)

\* _remember_evidence and _remember_outcome for each result, which are told.
Tell(results, scope) ==
    LET kept == {x \in results : x.kind # "state"}
    IN  /\ evidence_cache' = Overwrite(evidence_cache,
                                       UNION {EvidenceFor(x) : x \in results})
        /\ evidence_refs'  = evidence_refs \cup
               UNION {{<<x, e.id>> : e \in EvidenceFor(x)} : x \in results}
        /\ outcome_cache'  = outcome_cache \cup kept
        /\ scope_refs'     = scope_refs \cup ({scope} \X kept)
        /\ told'           = told \cup ({scope} \X results)

ProviderInit ==
    /\ evidence_cache = {} /\ outcome_cache = {} /\ scope_refs = {}
    /\ evidence_refs = {} /\ told = {}

QueryState(prop, at) == Tell({Answer(prop, at)}, None)

QueryRelation(rel, at) == Tell({RelationUnknown(rel, at)}, None)

GetSnapshot(scope, at) == Tell(SnapshotAnswers(scope, at), scope)

ProviderNext ==
    /\ \/ \E prop \in Propositions, at \in Time : QueryState(prop, at)
       \/ \E rel \in Relations, at \in Time : QueryRelation(rel, at)
       \/ \E scope \in Scopes \cup {None}, at \in Time : GetSnapshot(scope, at)
    /\ UNCHANGED records

----------------------------------------------------------------------------
(* What callers may rely on *)

\* The evidence of every assertion ever told can be retrieved, all of it, also
\* after the record behind it has been replaced.
EvidenceKept ==
    \A p \in told :
        p[2].kind = "state" => {e.id : e \in GetEvidence(p[2])} = p[2].evidence_refs

\* An Unknown told for a scope is listed for that scope ever after, and nothing
\* is listed for a scope that was not told for it.
UnknownsListed ==
    \A scope \in Scopes \cup {None} :
        GetUnknowns(scope) = {p[2] : p \in {q \in told : q[1] = scope
                                                         /\ q[2].kind = "unknown"}}

\* One current record per proposition leaves nothing to disagree: a projection
\* never tells a conflict, however the outside system changes its mind.
NeverConflicts ==
    /\ \A p \in told : p[2].kind # "conflict"
    /\ \A scope \in Scopes \cup {None} : GetConflicts(scope) = {}
=============================================================================
