--------------------------- MODULE ExternalProvider ---------------------------
(***************************************************************************)
(* DirectExternalWorldStateProvider (external.py): answers straight from   *)
(* the source's record, without the reference engine, and turns a source   *)
(* that is not available into an explicit Unknown.  It keeps two caches:   *)
(* evidence by evidence id, each piece labelled with the assertion it was  *)
(* built for, and the unknowns.  The source's version does not change.     *)
(***************************************************************************)
EXTENDS Records

VARIABLES
    available,         \* does the source answer
    evidence_cache,    \* [id, recorded_at, state_ref], one per id
    unknown_cache,
    told               \* history: the pairs <<scope, outcome>> callers hold

providerVars == <<evidence_cache, unknown_cache, told>>

UnknownOf(prop, at, reason) ==
    [kind |-> "unknown", proposition |-> prop, as_of |-> at, reason |-> reason]

TimeInScope(at, r) ==
    /\ r.start = None \/ r.start <= at
    /\ r.end = None \/ at <= r.end

AssertionOf(r, at) ==
    [kind          |-> "state",
     proposition   |-> r.proposition,
     value         |-> r.value,
     valid_from    |-> r.start,
     valid_until   |-> r.end,
     resolved_at   |-> at,
     evidence_refs |-> {EvidenceId(r)},
     spatial_scope |-> r.spatial_scope]

\* Fault: a record does not count yet at the instant it was updated.
ResultFromRecordStrict(r, at) ==
    IF r.updated_at >= at THEN UnknownOf(r.proposition, at, "no_evidence")
    ELSE IF ~TimeInScope(at, r)
      THEN UnknownOf(r.proposition, at, "outside_validity")
    ELSE AssertionOf(r, at)

ResultFromRecord(r, at) ==
    IF r.updated_at > at THEN UnknownOf(r.proposition, at, "no_evidence")
    ELSE IF ~TimeInScope(at, r)
      THEN UnknownOf(r.proposition, at, "outside_validity")
    ELSE AssertionOf(r, at)

\* Fault: evidence is cached before the record is known to answer.
EvidenceFromEager(r, at) ==
    {[id |-> EvidenceId(r), recorded_at |-> r.updated_at,
      state_ref |-> AssertionOf(r, at)]}

\* The evidence cached when the record's answer is an assertion.
EvidenceFrom(r, at) ==
    IF ResultFromRecord(r, at).kind = "unknown" THEN {}
    ELSE {[id |-> EvidenceId(r), recorded_at |-> r.updated_at,
           state_ref |-> AssertionOf(r, at)]}

\* The evidence of the records a query used, written one after the other: of two
\* pieces under one id the later one stays.  The source sorts its records by the
\* names of what they are about, so either may be the later one.
Written(used, at) ==
    LET pieces == UNION {EvidenceFrom(r, at) : r \in used}
    IN  {kept \in SUBSET pieces :
            /\ {e.id : e \in kept} = {e.id : e \in pieces}
            /\ \A e, f \in kept : e.id = f.id => e = f}

\* The records a query reads: none when the source does not answer.
Read(prop) == {r \in records : available /\ r.proposition = prop}
ReadAll(scope) == {r \in records : available /\ InScope(r, scope)}

\* Fault: a source that does not answer reads as one that holds nothing.
OutageReasonAbsent == "no_evidence"

OutageReason == "provider_unavailable"

Answer(prop, at) ==
    IF ~available THEN UnknownOf(prop, at, OutageReason)
    ELSE IF Read(prop) = {} THEN UnknownOf(prop, at, "no_evidence")
    ELSE ResultFromRecord(CHOOSE r \in Read(prop) : TRUE, at)

SnapshotAnswers(scope, at) ==
    IF ~available THEN {UnknownOf(None, at, OutageReason)}
    ELSE {ResultFromRecord(r, at) : r \in ReadAll(scope)}

GetEvidence(ref) == {e \in evidence_cache : e.state_ref = ref}

\* The scope asked for is not looked at.
GetUnknowns(scope) == unknown_cache

----------------------------------------------------------------------------
ProviderInit ==
    /\ available = TRUE
    /\ evidence_cache = {} /\ unknown_cache = {} /\ told = {}

\* Faults: evidence already cached under its id is left as it was; unknowns of
\* an outage are not cached.
TellFirst(results, used, at, scope) ==
    /\ evidence_cache' \in
          {Overwrite(kept, evidence_cache) : kept \in Written(used, at)}
    /\ unknown_cache' = unknown_cache \cup {x \in results : x.kind = "unknown"}
    /\ told' = told \cup ({scope} \X results)

TellTransient(results, used, at, scope) ==
    /\ evidence_cache' \in
          {Overwrite(evidence_cache, kept) : kept \in Written(used, at)}
    /\ unknown_cache' = unknown_cache \cup
          {x \in results : x.kind = "unknown" /\ x.reason # "provider_unavailable"}
    /\ told' = told \cup ({scope} \X results)

\* Results are told, the evidence of the records used and unknowns are cached.
Tell(results, used, at, scope) ==
    /\ evidence_cache' \in
          {Overwrite(evidence_cache, kept) : kept \in Written(used, at)}
    /\ unknown_cache' = unknown_cache \cup {x \in results : x.kind = "unknown"}
    /\ told' = told \cup ({scope} \X results)

\* Fault: an outage is not caught and reaches the caller.
QueryStateRaising(prop, at) ==
    available /\ Tell({Answer(prop, at)}, Read(prop), at, None)

QueryState(prop, at) == Tell({Answer(prop, at)}, Read(prop), at, None)

QueryRelation(rel, at) == Tell({RelationUnknown(rel, at)}, {}, at, None)

GetSnapshot(scope, at) ==
    Tell(SnapshotAnswers(scope, at), ReadAll(scope), at, scope)

ProviderNext ==
    /\ \/ \E prop \in Propositions, at \in Time : QueryState(prop, at)
       \/ \E rel \in Relations, at \in Time : QueryRelation(rel, at)
       \/ \E scope \in Scopes \cup {None}, at \in Time : GetSnapshot(scope, at)
    /\ UNCHANGED <<records, available>>

\* The source goes away or comes back.
Toggle == available' = ~available

----------------------------------------------------------------------------
(* What callers may rely on *)

Assertions == {x \in {p[2] : p \in told} : x.kind = "state"}

\* The evidence an assertion cites is never lost, it can only be labelled with
\* a younger answer from the same record: each piece is labelled with one
\* assertion that was told and cites it, and no two pieces have one id.
EvidenceCoherent ==
    /\ \A a \in Assertions : a.evidence_refs \subseteq {e.id : e \in evidence_cache}
    /\ \A e \in evidence_cache : /\ e.state_ref \in Assertions
                                 /\ e.id \in e.state_ref.evidence_refs
    /\ \A e, f \in evidence_cache : e.id = f.id => e = f

\* The evidence of an assertion can be retrieved by its id, all of it.
FullyTraced(x) == x.kind = "state" => {e.id : e \in GetEvidence(x)} = x.evidence_refs

\* The answer just given can be traced, whatever the evidence it cites was
\* labelled with before.  Of the assertions of a snapshot that cite one piece of
\* evidence, two properties kept under one record id, one can be traced.
FreshEvidence ==
    [][\A at \in Time :
          /\ \A prop \in Propositions :
                QueryState(prop, at) => \A x \in {Answer(prop, at)} : FullyTraced(x)'
          /\ \A scope \in Scopes \cup {None} :
                GetSnapshot(scope, at) =>
                    \A x \in SnapshotAnswers(scope, at) :
                        x.kind = "state" =>
                            \E y \in SnapshotAnswers(scope, at) :
                                /\ y.kind = "state"
                                /\ y.evidence_refs = x.evidence_refs
                                /\ FullyTraced(y)']_providerVars

\* An Unknown told for a scope is listed for that scope ever after.
UnknownsListed ==
    \A p \in told : p[2].kind = "unknown" => p[2] \in GetUnknowns(p[1])

\* An outage never reads as absence: a caller is told that there is no evidence
\* only while no record dated by then is held.
NoFalseAbsence ==
    [][\A p \in told' \ told :
          (p[2].kind = "unknown" /\ p[2].reason = "no_evidence") =>
              \A r \in records : r.proposition = p[2].proposition
                                     => r.updated_at > p[2].as_of]_told

\* The evidence of every assertion that was told can be retrieved by its id.
EvidenceKept == \A a \in Assertions : FullyTraced(a)
=============================================================================
