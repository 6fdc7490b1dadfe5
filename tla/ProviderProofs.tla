----------------------------- MODULE ProviderProofs -----------------------------
(***************************************************************************)
(* Proofs that the example providers keep what they promise, and answer    *)
(* alike, for any records and any questions.                               *)
(***************************************************************************)
EXTENDS Providers, TLAPS

----------------------------------------------------------------------------
(* The outside store *)

\* One current record for each proposition.
RecordsOK ==
    /\ records \subseteq AllRecords
    /\ \A r, s \in records : r.proposition = s.proposition => r = s

LEMMA RecordsOKNext == RecordsOK /\ [Next]_vars => RecordsOK'
<1> SUFFICES ASSUME RecordsOK, [Next]_vars PROVE RecordsOK'
  OBVIOUS
<1>1. ASSUME NEW r \in AllRecords, Put(r) PROVE RecordsOK'
  BY <1>1 DEF RecordsOK, Put
<1>2. CASE UNCHANGED records
  BY <1>2 DEF RecordsOK
<1> QED BY <1>1, <1>2 DEF Next, vars, P!ProviderNext, X!ProviderNext, X!Toggle

LEMMA RecordsAlwaysOK == Spec => []RecordsOK
<1>1. Init => RecordsOK
  BY DEF Init, RecordsOK
<1> QED BY <1>1, RecordsOKNext, PTL DEF Spec

----------------------------------------------------------------------------
(* What the reference engine makes of a projection *)

\* A proposition without a claim has no evidence.
LEMMA ResolveNothing ==
    ASSUME NEW C, NEW prop, NEW at, {c \in C : c.proposition = prop} = {}
    PROVE  P!Engine!ResolveState(C, prop, at, P!Engine!Availability(at))
              = P!Engine!Unknown(prop, at, "no_evidence", {})
<1>1. P!Engine!Visible(C, prop, at) = {}
  BY DEF P!Engine!Visible
<1>2. P!Engine!Active(C, prop, at) = {}
  BY <1>1 DEF P!Engine!Active
<1>3. P!Engine!Usable(C, prop, at, P!Engine!Availability(at)) = {}
  BY <1>2 DEF P!Engine!Usable
<1> DEFINE lacking == UNION {P!Engine!MissingProvenanceRefs(c, P!Engine!Availability(at)) :
                                c \in P!Engine!Active(C, prop, at)}
<1>4. lacking = {}
  BY <1>2
<1> QED BY <1>1, <1>3, <1>4 DEF P!Engine!ResolveState, P!Engine!UnknownReason

\* A proposition with one record is resolved by that record's date and bounds.
LEMMA ResolveOne ==
    ASSUME NEW C, NEW r \in records, NEW at,
           {c \in C : c.proposition = r.proposition} = {P!ClaimOfRecord(r)}
    PROVE  P!Engine!ResolveState(C, r.proposition, at, P!Engine!Availability(at))
              = IF ~ (r.updated_at <= at)
                  THEN P!Engine!Unknown(r.proposition, at, "no_evidence", {})
                ELSE IF ~ X!TimeInScope(at, r)
                  THEN P!Engine!Unknown(r.proposition, at, "outside_validity", {})
                ELSE P!Engine!Assertion(r.proposition, at, {P!ClaimOfRecord(r)})
<1> DEFINE c == P!ClaimOfRecord(r)
           prop == r.proposition
           av == P!Engine!Availability(at)
<1>1. /\ c.created_at = r.updated_at /\ c.start = r.start /\ c.end = r.end
      /\ c.evidence_refs = {EvidenceId(r)} /\ c.source_refs = {"external-sor"}
      /\ c.parent_refs = {}
  BY DEF P!ClaimOfRecord, P!EvidenceId, EvidenceId
<1>2. P!Engine!Visible(C, prop, at) = IF r.updated_at <= at THEN {c} ELSE {}
  <2> HIDE DEF c
  <2> QED BY <1>1 DEF P!Engine!Visible, c
<1>3. P!Engine!Contains(c, at) <=> X!TimeInScope(at, r)
  <2> HIDE DEF c
  <2> QED BY <1>1 DEF P!Engine!Contains, X!TimeInScope
<1>4. r.updated_at <= at => P!Engine!MissingProvenanceRefs(c, av) = {}
  <2> DEFINE e == P!EvidenceOfRecord(r)
  <2> SUFFICES ASSUME r.updated_at <= at
               PROVE  P!Engine!MissingProvenanceRefs(c, av) = {}
    OBVIOUS
  <2>1. /\ e.id = EvidenceId(r) /\ e.source = "external-sor" /\ e.recorded_at = r.updated_at
    BY DEF P!EvidenceOfRecord, P!EvidenceId, EvidenceId
  <2> HIDE DEF c, e
  <2>2. EvidenceId(r) \in av.evidence_refs /\ "external-sor" \in av.source_refs
    BY <2>1 DEF P!Engine!Availability, e
  <2> QED BY <1>1, <2>2 DEF P!Engine!MissingProvenanceRefs
<1> HIDE DEF c, av
<1>5. P!Engine!Active(C, prop, at)
         = IF r.updated_at <= at /\ X!TimeInScope(at, r) THEN {c} ELSE {}
  BY <1>2, <1>3 DEF P!Engine!Active
<1>6. P!Engine!Usable(C, prop, at, av) = P!Engine!Active(C, prop, at)
  BY <1>4, <1>5 DEF P!Engine!Usable
<1>7. CASE r.updated_at <= at /\ X!TimeInScope(at, r)
  <2>1. P!Engine!Usable(C, prop, at, av) = {c}
    BY <1>5, <1>6, <1>7
  <2>2. P!Engine!Agree({c})
    BY DEF P!Engine!Agree
  <2> QED BY <1>7, <2>1, <2>2 DEF P!Engine!ResolveState, c, av
<1>8. CASE ~ (r.updated_at <= at /\ X!TimeInScope(at, r))
  <2>1. P!Engine!Active(C, prop, at) = {} /\ P!Engine!Usable(C, prop, at, av) = {}
    BY <1>5, <1>6, <1>8
  <2> DEFINE lacking == UNION {P!Engine!MissingProvenanceRefs(d, av) :
                                  d \in P!Engine!Active(C, prop, at)}
  <2>2. lacking = {}
    BY <2>1
  <2>3. P!Engine!UnknownReason(C, prop, at)
           = IF ~ (r.updated_at <= at) THEN "no_evidence" ELSE "outside_validity"
    BY <1>2, <2>1 DEF P!Engine!UnknownReason
  <2>4. P!Engine!ResolveState(C, prop, at, av)
           = P!Engine!Unknown(prop, at, P!Engine!UnknownReason(C, prop, at), {})
    BY <2>1, <2>2 DEF P!Engine!ResolveState
  <2> QED BY <1>8, <2>3, <2>4 DEF c, av
<1> QED BY <1>7, <1>8

\* What the projection answers from one record.
Projected(r, at) ==
    IF ~ (r.updated_at <= at)
      THEN P!Engine!Unknown(r.proposition, at, "no_evidence", {})
    ELSE IF ~ X!TimeInScope(at, r)
      THEN P!Engine!Unknown(r.proposition, at, "outside_validity", {})
    ELSE P!Engine!Assertion(r.proposition, at, {P!ClaimOfRecord(r)})

\* A question is answered from the one record about it, if there is one.
LEMMA ProjectionAnswers ==
    ASSUME RecordsOK, NEW prop, NEW at
    PROVE  \/ /\ \A r \in records : r.proposition # prop
              /\ P!Answer(prop, at) = P!Engine!Unknown(prop, at, "no_evidence", {})
           \/ \E r \in records : r.proposition = prop /\ P!Answer(prop, at) = Projected(r, at)
<1> DEFINE C == {P!ClaimOfRecord(r) : r \in records}
<1>1. P!Answer(prop, at) = P!Engine!ResolveState(C, prop, at, P!Engine!Availability(at))
  BY DEF P!Answer, P!Engine!StateAt
<1>2. \A r : P!ClaimOfRecord(r).proposition = r.proposition
  BY DEF P!ClaimOfRecord
<1>3. CASE \A r \in records : r.proposition # prop
  <2>1. {c \in C : c.proposition = prop} = {}
    BY <1>2, <1>3
  <2> HIDE DEF C
  <2> QED BY <1>1, <1>3, <2>1, ResolveNothing
<1>4. ASSUME NEW r \in records, r.proposition = prop
      PROVE  P!Answer(prop, at) = Projected(r, at)
  <2>1. {c \in C : c.proposition = r.proposition} = {P!ClaimOfRecord(r)}
    BY <1>2, <1>4 DEF RecordsOK
  <2> HIDE DEF C
  <2> QED BY <1>1, <1>4, <2>1, ResolveOne DEF Projected
<1> QED BY <1>3, <1>4

\* A snapshot answers from each record of its scope.
LEMMA ProjectionSnapshots ==
    ASSUME RecordsOK, NEW scope, NEW at
    PROVE  P!SnapshotAnswers(scope, at)
              = {Projected(r, at) : r \in {s \in records : InScope(s, scope)}}
<1> DEFINE Here == {s \in records : InScope(s, scope)}
           C == P!Engine!Selected(scope)
           Resolve(prop) == P!Engine!ResolveState(C, prop, at, P!Engine!Availability(at))
<1>1. \A r : /\ P!ClaimOfRecord(r).proposition = r.proposition
             /\ P!ClaimOfRecord(r).spatial_scope = r.spatial_scope
  BY DEF P!ClaimOfRecord
<1>2. C = {P!ClaimOfRecord(r) : r \in Here}
  BY <1>1 DEF P!Engine!Selected, P!Engine!ScopeMatches, InScope
<1>3. ASSUME NEW r \in Here PROVE Resolve(r.proposition) = Projected(r, at)
  <2>1. {c \in C : c.proposition = r.proposition} = {P!ClaimOfRecord(r)}
    <3> HIDE DEF C
    <3> QED BY <1>1, <1>2 DEF RecordsOK
  <2> HIDE DEF C
  <2> QED BY <2>1, ResolveOne DEF Projected
<1>4. {c.proposition : c \in C} = {r.proposition : r \in Here}
  <2> HIDE DEF C, Here
  <2> QED BY <1>1, <1>2
<1>5. P!SnapshotAnswers(scope, at) = {Resolve(prop) : prop \in {c.proposition : c \in C}}
  BY DEF P!SnapshotAnswers, P!Engine!SnapshotResults
<1> HIDE DEF C, Here, Resolve
<1>6. P!SnapshotAnswers(scope, at) = {Projected(r, at) : r \in Here}
  <2>1. P!SnapshotAnswers(scope, at) = {Resolve(prop) : prop \in {r.proposition : r \in Here}}
    BY <1>4, <1>5
  <2>2. \A x : x \in P!SnapshotAnswers(scope, at)
                 <=> \E r \in Here : x = Resolve(r.proposition)
    BY <2>1
  <2>3. \A x : x \in P!SnapshotAnswers(scope, at) <=> \E r \in Here : x = Projected(r, at)
    BY <1>3, <2>2
  <2> QED BY <2>3
<1> QED BY <1>6 DEF Here

\* The fields of what the projection answers.
LEMMA ProjectedIs ==
    ASSUME NEW r, NEW at
    PROVE  LET x == Projected(r, at)
           IN  /\ x.kind = "state" <=> r.updated_at <= at /\ X!TimeInScope(at, r)
               /\ x.kind \in {"state", "unknown"}
               /\ x.kind = "state" =>
                     /\ x.evidence_refs = {EvidenceId(r)}
                     /\ x.value = r.value
                     /\ x.proposition = r.proposition
                     /\ x.resolved_at = at
                     /\ x.spatial_scope = r.spatial_scope
               /\ x.kind = "unknown" =>
                     /\ x.proposition = r.proposition
                     /\ x.as_of = at
                     /\ x.reason = IF r.updated_at <= at THEN "outside_validity"
                                   ELSE "no_evidence"
<1> DEFINE c == P!ClaimOfRecord(r)
           a == P!Engine!Assertion(r.proposition, at, {c})
<1>1. c.value = r.value /\ c.evidence_refs = {EvidenceId(r)} /\ c.spatial_scope = r.spatial_scope
  BY DEF P!ClaimOfRecord, P!EvidenceId, EvidenceId
<1> HIDE DEF c
<1>2. (CHOOSE d \in {c} : TRUE) = c
  OBVIOUS
<1>3. P!Engine!EvidenceOf({c}) = {EvidenceId(r)}
  BY <1>1 DEF P!Engine!EvidenceOf
<1>4. P!Engine!Shared({d.spatial_scope : d \in {c}}) = r.spatial_scope
  <2>1. {d.spatial_scope : d \in {c}} = {r.spatial_scope}
    BY <1>1
  <2>2. P!Engine!Shared({r.spatial_scope}) = r.spatial_scope
    BY DEF P!Engine!Shared
  <2> QED BY <2>1, <2>2
<1>5. /\ a.kind = "state" /\ a.proposition = r.proposition /\ a.resolved_at = at
      /\ a.value = r.value /\ a.evidence_refs = {EvidenceId(r)}
      /\ a.spatial_scope = r.spatial_scope
  BY <1>1, <1>2, <1>3, <1>4 DEF P!Engine!Assertion
<1>6. \A prop, reason : LET x == P!Engine!Unknown(prop, at, reason, {})
                        IN  /\ x.kind = "unknown" /\ x.proposition = prop
                            /\ x.as_of = at /\ x.reason = reason
  BY DEF P!Engine!Unknown
<1>7. Projected(r, at) = IF ~ (r.updated_at <= at)
                           THEN P!Engine!Unknown(r.proposition, at, "no_evidence", {})
                         ELSE IF ~ X!TimeInScope(at, r)
                           THEN P!Engine!Unknown(r.proposition, at, "outside_validity", {})
                         ELSE a
  BY DEF Projected, c
<1> HIDE DEF a
<1> QED BY <1>5, <1>6, <1>7

----------------------------------------------------------------------------
(* The projection's promises *)

\* The results of any query: no conflicts, and the evidence of an assertion is
\* that of a current record.
Plain(results) ==
    \A x \in results :
        /\ x.kind \in {"state", "unknown"}
        /\ x.kind = "state" => \E r \in records : x.evidence_refs = {EvidenceId(r)}

LEMMA ProjectionPlain ==
    ASSUME RecordsOK
    PROVE  /\ \A prop, at : Plain({P!Answer(prop, at)})
           /\ \A rel, at : Plain({P!RelationUnknown(rel, at)})
           /\ \A scope, at : Plain(P!SnapshotAnswers(scope, at))
<1>1. \A r \in records : \A at : Plain({Projected(r, at)})
  BY ProjectedIs DEF Plain
<1>2. ASSUME NEW prop, NEW at PROVE Plain({P!Answer(prop, at)})
  <2>1. Plain({P!Engine!Unknown(prop, at, "no_evidence", {})})
    BY DEF Plain, P!Engine!Unknown
  <2> QED BY <1>1, <2>1, ProjectionAnswers
<1>3. \A rel, at : Plain({P!RelationUnknown(rel, at)})
  BY DEF Plain, P!RelationUnknown
<1>4. \A scope, at : Plain(P!SnapshotAnswers(scope, at))
  BY <1>1, ProjectionSnapshots DEF Plain
<1> QED BY <1>2, <1>3, <1>4

\* The ids of the evidence remembered for an answer are those it cites.
LEMMA EvidenceForIs ==
    ASSUME NEW results, Plain(results), NEW x \in results
    PROVE  {e.id : e \in P!EvidenceFor(x)} = IF x.kind = "state" THEN x.evidence_refs ELSE {}
<1>1. CASE x.kind = "unknown"
  BY <1>1 DEF P!EvidenceFor
<1>2. CASE x.kind = "state"
  <2>1. PICK r \in records : x.evidence_refs = {EvidenceId(r)}
    BY <1>2 DEF Plain
  <2>2. \A s : P!EvidenceOfRecord(s).id = EvidenceId(s)
    BY DEF P!EvidenceOfRecord, P!EvidenceId, EvidenceId
  <2>3. P!EvidenceFor(x) = {e \in {P!EvidenceOfRecord(s) : s \in records} : e.id = EvidenceId(r)}
    BY <1>2, <2>1 DEF P!EvidenceFor
  <2>4. P!EvidenceOfRecord(r) \in P!EvidenceFor(x)
    BY <2>2, <2>3
  <2>5. \A e \in P!EvidenceFor(x) : e.id = EvidenceId(r)
    BY <2>3
  <2> QED BY <1>2, <2>1, <2>2, <2>4, <2>5
<1> QED BY <1>1, <1>2 DEF Plain

\* Every step of the projection tells plain results for some scope.
LEMMA ProjectionTells ==
    ASSUME RecordsOK, P!ProviderNext
    PROVE  \E results, scope : Plain(results) /\ P!Tell(results, scope)
BY ProjectionPlain DEF P!ProviderNext, P!QueryState, P!QueryRelation, P!GetSnapshot

\* An answer was told for a scope and was no conflict.
ToldPlain == \A q \in p_told : q = <<q[1], q[2]>> /\ q[2].kind \in {"state", "unknown"}

\* An assertion told is paired with the evidence it cites, and what an outcome is
\* paired with it cites and is cached.
ToldPaired ==
    \A q \in p_told : q[2].kind = "state" =>
        \A i \in q[2].evidence_refs : <<q[2], i>> \in p_refs

PairsCached ==
    \A x, i : <<x, i>> \in p_refs =>
        i \in x.evidence_refs /\ \E e \in p_evidence : e.id = i

\* What was told and is no assertion is kept for its scope, and nothing else is.
ToldListed ==
    /\ \A x, scope : x.kind # "state" => (<<scope, x>> \in p_told <=> <<scope, x>> \in p_scopes)
    /\ \A x, scope : <<scope, x>> \in p_scopes => x \in p_outcomes
    /\ \A x \in p_outcomes : x.kind = "unknown"

ProjectionInv == ToldPlain /\ ToldPaired /\ PairsCached /\ ToldListed

LEMMA ProjectionInvTell ==
    ASSUME ProjectionInv, NEW results, NEW scope, Plain(results), P!Tell(results, scope)
    PROVE  ProjectionInv'
<1> DEFINE kept  == {x \in results : x.kind # "state"}
           fresh == UNION {P!EvidenceFor(x) : x \in results}
           pairs == UNION {{<<x, e.id>> : e \in P!EvidenceFor(x)} : x \in results}
<1>1. /\ p_evidence' = P!Overwrite(p_evidence, fresh)
      /\ p_refs' = p_refs \cup pairs
      /\ p_outcomes' = p_outcomes \cup kept
      /\ p_scopes' = p_scopes \cup ({scope} \X kept)
      /\ p_told' = p_told \cup ({scope} \X results)
  BY DEF P!Tell
<1>2. \A x, i : <<x, i>> \in pairs <=>
          /\ x \in results
          /\ \E e \in P!EvidenceFor(x) : e.id = i
  OBVIOUS
<1>3. ASSUME NEW x, NEW i
      PROVE  <<x, i>> \in pairs <=> x \in results /\ x.kind = "state" /\ i \in x.evidence_refs
  <2> HIDE DEF pairs
  <2>1. CASE x \in results
    <3>1. (\E e \in P!EvidenceFor(x) : e.id = i)
             <=> i \in IF x.kind = "state" THEN x.evidence_refs ELSE {}
      BY <2>1, EvidenceForIs
    <3> QED BY <1>2, <2>1, <3>1
  <2> QED BY <1>2, <2>1
<1>4. \A x \in results : \A e \in P!EvidenceFor(x) : e \in fresh
  OBVIOUS
<1>5. \A x \in results : x.kind \in {"state", "unknown"}
  BY DEF Plain
<1>6. /\ \A x \in kept : x \in results /\ x.kind = "unknown"
      /\ \A x \in results : x.kind # "state" => x \in kept
  BY <1>5
<1> HIDE DEF kept, fresh, pairs
<1>7. \A q \in p_told' : q = <<q[1], q[2]>> /\ q[2].kind \in {"state", "unknown"}
  BY <1>1, <1>5 DEF ProjectionInv, ToldPlain
<1>8. \A q \in p_told' : q[2].kind = "state" =>
         \A i \in q[2].evidence_refs : <<q[2], i>> \in p_refs'
  <2>1. \A q \in {scope} \X results : q[2] \in results
    OBVIOUS
  <2> QED BY <1>1, <1>3, <2>1 DEF ProjectionInv, ToldPaired
<1>9. ASSUME NEW x, NEW i, <<x, i>> \in p_refs'
      PROVE  i \in x.evidence_refs /\ \E e \in p_evidence' : e.id = i
  <2>0. (\E e \in p_evidence' : e.id = i)
           <=> (\E e \in p_evidence : e.id = i) \/ (\E e \in fresh : e.id = i)
    BY <1>1 DEF P!Overwrite
  <2>1. CASE <<x, i>> \in p_refs
    BY <2>0, <2>1 DEF ProjectionInv, PairsCached
  <2>2. CASE <<x, i>> \in pairs
    BY <1>2, <1>3, <1>4, <2>0, <2>2
  <2> QED BY <1>1, <1>9, <2>1, <2>2
<1>10. ASSUME NEW x, NEW where
       PROVE  /\ x.kind # "state" => (<<where, x>> \in p_told' <=> <<where, x>> \in p_scopes')
              /\ <<where, x>> \in p_scopes' => x \in p_outcomes'
  <2>1. x.kind # "state" => (x \in results <=> x \in kept)
    BY <1>6
  <2>2. /\ <<where, x>> \in {scope} \X results <=> where = scope /\ x \in results
        /\ <<where, x>> \in {scope} \X kept <=> where = scope /\ x \in kept
    OBVIOUS
  <2>3. /\ <<where, x>> \in p_told' <=> <<where, x>> \in p_told \/ <<where, x>> \in {scope} \X results
        /\ <<where, x>> \in p_scopes' <=> <<where, x>> \in p_scopes \/ <<where, x>> \in {scope} \X kept
        /\ x \in p_outcomes' <=> x \in p_outcomes \/ x \in kept
    BY <1>1
  <2>4. /\ x.kind # "state" => (<<where, x>> \in p_told <=> <<where, x>> \in p_scopes)
        /\ <<where, x>> \in p_scopes => x \in p_outcomes
    BY DEF ProjectionInv, ToldListed
  <2> QED BY <2>1, <2>2, <2>3, <2>4
<1>11. \A x \in p_outcomes' : x.kind = "unknown"
  BY <1>1, <1>6 DEF ProjectionInv, ToldListed
<1> QED BY <1>7, <1>8, <1>9, <1>10, <1>11
       DEF ProjectionInv, ToldPlain, ToldPaired, PairsCached, ToldListed

LEMMA ProjectionBase == Spec => [](RecordsOK /\ ProjectionInv)
<1>1. Init => ProjectionInv
  BY DEF Init, P!ProviderInit, ProjectionInv, ToldPlain, ToldPaired, PairsCached, ToldListed
<1>2. ASSUME RecordsOK, ProjectionInv, [Next]_vars PROVE ProjectionInv'
  <2>1. CASE P!ProviderNext
    BY <1>2, <2>1, ProjectionTells, ProjectionInvTell
  <2>2. CASE UNCHANGED pVars
    BY <1>2, <2>2 DEF pVars, ProjectionInv, ToldPlain, ToldPaired, PairsCached, ToldListed
  <2> QED BY <1>2, <2>1, <2>2 DEF Next, vars
<1> QED BY <1>1, <1>2, RecordsAlwaysOK, PTL DEF Spec

\* All the evidence of an assertion the projection told is kept, also after its
\* record was replaced.
THEOREM ProjectionKeepsEvidence == Spec => []ProjectionEvidenceKept
<1>1. ProjectionInv => ProjectionEvidenceKept
  <2> SUFFICES ASSUME ProjectionInv, NEW q \in p_told, q[2].kind = "state"
               PROVE  {e.id : e \in P!GetEvidence(q[2])} = q[2].evidence_refs
    BY DEF ProjectionEvidenceKept, P!EvidenceKept
  <2>1. P!GetEvidence(q[2]) = {e \in p_evidence : <<q[2], e.id>> \in p_refs}
    BY DEF P!GetEvidence
  <2>2. \A i : i \in q[2].evidence_refs <=> <<q[2], i>> \in p_refs
    BY DEF ProjectionInv, ToldPaired, PairsCached
  <2>3. \A i : <<q[2], i>> \in p_refs => \E e \in p_evidence : e.id = i
    BY DEF ProjectionInv, PairsCached
  <2>4. \A i : (\E e \in P!GetEvidence(q[2]) : e.id = i) <=> <<q[2], i>> \in p_refs
    BY <2>1, <2>3
  <2> HIDE DEF ProjectionInv
  <2> QED BY <2>2, <2>4
<1> QED BY <1>1, ProjectionBase, PTL

\* The Unknowns the projection lists for a scope are those it told for it.
THEOREM ProjectionListsUnknowns == Spec => []ProjectionUnknownsListed
<1>1. ProjectionInv => ProjectionUnknownsListed
  <2> SUFFICES ASSUME ProjectionInv, NEW scope
               PROVE  P!GetUnknowns(scope) = {p[2] : p \in {q \in p_told : q[1] = scope
                                                             /\ q[2].kind = "unknown"}}
    BY DEF ProjectionUnknownsListed, P!UnknownsListed
  <2>1. P!GetUnknowns(scope)
           = {x \in p_outcomes : x.kind = "unknown" /\ <<scope, x>> \in p_scopes}
    BY DEF P!GetUnknowns
  <2>2. \A x : x \in P!GetUnknowns(scope) <=> x.kind = "unknown" /\ <<scope, x>> \in p_told
    BY <2>1 DEF ProjectionInv, ToldListed
  <2>3. \A q \in p_told : q = <<q[1], q[2]>>
    BY DEF ProjectionInv, ToldPlain
  <2> DEFINE listed == {q \in p_told : q[1] = scope /\ q[2].kind = "unknown"}
  <2>4. ASSUME NEW x PROVE x \in {p[2] : p \in listed} <=> x \in P!GetUnknowns(scope)
    <3>1. CASE x \in P!GetUnknowns(scope)
      <4>1. <<scope, x>> \in listed
        BY <2>2, <3>1
      <4> QED BY <3>1, <4>1
    <3>2. CASE x \in {p[2] : p \in listed}
      <4>1. PICK q \in p_told : q[1] = scope /\ q[2].kind = "unknown" /\ x = q[2]
        BY <3>2
      <4> QED BY <2>2, <2>3, <3>2, <4>1
    <3> QED BY <3>1, <3>2
  <2> QED BY <2>4
<1> QED BY <1>1, ProjectionBase, PTL

\* The projection never tells and never lists a conflict.
THEOREM ProjectionHasNoConflicts == Spec => []ProjectionNeverConflicts
<1>1. ProjectionInv => ProjectionNeverConflicts
  BY DEF ProjectionInv, ToldPlain, ToldListed, ProjectionNeverConflicts,
         P!NeverConflicts, P!GetConflicts
<1> QED BY <1>1, ProjectionBase, PTL

----------------------------------------------------------------------------
(* The external provider's promises *)

\* What a record answers at an instant.
LEMMA ResultIs ==
    ASSUME NEW r \in records, NEW at
    PROVE  LET x == X!ResultFromRecord(r, at)
           IN  /\ x.kind \in {"state", "unknown"}
               /\ x.kind = "state" => x = X!AssertionOf(r, at)
               /\ x.kind = "state" <=> ~ (r.updated_at > at) /\ X!TimeInScope(at, r)
               /\ x.kind = "unknown" =>
                     /\ x.proposition = r.proposition
                     /\ x.as_of = at
                     /\ x.reason = IF r.updated_at > at THEN "no_evidence"
                                   ELSE "outside_validity"
               /\ x.proposition = r.proposition
BY DEF X!ResultFromRecord, X!AssertionOf, X!UnknownOf

\* The results of a query are what the records it used answer, or Unknowns, and
\* say "no evidence" only where no record dated by then is held.
Honest(results, used, at) ==
    /\ used \subseteq records
    /\ \A r \in used : X!ResultFromRecord(r, at) \in results
    /\ \A x \in results :
          /\ x.kind \in {"state", "unknown"}
          /\ x.kind = "state" => \E r \in used : x = X!ResultFromRecord(r, at)
          /\ (x.kind = "unknown" /\ x.reason = "no_evidence") =>
                \A r \in records : r.proposition = x.proposition => r.updated_at > x.as_of

\* As long as the source answers, so does the one record about the question.
LEMMA ExternalAnswers ==
    ASSUME RecordsOK, NEW prop, NEW at
    PROVE  \/ /\ ~available
              /\ X!Read(prop) = {}
              /\ X!Answer(prop, at) = X!UnknownOf(prop, at, "provider_unavailable")
           \/ /\ \A r \in records : r.proposition # prop
              /\ X!Read(prop) = {}
              /\ X!Answer(prop, at) = X!UnknownOf(prop, at, "no_evidence")
           \/ \E r \in records : /\ r.proposition = prop
                                 /\ X!Read(prop) = {r}
                                 /\ X!Answer(prop, at) = X!ResultFromRecord(r, at)
<1>1. CASE ~available
  BY <1>1 DEF X!Read, X!Answer, X!OutageReason
<1>2. CASE available /\ \A r \in records : r.proposition # prop
  BY <1>2 DEF X!Read, X!Answer
<1>3. ASSUME available, NEW r \in records, r.proposition = prop
      PROVE  X!Read(prop) = {r} /\ X!Answer(prop, at) = X!ResultFromRecord(r, at)
  <2>1. X!Read(prop) = {r}
    BY <1>3 DEF X!Read, RecordsOK
  <2>2. (CHOOSE s \in {r} : TRUE) = r
    OBVIOUS
  <2> QED BY <1>3, <2>1, <2>2 DEF X!Answer
<1> QED BY <1>1, <1>2, <1>3

LEMMA ExternalHonest ==
    ASSUME RecordsOK
    PROVE  /\ \A prop, at : Honest({X!Answer(prop, at)}, X!Read(prop), at)
           /\ \A rel, at : Honest({X!RelationUnknown(rel, at)}, {}, at)
           /\ \A scope, at : Honest(X!SnapshotAnswers(scope, at), X!ReadAll(scope), at)
<1>1. ASSUME NEW prop, NEW at
      PROVE  Honest({X!Answer(prop, at)}, X!Read(prop), at)
  <2>1. ASSUME NEW r \in records, X!Read(prop) = {r},
               X!Answer(prop, at) = X!ResultFromRecord(r, at)
        PROVE  Honest({X!Answer(prop, at)}, X!Read(prop), at)
    BY <2>1, ResultIs DEF Honest, RecordsOK
  <2>2. ASSUME NEW reason, X!Read(prop) = {}, X!Answer(prop, at) = X!UnknownOf(prop, at, reason),
               reason = "no_evidence" => \A r \in records : r.proposition # prop
        PROVE  Honest({X!Answer(prop, at)}, X!Read(prop), at)
    BY <2>2 DEF Honest, X!UnknownOf
  <2> QED BY <2>1, <2>2, ExternalAnswers
<1>2. \A rel, at : Honest({X!RelationUnknown(rel, at)}, {}, at)
  BY DEF Honest, X!RelationUnknown
<1>3. ASSUME NEW scope, NEW at
      PROVE  Honest(X!SnapshotAnswers(scope, at), X!ReadAll(scope), at)
  <2>1. CASE ~available
    BY <2>1 DEF Honest, X!SnapshotAnswers, X!ReadAll, X!UnknownOf, X!OutageReason
  <2>2. CASE available
    <3>1. /\ X!SnapshotAnswers(scope, at) = {X!ResultFromRecord(r, at) : r \in X!ReadAll(scope)}
          /\ X!ReadAll(scope) \subseteq records
      BY <2>2 DEF X!SnapshotAnswers, X!ReadAll
    <3> QED BY <3>1, ResultIs DEF Honest, RecordsOK
  <2> QED BY <2>1, <2>2
<1> QED BY <1>1, <1>2, <1>3

LEMMA ExternalTells ==
    ASSUME RecordsOK, X!ProviderNext
    PROVE  \E results, used, at, scope :
              Honest(results, used, at) /\ X!Tell(results, used, at, scope)
BY ExternalHonest DEF X!ProviderNext, X!QueryState, X!QueryRelation, X!GetSnapshot

\* Each piece of evidence has an id of its own and is labelled with one of the
\* results, an assertion that cites just it; each assertion cites such a piece.
Fresh(fresh, results) ==
    /\ \A e \in fresh : /\ e.state_ref \in results
                        /\ e.state_ref.kind = "state"
                        /\ e.state_ref.evidence_refs = {e.id}
    /\ \A x \in results : x.kind = "state" =>
          \E e \in fresh : x.evidence_refs = {e.id}
    /\ \A e, f \in fresh : e.id = f.id => e = f

\* The evidence a query caches is that of its results, whichever of two pieces
\* under one id was written last.
LEMMA FreshIs ==
    ASSUME RecordsOK, NEW results, NEW used, NEW at, Honest(results, used, at),
           NEW fresh \in X!Written(used, at)
    PROVE  Fresh(fresh, results)
<1> DEFINE pieces == UNION {X!EvidenceFrom(r, at) : r \in used}
<1>0. /\ fresh \subseteq pieces
      /\ \A e \in pieces : \E f \in fresh : f.id = e.id
      /\ \A e, f \in fresh : e.id = f.id => e = f
  <2>1. /\ fresh \subseteq pieces
        /\ {e.id : e \in fresh} = {e.id : e \in pieces}
        /\ \A e, f \in fresh : e.id = f.id => e = f
    BY DEF X!Written
  <2> HIDE DEF pieces
  <2>2. \A e \in pieces : e.id \in {f.id : f \in fresh}
    BY <2>1
  <2> QED BY <2>1, <2>2
<1> DEFINE piece(r) == [id |-> EvidenceId(r), recorded_at |-> r.updated_at,
                        state_ref |-> X!AssertionOf(r, at)]
<1>1. \A r : X!EvidenceFrom(r, at)
                = IF X!ResultFromRecord(r, at).kind = "unknown" THEN {} ELSE {piece(r)}
  BY DEF X!EvidenceFrom, X!EvidenceId, EvidenceId
<1>2. \A r : /\ piece(r).id = EvidenceId(r)
             /\ piece(r).state_ref = X!AssertionOf(r, at)
             /\ X!AssertionOf(r, at).kind = "state"
             /\ X!AssertionOf(r, at).evidence_refs = {EvidenceId(r)}
  BY DEF X!AssertionOf, X!EvidenceId, EvidenceId
<1> HIDE DEF piece
<1>3. ASSUME NEW e \in fresh
      PROVE  \E r \in used : e = piece(r) /\ X!ResultFromRecord(r, at) = X!AssertionOf(r, at)
  <2>1. PICK r \in used : e \in X!EvidenceFrom(r, at)
    BY <1>0
  <2>2. e = piece(r) /\ X!ResultFromRecord(r, at).kind # "unknown"
    BY <1>1, <2>1
  <2> QED BY <2>2, ResultIs DEF Honest
<1>4. ASSUME NEW x \in results, x.kind = "state"
      PROVE  \E r \in used : piece(r) \in pieces /\ x = X!AssertionOf(r, at)
  <2>1. PICK r \in used : x = X!ResultFromRecord(r, at)
    BY <1>4 DEF Honest
  <2>2. piece(r) \in X!EvidenceFrom(r, at)
    BY <1>1, <1>4, <2>1
  <2> QED BY <1>4, <2>1, <2>2, ResultIs DEF Honest
<1> HIDE DEF pieces
<1>6. \A e \in fresh : /\ e.state_ref \in results
                       /\ e.state_ref.kind = "state"
                       /\ e.state_ref.evidence_refs = {e.id}
  BY <1>2, <1>3 DEF Honest
<1>7. \A x \in results : x.kind = "state" =>
         \E e \in fresh : x.evidence_refs = {e.id}
  <2> SUFFICES ASSUME NEW x \in results, x.kind = "state"
               PROVE  \E e \in fresh : x.evidence_refs = {e.id}
    OBVIOUS
  <2>1. PICK r \in used : piece(r) \in pieces /\ x = X!AssertionOf(r, at)
    BY <1>4
  <2>2. PICK f \in fresh : f.id = piece(r).id
    BY <1>0, <2>1
  <2> QED BY <1>2, <2>1, <2>2
<1> QED BY <1>0, <1>6, <1>7 DEF Fresh

\* An assertion was told; its evidence is cached under its one id; a piece of
\* evidence is labelled with an assertion that was told and cites just it.
ExternalCited ==
    /\ \A q \in x_told : q[2].kind \in {"state", "unknown"}
    /\ \A q \in x_told : q[2].kind = "state" =>
          \E e \in x_evidence : q[2].evidence_refs = {e.id}

ExternalLabelled ==
    /\ \A e \in x_evidence : /\ \E q \in x_told : q[2] = e.state_ref
                             /\ e.state_ref.kind = "state"
                             /\ e.state_ref.evidence_refs = {e.id}
    /\ \A e, f \in x_evidence : e.id = f.id => e = f

ExternalInv == ExternalCited /\ ExternalLabelled /\ ExternalUnknownsListed

LEMMA ExternalInvTell ==
    ASSUME RecordsOK, ExternalInv,
           NEW results, NEW used, NEW at, NEW scope, Honest(results, used, at),
           X!Tell(results, used, at, scope)
    PROVE  ExternalInv'
<1>1. PICK fresh \in X!Written(used, at) : x_evidence' = X!Overwrite(x_evidence, fresh)
  BY DEF X!Tell
<1>2. /\ x_evidence' = {e \in x_evidence : \A n \in fresh : n.id # e.id} \cup fresh
      /\ x_unknowns' = x_unknowns \cup {x \in results : x.kind = "unknown"}
      /\ x_told' = x_told \cup ({scope} \X results)
  BY <1>1 DEF X!Tell, X!Overwrite
<1>a. Fresh(fresh, results)
  BY <1>1, FreshIs
<1>3. \A q \in x_told' : q \in x_told \/ q[2] \in results
  BY <1>2
<1>4. \A x \in results : \E q \in x_told' : q[2] = x
  <2>1. \A x \in results : <<scope, x>> \in x_told' /\ <<scope, x>>[2] = x
    BY <1>2
  <2> QED BY <2>1
<1>5. \A i : (\E e \in x_evidence : e.id = i) \/ (\E e \in fresh : e.id = i)
                => \E e \in x_evidence' : e.id = i
  BY <1>2
<1>6. \A q \in x_told' : q[2].kind \in {"state", "unknown"}
  BY <1>3 DEF ExternalInv, ExternalCited, Honest
<1>7. ASSUME NEW q \in x_told', q[2].kind = "state"
      PROVE  \E e \in x_evidence' : q[2].evidence_refs = {e.id}
  <2>1. CASE q \in x_told
    <3>1. PICK e \in x_evidence : q[2].evidence_refs = {e.id}
      BY <1>7, <2>1 DEF ExternalInv, ExternalCited
    <3> QED BY <1>5, <3>1
  <2>2. CASE q[2] \in results
    <3>1. PICK e \in fresh : q[2].evidence_refs = {e.id}
      BY <1>a, <1>7, <2>2 DEF Fresh
    <3> QED BY <1>5, <3>1
  <2> QED BY <1>3, <2>1, <2>2
<1>8. ASSUME NEW e \in x_evidence'
      PROVE  /\ \E q \in x_told' : q[2] = e.state_ref
             /\ e.state_ref.kind = "state"
             /\ e.state_ref.evidence_refs = {e.id}
  <2>1. CASE e \in x_evidence
    BY <1>2, <2>1 DEF ExternalInv, ExternalLabelled
  <2>2. CASE e \in fresh
    BY <1>a, <1>4, <2>2 DEF Fresh
  <2> QED BY <1>2, <2>1, <2>2
<1>9. \A e, f \in x_evidence' : e.id = f.id => e = f
  BY <1>2, <1>a DEF ExternalInv, ExternalLabelled, Fresh
<1>10. ExternalUnknownsListed'
  BY <1>2, <1>3 DEF ExternalInv, ExternalUnknownsListed, X!UnknownsListed, X!GetUnknowns
<1> QED BY <1>6, <1>7, <1>8, <1>9, <1>10 DEF ExternalInv, ExternalCited, ExternalLabelled

LEMMA ExternalBase == Spec => [](RecordsOK /\ ExternalInv)
<1>1. Init => ExternalInv
  BY DEF Init, X!ProviderInit, ExternalInv, ExternalCited, ExternalLabelled,
         ExternalUnknownsListed, X!UnknownsListed
<1>2. ASSUME RecordsOK, ExternalInv, [Next]_vars PROVE ExternalInv'
  <2>1. CASE X!ProviderNext
    BY <1>2, <2>1, ExternalTells, ExternalInvTell
  <2>2. CASE UNCHANGED xVars
    BY <1>2, <2>2 DEF xVars, ExternalInv, ExternalCited, ExternalLabelled,
                          ExternalUnknownsListed, X!UnknownsListed, X!GetUnknowns
  <2> QED BY <1>2, <2>1, <2>2 DEF Next, vars
<1> QED BY <1>1, <1>2, RecordsAlwaysOK, PTL DEF Spec

\* Evidence is never lost or mislabelled.
THEOREM ExternalKeepsEvidenceCoherent == Spec => []ExternalEvidenceCoherent
<1>1. ExternalInv => ExternalEvidenceCoherent
  <2> SUFFICES ASSUME ExternalInv PROVE X!EvidenceCoherent
    BY DEF ExternalEvidenceCoherent
  <2>1. \A x : x \in X!Assertions <=> x.kind = "state" /\ \E q \in x_told : q[2] = x
    BY DEF X!Assertions
  <2>2. \A x \in X!Assertions : x.evidence_refs \subseteq {e.id : e \in x_evidence}
    BY <2>1 DEF ExternalInv, ExternalCited
  <2>3. \A e \in x_evidence : e.state_ref \in X!Assertions /\ e.id \in e.state_ref.evidence_refs
    BY <2>1 DEF ExternalInv, ExternalLabelled
  <2> QED BY <2>2, <2>3 DEF ExternalInv, ExternalLabelled, X!EvidenceCoherent
<1> QED BY <1>1, ExternalBase, PTL

\* An Unknown that was told is listed.
THEOREM ExternalListsUnknowns == Spec => []ExternalUnknownsListed
<1>1. ExternalInv => ExternalUnknownsListed
  BY DEF ExternalInv
<1> QED BY <1>1, ExternalBase, PTL

\* Of the results just told that cite one piece of evidence, one can be traced:
\* the one the piece that was written last is labelled with.
LEMMA FreshTraceable ==
    ASSUME RecordsOK, ExternalInv,
           NEW results, NEW used, NEW at, NEW scope, Honest(results, used, at),
           X!Tell(results, used, at, scope),
           NEW x \in results, x.kind = "state"
    PROVE  \E y \in results : /\ y.kind = "state"
                              /\ y.evidence_refs = x.evidence_refs
                              /\ {e.id : e \in X!GetEvidence(y)'} = y.evidence_refs
<1>1. PICK fresh \in X!Written(used, at) : x_evidence' = X!Overwrite(x_evidence, fresh)
  BY DEF X!Tell
<1>2. x_evidence' = {e \in x_evidence : \A n \in fresh : n.id # e.id} \cup fresh
  BY <1>1 DEF X!Overwrite
<1>3. Fresh(fresh, results)
  BY <1>1, FreshIs
<1>4. PICK e \in fresh : x.evidence_refs = {e.id}
  BY <1>3 DEF Fresh
<1>5. PICK y \in results : y = e.state_ref /\ y.kind = "state" /\ y.evidence_refs = {e.id}
  BY <1>3 DEF Fresh
<1>6. X!GetEvidence(y)' = {f \in x_evidence' : f.state_ref = y}
  BY DEF X!GetEvidence
<1>7. e \in X!GetEvidence(y)'
  BY <1>2, <1>5, <1>6
<1>8. ASSUME NEW f \in X!GetEvidence(y)' PROVE f.id = e.id
  <2>1. f \in x_evidence' /\ f.state_ref = y
    BY <1>6
  <2>2. y.evidence_refs = {f.id}
    BY <1>2, <1>3, <2>1 DEF Fresh, ExternalInv, ExternalLabelled
  <2> QED BY <1>5, <2>2
<1> QED BY <1>4, <1>5, <1>7, <1>8

\* The assertion a query told can be traced right after it, whatever was told
\* before and though the cache is keyed by the record's evidence id.  After a
\* snapshot one of those of its assertions that cite a piece of evidence can be.
THEOREM ExternalTracesFreshAnswers == Spec => ExternalFreshEvidence
<1> DEFINE OneTraced(results, x) ==
        \E y \in results : /\ y.kind = "state"
                           /\ y.evidence_refs = x.evidence_refs
                           /\ X!FullyTraced(y)'
<1>1. ASSUME RecordsOK, ExternalInv, NEW prop, NEW at, X!QueryState(prop, at)
      PROVE  \A x \in {X!Answer(prop, at)} : X!FullyTraced(x)'
  BY <1>1, FreshTraceable, ExternalHonest DEF X!QueryState, X!FullyTraced
<1>2. ASSUME RecordsOK, ExternalInv, NEW scope, NEW at, X!GetSnapshot(scope, at)
      PROVE  \A x \in X!SnapshotAnswers(scope, at) :
                x.kind = "state" => OneTraced(X!SnapshotAnswers(scope, at), x)
  BY <1>2, FreshTraceable, ExternalHonest DEF X!GetSnapshot, X!FullyTraced
<1> DEFINE Traced ==
        \A at \in Time :
           /\ \A prop \in Propositions :
                 X!QueryState(prop, at) => \A x \in {X!Answer(prop, at)} : X!FullyTraced(x)'
           /\ \A scope \in Scopes \cup {None} :
                 X!GetSnapshot(scope, at) =>
                    \A x \in X!SnapshotAnswers(scope, at) :
                       x.kind = "state" => OneTraced(X!SnapshotAnswers(scope, at), x)
<1>3. RecordsOK /\ ExternalInv => Traced
  BY <1>1, <1>2
<1> QED BY <1>3, ExternalBase, PTL DEF Spec, ExternalFreshEvidence, X!FreshEvidence

\* An outage is never told as absence: "no evidence" is told only while the source
\* holds no record dated by then.
LEMMA NoFalseAbsenceNext ==
    ASSUME RecordsOK, [Next]_vars,
           NEW p \in x_told' \ x_told, p[2].kind = "unknown", p[2].reason = "no_evidence",
           NEW r \in records, r.proposition = p[2].proposition
    PROVE  r.updated_at > p[2].as_of
<1>1. X!ProviderNext
  BY DEF Next, vars, xVars, X!Toggle
<1>2. PICK results, used, at, scope :
          Honest(results, used, at) /\ X!Tell(results, used, at, scope)
  BY <1>1, ExternalTells
<1>3. p[2] \in results
  BY <1>2 DEF X!Tell
<1> QED BY <1>2, <1>3 DEF Honest

THEOREM ExternalNeverFalselyAbsent == Spec => ExternalNoFalseAbsence
<1>1. RecordsOK /\ [Next]_vars =>
         \A p \in x_told' \ x_told :
            (p[2].kind = "unknown" /\ p[2].reason = "no_evidence") =>
               \A r \in records : r.proposition = p[2].proposition => r.updated_at > p[2].as_of
  BY NoFalseAbsenceNext
<1> QED BY <1>1, RecordsAlwaysOK, PTL DEF Spec, ExternalNoFalseAbsence, X!NoFalseAbsence

----------------------------------------------------------------------------
(* One provider for the other *)

\* The window the reference resolver takes from one claim is that claim's.
LEMMA WindowOfOne ==
    ASSUME NEW r \in AllRecords
    PROVE  /\ P!Engine!LatestStart({P!ClaimOfRecord(r)}) = r.start
           /\ P!Engine!EarliestEnd({P!ClaimOfRecord(r)}) = r.end
<1> DEFINE c == P!ClaimOfRecord(r)
<1>1. c.start = r.start /\ c.end = r.end
  BY DEF P!ClaimOfRecord
<1> HIDE DEF c
<1>2. Optional(r.start) /\ Optional(r.end)
  BY RecordsAssumption DEF OrderedBounds
<1>3. {d.start : d \in {c}} = {r.start} /\ {d.end : d \in {c}} = {r.end}
  BY <1>1
<1>4. \A n \in Nat : P!Engine!Max({n}) = n /\ P!Engine!Min({n}) = n
  BY DEF P!Engine!Max, P!Engine!Min
<1>5. P!Engine!LatestStart({c}) = r.start
  BY <1>2, <1>3, <1>4, NoneAssumption DEF P!Engine!LatestStart, Optional, Instant
<1>6. P!Engine!EarliestEnd({c}) = r.end
  BY <1>2, <1>3, <1>4, NoneAssumption DEF P!Engine!EarliestEnd, Optional, Instant
<1> QED BY <1>5, <1>6 DEF c

\* The resolution of a record's projection and the short cut through the record
\* look the same.
LEMMA ShortCut ==
    ASSUME NEW r \in AllRecords, NEW at \in Nat
    PROVE  Seen(Projected(r, at)) = Seen(X!ResultFromRecord(r, at))
<1>1. r.updated_at \in Nat
  BY RecordsAssumption DEF Instant
<1>2. CASE r.updated_at > at
  BY <1>1, <1>2 DEF Projected, X!ResultFromRecord, P!Engine!Unknown, X!UnknownOf, Seen
<1>3. CASE ~ (r.updated_at > at) /\ ~ X!TimeInScope(at, r)
  BY <1>1, <1>3 DEF Projected, X!ResultFromRecord, P!Engine!Unknown, X!UnknownOf, Seen
<1>4. CASE ~ (r.updated_at > at) /\ X!TimeInScope(at, r)
  <2> DEFINE x == Projected(r, at)
             y == X!ResultFromRecord(r, at)
  <2>1. x = P!Engine!Assertion(r.proposition, at, {P!ClaimOfRecord(r)}) /\ y = X!AssertionOf(r, at)
    BY <1>1, <1>4 DEF Projected, X!ResultFromRecord
  <2>2. x.valid_from = r.start /\ x.valid_until = r.end
    BY <2>1, WindowOfOne DEF P!Engine!Assertion
  <2>3. /\ x.kind = "state" /\ x.proposition = r.proposition /\ x.value = r.value
        /\ x.resolved_at = at /\ x.evidence_refs = {EvidenceId(r)}
        /\ x.spatial_scope = r.spatial_scope
    BY <1>1, <1>4, ProjectedIs
  <2>4. /\ y.kind = "state" /\ y.proposition = r.proposition /\ y.value = r.value
        /\ y.valid_from = r.start /\ y.valid_until = r.end
        /\ y.resolved_at = at /\ y.evidence_refs = {EvidenceId(r)}
        /\ y.spatial_scope = r.spatial_scope
    BY <2>1 DEF X!AssertionOf, X!EvidenceId, EvidenceId
  <2> HIDE DEF x, y
  <2> QED BY <2>2, <2>3, <2>4 DEF Seen, x, y
<1> QED BY <1>2, <1>3, <1>4

LEMMA AnswersAlike ==
    ASSUME RecordsOK, available, NEW prop, NEW at \in Nat
    PROVE  Seen(P!Answer(prop, at)) = Seen(X!Answer(prop, at))
<1>1. CASE \A r \in records : r.proposition # prop
  <2>1. P!Answer(prop, at) = P!Engine!Unknown(prop, at, "no_evidence", {})
    BY <1>1, ProjectionAnswers
  <2>2. X!Answer(prop, at) = X!UnknownOf(prop, at, "no_evidence")
    BY <1>1, ExternalAnswers
  <2> QED BY <2>1, <2>2 DEF Seen, P!Engine!Unknown, X!UnknownOf
<1>2. ASSUME NEW r \in records, r.proposition = prop
      PROVE  Seen(P!Answer(prop, at)) = Seen(X!Answer(prop, at))
  <2>1. \A s \in records : s.proposition = prop => s = r
    BY <1>2 DEF RecordsOK
  <2>2. P!Answer(prop, at) = Projected(r, at)
    BY <1>2, <2>1, ProjectionAnswers
  <2>3. X!Answer(prop, at) = X!ResultFromRecord(r, at)
    BY <1>2, <2>1, ExternalAnswers
  <2> QED BY <2>2, <2>3, ShortCut DEF RecordsOK
<1> QED BY <1>1, <1>2

LEMMA SnapshotsAlike ==
    ASSUME RecordsOK, available, NEW scope, NEW at \in Nat
    PROVE  {Seen(x) : x \in P!SnapshotAnswers(scope, at)}
              = {Seen(x) : x \in X!SnapshotAnswers(scope, at)}
<1> DEFINE Here == {r \in records : InScope(r, scope)}
<1>1. P!SnapshotAnswers(scope, at) = {Projected(r, at) : r \in Here}
  BY ProjectionSnapshots
<1>2. X!SnapshotAnswers(scope, at) = {X!ResultFromRecord(r, at) : r \in Here}
  BY DEF X!SnapshotAnswers, X!ReadAll, X!InScope, InScope
<1>3. \A r \in Here : Seen(Projected(r, at)) = Seen(X!ResultFromRecord(r, at))
  BY ShortCut DEF RecordsOK
<1> HIDE DEF Here
<1>4. ASSUME NEW v
      PROVE  v \in {Seen(x) : x \in P!SnapshotAnswers(scope, at)}
                <=> v \in {Seen(x) : x \in X!SnapshotAnswers(scope, at)}
  <2>1. v \in {Seen(x) : x \in P!SnapshotAnswers(scope, at)}
           <=> \E r \in Here : v = Seen(Projected(r, at))
    BY <1>1
  <2>2. v \in {Seen(x) : x \in X!SnapshotAnswers(scope, at)}
           <=> \E r \in Here : v = Seen(X!ResultFromRecord(r, at))
    BY <1>2
  <2> QED BY <1>3, <2>1, <2>2
<1> QED BY <1>4

\* As long as the source answers, a caller who changes provider sees no
\* difference, in any answer and any snapshot.
THEOREM ProvidersInterchangeable == Spec => []Interchangeable
<1>1. RecordsOK => Interchangeable
  BY AnswersAlike, SnapshotsAlike, InstantsAssumption DEF Interchangeable
<1> QED BY <1>1, RecordsAlwaysOK, PTL
=============================================================================
