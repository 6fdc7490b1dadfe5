---------------------------- MODULE ConsumerProofs ----------------------------
(***************************************************************************)
(* Proof that a consumer may go by the window it is sent, although its     *)
(* instants are cut to milliseconds.                                       *)
(***************************************************************************)
EXTENDS Consumers, StoreProofs

----------------------------------------------------------------------------
(* Cutting instants *)

\* An instant is a whole number of milliseconds and a rest.
LEMMA Milliseconds ==
    ASSUME NEW t \in Nat
    PROVE  /\ t % Grain \in 0..Grain - 1
           /\ \E p \in Nat : IsoUtc(t) = Grain * p /\ t = Grain * p + (t % Grain)
<1>1. t % Grain \in 0..Grain - 1
  BY GrainAssumption
<1>2. t \div Grain \in Nat
  BY GrainAssumption
<1>3. t = Grain * (t \div Grain) + (t % Grain)
  BY GrainAssumption
<1>4. IsoUtc(t) = Grain * (t \div Grain)
  BY <1>1, <1>2, <1>3, GrainAssumption DEF IsoUtc
<1> QED BY <1>1, <1>2, <1>3, <1>4

\* The greater of two multiples is greater by the factor at least.
LEMMA MultiplesApart ==
    ASSUME NEW p \in Nat, NEW q \in Nat, q < p
    PROVE  Grain * q + Grain <= Grain * p
<1>1. PICK d \in Nat : p = q + 1 + d
  <2>1. p - q - 1 \in Nat /\ p = q + 1 + (p - q - 1)
    OBVIOUS
  <2> QED BY <2>1
<1>2. Grain * p = Grain * q + Grain + Grain * d
  BY <1>1, GrainAssumption
<1>3. Grain * d \in Nat /\ Grain * q \in Nat
  BY GrainAssumption
<1> QED BY <1>2, <1>3, GrainAssumption

\* Cutting an instant never moves it forward.
LEMMA IsoUtcFloor ==
    ASSUME NEW t \in Nat
    PROVE  IsoUtc(t) \in Nat /\ IsoUtc(t) <= t
<1>1. t % Grain \in Nat /\ t % Grain <= t
  BY GrainAssumption
<1> QED BY <1>1 DEF IsoUtc

\* Cutting two instants keeps their order.
LEMMA IsoUtcMonotone ==
    ASSUME NEW t \in Nat, NEW u \in Nat, t <= u
    PROVE  IsoUtc(t) <= IsoUtc(u)
<1> DEFINE r == t % Grain
           s == u % Grain
<1>1. PICK p \in Nat : IsoUtc(t) = Grain * p /\ t = Grain * p + r
  BY Milliseconds
<1>2. PICK q \in Nat : IsoUtc(u) = Grain * q /\ u = Grain * q + s
  BY Milliseconds
<1>3. r \in 0..Grain - 1 /\ s \in 0..Grain - 1
  BY Milliseconds
<1> HIDE DEF r, s
<1>4. IsoUtc(t) \in Nat /\ IsoUtc(u) \in Nat
  BY IsoUtcFloor
<1>5. CASE q < p
  <2>1. IsoUtc(u) + Grain <= IsoUtc(t)
    BY <1>1, <1>2, <1>5, MultiplesApart
  <2>2. t = IsoUtc(t) + r /\ u = IsoUtc(u) + s
    BY <1>1, <1>2
  <2> QED BY <1>3, <1>4, <2>1, <2>2, GrainAssumption
<1>6. CASE p = q
  BY <1>1, <1>2, <1>4, <1>6
<1>7. CASE p < q
  <2>1. IsoUtc(t) + Grain <= IsoUtc(u)
    BY <1>1, <1>2, <1>7, MultiplesApart
  <2> QED BY <1>4, <2>1, GrainAssumption
<1> QED BY <1>5, <1>6, <1>7

----------------------------------------------------------------------------
(* The projected window *)

\* An assertion is current when it is resolved.
LEMMA SupportedCurrent ==
    ASSUME TypeOK, Supported, NEW a \in assertions
    PROVE  /\ Within(a, a.resolved_at)
           /\ a.resolved_at \in Nat
           /\ Optional(a.valid_from) /\ Optional(a.valid_until)
<1>1. TypedAssertion(a)
  BY DEF TypeOK
<1>2. a.resolved_at \in Time /\ a.resolved_at \in Nat
  BY <1>1, TimeAssumption DEF TypedAssertion
<1>3. PICK S \in SUBSET claims : SupportedBy(a, S)
  BY DEF Supported
<1>4. Within(a, a.resolved_at)
  BY <1>2, <1>3 DEF SupportedBy
<1> QED BY <1>1, <1>2, <1>4 DEF TypedAssertion, ValidAssertion, OrderedBounds

\* An assertion that is supported and whose window holds may be projected.
LEMMA ProjectionHolds ==
    TypeOK /\ Supported /\ WindowHolds => ProjectedWindowHolds
<1> SUFFICES ASSUME TypeOK, Supported, WindowHolds, NEW a \in Outcomes,
                    ProjectQueryResult(a).kind = "assertion"
             PROVE  /\ ProjectedWithin(ProjectQueryResult(a).validity,
                                       ProjectQueryResult(a).validity.resolvedAt)
                    /\ \A t \in Time :
                          (/\ IsoUtc(t) = t
                           /\ ProjectQueryResult(a).validity.resolvedAt < t
                           /\ ProjectedWithin(ProjectQueryResult(a).validity, t))
                          => StillSo(StateAt(ProjectQueryResult(a).proposition, t),
                                     ProjectQueryResult(a))
  BY DEF ProjectedWindowHolds
<1>0. a \in assertions /\ a.kind = "state"
  BY DEF Outcomes, ProjectQueryResult, TypeOK, TypedAssertion, TypedUnknown, TypedConflict
<1> DEFINE p == ProjectQueryResult(a)
<1>p. /\ p.validity = ProjectedValidity(a) /\ p.proposition = a.proposition
      /\ p.value = a.value /\ p.epistemicMode = a.epistemic_mode
      /\ p.evidenceRefs = a.evidence_refs
  BY <1>0 DEF ProjectQueryResult
<1> HIDE DEF p
<1> DEFINE v == ProjectedValidity(a)
<1>1. /\ Within(a, a.resolved_at) /\ a.resolved_at \in Nat
      /\ Optional(a.valid_from) /\ Optional(a.valid_until)
  BY <1>0, SupportedCurrent
<1>2. /\ v.resolvedAt = IsoUtc(a.resolved_at)
      /\ v.validFrom = IsoUtcOptional(a.valid_from)
      /\ v.validUntil = IsoUtcOptional(a.valid_until)
  BY DEF ProjectedValidity
<1> HIDE DEF v
<1>3. ProjectedWithin(v, v.resolvedAt)
  <2>1. a.valid_from # None => IsoUtc(a.valid_from) <= IsoUtc(a.resolved_at)
    BY <1>1, IsoUtcMonotone DEF Within, Optional, Instant
  <2>2. a.valid_until # None => IsoUtc(a.resolved_at) <= IsoUtc(a.valid_until)
    BY <1>1, IsoUtcMonotone DEF Within, Optional, Instant
  <2> QED BY <1>2, <2>1, <2>2 DEF ProjectedWithin, IsoUtcOptional
<1>4. ASSUME NEW t \in Time, IsoUtc(t) = t, v.resolvedAt < t, ProjectedWithin(v, t)
      PROVE  AtLeast(StateAt(a.proposition, t), a)
  <2>1. t \in Nat
    BY TimeAssumption
  <2>2. a.resolved_at < t
    <3>1. SUFFICES ASSUME t <= a.resolved_at PROVE FALSE
      BY <1>1, <2>1
    <3>2. IsoUtc(t) <= IsoUtc(a.resolved_at)
      BY <1>1, <2>1, <3>1, IsoUtcMonotone
    <3>3. IsoUtc(a.resolved_at) \in Nat
      BY <1>1, IsoUtcFloor
    <3> QED BY <1>2, <1>4, <2>1, <3>2, <3>3
  <2>3. a.valid_from = None \/ a.valid_from <= t
    BY <1>1, <2>1, <2>2 DEF Within, Optional, Instant
  <2>4. a.valid_until = None \/ t <= a.valid_until
    <3>1. SUFFICES ASSUME a.valid_until # None PROVE t <= a.valid_until
      OBVIOUS
    <3>2. a.valid_until \in Nat
      BY <1>1, <3>1 DEF Optional, Instant
    <3>3. IsoUtc(a.valid_until) \in Nat /\ IsoUtc(a.valid_until) <= a.valid_until
      BY <3>2, IsoUtcFloor
    <3>4. v.validUntil = None \/ t <= v.validUntil
      BY <1>4 DEF ProjectedWithin
    <3>5. v.validUntil = IsoUtc(a.valid_until) /\ v.validUntil # None
      BY <1>2, <3>1, <3>3, NoneAssumption DEF IsoUtcOptional
    <3> QED BY <2>1, <3>2, <3>3, <3>4, <3>5
  <2> QED BY <1>0, <1>1, <2>1, <2>2, <2>3, <2>4 DEF WindowHolds, Within
<1>5. ASSUME NEW x, AtLeast(x, a) PROVE StillSo(x, p)
  BY <1>0, <1>5, <1>p DEF AtLeast, StillSo, MaterialKey
<1> QED BY <1>3, <1>4, <1>5, <1>p DEF v, p

\* A consumer may go by the window it was sent, for every set of claims and
\* evidence and every order of registering and asking.
THEOREM ProjectedWindowAlwaysHolds == Spec => []ProjectedWindowHolds
BY TypeCorrect, AssertionsSupported, WindowAlwaysHolds, ProjectionHolds, PTL

----------------------------------------------------------------------------
(* The wire *)

\* What x is made of: the fields of an outcome of its kind and no others.
AssertionLike(x) ==
    x = [kind           |-> "state",
         proposition    |-> x.proposition,
         value          |-> x.value,
         epistemic_mode |-> x.epistemic_mode,
         valid_from     |-> x.valid_from,
         valid_until    |-> x.valid_until,
         resolved_at    |-> x.resolved_at,
         evidence_refs  |-> x.evidence_refs,
         source_refs    |-> x.source_refs,
         parent_refs    |-> x.parent_refs,
         uncertainty    |-> x.uncertainty,
         spatial_scope  |-> x.spatial_scope]

ConflictLike(x) ==
    x = [kind           |-> "conflict",
         proposition    |-> x.proposition,
         as_of          |-> x.as_of,
         candidate_refs |-> x.candidate_refs,
         evidence_refs  |-> x.evidence_refs]

UnknownLike(x) ==
    /\ x = [kind        |-> "unknown",
            proposition |-> x.proposition,
            as_of       |-> x.as_of,
            reason      |-> x.reason,
            missing     |-> x.missing]
    /\ x.reason # "unsupported_query"

RelationLike(x) ==
    x = [kind        |-> "unknown",
         proposition |-> x.proposition,
         as_of       |-> x.as_of,
         reason      |-> "unsupported_query",
         missing     |-> x.missing,
         object      |-> x.object]

Shaped(x) == AssertionLike(x) \/ ConflictLike(x) \/ UnknownLike(x) \/ RelationLike(x)

\* The resolver's outcomes have the fields of their kind.
LEMMA ResolvedShaped ==
    ASSUME NEW C, NEW prop, NEW at, NEW av
    PROVE  Shaped(ResolveState(C, prop, at, av))
<1> DEFINE U == Usable(C, prop, at, av)
           lacking == UNION {MissingProvenanceRefs(c, av) : c \in Active(C, prop, at)}
<1>1. CASE U = {}
  <2>1. ResolveState(C, prop, at, av) = Unknown(prop, at, UnknownReason(C, prop, at), lacking)
    BY <1>1 DEF ResolveState
  <2>2. UnknownReason(C, prop, at) # "unsupported_query"
    BY DEF UnknownReason
  <2> HIDE DEF lacking
  <2> QED BY <2>1, <2>2 DEF Unknown, Shaped, UnknownLike
<1>2. CASE U # {} /\ Agree(U)
  <2>1. ResolveState(C, prop, at, av) = Assertion(prop, at, U)
    BY <1>2, ResolveKinds
  <2> HIDE DEF U
  <2> QED BY <2>1 DEF Assertion, Shaped, AssertionLike
<1>3. CASE U # {} /\ ~Agree(U)
  <2>1. ResolveState(C, prop, at, av) = Conflict(prop, at, U)
    BY <1>3, ResolveKinds
  <2> HIDE DEF U
  <2> QED BY <2>1 DEF Conflict, Shaped, ConflictLike
<1> QED BY <1>1, <1>2, <1>3

LEMMA SnapshotShaped ==
    ASSUME NEW scope, NEW at
    PROVE  \A x \in SnapshotResults(scope, at) : Shaped(x)
BY ResolvedShaped DEF SnapshotResults

OutcomesShaped == \A x \in Outcomes : Shaped(x)

LEMMA OutcomesShapedNext == OutcomesShaped /\ [Next]_vars => OutcomesShaped'
<1> SUFFICES ASSUME OutcomesShaped, [Next]_vars PROVE OutcomesShaped'
  OBVIOUS
<1>0. \A x : Shaped(x)' <=> Shaped(x)
  BY DEF Shaped, AssertionLike, ConflictLike, UnknownLike, RelationLike
<1>1. ASSUME NEW results, NEW scope, Register(results, scope), \A x \in results : Shaped(x)
      PROVE  OutcomesShaped'
  <2>1. Outcomes' \subseteq Outcomes \cup results
    BY <1>1 DEF Register, Outcomes
  <2> QED BY <1>1, <2>1, <1>0 DEF OutcomesShaped
<1>2. ASSUME NEW prop, NEW at, QueryState(prop, at) PROVE OutcomesShaped'
  BY <1>1, <1>2, ResolvedShaped DEF QueryState, StateAt
<1>3. ASSUME NEW rel, NEW at, QueryRelation(rel, at) PROVE OutcomesShaped'
  <2>1. Shaped(RelationAt(rel, at))
    BY DEF RelationAt, Shaped, RelationLike
  <2> QED BY <1>1, <1>3, <2>1 DEF QueryRelation
<1>4. ASSUME NEW scope, NEW at, GetSnapshot(scope, at) PROVE OutcomesShaped'
  <2>1. \A x \in SnapshotResults(scope, at) : Shaped(x)
    BY SnapshotShaped
  <2>2. Register(SnapshotResults(scope, at), scope)
    BY <1>4 DEF GetSnapshot
  <2> QED BY <1>1, <2>1, <2>2
<1>5. CASE UNCHANGED cache
  BY <1>0, <1>5 DEF OutcomesShaped, Outcomes, cache
<1> QED BY <1>2, <1>3, <1>4, <1>5
        DEF Next, AddObservation, AddEvidence, AddClaim, AddTransition, vars

\* No two outcomes have one payload.
LEMMA PayloadTells ==
    ASSUME NEW x, NEW y, Shaped(x), Shaped(y),
           StateQueryResultPayload(x) = StateQueryResultPayload(y)
    PROVE  x = y
<1> DEFINE p == StateQueryResultPayload(x)
           q == StateQueryResultPayload(y)
<1>1. ASSUME NEW z, AssertionLike(z)
      PROVE  LET r == StateQueryResultPayload(z)
             IN  /\ r.kind = "assertion"
                 /\ r.proposition = z.proposition
                 /\ r.value = z.value
                 /\ r.epistemic_mode = z.epistemic_mode
                 /\ r.validity = <<z.resolved_at, z.valid_from, z.valid_until>>
                 /\ r.provenance = <<z.evidence_refs, z.source_refs, z.parent_refs>>
                 /\ r.uncertainty = z.uncertainty
                 /\ r.spatial_scope = z.spatial_scope
  <2>1. z.kind = "state"
    BY <1>1 DEF AssertionLike
  <2> QED BY <2>1 DEF StateQueryResultPayload
<1>2. ASSUME NEW z, UnknownLike(z) \/ RelationLike(z)
      PROVE  LET r == StateQueryResultPayload(z)
             IN  /\ r.kind = "unknown"
                 /\ r.reason = z.reason
                 /\ r.as_of = z.as_of
                 /\ r.proposition = z.proposition
                 /\ r.missing = z.missing
                 /\ r.reason = "unsupported_query" => r.metadata = z.object
  <2>1. z.kind = "unknown"
    BY <1>2 DEF UnknownLike, RelationLike
  <2> QED BY <2>1 DEF StateQueryResultPayload
<1>3. ASSUME NEW z, ConflictLike(z)
      PROVE  LET r == StateQueryResultPayload(z)
             IN  /\ r.kind = "conflict"
                 /\ r.proposition = z.proposition
                 /\ r.candidate_refs = z.candidate_refs
                 /\ r.evidence_refs = z.evidence_refs
                 /\ r.as_of = z.as_of
  <2>1. z.kind = "conflict"
    BY <1>3 DEF ConflictLike
  <2> QED BY <2>1 DEF StateQueryResultPayload
<1>4. p = q
  OBVIOUS
<1>5. \A z : RelationLike(z) => z.reason = "unsupported_query"
  BY DEF RelationLike
<1> HIDE DEF p, q
<1>6. CASE AssertionLike(x)
  <2>1. p.kind = "assertion"
    BY <1>1, <1>6 DEF p
  <2>2. AssertionLike(y)
    BY <1>2, <1>3, <1>4, <2>1 DEF Shaped, p, q
  <2>3. /\ x.proposition = y.proposition /\ x.value = y.value
        /\ x.epistemic_mode = y.epistemic_mode
        /\ x.uncertainty = y.uncertainty /\ x.spatial_scope = y.spatial_scope
        /\ <<x.resolved_at, x.valid_from, x.valid_until>>
              = <<y.resolved_at, y.valid_from, y.valid_until>>
        /\ <<x.evidence_refs, x.source_refs, x.parent_refs>>
              = <<y.evidence_refs, y.source_refs, y.parent_refs>>
    BY <1>1, <1>4, <1>6, <2>2 DEF p, q
  <2> QED BY <1>6, <2>2, <2>3 DEF AssertionLike
<1>7. CASE ConflictLike(x)
  <2>1. p.kind = "conflict"
    BY <1>3, <1>7 DEF p
  <2>2. ConflictLike(y)
    BY <1>1, <1>2, <1>4, <2>1 DEF Shaped, p, q
  <2>3. /\ x.proposition = y.proposition /\ x.as_of = y.as_of
        /\ x.candidate_refs = y.candidate_refs /\ x.evidence_refs = y.evidence_refs
    BY <1>3, <1>4, <1>7, <2>2 DEF p, q
  <2> QED BY <1>7, <2>2, <2>3 DEF ConflictLike
<1>8. CASE UnknownLike(x) \/ RelationLike(x)
  <2>1. p.kind = "unknown"
    BY <1>2, <1>8 DEF p
  <2>2. UnknownLike(y) \/ RelationLike(y)
    BY <1>1, <1>3, <1>4, <2>1 DEF Shaped, p, q
  <2>3. /\ x.proposition = y.proposition /\ x.as_of = y.as_of
        /\ x.reason = y.reason /\ x.missing = y.missing
        /\ x.reason = "unsupported_query" => x.object = y.object
    BY <1>2, <1>4, <1>8, <2>2 DEF p, q
  <2>4. RelationLike(x) <=> RelationLike(y)
    BY <1>5, <1>8, <2>2, <2>3 DEF UnknownLike
  <2>5. CASE RelationLike(x)
    BY <1>5, <2>3, <2>4, <2>5 DEF RelationLike
  <2>6. CASE UnknownLike(x) /\ UnknownLike(y)
    BY <2>3, <2>6 DEF UnknownLike
  <2> QED BY <1>8, <2>2, <2>4, <2>5, <2>6
<1> QED BY <1>6, <1>7, <1>8 DEF Shaped

\* A snapshot of the provider's: its fields, and outcomes of the resolver's.
SnapshotLike(s) ==
    /\ s = [as_of           |-> s.as_of,
            created_at      |-> s.created_at,
            scope           |-> s.scope,
            results         |-> s.results,
            source_versions |-> s.source_versions]
    /\ \A x \in s.results : Shaped(x)

LEMMA SnapshotsLike == \A scope, at : SnapshotLike(Snapshot(scope, at))
BY SnapshotShaped DEF SnapshotLike, Snapshot

\* No two snapshots have one payload, and be they taken of two different stores.
LEMMA SnapshotPayloadTells ==
    ASSUME NEW s, NEW t, SnapshotLike(s), SnapshotLike(t),
           SnapshotPayload(s) = SnapshotPayload(t)
    PROVE  s = t
<1>1. /\ s.as_of = t.as_of /\ s.created_at = t.created_at /\ s.scope = t.scope
      /\ s.source_versions = t.source_versions
      /\ {StateQueryResultPayload(x) : x \in s.results}
            = {StateQueryResultPayload(y) : y \in t.results}
  BY DEF SnapshotPayload
<1>2. s.results = t.results
  <2>1. ASSUME NEW x \in s.results PROVE x \in t.results
    <3>1. StateQueryResultPayload(x) \in {StateQueryResultPayload(y) : y \in t.results}
      BY <1>1
    <3>2. PICK y \in t.results : StateQueryResultPayload(x) = StateQueryResultPayload(y)
      BY <3>1
    <3> QED BY <3>2, PayloadTells DEF SnapshotLike
  <2>2. ASSUME NEW y \in t.results PROVE y \in s.results
    <3>1. StateQueryResultPayload(y) \in {StateQueryResultPayload(x) : x \in s.results}
      BY <1>1
    <3>2. PICK x \in s.results : StateQueryResultPayload(x) = StateQueryResultPayload(y)
      BY <3>1
    <3> QED BY <3>2, PayloadTells DEF SnapshotLike
  <2> QED BY <2>1, <2>2
<1> QED BY <1>1, <1>2 DEF SnapshotLike

\* No two outcomes and no two snapshots are sent alike.
THEOREM WireNeverLossy == Spec => []WireLossless
<1>1. OutcomesShaped => WireLossless
  BY PayloadTells, SnapshotPayloadTells, SnapshotsLike DEF OutcomesShaped, WireLossless
<1>2. Init => OutcomesShaped
  BY DEF Init, OutcomesShaped, Outcomes
<1> QED BY <1>1, <1>2, OutcomesShapedNext, PTL DEF Spec
=============================================================================
