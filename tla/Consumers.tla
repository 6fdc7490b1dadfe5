------------------------------- MODULE Consumers -------------------------------
(***************************************************************************)
(* What consumers outside Python get of the reference provider's answers:  *)
(* the provider wire (wire.py), which keeps all of an outcome, and the     *)
(* projection for AgentReality (agentreality_wire.py), which keeps part of *)
(* it and renders instants to milliseconds.                                *)
(*                                                                         *)
(* A payload here leaves out the outcome's id, which no consumer can read, *)
(* and what is the same in every payload (contract, versions, resolver).   *)
(***************************************************************************)
EXTENDS StoreProperties

\* The instants of the code in a millisecond: a whole one is a multiple of it.
CONSTANT Grain

ASSUME GrainAssumption == Grain \in Nat \ {0}

----------------------------------------------------------------------------
(* The provider wire *)

\* Fault: the scope an assertion holds in is taken for granted.
StateQueryResultPayloadNowhere(x) ==
    CASE x.kind = "state" -> [y \in DOMAIN x \ {"spatial_scope"} |-> x[y]]
      [] OTHER -> x

StateQueryResultPayload(x) ==
    CASE x.kind = "state" ->
           [kind          |-> "assertion",
            proposition   |-> x.proposition,
            value         |-> x.value,
            epistemic_mode |-> x.epistemic_mode,
            validity      |-> <<x.resolved_at, x.valid_from, x.valid_until>>,
            provenance    |-> <<x.evidence_refs, x.source_refs, x.parent_refs>>,
            uncertainty   |-> x.uncertainty,
            spatial_scope |-> x.spatial_scope]
      [] x.kind = "unknown" ->
           [kind        |-> "unknown",
            reason      |-> x.reason,
            as_of       |-> x.as_of,
            proposition |-> x.proposition,
            missing     |-> x.missing,
            metadata    |-> IF x.reason = "unsupported_query" THEN x.object ELSE None]
      [] x.kind = "conflict" ->
           [kind           |-> "conflict",
            proposition    |-> x.proposition,
            candidate_refs |-> x.candidate_refs,
            evidence_refs  |-> x.evidence_refs,
            as_of          |-> x.as_of]

SnapshotPayload(s) ==
    [as_of           |-> s.as_of,
     created_at      |-> s.created_at,
     scope           |-> s.scope,
     results         |-> {StateQueryResultPayload(x) : x \in s.results},
     source_versions |-> s.source_versions]

----------------------------------------------------------------------------
(* The projection for AgentReality *)

\* Instants are cut to whole milliseconds.
IsoUtc(t) == t - (t % Grain)

IsoUtcOptional(t) == IF t = None THEN None ELSE IsoUtc(t)

\* Fault: the end of a window is rounded up.
ProjectedValidityWide(a) ==
    [resolvedAt |-> IsoUtc(a.resolved_at),
     validFrom  |-> IsoUtcOptional(a.valid_from),
     validUntil |-> IF a.valid_until = None THEN None
                    ELSE IsoUtc(a.valid_until + Grain - 1)]

ProjectedValidity(a) ==
    [resolvedAt |-> IsoUtc(a.resolved_at),
     validFrom  |-> IsoUtcOptional(a.valid_from),
     validUntil |-> IsoUtcOptional(a.valid_until)]

\* References are rendered as URLs that hold them.  What an Unknown or a
\* Conflict is about and the scope an assertion holds in are left out.
ProjectQueryResult(x) ==
    CASE x.kind = "state" ->
           [kind          |-> "assertion",
            proposition   |-> x.proposition,
            value         |-> x.value,
            epistemicMode |-> x.epistemic_mode,
            validity      |-> ProjectedValidity(x),
            evidenceRefs  |-> x.evidence_refs,
            sourceRefs    |-> x.source_refs]
      [] x.kind = "unknown" ->
           [kind    |-> "unknown",
            reason  |-> x.reason,
            asOf    |-> IsoUtc(x.as_of),
            missing |-> x.missing]
      [] x.kind = "conflict" ->
           [kind          |-> "conflict",
            asOf          |-> IsoUtc(x.as_of),
            candidateRefs |-> x.candidate_refs,
            evidenceRefs  |-> x.evidence_refs]

----------------------------------------------------------------------------
(* Properties *)

\* Nothing a consumer could need is lost on the wire: two outcomes that were
\* told, or two snapshots that can be, with one payload are the same one.  (Wire
\* specification, exit gate: identity, validity, provenance, uncertainty and
\* spatial scope are preserved, precision included.)
WireLossless ==
    /\ \A x, y \in Outcomes :
          StateQueryResultPayload(x) = StateQueryResultPayload(y) => x = y
    /\ LET snapshots == {Snapshot(scope, at) : scope \in Scopes \cup {None}, at \in Time}
       IN  \A s, t \in snapshots : SnapshotPayload(s) = SnapshotPayload(t) => s = t

ProjectedWithin(v, t) ==
    /\ v.validFrom = None \/ v.validFrom <= t
    /\ v.validUntil = None \/ t <= v.validUntil

\* What a consumer kept is still so: the provider's answer is the same value in
\* the same mode, or a conflict, and in both cases rests on that evidence.
StillSo(answer, p) ==
    /\ answer.kind \in {"state", "conflict"}
    /\ answer.kind = "state" => /\ answer.value = p.value
                                /\ answer.epistemic_mode = p.epistemicMode
    /\ p.evidenceRefs \subseteq answer.evidence_refs

\* A consumer that keeps a projected assertion may go by its window: it is
\* current when it says it was resolved, and at every later whole millisecond of
\* its window the provider, if asked, would tell the same or a conflict, and
\* never an Unknown, in spite of the truncation.
ProjectedWindowHolds ==
    \A x \in Outcomes :
        LET p == ProjectQueryResult(x)
        IN  p.kind = "assertion" =>
              /\ ProjectedWithin(p.validity, p.validity.resolvedAt)
              /\ \A t \in Time :
                    (/\ IsoUtc(t) = t
                     /\ p.validity.resolvedAt < t
                     /\ ProjectedWithin(p.validity, t))
                    => StillSo(StateAt(p.proposition, t), p)
=============================================================================
