------------------------------- MODULE Providers -------------------------------
(***************************************************************************)
(* The two example providers side by side over one outside store, as the   *)
(* reports on them claim they can be used: callers put records, ask either *)
(* provider, and the source behind the external one comes and goes.  The   *)
(* projection goes through the reference engine, the external provider     *)
(* never does.                                                             *)
(***************************************************************************)
EXTENDS Records

VARIABLES
    available,
    p_evidence, p_outcomes, p_scopes, p_refs, p_told,
    x_evidence, x_unknowns, x_told

P == INSTANCE ProjectionProvider
        WITH evidence_cache <- p_evidence, outcome_cache <- p_outcomes,
             scope_refs <- p_scopes, evidence_refs <- p_refs, told <- p_told

X == INSTANCE ExternalProvider
        WITH evidence_cache <- x_evidence, unknown_cache <- x_unknowns,
             told <- x_told

pVars == <<p_evidence, p_outcomes, p_scopes, p_refs, p_told>>
xVars == <<x_evidence, x_unknowns, x_told>>
vars  == <<records, available, pVars, xVars>>

Init == records = {} /\ available = TRUE /\ P!ProviderInit /\ X!ProviderInit

Next ==
    \/ /\ \E r \in AllRecords : Put(r)
       /\ UNCHANGED <<available, pVars, xVars>>
    \/ P!ProviderNext /\ UNCHANGED <<available, xVars>>
    \/ X!ProviderNext /\ UNCHANGED pVars
    \/ X!Toggle /\ UNCHANGED <<records, pVars, xVars>>

Spec == Init /\ [][Next]_vars

----------------------------------------------------------------------------
(* What a caller who changes provider would notice: the fields of an        *)
(* outcome that both providers fill.                                        *)

Seen(x) ==
    IF x.kind = "state"
      THEN <<x.kind, x.proposition, x.value, x.valid_from, x.valid_until,
             x.resolved_at, x.evidence_refs, x.spatial_scope>>
      ELSE <<x.kind, x.proposition, x.as_of, x.reason>>

\* The external provider's short cut through the record is the reference
\* resolution of the record's projection: as long as the source answers, both
\* providers give one answer to every question and the same snapshots.
Interchangeable ==
    available =>
        /\ \A prop \in Propositions, at \in Time :
              Seen(P!Answer(prop, at)) = Seen(X!Answer(prop, at))
        /\ \A scope \in Scopes \cup {None}, at \in Time :
              {Seen(x) : x \in P!SnapshotAnswers(scope, at)}
                 = {Seen(x) : x \in X!SnapshotAnswers(scope, at)}

\* The projection's callers: every assertion's evidence is kept in full, every
\* Unknown is listed for the scope it was told for, and no conflict is told.
ProjectionEvidenceKept   == P!EvidenceKept
ProjectionUnknownsListed == P!UnknownsListed
ProjectionNeverConflicts == P!NeverConflicts

\* The external provider's callers: no evidence is lost or mislabelled, an
\* Unknown stays listed, the evidence of the answer just given can be had, and an
\* outage is never told as absence.
ExternalEvidenceCoherent == X!EvidenceCoherent
ExternalUnknownsListed   == X!UnknownsListed
ExternalFreshEvidence    == X!FreshEvidence
ExternalNoFalseAbsence   == X!NoFalseAbsence

\* What the repository says of a provider, that the evidence of an assertion it
\* resolved can be retrieved, said of the external one: it does not hold, the
\* cached evidence is labelled anew when its record answers a later question.
ExternalEvidenceKept == X!EvidenceKept
=============================================================================
