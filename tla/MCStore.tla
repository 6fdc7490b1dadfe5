-------------------------------- MODULE MCStore --------------------------------
(***************************************************************************)
(* Small universes of records for the reference provider.  The configs     *)
(* choose among them; MaxOutcomes bounds the cache and                     *)
(* MaxTransitions the registered transitions.                              *)
(***************************************************************************)
EXTENDS Consumers

CONSTANTS
    c1, c2, c3, c4, e1, e2, s1,         \* ids of claims, evidence and a source
    v1, v2, mode, ent, key, derived,    \* values, an epistemic mode, names
    A, B, other, o1,                    \* scopes, an entity, an observation id
    MaxOutcomes, MaxTransitions

P == <<ent, key>>
Q == <<ent, derived>>

FewOutcomes ==
    /\ Cardinality(outcome_scopes) <= MaxOutcomes
    /\ Cardinality(transitions) <= MaxTransitions

Times3 == 0..2
Times2 == 0..1
OnlyLast == {1}

MCClaim(id, prop, value, created, start, end, refs) ==
    [id |-> id, proposition |-> prop, value |-> value, epistemic_mode |-> mode,
     spatial_scope |-> None, uncertainty |-> None, created_at |-> created,
     start |-> start, end |-> end, evidence_refs |-> refs,
     source_refs |-> {s1}, parent_refs |-> {}]

MCEvidence(id, version, recorded) ==
    [id |-> id, source |-> s1, version |-> version, recorded_at |-> recorded]

TwoEvidence == {MCEvidence(e1, None, 0), MCEvidence(e2, None, 1)}

\* From 1 on the two pieces of evidence give s1 two versions.
VersionedEvidence == {MCEvidence(e1, v1, 0), MCEvidence(e2, v2, 1)}

PQ == {P, Q}
OnlyP == {P}

----------------------------------------------------------------------------
(* Validity windows, disagreement, one id used twice, a derived claim *)

Early   == MCClaim(c1, P, v1, 0, None, 1, {e1})
Clash   == MCClaim(c1, P, v2, 0, None, None, {e1})
Overlap == MCClaim(c2, P, v1, 1, 1, 2, {e2})
Dissent == MCClaim(c3, P, v2, 1, 0, None, {e1})

\* A claim about Q derived from the assertion that Early resolves to at 0.
DerivedFrom(c) ==
    [MCClaim(c4, Q, v1, 0, None, None, {})
        EXCEPT !.parent_refs = {Assertion(P, 0, {c})}, !.source_refs = {}]

WindowClaims == {Early, Clash, Overlap, Dissent, DerivedFrom(Early)}

\* The same with the first claim made for scope A.
EarlyInA      == [Early EXCEPT !.spatial_scope = A]
DerivedClaims == {EarlyInA, Dissent, DerivedFrom(EarlyInA)}
OnlyA         == {A}

----------------------------------------------------------------------------
(* A change from one value to another, each with a window, evidence and a     *)
(* moment of its own, and a claim that bears the id of the transition        *)

Before == MCClaim(c1, P, v1, 0, None, 0, {e1})
After  == MCClaim(c2, P, v2, 1, 1, None, {e2})

Change  == BuildTransition(Assertion(P, 0, {Before}), Assertion(P, 1, {After}), 1)
Shadows == MCClaim(Change, Q, v1, 0, None, None, {e1})

ChangingClaims == {Before, After, DerivedFrom(Before), Shadows}

----------------------------------------------------------------------------
(* Spatial scopes *)

InA     == [MCClaim(c1, P, v1, 0, None, None, {e1}) EXCEPT !.spatial_scope = A]
InB     == [MCClaim(c2, P, v2, 1, None, None, {e1}) EXCEPT !.spatial_scope = B]
AlsoInA == [MCClaim(c3, P, v2, 0, None, None, {e2}) EXCEPT !.spatial_scope = A]
Nowhere == MCClaim(c4, P, v1, 0, None, None, {e1})

ScopedClaims == {InA, InB, AlsoInA, Nowhere}
BothScopes   == {A, B}

MCRelations    == {<<ent, key, other>>}
MCObservations == {[id |-> o1, proposition |-> P, value |-> v1],
                   [id |-> o1, proposition |-> P, value |-> v2]}
=============================================================================
