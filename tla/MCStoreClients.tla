----------------------------- MODULE MCStoreClients -----------------------------
(***************************************************************************)
(* A claim about P and one about Q, a dissent about P derived from Q, and  *)
(* a claim about P derived from P itself and from Q.  The suite asks about *)
(* P alone, so that only its snapshots resolve Q: the first of two may     *)
(* cache what the second one finds, and the first probe's what the others  *)
(* were judged without.  The benchmark asks about P and then about Q.  No  *)
(* store meets all the expectations.                                       *)
(***************************************************************************)
EXTENDS StoreClients

CONSTANTS c1, c2, c3, c4, e1, s1, v1, v2, mode, ent, key, derived

P == <<ent, key>>
Q == <<ent, derived>>

MCClaim(id, prop, value, refs, parents) ==
    [id |-> id, proposition |-> prop, value |-> value, epistemic_mode |-> mode,
     spatial_scope |-> None, uncertainty |-> None, created_at |-> 0,
     start |-> None, end |-> 0, evidence_refs |-> refs,
     source_refs |-> IF refs = {} THEN {} ELSE {s1}, parent_refs |-> parents]

Base     == MCClaim(c1, P, v1, {e1}, {})
Aside    == MCClaim(c2, Q, v1, {e1}, {})
Of(c)    == {Assertion(c.proposition, 0, {c})}
Dissent  == MCClaim(c3, P, v2, {}, Of(Aside))
OnItself == MCClaim(c4, P, v1, {}, Of(Base) \cup Of(Aside))

MCClaims   == {Base, Aside, Dissent, OnItself}
MCEvidence == {[id |-> e1, source |-> s1, version |-> v1, recorded_at |-> 0]}
PQ         == {P, Q}
OnlyNow    == {0}

Ask(prop, at, kind, value, reason) ==
    [proposition |-> prop, at |-> at, kind |-> kind, value |-> value,
     reason |-> reason]

MCProbes == <<Ask(P, 0, "conflict", None, None),
              Ask(P, 0, "unknown", None, "insufficient_evidence"),
              Ask(P, 0, "state", v1, None)>>

MCCases == <<Ask(P, 0, "state", v1, None), Ask(Q, 0, "state", v1, None)>>
=============================================================================
