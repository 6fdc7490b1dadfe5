------------------------------ MODULE MCProviders ------------------------------
(***************************************************************************)
(* Two propositions; the first has a record that is replaced by one with a *)
(* window, then by one whose value changes without a change of id.  The    *)
(* second may be kept under a record id of its own or under the first      *)
(* one's.  MaxTold bounds what callers have been told.                     *)
(***************************************************************************)
EXTENDS Providers, FiniteSets

CONSTANTS ent, key, derived, other, r1, r2, v1, v2, A, MaxTold

FewTold == Cardinality(p_told) + Cardinality(x_told) <= MaxTold

PropP == <<ent, key>>
PropQ == <<ent, derived>>

MCRecord(id, prop, value, version, updated, start, end, scope) ==
    [record_id |-> id, proposition |-> prop, value |-> value,
     version |-> version, updated_at |-> updated, start |-> start, end |-> end,
     spatial_scope |-> scope]

RecordsOfP ==
    {MCRecord(r1, PropP, v1, 1, 0, None, None, A),
     MCRecord(r1, PropP, v2, 2, 1, None, None, None),
     MCRecord(r1, PropP, v1, 2, 0, 1, 1, A)}

MCRecords     == RecordsOfP \cup {MCRecord(r1, PropQ, v1, 1, 0, 0, 0, A)}
RecordsApart  == RecordsOfP \cup {MCRecord(r2, PropQ, v1, 1, 0, 0, 0, A)}

MCPropositions == {PropP, PropQ}
MCRelations    == {<<ent, key, other>>}
MCScopes       == {A}
MCTime         == 0..1
=============================================================================
