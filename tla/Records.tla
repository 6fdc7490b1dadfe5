-------------------------------- MODULE Records --------------------------------
(***************************************************************************)
(* The store outside WorldState that the example providers read: one       *)
(* current record for each proposition, replaced by a put.  It is the      *)
(* ExternalRecordStore of projection.py and the DirectExternalSource of    *)
(* external.py, whose records have the same fields.  A record is           *)
(*   [record_id, proposition, value, updated_at, version, start, end,      *)
(*    spatial_scope].                                                      *)
(***************************************************************************)
EXTENDS Models

CONSTANTS
    AllRecords,        \* the records the outside system may put
    Propositions,      \* the <<entity, property key>> pairs asked about
    Relations,         \* the <<subject, relation key, object>> asked about
    Scopes,            \* the spatial scopes asked about, besides None
    Time               \* the instants asked about

\* A record's instants are UTC and its TemporalScope was accepted.
ASSUME RecordsAssumption ==
    \A r \in AllRecords :
        Instant(r.updated_at) /\ OrderedBounds(r.start, r.end)

\* Instants are UTC datetimes, ordered like naturals.
ASSUME InstantsAssumption == Time \subseteq Nat

VARIABLE records

\* Fault: the store keeps the record it should replace.
PutKeeping(r) == records' = records \cup {r}

Put(r) == records' = {s \in records : s.proposition # r.proposition} \cup {r}

\* What both providers make of a record's identity.  It leaves the proposition
\* out, and nothing keeps two propositions from sharing a record id.
EvidenceId(r) == <<r.record_id, r.version, r.updated_at>>

InScope(r, scope) == scope = None \/ r.spatial_scope = scope

RelationUnknown(rel, at) ==
    [kind |-> "unknown", proposition |-> <<rel[1], rel[2]>>, as_of |-> at,
     reason |-> "unsupported_query", object |-> rel[3]]

\* A dictionary write: what is new replaces what has its id.
Overwrite(dict, new) ==
    {e \in dict : \A n \in new : n.id # e.id} \cup new
=============================================================================
