------------------------------ MODULE Resolution ------------------------------
(***************************************************************************)
(* The conservative reference resolver (resolution.py): a pure function    *)
(* from the claims it is given, one proposition, an instant and what is    *)
(* available at that instant, to one outcome.  It never ranks claims: they *)
(* agree and are asserted, or they do not and the outcome is a conflict,   *)
(* or none can be used and the outcome says why.                           *)
(*                                                                         *)
(* A proposition is the pair of an entity and a property key.  A claim is  *)
(*   [id, proposition, value, epistemic_mode, spatial_scope, uncertainty,  *)
(*    created_at, start, end, evidence_refs, source_refs, parent_refs].    *)
(***************************************************************************)
EXTENDS Models, FiniteSetsExt

UnknownReasons ==
    {"no_evidence", "outside_validity", "insufficient_evidence",
     "unsupported_query"}

----------------------------------------------------------------------------
(* The stages a claim passes before it counts *)

\* Both bounds of a temporal scope are inclusive.
Contains(c, at) ==
    /\ c.start = None \/ c.start <= at
    /\ c.end = None \/ at <= c.end

MissingProvenanceRefs(c, available) ==
    (c.evidence_refs \ available.evidence_refs)
        \cup (c.source_refs \ available.source_refs)
        \cup (c.parent_refs \ available.assertion_refs)

\* Faults for the runs to find: created_at ignored; only the newest claims kept.
VisibleTooEarly(claims, prop, at) == {c \in claims : c.proposition = prop}

VisibleNewest(claims, prop, at) ==
    {c \in claims : /\ c.proposition = prop
                    /\ c.created_at <= at
                    /\ \A d \in claims : (d.proposition = prop /\ d.created_at <= at)
                                            => d.created_at <= c.created_at}

Visible(claims, prop, at) ==
    {c \in claims : c.proposition = prop /\ c.created_at <= at}

Active(claims, prop, at) == {c \in Visible(claims, prop, at) : Contains(c, at)}

\* Fault: missing references are not held against a claim.
UsableUnchecked(claims, prop, at, available) == Active(claims, prop, at)

Usable(claims, prop, at, available) ==
    {c \in Active(claims, prop, at) : MissingProvenanceRefs(c, available) = {}}

\* What two claims must share to be the same statement.
MaterialKey(c) == <<c.value, c.epistemic_mode, c.spatial_scope>>

\* Fault: two claims that say the same are taken to disagree.
AgreeOnlyAlone(claims) == \A c, d \in claims : c = d

Agree(claims) == \A c, d \in claims : MaterialKey(c) = MaterialKey(d)

----------------------------------------------------------------------------
(* What an assertion takes from the claims behind it *)

LatestStart(claims) ==
    LET starts == {c.start : c \in claims} \ {None}
    IN  IF starts = {} THEN None ELSE Max(starts)

\* Fault: the window is as long as the longest claim's.
EarliestEndLatest(claims) ==
    LET ends == {c.end : c \in claims} \ {None}
    IN  IF ends = {} THEN None ELSE Max(ends)

EarliestEnd(claims) ==
    LET ends == {c.end : c \in claims} \ {None}
    IN  IF ends = {} THEN None ELSE Min(ends)

\* The one value all claims share, or None when they do not share one.
Shared(values) ==
    IF \A v, w \in values : v = w THEN CHOOSE v \in values : TRUE ELSE None

\* Fault: only the evidence all claims have in common.
EvidenceOfCommon(claims) ==
    {r \in UNION {c.evidence_refs : c \in claims} :
        \A c \in claims : r \in c.evidence_refs}

\* Fault: parent assertions are not carried over.
ParentsOfNone(claims) == {}

EvidenceOf(claims) == UNION {c.evidence_refs : c \in claims}
SourcesOf(claims)  == UNION {c.source_refs : c \in claims}
ParentsOf(claims)  == UNION {c.parent_refs : c \in claims}

Assertion(prop, at, claims) ==
    LET first == CHOOSE c \in claims : TRUE     \* they agree: any of them
    IN  [kind           |-> "state",
         proposition    |-> prop,
         value          |-> first.value,
         epistemic_mode |-> first.epistemic_mode,
         valid_from     |-> LatestStart(claims),
         valid_until    |-> EarliestEnd(claims),
         resolved_at    |-> at,
         evidence_refs  |-> EvidenceOf(claims),
         source_refs    |-> SourcesOf(claims),
         parent_refs    |-> ParentsOf(claims),
         uncertainty    |-> Shared({c.uncertainty : c \in claims}),
         spatial_scope  |-> Shared({c.spatial_scope : c \in claims})]

Conflict(prop, at, claims) ==
    [kind           |-> "conflict",
     proposition    |-> prop,
     as_of          |-> at,
     candidate_refs |-> {c.id : c \in claims},
     evidence_refs  |-> EvidenceOf(claims)]

Unknown(prop, at, reason, missing) ==
    [kind        |-> "unknown",
     proposition |-> prop,
     as_of       |-> at,
     reason      |-> reason,
     missing     |-> missing]

\* The first stage that left nothing names the reason.
UnknownReason(claims, prop, at) ==
    IF Visible(claims, prop, at) = {} THEN "no_evidence"
    ELSE IF Active(claims, prop, at) = {} THEN "outside_validity"
    ELSE "insufficient_evidence"

ResolveState(claims, prop, at, available) ==
    LET usable == Usable(claims, prop, at, available)
    IN  IF usable = {}
          THEN Unknown(prop, at, UnknownReason(claims, prop, at),
                       UNION {MissingProvenanceRefs(c, available) :
                                 c \in Active(claims, prop, at)})
        ELSE IF Agree(usable) THEN Assertion(prop, at, usable)
        ELSE Conflict(prop, at, usable)
=============================================================================
