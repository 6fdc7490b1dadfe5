-------------------------------- MODULE History --------------------------------
(***************************************************************************)
(* Building a state transition from the assertions on its two sides        *)
(* (history.py).  Either side may be missing, not both; when both are      *)
(* there they are about one proposition.  The transition's provenance is   *)
(* the union of theirs, with the two assertions added to the parents.      *)
(***************************************************************************)
EXTENDS Models

Sides(from, to) == {from, to} \ {None}

CanBuildTransition(from, to) ==
    /\ Sides(from, to) # {}
    /\ \A a, b \in Sides(from, to) : a.proposition = b.proposition

\* Fault: the evidence of the anchor alone.
BuildTransitionAnchorOnly(from, to, time) ==
    LET sides  == Sides(from, to)
        anchor == IF to # None THEN to ELSE from
    IN  [kind            |-> "transition",
         proposition     |-> anchor.proposition,
         from_ref        |-> from,
         to_ref          |-> to,
         transition_time |-> time,
         evidence_refs   |-> anchor.evidence_refs,
         source_refs     |-> UNION {a.source_refs : a \in sides},
         parent_refs     |-> sides \cup UNION {a.parent_refs : a \in sides}]

BuildTransition(from, to, time) ==
    LET sides  == Sides(from, to)
        anchor == IF to # None THEN to ELSE from
    IN  [kind            |-> "transition",
         proposition     |-> anchor.proposition,
         from_ref        |-> from,
         to_ref          |-> to,
         transition_time |-> time,
         evidence_refs   |-> UNION {a.evidence_refs : a \in sides},
         source_refs     |-> UNION {a.source_refs : a \in sides},
         parent_refs     |-> sides \cup UNION {a.parent_refs : a \in sides}]
=============================================================================
