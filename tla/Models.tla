-------------------------------- MODULE Models --------------------------------
(***************************************************************************)
(* The value objects of WorldState (models.py) and what their constructors *)
(* accept.  Every object is frozen: once built it never changes, so an     *)
(* object is a record.  An instant is a natural number, an absent optional *)
(* field is None, and a tuple that the code keeps sorted is a set.         *)
(*                                                                         *)
(* semantic_id hashes the canonical JSON of an object's whole content; two *)
(* equal contents have one id and (SHA-256 being collision free) two       *)
(* contents have two.  An object whose id is computed this way is          *)
(* therefore its own id here, its kind standing for the id's prefix: an    *)
(* assertion, an unknown, a conflict and a transition carry no id field.   *)
(* The ids of observations, evidence and claims are chosen by the caller   *)
(* and are a field.                                                        *)
(*                                                                         *)
(* A TemporalScope that is absent and one without bounds are both a start  *)
(* and an end of None: no code tells them apart.                           *)
(***************************************************************************)
EXTENDS Naturals

CONSTANT None        \* the Python None of an optional field

\* None is no instant.
ASSUME NoneAssumption == None \notin Nat

----------------------------------------------------------------------------
(* What the constructors accept.  A call that builds anything else raises. *)

Instant(t) == t \in Nat

Optional(t) == t = None \/ Instant(t)

\* TemporalScope and Validity both refuse an end before the start.
OrderedBounds(from, until) ==
    /\ Optional(from)
    /\ Optional(until)
    /\ (from # None /\ until # None) => from <= until

\* Provenance must lead somewhere: to evidence or to a parent assertion.
Traceable(x) == x.evidence_refs \cup x.parent_refs # {}

ValidClaim(c) ==
    /\ Instant(c.created_at)
    /\ OrderedBounds(c.start, c.end)
    /\ Traceable(c)

ValidEvidence(e) == Instant(e.recorded_at)

ValidAssertion(a) ==
    /\ Instant(a.resolved_at)
    /\ OrderedBounds(a.valid_from, a.valid_until)
    /\ Traceable(a)

ValidConflict(x) ==
    /\ Instant(x.as_of)
    /\ \E c, d \in x.candidate_refs : c # d

\* The constructors the resolver calls accept what it computed.
Constructible(x) ==
    /\ x.kind = "state"    => ValidAssertion(x)
    /\ x.kind = "conflict" => ValidConflict(x)
    /\ x.kind = "unknown"  => Instant(x.as_of)
=============================================================================
