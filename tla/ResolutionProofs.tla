--------------------------- MODULE ResolutionProofs ---------------------------
(***************************************************************************)
(* Facts about the resolver, for any set of claims.                        *)
(***************************************************************************)
EXTENDS Resolution, WellFoundedInduction, TLAPS

\* A set of instants that is not empty has an earliest one.
LEMMA LeastExists ==
    ASSUME NEW S \in SUBSET Nat, S # {}
    PROVE  \E x \in S : \A y \in S : x <= y
<1> DEFINE R == OpToRel(<, Nat)
<1>1. PICK x \in S : \A y \in S : ~ (<<y, x>> \in R)
  <2>1. IsWellFoundedOn(R, Nat)
    BY NatLessThanWellFounded
  <2> HIDE DEF R
  <2> QED BY <2>1, WFMin
<1>2. ASSUME NEW y \in S PROVE x <= y
  <2>1. ~ (<<y, x>> \in {ss \in Nat \X Nat : ss[1] < ss[2]})
    BY <1>1 DEF OpToRel
  <2>2. <<y, x>> \in Nat \X Nat
    OBVIOUS
  <2> QED BY <2>1, <2>2
<1> QED BY <1>2

\* A set of instants with an upper bound has a latest one.
LEMMA GreatestExists ==
    ASSUME NEW S \in SUBSET Nat, S # {}, NEW b \in Nat, \A y \in S : y <= b
    PROVE  \E x \in S : \A y \in S : x >= y
<1> DEFINE T == {b - y : y \in S}
<1>1. T \in SUBSET Nat /\ T # {}
  <2>1. \A y \in S : b - y \in Nat
    OBVIOUS
  <2> QED BY <2>1
<1>2. PICK d \in T : \A e \in T : d <= e
  <2> HIDE DEF T
  <2> QED BY <1>1, LeastExists
<1>3. PICK x \in S : d = b - x
  OBVIOUS
<1>4. ASSUME NEW y \in S PROVE x >= y
  <2>1. b - y \in T
    OBVIOUS
  <2>2. b - x <= b - y
    BY <1>2, <1>3, <2>1
  <2> QED BY <2>2
<1> QED BY <1>4

----------------------------------------------------------------------------
(* The window of an assertion *)

\* The latest start bounds an instant from below exactly when every start does.
LEMMA LatestStartIsBound ==
    ASSUME NEW S, NEW at \in Nat,
           \A c \in S : Optional(c.start) /\ (c.start = None \/ c.start <= at)
    PROVE  /\ LatestStart(S) \in {c.start : c \in S} \cup {None}
           /\ LatestStart(S) = None \/ (LatestStart(S) \in Nat /\ LatestStart(S) <= at)
           /\ \A t \in Nat : (LatestStart(S) = None \/ LatestStart(S) <= t)
                              <=> (\A c \in S : c.start = None \/ c.start <= t)
<1> DEFINE starts == {c.start : c \in S} \ {None}
<1>1. starts \in SUBSET Nat /\ \A y \in starts : y <= at
  BY DEF Optional, Instant
<1>2. CASE starts = {}
  BY <1>2 DEF LatestStart
<1>3. CASE starts # {}
  <2>1. LatestStart(S) = Max(starts)
    BY <1>3 DEF LatestStart
  <2>2. Max(starts) \in starts /\ \A y \in starts : Max(starts) >= y
    <3> HIDE DEF starts
    <3>1. \E x \in starts : \A y \in starts : x >= y
      BY <1>1, <1>3, GreatestExists
    <3> QED BY <3>1 DEF Max
  <2>3. Max(starts) \in Nat /\ Max(starts) <= at
    BY <1>1, <2>2
  <2>4. LatestStart(S) # None
    BY <2>1, <2>2
  <2>5. ASSUME NEW t \in Nat
        PROVE  (LatestStart(S) = None \/ LatestStart(S) <= t)
                  <=> (\A c \in S : c.start = None \/ c.start <= t)
    <3> DEFINE m == Max(starts)
    <3>0. m \in Nat /\ m \in starts /\ \A y \in starts : y \in Nat /\ y <= m
      BY <1>1, <2>2, <2>3
    <3> HIDE DEF m
    <3>1. m <= t <=> \A y \in starts : y <= t
      <4> HIDE DEF starts
      <4> QED BY <3>0
    <3>2. (\A y \in starts : y <= t) <=> (\A c \in S : c.start = None \/ c.start <= t)
      OBVIOUS
    <3> QED BY <2>1, <2>4, <3>1, <3>2 DEF m
  <2> QED BY <2>1, <2>2, <2>3, <2>4, <2>5
<1> QED BY <1>2, <1>3

\* The earliest end bounds an instant from above exactly when every end does.
LEMMA EarliestEndIsBound ==
    ASSUME NEW S, NEW at \in Nat,
           \A c \in S : Optional(c.end) /\ (c.end = None \/ at <= c.end)
    PROVE  /\ EarliestEnd(S) \in {c.end : c \in S} \cup {None}
           /\ EarliestEnd(S) = None \/ (EarliestEnd(S) \in Nat /\ at <= EarliestEnd(S))
           /\ \A t \in Nat : (EarliestEnd(S) = None \/ t <= EarliestEnd(S))
                              <=> (\A c \in S : c.end = None \/ t <= c.end)
<1> DEFINE ends == {c.end : c \in S} \ {None}
<1>1. ends \in SUBSET Nat /\ \A y \in ends : at <= y
  BY DEF Optional, Instant
<1>2. CASE ends = {}
  BY <1>2 DEF EarliestEnd
<1>3. CASE ends # {}
  <2>1. EarliestEnd(S) = Min(ends)
    BY <1>3 DEF EarliestEnd
  <2>2. Min(ends) \in ends /\ \A y \in ends : Min(ends) <= y
    <3> HIDE DEF ends
    <3>1. \E x \in ends : \A y \in ends : x <= y
      BY <1>1, <1>3, LeastExists
    <3> QED BY <3>1 DEF Min
  <2>3. Min(ends) \in Nat /\ at <= Min(ends)
    BY <1>1, <2>2
  <2>4. EarliestEnd(S) # None
    BY <2>1, <2>2
  <2>5. ASSUME NEW t \in Nat
        PROVE  (EarliestEnd(S) = None \/ t <= EarliestEnd(S))
                  <=> (\A c \in S : c.end = None \/ t <= c.end)
    <3> DEFINE m == Min(ends)
    <3>0. m \in Nat /\ m \in ends /\ \A y \in ends : y \in Nat /\ m <= y
      BY <1>1, <2>2, <2>3
    <3> HIDE DEF m
    <3>1. t <= m <=> \A y \in ends : t <= y
      <4> HIDE DEF ends
      <4> QED BY <3>0
    <3>2. (\A y \in ends : t <= y) <=> (\A c \in S : c.end = None \/ t <= c.end)
      OBVIOUS
    <3> QED BY <2>1, <2>4, <3>1, <3>2 DEF m
  <2> QED BY <2>1, <2>2, <2>3, <2>4, <2>5
<1> QED BY <1>2, <1>3

----------------------------------------------------------------------------
(* What the outcomes say *)

\* An assertion made from agreeing claims says what each of them says.
LEMMA AssertionMatter ==
    ASSUME NEW S, S # {}, Agree(S), NEW prop, NEW at, NEW c \in S
    PROVE  /\ MaterialKey(Assertion(prop, at, S)) = MaterialKey(c)
           /\ Assertion(prop, at, S).uncertainty \in {None, c.uncertainty}
<1> DEFINE a == Assertion(prop, at, S)
           first == CHOOSE d \in S : TRUE
           scopes == {d.spatial_scope : d \in S}
           doubts == {d.uncertainty : d \in S}
<1>1. first \in S
  OBVIOUS
<1>2. /\ first.value = c.value
      /\ first.epistemic_mode = c.epistemic_mode
      /\ \A d \in S : d.spatial_scope = c.spatial_scope
  BY <1>1 DEF Agree, MaterialKey
<1>3. scopes = {c.spatial_scope}
  BY <1>2
<1>4. Shared(scopes) = c.spatial_scope
  <2> HIDE DEF scopes
  <2> QED BY <1>3 DEF Shared
<1>5. Shared(doubts) \in {None, c.uncertainty}
  <2>1. c.uncertainty \in doubts
    OBVIOUS
  <2> HIDE DEF doubts
  <2>2. CASE \A v, w \in doubts : v = w
    <3>1. doubts = {c.uncertainty}
      BY <2>1, <2>2
    <3> QED BY <3>1 DEF Shared
  <2>3. CASE ~ \A v, w \in doubts : v = w
    BY <2>3 DEF Shared
  <2> QED BY <2>2, <2>3
<1>6. /\ a.value = first.value
      /\ a.epistemic_mode = first.epistemic_mode
      /\ a.spatial_scope = Shared(scopes)
      /\ a.uncertainty = Shared(doubts)
  BY DEF Assertion
<1> HIDE DEF a, first, scopes, doubts
<1>7. MaterialKey(a) = MaterialKey(c)
  BY <1>2, <1>4, <1>6 DEF MaterialKey
<1> QED BY <1>5, <1>6, <1>7 DEF a

\* Validity and Provenance accept what the resolver computes from valid claims.
LEMMA AssertionConstructible ==
    ASSUME NEW S, S # {}, NEW prop, NEW at \in Nat,
           \A c \in S : ValidClaim(c) /\ Contains(c, at)
    PROVE  ValidAssertion(Assertion(prop, at, S))
<1> DEFINE a == Assertion(prop, at, S)
<1>1. a.valid_from = None \/ (a.valid_from \in Nat /\ a.valid_from <= at)
  <2>1. \A c \in S : Optional(c.start) /\ (c.start = None \/ c.start <= at)
    BY DEF ValidClaim, OrderedBounds, Contains
  <2> QED BY <2>1, LatestStartIsBound DEF Assertion
<1>2. a.valid_until = None \/ (a.valid_until \in Nat /\ at <= a.valid_until)
  <2>1. \A c \in S : Optional(c.end) /\ (c.end = None \/ at <= c.end)
    BY DEF ValidClaim, OrderedBounds, Contains
  <2> QED BY <2>1, EarliestEndIsBound DEF Assertion
<1>3. OrderedBounds(a.valid_from, a.valid_until)
  <2> HIDE DEF a
  <2> QED BY <1>1, <1>2 DEF OrderedBounds, Optional, Instant
<1>4. Traceable(a)
  <2>1. PICK c \in S : TRUE
    OBVIOUS
  <2>2. c.evidence_refs \cup c.parent_refs # {}
    BY <2>1 DEF ValidClaim, Traceable
  <2>3. a.evidence_refs = EvidenceOf(S) /\ a.parent_refs = ParentsOf(S)
    BY DEF Assertion
  <2>4. c.evidence_refs \subseteq EvidenceOf(S) /\ c.parent_refs \subseteq ParentsOf(S)
    BY <2>1 DEF EvidenceOf, ParentsOf
  <2> QED BY <2>2, <2>3, <2>4 DEF Traceable
<1>5. a.resolved_at = at
  BY DEF Assertion
<1> QED BY <1>3, <1>4, <1>5 DEF ValidAssertion, Instant

\* Two claims that disagree have two ids where ids are unique.
LEMMA ConflictConstructible ==
    ASSUME NEW S, ~Agree(S), NEW prop, NEW at \in Nat,
           \A c, d \in S : c.id = d.id => c = d
    PROVE  ValidConflict(Conflict(prop, at, S))
<1>1. PICK c, d \in S : MaterialKey(c) # MaterialKey(d)
  BY DEF Agree
<1>2. c.id # d.id
  BY <1>1
<1> QED BY <1>2 DEF ValidConflict, Conflict, Instant

\* What is usable stays usable when claims and availability grow.
LEMMA UsableGrows ==
    ASSUME NEW C, NEW D, C \subseteq D, NEW prop, NEW at, NEW av, NEW bv,
           av.evidence_refs \subseteq bv.evidence_refs,
           av.source_refs \subseteq bv.source_refs,
           av.assertion_refs \subseteq bv.assertion_refs
    PROVE  Usable(C, prop, at, av) \subseteq Usable(D, prop, at, bv)
BY DEF Usable, Active, Visible, MissingProvenanceRefs
=============================================================================
