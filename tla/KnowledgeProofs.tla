---------------------------- MODULE KnowledgeProofs ----------------------------
(***************************************************************************)
(* Proof that the reference provider implements the body of knowledge of   *)
(* Knowledge.tla, and that what it told stands.                            *)
(***************************************************************************)
EXTENDS StoreProofs

----------------------------------------------------------------------------
(* "Says at least" is an order *)

\* An answer says at least what it says.
LEMMA AtLeastReflexive == \A x : AtLeast(x, x)
BY DEF AtLeast

\* Improving an improved answer improves the first one.
LEMMA AtLeastTransitive ==
    ASSUME NEW x, NEW y, NEW z, AtLeast(y, x), AtLeast(z, y)
    PROVE  AtLeast(z, x)
BY DEF AtLeast

----------------------------------------------------------------------------
(* What is told *)

\* A resolution is about what it was asked.
LEMMA ResolveSubject ==
    ASSUME NEW C, NEW prop, NEW at, NEW av
    PROVE  LET r == ResolveState(C, prop, at, av)
           IN  r.proposition = prop /\ ResolvedAt(r) = at
BY DEF ResolveState, Assertion, Conflict, Unknown, ResolvedAt

\* An outcome newly filed under a scope is the answer of that moment to some
\* question of that scope, unless a relation was asked for.
LEMMA NewlyFiled ==
    ASSUME TypeOK, [Next]_vars, NEW o \in outcome_scopes' \ outcome_scopes,
           o[1].kind = "unknown" => o[1].reason # "unsupported_query"
    PROVE  \E scope \in Scopes \cup {None}, prop \in Propositions, at \in Time :
              o = <<ScopedStateAt(scope, prop, at), scope>>
<1>1. CASE \/ \E x \in Observations : AddObservation(x)
           \/ \E e \in Evidence : AddEvidence(e)
           \/ \E c \in Claims : AddClaim(c)
           \/ \E from, to \in assertions \cup {None}, time \in TransitionTimes :
                 AddTransition(from, to, time)
           \/ UNCHANGED vars
  <2>1. UNCHANGED outcome_scopes
    BY <1>1 DEF AddObservation, AddEvidence, AddClaim, AddTransition, vars, cache
  <2> QED BY <2>1
<1>2. ASSUME NEW results, NEW scope, Register(results, scope)
      PROVE  \E x \in results : o = <<x, scope>>
  BY <1>2 DEF Register
<1>3. ASSUME NEW prop \in Propositions, NEW at \in Time, QueryState(prop, at)
      PROVE  o = <<ScopedStateAt(None, prop, at), None>>
  <2>1. Register({StateAt(prop, at)}, None)
    BY <1>3 DEF QueryState
  <2>2. o = <<StateAt(prop, at), None>>
    BY <1>2, <2>1
  <2> QED BY <2>2, SelectedAll DEF StateAt, ScopedStateAt
<1>4. ASSUME NEW rel \in Relations, NEW at \in Time, QueryRelation(rel, at)
      PROVE  FALSE
  <2>1. o = <<RelationAt(rel, at), None>>
    BY <1>2, <1>4 DEF QueryRelation
  <2> QED BY <2>1 DEF RelationAt
<1>5. ASSUME NEW s \in Scopes \cup {None}, NEW at \in Time, GetSnapshot(s, at)
      PROVE  \E prop \in Propositions : o = <<ScopedStateAt(s, prop, at), s>>
  <2>1. Register(SnapshotResults(s, at), s)
    BY <1>5 DEF GetSnapshot
  <2>2. PICK x \in SnapshotResults(s, at) : o = <<x, s>>
    BY <1>2, <2>1
  <2>3. PICK c \in Selected(s) : x = ScopedStateAt(s, c.proposition, at)
    BY <2>2 DEF SnapshotResults, ScopedStateAt
  <2>4. c.proposition \in Propositions
    BY ClaimsAssumption DEF Selected, TypeOK
  <2> QED BY <2>2, <2>3, <2>4
<1> QED BY <1>1, <1>3, <1>4, <1>5 DEF Next

----------------------------------------------------------------------------
(* The refinement *)

\* At first nothing is known and nothing was told.
LEMMA KnowledgeInit == Init => Knowing!Init
<1> SUFFICES ASSUME Init PROVE Knowing!Init
  OBVIOUS
<1>1. ToldNow = {}
  BY DEF Init, ToldNow, StatesTold
<1>2. ASSUME NEW q \in Questions PROVE KnownNow[q].kind = "unknown"
  <2>1. KnownNow[q] = ScopedStateAt(q[1], q[2], q[3])
    BY <1>2 DEF KnownNow
  <2>2. Usable(Selected(q[1]), q[2], q[3], Availability(q[3])) = {}
    BY DEF Init, Selected, Usable, Active, Visible
  <2>3. ScopedStateAt(q[1], q[2], q[3]).kind = "unknown"
    BY <2>2, ResolveKinds DEF ScopedStateAt
  <2> QED BY <2>1, <2>3
<1> QED BY <1>1, <1>2 DEF Knowing!Init

\* A step of the store improves answers and tells answers of the moment.
LEMMA KnowledgeNext == TypeOK /\ [Next]_vars => Knowing!Next
<1> SUFFICES ASSUME TypeOK, [Next]_vars PROVE Knowing!Next
  OBVIOUS
<1>1. ASSUME NEW q \in Questions PROVE AtLeast(KnownNow'[q], KnownNow[q])
  <2>1. KnownNow[q] = ScopedStateAt(q[1], q[2], q[3])
    BY <1>1 DEF KnownNow
  <2>2. KnownNow'[q] = ScopedStateAt(q[1], q[2], q[3])'
    BY <1>1 DEF KnownNow, Questions
  <2> QED BY <2>1, <2>2, AnswersGrowNext
<1>2. ToldNow \subseteq ToldNow'
  BY StoresGrow DEF ToldNow, StatesTold, QuestionOf, ResolvedAt
<1>3. ASSUME NEW t \in ToldNow' \ ToldNow
      PROVE  t[1] \in Questions /\ t[2] = KnownNow[t[1]]
  <2>1. PICK o \in StatesTold' : t = <<QuestionOf(o), o[1]>>
    BY <1>3 DEF ToldNow, QuestionOf, ResolvedAt
  <2>2. /\ o \in outcome_scopes' \ outcome_scopes
        /\ o[1].kind = "unknown" => o[1].reason # "unsupported_query"
    BY <1>3, <2>1 DEF ToldNow, StatesTold
  <2>3. PICK scope \in Scopes \cup {None}, prop \in Propositions, at \in Time :
           o = <<ScopedStateAt(scope, prop, at), scope>>
    BY <2>2, NewlyFiled
  <2>4. QuestionOf(o) = <<scope, prop, at>>
    BY <2>3, ResolveSubject DEF QuestionOf, ScopedStateAt
  <2>5. <<scope, prop, at>> \in Questions
    BY DEF Questions
  <2>6. KnownNow[<<scope, prop, at>>] = o[1]
    BY <2>3, <2>5 DEF KnownNow
  <2> QED BY <2>1, <2>4, <2>5, <2>6
<1> QED BY <1>1, <1>2, <1>3 DEF Knowing!Next, Knowing!Improve, Knowing!Tell

\* The reference provider implements the body of knowledge.
THEOREM StoreIsKnowledge == Spec => ImplementsKnowledge
<1>1. Init => Knowing!Init
  BY KnowledgeInit
<1>2. TypeOK /\ [Next]_vars => [Knowing!Next]_<<KnownNow, ToldNow>>
  BY KnowledgeNext
<1> QED BY <1>1, <1>2, TypeCorrect, PTL DEF Spec, ImplementsKnowledge, Knowing!Spec

----------------------------------------------------------------------------
(* What was told stands *)

\* With what was told there is a question that can be asked again.
ToldAsked == \A t \in ToldNow : t[1] \in Questions

\* A step of the body of knowledge leaves what was told standing.
LEMMA ToldStandsNext ==
    ASSUME ToldAsked, ToldStands, Knowing!Next
    PROVE  ToldAsked' /\ ToldStands'
<1>1. Questions' = Questions
  BY DEF Questions
<1>2. ASSUME NEW t \in ToldNow'
      PROVE  t[1] \in Questions /\ AtLeast(KnownNow'[t[1]], t[2])
  <2>1. CASE t \in ToldNow
    <3>1. t[1] \in Questions /\ AtLeast(KnownNow[t[1]], t[2])
      BY <2>1 DEF ToldAsked, ToldStands, Knowing!ToldStands
    <3>2. AtLeast(KnownNow'[t[1]], KnownNow[t[1]])
      BY <3>1 DEF Knowing!Next, Knowing!Improve
    <3> QED BY <3>1, <3>2, AtLeastTransitive
  <2>2. CASE t \notin ToldNow
    <3>1. t[1] \in Questions /\ t[2] = KnownNow[t[1]]
      BY <1>2, <2>2 DEF Knowing!Next, Knowing!Tell
    <3> QED BY <3>1 DEF Knowing!Next, Knowing!Improve
  <2> QED BY <2>1, <2>2
<1> QED BY <1>1, <1>2 DEF ToldAsked, ToldStands, Knowing!ToldStands

\* Every answer ever told stands: what the caller was told holds at least as
\* much when the same question is asked at any later moment.
THEOREM ToldAlwaysStands == Spec => []ToldStands
<1>1. Init => ToldAsked /\ ToldStands
  <2>1. Init => ToldNow = {}
    BY KnowledgeInit DEF Knowing!Init
  <2> QED BY <2>1 DEF ToldAsked, ToldStands, Knowing!ToldStands
<1>2. TypeOK /\ ToldAsked /\ ToldStands /\ [Next]_vars
        => ToldAsked' /\ ToldStands'
  BY KnowledgeNext, ToldStandsNext
<1> QED BY <1>1, <1>2, TypeCorrect, PTL DEF Spec
=============================================================================
